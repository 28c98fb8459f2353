-------------------------- MODULE MCPreRecordBuffer --------------------------
(* Four slots, of which one to four count.                                    *)
EXTENDS PreRecordBuffer
===============================================================================
