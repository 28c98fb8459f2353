-------------------------- MODULE MCRawVideoRecorder --------------------------
(* A small recorder for TLC: two record paths, and frames that may outnumber  *)
(* the queue.                                                                 *)
EXTENDS RawVideoRecorder
=============================================================================
