------------------------------ MODULE MCLeavrApp ------------------------------
(* One main thread; every event of the table may come in the loop. *)
EXTENDS LeavrApp

AllEvents == EventTypes
JustMain == {Main}
=============================================================================
