------------------------------ MODULE MCGyroPath ------------------------------
(* A ring of four, which holds three, and offsets that drive the window over  *)
(* either edge.                                                               *)
EXTENDS GyroPath

MCItems == 1..MaxSamples
MCOffsets == {-9, 0, 9}
===============================================================================
