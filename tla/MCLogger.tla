------------------------------- MODULE MCLogger -------------------------------
(* A queue of two, and files of two lines: three rotations can happen.        *)
EXTENDS Logger
===============================================================================
