------------------------------ MODULE MCRowLocks ------------------------------
(* Two players, the second of whom joined later. *)
EXTENDS RowLocks

CONSTANTS p1, p2

MCSeats == <<p1, p2>>
=============================================================================
