----------------------------- MODULE MCGameEngine -----------------------------
(* GameEngine on small rooms.  Players differ only by the card they are     *)
(* dealt, so the seated players are interchangeable.                        *)
EXTENDS GameEngine, TLC

SeatSymmetry == Permutations(Seat)
=============================================================================
