---------------------------- MODULE MCRoomService ----------------------------
(* RoomService on a small room.  Players are interchangeable until they     *)
(* join, and joined_at tells them apart from then on.                       *)
EXTENDS RoomService, TLC

PlayerSymmetry == Permutations(Player)
=============================================================================
