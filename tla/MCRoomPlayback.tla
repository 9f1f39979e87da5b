--------------------------- MODULE MCRoomPlayback ----------------------------
(* Instances of RoomPlayback for TLC. *)
EXTENDS RoomPlayback, TLC

\* Command ids and films are told apart only by equality.
Symmetry == Permutations(Ids) \cup Permutations(Films \ Unmeasured)
=============================================================================
