---------------------------- MODULE MCRoomSockets ----------------------------
(* Instances of RoomSockets for TLC. *)
EXTENDS RoomSockets, TLC

\* Viewers and sessions are told apart only by equality.
Symmetry == Permutations(Viewers) \cup Permutations(Sessions)
=============================================================================
