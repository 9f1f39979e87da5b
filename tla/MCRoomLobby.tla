----------------------------- MODULE MCRoomLobby -----------------------------
(* Instances of RoomLobby for TLC; no symmetry, the properties are liveness. *)
EXTENDS RoomLobby
=============================================================================
