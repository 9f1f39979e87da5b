----------------------------- MODULE MCMediaJobs -----------------------------
(* Instances of MediaJobs for TLC. *)
EXTENDS MediaJobs, TLC
=============================================================================
