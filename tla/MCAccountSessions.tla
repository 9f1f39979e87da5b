------------------------- MODULE MCAccountSessions ---------------------------
(* Instances of AccountSessions for TLC. *)
EXTENDS AccountSessions, TLC

\* Accounts, sessions and tabs are told apart only by equality.
Symmetry == Permutations(Accounts) \cup Permutations(Sessions) \cup Permutations(Tabs)
=============================================================================
