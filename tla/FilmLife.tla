------------------------------- MODULE FilmLife -------------------------------
(***************************************************************************)
(* What the library promises of a film, whatever happens to its jobs, its  *)
(* lease and its file: it is inspected, and the inspection alone decides   *)
(* where it goes; it leaves through the trash, never from the screen; and  *)
(* an upload comes to the library once at most.                            *)
(***************************************************************************)
CONSTANTS Films,
          Once,       \* the films that come once: uploads
          None

VARIABLES stage,      \* where each film is
          spent,      \* the films of Once that came, or never will
          screen      \* the film of the room

lifeVars == <<stage, spent, screen>>

Init ==
    /\ stage = [f \in Films |-> "absent"]
    /\ spent = {}
    /\ screen = None

Become(f, next) == stage' = [stage EXCEPT ![f] = next]

Register(f) ==
    /\ stage[f] = "absent" /\ f \notin spent
    /\ Become(f, "scanning")
    /\ spent' = spent \cup (Once \cap {f})
    /\ UNCHANGED screen

\* An upload that is given up before it comes.
Withdraw(f) ==
    /\ spent' = spent \cup {f}
    /\ UNCHANGED <<stage, screen>>

Settle(f) ==
    /\ stage[f] = "scanning"
    /\ \E next \in {"published", "incompatible"} : Become(f, next)
    /\ UNCHANGED <<spent, screen>>

Rescan(f) ==
    /\ stage[f] = "incompatible"
    /\ Become(f, "scanning")
    /\ UNCHANGED <<spent, screen>>

Discard(f) ==
    /\ stage[f] \in {"scanning", "published", "incompatible"} /\ screen # f
    /\ Become(f, "trash")
    /\ UNCHANGED <<spent, screen>>

Purge(f) ==
    /\ stage[f] = "trash"
    /\ Become(f, "absent")
    /\ UNCHANGED <<spent, screen>>

Show(f) ==
    /\ stage[f] = "published"
    /\ screen' = f
    /\ UNCHANGED <<stage, spent>>

Blank ==
    /\ screen' = None
    /\ UNCHANGED <<stage, spent>>

Next ==
    \/ \E f \in Films :
           Register(f) \/ Settle(f) \/ Rescan(f) \/ Discard(f) \/ Purge(f) \/ Show(f)
    \/ \E f \in Once : Withdraw(f)
    \/ Blank

Spec == Init /\ [][Next]_lifeVars
=============================================================================
