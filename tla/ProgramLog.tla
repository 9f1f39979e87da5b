----------------------------- MODULE ProgramLog ------------------------------
(***************************************************************************)
(* What the host of a room may rely on when it sends commands: each one is *)
(* carried out at most once, whatever is repeated or delayed, each makes   *)
(* the next version of the program, and none is carried out once the room  *)
(* has been closed from its seat or from the console.                      *)
(***************************************************************************)
EXTENDS Naturals

CONSTANT Ids          \* command ids

VARIABLES version,    \* the version of the program
          done,       \* the commands that were carried out
          open        \* nobody has closed the room there

logVars == <<version, done, open>>

Init ==
    /\ version = 0
    /\ done = {}
    /\ open = TRUE

CarryOut(id) ==
    /\ open
    /\ id \notin done
    /\ version' = version + 1
    /\ done' = done \cup {id}
    /\ UNCHANGED open

Close ==
    /\ open
    /\ open' = FALSE
    /\ version' = version + 1
    /\ UNCHANGED done

Next == Close \/ \E id \in Ids : CarryOut(id)

Spec == Init /\ [][Next]_logVars
=============================================================================
