----------------------------- MODULE TurnPromise -----------------------------
(***************************************************************************)
(* What the runtime promises about an accepted Turn, without states,       *)
(* executors, scheduler or recovery: it stays open until it ends exactly   *)
(* once; tool side effects happen only while it is open; and an outcome    *)
(* that invites a retry (failed, cancelled) is given only to a Turn        *)
(* without side effects.  A Turn that was interrupted may always be        *)
(* declared uncertain instead.                                             *)
(***************************************************************************)
CONSTANTS
    Turns,
    Rounds  \* the tool rounds a Turn may take

VARIABLES
    phase,  \* how far the Turn is, as its client can tell
    acted   \* the tool rounds whose side effects have happened

vars == <<phase, acted>>

Retryable == {"failed", "cancelled"}
Outcomes == Retryable \cup {"answered", "uncertain"}

Init ==
    /\ phase = [t \in Turns |-> "none"]
    /\ acted = [t \in Turns |-> {}]

Accept(t) ==
    /\ phase[t] = "none"
    /\ phase' = [phase EXCEPT ![t] = "open"]
    /\ UNCHANGED acted

Act(t) ==
    /\ phase[t] = "open"
    /\ \E round \in Rounds : acted' = [acted EXCEPT ![t] = @ \cup {round}]
    /\ UNCHANGED phase

Finish(t) ==
    /\ phase[t] = "open"
    /\ \E outcome \in Outcomes :
          /\ outcome \in Retryable => acted[t] = {}
          /\ phase' = [phase EXCEPT ![t] = outcome]
    /\ UNCHANGED acted

(* Any number of open Turns are given up at once, as a restart does. *)
Interrupt ==
    /\ \E lost \in SUBSET {t \in Turns : phase[t] = "open"} :
          phase' = [t \in Turns |-> IF t \in lost THEN "uncertain" ELSE phase[t]]
    /\ UNCHANGED acted

Next ==
    \/ \E t \in Turns : Accept(t) \/ Act(t) \/ Finish(t)
    \/ Interrupt

Spec == Init /\ [][Next]_vars
=============================================================================
