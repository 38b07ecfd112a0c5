---------------------------- MODULE RetriedCall -----------------------------
(***************************************************************************)
(* What a retrying client promises its caller, whatever happens inside an  *)
(* attempt: tries are counted against a limit fixed before the first one,  *)
(* a pause lies between two tries, a call reaches at most one outcome, and  *)
(* an outcome is never replaced.                                           *)
(***************************************************************************)
EXTENDS Naturals

CONSTANTS
  Calls,      \* the logical calls
  Outcomes    \* what a call can settle with

VARIABLES
  stage,      \* idle, trying, pausing or done
  limit,      \* how many tries each call may use
  tries,      \* how many it has used
  outcome     \* what it settled with, or none

vars == <<stage, limit, tries, outcome>>

Init ==
  /\ stage = [c \in Calls |-> "idle"]
  /\ limit \in [Calls -> Nat \ {0}]
  /\ tries = [c \in Calls |-> 0]
  /\ outcome = [c \in Calls |-> "none"]

Enter(c, s) == stage' = [stage EXCEPT ![c] = s]

\* The first try.
Begin(c) ==
  /\ stage[c] = "idle"
  /\ Enter(c, "trying")
  /\ tries' = [tries EXCEPT ![c] = 1]
  /\ UNCHANGED <<limit, outcome>>

\* A try failed and another one is allowed.
Pause(c) ==
  /\ stage[c] = "trying"
  /\ tries[c] < limit[c]
  /\ Enter(c, "pausing")
  /\ UNCHANGED <<limit, tries, outcome>>

\* The next try.
Resume(c) ==
  /\ stage[c] = "pausing"
  /\ Enter(c, "trying")
  /\ tries' = [tries EXCEPT ![c] = @ + 1]
  /\ UNCHANGED <<limit, outcome>>

\* The call is refused before its first try.
Refuse(c) ==
  /\ stage[c] = "idle"
  /\ Enter(c, "done")
  /\ \E o \in Outcomes : outcome' = [outcome EXCEPT ![c] = o]
  /\ UNCHANGED <<limit, tries>>

\* A started call settles.
Settle(c) ==
  /\ stage[c] \in {"trying", "pausing"}
  /\ Enter(c, "done")
  /\ \E o \in Outcomes : outcome' = [outcome EXCEPT ![c] = o]
  /\ UNCHANGED <<limit, tries>>

\* One abort settles any of the pausing calls in a single step.
CancelPauses ==
  \E S \in SUBSET {c \in Calls : stage[c] = "pausing"}, o \in Outcomes :
    /\ stage' = [c \in Calls |-> IF c \in S THEN "done" ELSE stage[c]]
    /\ outcome' = [c \in Calls |-> IF c \in S THEN o ELSE outcome[c]]
    /\ UNCHANGED <<limit, tries>>

Continue(c) == Pause(c) \/ Resume(c) \/ Settle(c)

Next ==
  \/ \E c \in Calls : Begin(c) \/ Refuse(c) \/ Continue(c)
  \/ CancelPauses

Spec == Init /\ [][Next]_vars
=============================================================================
