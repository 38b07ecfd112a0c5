---------------------------- MODULE UploadPromise ---------------------------
(***************************************************************************)
(* What a signed upload promises the application that waits for it: the    *)
(* steps authorize, transfer, complete come in this order, a transfer is   *)
(* repeated only within its limit and never once complete() was called,    *)
(* success needs complete(), and there is at most one outcome.             *)
(***************************************************************************)
EXTENDS Naturals

CONSTANT Outcomes   \* what an upload can settle with; "success" is one of them

VARIABLES
  stage,    \* idle, preparing, sending, completing or done
  limit,    \* how often the file may be sent
  sent,     \* how often it was
  outcome   \* what the upload settled with, or none

vars == <<stage, limit, sent, outcome>>

Init ==
  /\ stage = "idle"
  /\ limit \in Nat \ {0}
  /\ sent = 0
  /\ outcome = "none"

Begin ==
  /\ stage = "idle"
  /\ stage' = "preparing"
  /\ UNCHANGED <<limit, sent, outcome>>

\* The upload is refused before anything happens.
Refuse ==
  /\ stage = "idle"
  /\ stage' = "done"
  /\ outcome' \in Outcomes \ {"success"}
  /\ UNCHANGED <<limit, sent>>

Send ==
  /\ stage \in {"preparing", "sending"}
  /\ sent < limit
  /\ stage' = "sending"
  /\ sent' = sent + 1
  /\ UNCHANGED <<limit, outcome>>

Complete ==
  /\ stage = "sending"
  /\ stage' = "completing"
  /\ UNCHANGED <<limit, sent, outcome>>

Settle ==
  /\ stage \in {"preparing", "sending", "completing"}
  /\ stage' = "done"
  /\ outcome' \in IF stage = "completing" THEN Outcomes ELSE Outcomes \ {"success"}
  /\ UNCHANGED <<limit, sent>>

Next == Begin \/ Refuse \/ Send \/ Complete \/ Settle

Spec == Init /\ [][Next]_vars
=============================================================================
