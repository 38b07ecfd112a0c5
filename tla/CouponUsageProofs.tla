-------------------------- MODULE CouponUsageProofs --------------------------
(***************************************************************************)
(* The safety properties of CouponUsage, for any number of captures and    *)
(* compensations: what each result proves, that money moves in order, and  *)
(* that a returned attempt leaves nothing behind.                          *)
(***************************************************************************)
EXTENDS CouponUsage, TLAPS

\* An attempt has a request exactly if it came to submit one, and a response only
\* of a request that the service has handled.
Sent(a) ==
  /\ phase[a] \in {"idle", "asking", "asked"} => request[a] = "none"
  /\ phase[a] \in {"sending", "delivered", "received", "reading", "read"} =>
       request[a] # "none"
  /\ phase[a] \in {"delivered", "received", "reading", "read"} => request[a] = "handled"

\* A receipt is given for what was carried out, and stays true whatever else arrives.
Answered(a) ==
  /\ reply[a] # "none" => request[a] = "handled"
  /\ reply[a] = "receipt" =>
       money \in IF a \in Captures THEN {"settled", "compensated"} ELSE {"compensated"}

\* A result rests on what the service answered, or on nothing having been sent.
Returned(a) ==
  /\ phase[a] # "done" => result[a] = "none"
  /\ result[a] = "confirmed" => reply[a] = "receipt"
  /\ result[a] = "rejected" => reply[a] = "rejection"
  /\ result[a] \in {"not_submitted", "configuration"} => request[a] = "none"

\* A compensation that is under way, or was, began with a saved receipt.
Funded(a) ==
  a \in Compensations =>
    /\ phase[a] \notin {"idle", "done"} => saved
    /\ request[a] # "none" => saved

\* Where timer, listener and an open body may be.
Guarded(a) ==
  /\ phase[a] \in {"idle", "done"} => ~timer[a] /\ ~listener[a]
  /\ phase[a] \in {"idle", "asking", "asked", "sending"} => body[a] = "none"
  /\ phase[a] = "read" => body[a] = "released"
  /\ phase[a] = "done" /\ body[a] = "open" => stopped[a] = "caller"

Local(a) == Sent(a) /\ Answered(a) /\ Returned(a) /\ Funded(a) /\ Guarded(a)

\* A saved receipt is of a capture that was carried out.
SavedIsSettled == saved => money # "held"

\* The inductive invariant.
IInv == TypeOK /\ SavedIsSettled /\ \A a \in Attempts : Local(a)

-----------------------------------------------------------------------------
LEMMA InitInv == Init => IInv
<1> SUFFICES ASSUME Init PROVE IInv
  OBVIOUS
<1>1. TypeOK
  BY DEF Init, TypeOK
<1>2. SavedIsSettled
  BY DEF Init, SavedIsSettled
<1>3. ASSUME NEW a \in Attempts PROVE Local(a)
  BY DEF Init, Local, Sent, Answered, Returned, Funded, Guarded
<1> QED BY <1>1, <1>2, <1>3 DEF IInv

\* An interrupted attempt: its result is what its request says.
LEMMA InterruptKeeps ==
  ASSUME IInv, NEW a \in Attempts, NEW by \in {"caller", "timeout"}, Interrupt(a, by),
         phase[a] = "delivered" => by = "caller"
  PROVE  IInv'
<1>1. TypeOK'
  BY DEF IInv, TypeOK, Interrupt, Settle, Failure, service, Results
<1>2. SavedIsSettled'
  BY DEF IInv, SavedIsSettled, Interrupt, service
<1>3. ASSUME NEW b \in Attempts PROVE Local(b)'
  BY DEF IInv, TypeOK, Local, Sent, Answered, Returned, Funded, Guarded, Interrupt, Settle,
     Failure, service, Awaiting
<1> QED BY <1>1, <1>2, <1>3 DEF IInv

\* An abort that finds a continuation queued only takes the listener away.
LEMMA AbortQueuedKeeps ==
  ASSUME IInv, NEW a \in Attempts, Abort(a), phase[a] \in {"asked", "received", "read"}
  PROVE  IInv'
<1>1. /\ stopped' = [stopped EXCEPT ![a] = "caller"]
      /\ listener' = [listener EXCEPT ![a] = FALSE]
      /\ UNCHANGED <<money, request, reply, saved, preset, timer, phase, body, result>>
  BY DEF Abort, Interrupt, Awaiting, service
<1>2. TypeOK'
  BY <1>1 DEF IInv, TypeOK
<1>3. SavedIsSettled'
  BY <1>1 DEF IInv, SavedIsSettled
<1>4. ASSUME NEW b \in Attempts PROVE Local(b)'
  BY <1>1 DEF IInv, TypeOK, Local, Sent, Answered, Returned, Funded, Guarded
<1> QED BY <1>2, <1>3, <1>4 DEF IInv

\* What a step of one attempt, other than a timeout or an abort, may be.
Step(a) ==
  \/ Begin(a) \/ Refuse(a) \/ CredentialGiven(a) \/ CredentialRefused(a)
  \/ Submit(a) \/ StoppedBeforeSubmit(a)
  \/ \E r \in {"receipt", "rejection", "neither"} : Serve(a, r) \/ Decline(a, r)
  \/ Deliver(a) \/ DeliverLate(a) \/ TransportFails(a) \/ HandOver(a)
  \/ StartReading(a) \/ Discard(a) \/ ReadEnds(a) \/ ReadFails(a) \/ Conclude(a)

LEMMA Steps ==
  ASSUME Next
  PROVE  \/ \E a \in Attempts : Step(a) \/ TimerFires(a) \/ Abort(a)
         \/ UNCHANGED vars
BY DEF Next, Microtask, Environment, Step, Quiet

\* Each step keeps the types.
LEMMA TypeNext ==
  ASSUME IInv, NEW a \in Attempts, Step(a)
  PROVE  TypeOK'
<1>1. CASE Begin(a)
  BY <1>1 DEF IInv, TypeOK, Begin, MayBegin, Settle, service, Results, Awaiting
<1>2. CASE Refuse(a)
  BY <1>2 DEF IInv, TypeOK, Refuse, Settle, service, Results
<1>3. CASE CredentialGiven(a)
  BY <1>3 DEF IInv, TypeOK, CredentialGiven, Enter, service, Queued
<1>4. CASE CredentialRefused(a)
  BY <1>4 DEF IInv, TypeOK, CredentialRefused, Settle, service, Results
<1>5. CASE Submit(a)
  BY <1>5 DEF IInv, TypeOK, Submit, Enter, Awaiting
<1>6. CASE StoppedBeforeSubmit(a)
  BY <1>6 DEF IInv, TypeOK, StoppedBeforeSubmit, Settle, Failure, service, Results
<1>7. ASSUME NEW r \in {"receipt", "rejection", "neither"}, Serve(a, r)
      PROVE  TypeOK'
  BY <1>7 DEF IInv, TypeOK, Serve, Effect
<1>8. ASSUME NEW r \in {"receipt", "rejection", "neither"}, Decline(a, r)
      PROVE  TypeOK'
  BY <1>8 DEF IInv, TypeOK, Decline, Effect
<1>9. CASE Deliver(a)
  BY <1>9 DEF IInv, TypeOK, Deliver, Enter, service, Queued
<1>10. CASE DeliverLate(a)
  BY <1>10 DEF IInv, TypeOK, DeliverLate, Release, service
<1>11. CASE TransportFails(a)
  BY <1>11 DEF IInv, TypeOK, TransportFails, Settle, Failure, service, Results
<1>12. CASE HandOver(a)
  BY <1>12 DEF IInv, TypeOK, HandOver, Enter, service, Queued
<1>13. CASE StartReading(a)
  BY <1>13 DEF IInv, TypeOK, StartReading, Enter, service, Awaiting
<1>14. CASE Discard(a)
  BY <1>14 DEF IInv, TypeOK, Discard, Settle, Failure, Release, service, Results
<1>15. CASE ReadEnds(a)
  BY <1>15 DEF IInv, TypeOK, ReadEnds, Enter, Release, service, Queued
<1>16. CASE ReadFails(a)
  BY <1>16 DEF IInv, TypeOK, ReadFails, Settle, Failure, Release, service, Results
<1>17. CASE Conclude(a)
  BY <1>17 DEF IInv, TypeOK, Conclude, Settle, Outcome, service, Results
<1> QED
  BY <1>1, <1>2, <1>3, <1>4, <1>5, <1>6, <1>7, <1>8, <1>9, <1>10, <1>11, <1>12,
     <1>13, <1>14, <1>15, <1>16, <1>17 DEF Step

\* Each step keeps what a saved receipt means; one saves a receipt.
LEMMA SavedNext ==
  ASSUME IInv, NEW a \in Attempts, Step(a)
  PROVE  SavedIsSettled'
<1>1. CASE Begin(a)
  BY <1>1 DEF IInv, TypeOK, Local, Answered, SavedIsSettled, Begin, service
<1>2. CASE Refuse(a)
  BY <1>2 DEF IInv, TypeOK, Local, Answered, SavedIsSettled, Refuse, service
<1>3. CASE CredentialGiven(a)
  BY <1>3 DEF IInv, TypeOK, Local, Answered, SavedIsSettled, CredentialGiven,
     service
<1>4. CASE CredentialRefused(a)
  BY <1>4 DEF IInv, TypeOK, Local, Answered, SavedIsSettled, CredentialRefused,
     service
<1>5. CASE Submit(a)
  BY <1>5 DEF IInv, TypeOK, Local, Answered, SavedIsSettled, Submit
<1>6. CASE StoppedBeforeSubmit(a)
  BY <1>6 DEF IInv, TypeOK, Local, Answered, SavedIsSettled, StoppedBeforeSubmit,
     service
<1>7. ASSUME NEW r \in {"receipt", "rejection", "neither"}, Serve(a, r)
      PROVE  SavedIsSettled'
  BY <1>7 DEF IInv, TypeOK, Local, Answered, SavedIsSettled, Serve, Effect
<1>8. ASSUME NEW r \in {"receipt", "rejection", "neither"}, Decline(a, r)
      PROVE  SavedIsSettled'
  BY <1>8 DEF IInv, TypeOK, Local, Answered, SavedIsSettled, Decline, Effect
<1>9. CASE Deliver(a)
  BY <1>9 DEF IInv, TypeOK, Local, Answered, SavedIsSettled, Deliver, service
<1>10. CASE DeliverLate(a)
  BY <1>10 DEF IInv, TypeOK, Local, Answered, SavedIsSettled, DeliverLate, service
<1>11. CASE TransportFails(a)
  BY <1>11 DEF IInv, TypeOK, Local, Answered, SavedIsSettled, TransportFails,
     service
<1>12. CASE HandOver(a)
  BY <1>12 DEF IInv, TypeOK, Local, Answered, SavedIsSettled, HandOver, service
<1>13. CASE StartReading(a)
  BY <1>13 DEF IInv, TypeOK, Local, Answered, SavedIsSettled, StartReading, service
<1>14. CASE Discard(a)
  BY <1>14 DEF IInv, TypeOK, Local, Answered, SavedIsSettled, Discard, service
<1>15. CASE ReadEnds(a)
  BY <1>15 DEF IInv, TypeOK, Local, Answered, SavedIsSettled, ReadEnds, service
<1>16. CASE ReadFails(a)
  BY <1>16 DEF IInv, TypeOK, Local, Answered, SavedIsSettled, ReadFails, service
<1>17. CASE Conclude(a)
  BY <1>17 DEF IInv, TypeOK, Local, Answered, SavedIsSettled, Conclude, Outcome,
     service
<1> QED
  BY <1>1, <1>2, <1>3, <1>4, <1>5, <1>6, <1>7, <1>8, <1>9, <1>10, <1>11, <1>12,
     <1>13, <1>14, <1>15, <1>16, <1>17 DEF Step

\* Each step keeps what is known of its own attempt, and of any other, whose money it
\* may move.
LEMMA LocalNext ==
  ASSUME IInv, NEW a \in Attempts, Step(a), NEW b \in Attempts
  PROVE  Local(b)'
<1>1. CASE Begin(a)
  BY <1>1 DEF IInv, TypeOK, SavedIsSettled, Local, Sent, Answered, Returned, Funded,
     Guarded, Begin, MayBegin, Settle, service, Results, Awaiting
<1>2. CASE Refuse(a)
  BY <1>2 DEF IInv, TypeOK, SavedIsSettled, Local, Sent, Answered, Returned, Funded,
     Guarded, Refuse, Settle, service, Results
<1>3. CASE CredentialGiven(a)
  BY <1>3 DEF IInv, TypeOK, SavedIsSettled, Local, Sent, Answered, Returned, Funded,
     Guarded, CredentialGiven, Enter, service, Queued
<1>4. CASE CredentialRefused(a)
  BY <1>4 DEF IInv, TypeOK, SavedIsSettled, Local, Sent, Answered, Returned, Funded,
     Guarded, CredentialRefused, Settle, service, Results
<1>5. CASE Submit(a)
  BY <1>5 DEF IInv, TypeOK, SavedIsSettled, Local, Sent, Answered, Returned, Funded,
     Guarded, Submit, Enter, Awaiting
<1>6. CASE StoppedBeforeSubmit(a)
  BY <1>6 DEF IInv, TypeOK, SavedIsSettled, Local, Sent, Answered, Returned, Funded,
     Guarded, StoppedBeforeSubmit, Settle, Failure, service, Results
<1>7. ASSUME NEW r \in {"receipt", "rejection", "neither"}, Serve(a, r)
      PROVE  Local(b)'
  BY <1>7, ConstantsOK DEF Attempts, IInv, TypeOK, SavedIsSettled, Local, Sent, Answered,
     Returned, Funded, Guarded, Serve, Effect
<1>8. ASSUME NEW r \in {"receipt", "rejection", "neither"}, Decline(a, r)
      PROVE  Local(b)'
  BY <1>8, ConstantsOK DEF Attempts, IInv, TypeOK, SavedIsSettled, Local, Sent, Answered,
     Returned, Funded, Guarded, Decline, Effect
<1>9. CASE Deliver(a)
  BY <1>9 DEF IInv, TypeOK, SavedIsSettled, Local, Sent, Answered, Returned, Funded,
     Guarded, Deliver, Enter, service, Queued
<1>10. CASE DeliverLate(a)
  BY <1>10 DEF IInv, TypeOK, SavedIsSettled, Local, Sent, Answered, Returned,
     Funded, Guarded, DeliverLate, Release, service
<1>11. CASE TransportFails(a)
  BY <1>11 DEF IInv, TypeOK, SavedIsSettled, Local, Sent, Answered, Returned,
     Funded, Guarded, TransportFails, Settle, Failure, service, Results
<1>12. CASE HandOver(a)
  BY <1>12 DEF IInv, TypeOK, SavedIsSettled, Local, Sent, Answered, Returned,
     Funded, Guarded, HandOver, Enter, service, Queued
<1>13. CASE StartReading(a)
  BY <1>13 DEF IInv, TypeOK, SavedIsSettled, Local, Sent, Answered, Returned,
     Funded, Guarded, StartReading, Enter, service, Awaiting
<1>14. CASE Discard(a)
  BY <1>14 DEF IInv, TypeOK, SavedIsSettled, Local, Sent, Answered, Returned,
     Funded, Guarded, Discard, Settle, Failure, Release, service, Results
<1>15. CASE ReadEnds(a)
  BY <1>15 DEF IInv, TypeOK, SavedIsSettled, Local, Sent, Answered, Returned,
     Funded, Guarded, ReadEnds, Enter, Release, service, Queued
<1>16. CASE ReadFails(a)
  BY <1>16 DEF IInv, TypeOK, SavedIsSettled, Local, Sent, Answered, Returned,
     Funded, Guarded, ReadFails, Settle, Failure, Release, service, Results
<1>17. CASE Conclude(a)
  BY <1>17 DEF IInv, TypeOK, SavedIsSettled, Local, Sent, Answered, Returned,
     Funded, Guarded, Conclude, Settle, Outcome, service, Results
<1> QED
  BY <1>1, <1>2, <1>3, <1>4, <1>5, <1>6, <1>7, <1>8, <1>9, <1>10, <1>11, <1>12,
     <1>13, <1>14, <1>15, <1>16, <1>17 DEF Step

LEMMA NextInv == IInv /\ [Next]_vars => IInv'
<1> SUFFICES ASSUME IInv, [Next]_vars PROVE IInv'
  OBVIOUS
<1>1. ASSUME NEW a \in Attempts, Step(a) PROVE IInv'
  BY <1>1, TypeNext, SavedNext, LocalNext DEF IInv
<1>2. ASSUME NEW a \in Attempts, TimerFires(a) PROVE IInv'
  BY <1>2, InterruptKeeps DEF TimerFires, Quiescent, Queued
<1>3. ASSUME NEW a \in Attempts, Abort(a) PROVE IInv'
  BY <1>3, InterruptKeeps, AbortQueuedKeeps DEF Abort
<1>4. CASE UNCHANGED vars
  BY <1>4 DEF vars, IInv, TypeOK, SavedIsSettled, Local, Sent, Answered, Returned, Funded,
     Guarded
<1> QED BY <1>1, <1>2, <1>3, <1>4, Steps

-----------------------------------------------------------------------------
\* The invariant holds in every reachable state.
THEOREM Invariance == Spec => []IInv
<1> QED BY InitInv, NextInv, PTL DEF Spec

\* A confirmed result means that the usage, or its compensation, has been carried out, and
\* stays so whatever requests of other attempts still reach the service.
THEOREM ConfirmationsAreProof == Spec => []ConfirmedIsDone
<1>1. IInv => ConfirmedIsDone
  BY DEF IInv, Local, Answered, Returned, ConfirmedIsDone
<1> QED BY <1>1, Invariance, PTL

\* not_submitted and configuration mean that nothing was sent.
THEOREM NothingWasSent == Spec => []NotSubmittedIsCertain
<1>1. IInv => NotSubmittedIsCertain
  BY DEF IInv, Local, Returned, NotSubmittedIsCertain
<1> QED BY <1>1, Invariance, PTL

\* A request to compensate finds the usage settled, however late it arrives.
THEOREM CompensationsFollow == Spec => []CompensationFollowsCapture
<1>1. IInv => CompensationFollowsCapture
  BY DEF IInv, Local, Funded, SavedIsSettled, CompensationFollowsCapture, Attempts
<1> QED BY <1>1, Invariance, PTL

\* A returned attempt leaves no timer, no listener and, unless the caller aborted it, no
\* open body.
THEOREM AttemptsCleanUp == Spec => []NothingLeftBehind
<1>1. IInv => NothingLeftBehind
  BY DEF IInv, Local, Guarded, NothingLeftBehind
<1> QED BY <1>1, Invariance, PTL

\* A stopped attempt sends nothing, and a returned one keeps its result.
THEOREM StopsAreFinal == Spec => StoppedSendsNothing
<1> DEFINE Final ==
      \A a \in Attempts :
        /\ request[a] = "none" /\ request'[a] # "none" => ~Stopped(a)
        /\ phase[a] = "done" => phase'[a] = "done" /\ result'[a] = result[a]
<1>1. ASSUME IInv, [Next]_vars PROVE Final
  <2> SUFFICES ASSUME NEW b \in Attempts
               PROVE  /\ request[b] = "none" /\ request'[b] # "none" => ~Stopped(b)
                      /\ phase[b] = "done" => phase'[b] = "done" /\ result'[b] = result[b]
    OBVIOUS
  <2>1. TypeOK BY <1>1 DEF IInv
  <2>2. ASSUME NEW a \in Attempts, Step(a)
        PROVE  phase[b] = "done" => phase'[b] = "done" /\ result'[b] = result[b]
    BY <2>1, <2>2 DEF TypeOK, Step, Begin, Refuse, CredentialGiven, CredentialRefused, Submit,
       StoppedBeforeSubmit, Serve, Decline, Deliver, DeliverLate, TransportFails, HandOver,
       StartReading, Discard, ReadEnds, ReadFails, Conclude, Enter, Settle
  <2>3. ASSUME NEW a \in Attempts, Step(a), request[b] = "none", request'[b] # "none"
        PROVE  ~Stopped(b)
    BY <2>1, <2>3 DEF TypeOK, Step, Begin, Refuse, CredentialGiven, CredentialRefused, Submit,
       StoppedBeforeSubmit, Serve, Decline, Deliver, DeliverLate, TransportFails, HandOver,
       StartReading, Discard, ReadEnds, ReadFails, Conclude, service
  <2>4. ASSUME NEW a \in Attempts, TimerFires(a) \/ Abort(a)
        PROVE  /\ request' = request
               /\ phase[b] = "done" => phase'[b] = "done" /\ result'[b] = result[b]
    BY <2>1, <2>4 DEF TypeOK, TimerFires, Abort, Interrupt, Settle, service, Awaiting
  <2>5. CASE UNCHANGED vars
    BY <2>5 DEF vars
  <2> QED BY <1>1, <2>2, <2>3, <2>4, <2>5, Steps
<1>2. IInv /\ [Next]_vars => [Final]_vars
  BY <1>1
<1> QED BY <1>2, Invariance, PTL DEF Spec, StoppedSendsNothing
=============================================================================
