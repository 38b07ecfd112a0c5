------------------------- MODULE SignedUploadProofs -------------------------
(***************************************************************************)
(* The safety properties of SignedUpload, and that it keeps the promise of *)
(* UploadPromise, for any maximum of attempts and any callback.            *)
(***************************************************************************)
EXTENDS SignedUpload, FiniteSetTheorems, TLAPS

\* Before the first transfer, and from there to the outcome.
Preparing == {"idle", "hashing", "hashed", "announced", "authorizing", "authorized"}
Accepted == {"accepting", "accepted", "completing", "completed"}
Trying == {"transferring", "answered", "broken", "rejecting", "rejected", "backoff",
           "waited"} \cup Accepted

\* The attempts are those that were started, and only they can store the file.
Counted ==
  /\ phase \in Preparing => attempt = 0
  /\ phase \in Trying => attempt \in Attempts
  /\ \A a \in Attempts : transfer[a] = "none" <=> a > attempt
  /\ stored \subseteq 1..attempt

\* A delay is waited only before a transfer that the authorization allows, and is
\* known only of a refusal that has been read.
Replays ==
  /\ ~replaySafe => attempt <= 1
  /\ phase \in {"backoff", "waited"} => MayReplay /\ demand # "over"
  /\ phase \in Preparing \cup {"transferring", "answered", "broken"} => demand = "none"

\* What the phase says of the current attempt; no other is open, and none is pending
\* once the upload has moved on without being stopped.
Current ==
  /\ phase = "transferring" => transfer[attempt] = "pending"
  /\ phase = "broken" => transfer[attempt] = "failed"
  /\ phase = "answered" =>
       /\ answer # "none"
       /\ answer = "ok" => attempt \in stored
       /\ transfer[attempt] = IF answer = "malformed" THEN "released" ELSE "open"
  /\ phase \in {"rejecting", "rejected"} => answer \in {"retryable", "refused"}
  /\ phase \in Accepted =>
       answer = "ok" /\ attempt \in stored /\ transfer[attempt] = "released"
  /\ \A a \in Attempts :
       /\ transfer[a] = "pending" => Stopped \/ (phase = "transferring" /\ a = attempt)
       /\ transfer[a] = "open" => a = attempt /\ phase = "answered"

\* complete() was called if the phase says so, for the current attempt.
Completing ==
  /\ phase \in {"completing", "completed"} => completions = 1
  /\ completions # 0 =>
       /\ completions = 1
       /\ phase \in {"completing", "completed", "failing", "done"}
       /\ attempt \in Attempts
       /\ answer = "ok" /\ attempt \in stored /\ transfer[attempt] = "released"

\* What is known of a cause while it is carried to the end, and of the outcome.
Evidence ==
  /\ result = "none" <=> phase \notin {"failing", "done"}
  /\ result = "success" => phase = "done" /\ completions = 1
  /\ result = "signal" => phase = "failing" /\ Stopped
  /\ result = "refused" => answer \in {"retryable", "refused"}
  /\ result = "lost" => attempt \in Attempts /\ transfer[attempt] = "failed"
  /\ result \in {"refused", "lost"} => completions = 0
  /\ result = "aborted" => aborted
  /\ result = "timeout" => timer = "fired"

\* Listener and timer belong to an upload that is under way; the timer does not fire
\* between the two events that report the end of hashing.
Guarded ==
  /\ phase = "announced" => timer # "fired"
  /\ phase = "idle" => timer = "off"
  /\ phase \in {"idle", "done"} => ~listener /\ timer # "armed"

\* The inductive invariant.
IInv == TypeOK /\ Counted /\ Replays /\ Current /\ Completing /\ Evidence /\ Guarded

\* The sets of phases and values that the parts are about.
USE DEF Preparing, Accepted, Trying, Attempts, Awaiting, Queued, UploadErrors, Outcomes,
        Demands, Events

-----------------------------------------------------------------------------
(* The invariant *)

\* The invariant holds at the beginning.
LEMMA InitIInv == Init => IInv
<1> SUFFICES ASSUME Init PROVE IInv
  OBVIOUS
<1>1. TypeOK
  <2>1. /\ attempt \in 0..MaxAttempts /\ stored \subseteq Attempts /\ completions \in Nat
        /\ transfer \in [Attempts -> {"none", "pending", "failed", "open", "released"}]
    BY ConstantsOK DEF Init
  <2> QED BY <2>1 DEF Init, TypeOK
<1>2. Counted
  BY ConstantsOK DEF Init, Counted
<1>3. Replays
  BY ConstantsOK DEF Init, Replays
<1>4. Current
  BY ConstantsOK DEF Init, Current
<1>5. Completing
  BY ConstantsOK DEF Init, Completing
<1>6. Evidence
  BY ConstantsOK DEF Init, Evidence
<1>7. Guarded
  BY ConstantsOK DEF Init, Guarded
<1> QED BY <1>1, <1>2, <1>3, <1>4, <1>5, <1>6, <1>7 DEF IInv

\* A step that throws, or that finds the upload stopped, keeps it.
LEMMA ThrowKeeps ==
  ASSUME IInv, phase \notin {"idle", "done", "failing", "transferring"},
         NEW cause \in {"host", "protocol", "timeout", "aborted"}, Throw(cause),
         cause = "timeout" => timer = "fired", cause = "aborted" => aborted,
         phase = "answered" => answer = "malformed"
  PROVE  IInv'
<1>1. TypeOK'
  BY DEF Throw, Fail, Silent, flow, world, IInv, TypeOK
<1>2. Counted'
  BY DEF Throw, Fail, Silent, flow, world, IInv, TypeOK, Counted
<1>3. Replays'
  BY DEF Throw, Fail, Silent, flow, world, IInv, TypeOK, Replays, MayReplay
<1>4. Current'
  <2>1. /\ phase' = "failing"
        /\ UNCHANGED <<aborted, timer, attempt, transfer, answer, stored>>
    BY DEF Throw, Fail, flow, world
  <2>2. \A a \in Attempts : transfer[a] # "open"
    BY DEF IInv, Current
  <2> QED BY <2>1, <2>2 DEF IInv, Current, Stopped
<1>5. Completing'
  BY DEF Throw, Fail, Silent, flow, world, IInv, TypeOK, Completing, Counted
<1>6. Evidence'
  BY DEF Throw, Fail, Silent, flow, world, IInv, TypeOK, Evidence, Stopped, Completing
<1>7. Guarded'
  BY DEF Throw, Fail, Silent, flow, world, IInv, TypeOK, Guarded
<1> QED BY <1>1, <1>2, <1>3, <1>4, <1>5, <1>6, <1>7 DEF IInv

\* A step that only finds the upload stopped.
LEMMA StopKeeps ==
  ASSUME IInv, StopHere,
         phase \notin {"idle", "done", "failing", "answered", "transferring"}
  PROVE  IInv'
<1>1. StopCause \in {"timeout", "aborted"} /\ (StopCause = "timeout" => timer = "fired")
      /\ (StopCause = "aborted" => aborted)
  BY DEF StopHere, StopCause, Stopped
<1> QED BY <1>1, ThrowKeeps DEF StopHere

\* From the start to the authorization.
LEMMA StartKeeps ==
  ASSUME IInv, NEW r \in Reactions, NEW next \in {"hashing", "hashed"}, Start(r, next)
  PROVE  IInv'
BY ConstantsOK DEF Start, Announce, Hears, Fail, Silent, flow, world, IInv, TypeOK,
  Counted, Replays, Current, Completing, Evidence, Guarded, Stopped, MayReplay

\* An upload that is refused is settled.
LEMMA RefuseKeeps ==
  ASSUME IInv, Refuse PROVE IInv'
BY DEF Refuse, Silent, flow, world, IInv, TypeOK, Counted, Replays, Current, Completing,
       Evidence, Guarded, Stopped, MayReplay

\* What was awaited is there.
LEMMA StepResolvesKeeps ==
  ASSUME IInv, StepResolves PROVE IInv'
<1>1. <<phase, phase'>> \in {<<"hashing", "hashed">>, <<"authorizing", "authorized">>,
        <<"accepting", "accepted">>, <<"rejecting", "rejected">>,
        <<"completing", "completed">>}
  BY DEF StepResolves, Continuation
<1> QED BY <1>1 DEF StepResolves, Silent, flow, world, IInv, TypeOK, Counted, Replays,
             Current, Completing, Evidence, Guarded, Stopped, MayReplay

\* Hashing is reported as finished.
LEMMA HashedKeeps ==
  ASSUME IInv, NEW r \in Reactions, Hashed(r) PROVE IInv'
<1>1. CASE StopHere
  BY <1>1, StopKeeps DEF Hashed
<1>2. CASE ~StopHere
  <2>1. /\ phase = "hashed" /\ ~Stopped
        /\ Inform("hashing", r, "announced") /\ Hears(r, listener)
        /\ UNCHANGED <<timer, flow, world>>
    BY <1>2 DEF Hashed
  <2>2. /\ UNCHANGED <<timer, replaySafe, attempt, transfer, answer, demand>>
        /\ UNCHANGED <<completions, stored>>
        /\ report' = "hashing" /\ aborted' \in BOOLEAN /\ listener' \in BOOLEAN
        /\ \/ phase' = "announced" /\ result' = result
           \/ phase' = "failing" /\ result' = "configuration"
    BY <2>1 DEF Inform, Hears, Fail, flow, world, IInv, TypeOK
  <2>3. attempt = 0 /\ completions = 0 /\ result = "none"
    BY <2>1, ConstantsOK DEF IInv, TypeOK, Counted, Completing, Evidence
  <2>4. \A a \in Attempts : transfer[a] = "none"
    BY <2>1, <2>3 DEF IInv, TypeOK, Counted
  <2>5. TypeOK'
    BY <2>2 DEF IInv, TypeOK
  <2>6. Counted' /\ Replays'
    BY <2>1, <2>2, ConstantsOK DEF IInv, TypeOK, Counted, Replays, MayReplay
  <2>7. Current' /\ Completing'
    BY <2>1, <2>2, <2>3, <2>4 DEF IInv, Current, Completing
  <2>8. Evidence'
    BY <2>2, <2>3 DEF Evidence
  <2>9. Guarded'
    BY <2>1, <2>2 DEF Guarded, Stopped
  <2> QED BY <2>5, <2>6, <2>7, <2>8, <2>9 DEF IInv
<1> QED BY <1>1, <1>2

\* authorize() is called.
LEMMA AuthorizeKeeps ==
  ASSUME IInv, NEW r \in Reactions, Authorize(r) PROVE IInv'
<1>1. /\ UNCHANGED <<timer, replaySafe, attempt, transfer, answer, demand>>
      /\ UNCHANGED <<completions, stored>>
      /\ report' = "authorizing" /\ aborted' \in BOOLEAN /\ listener' \in BOOLEAN
      /\ \/ phase' = "authorizing" /\ result' = result
         \/ phase' = "failing" /\ result' = "configuration"
         \/ phase' = "failing" /\ result' = "signal" /\ aborted'
  BY DEF Authorize, Announce, Hears, Fail, flow, world, IInv, TypeOK
<1>2. phase = "announced" /\ attempt = 0 /\ completions = 0 /\ result = "none"
  BY ConstantsOK DEF Authorize, IInv, TypeOK, Counted, Completing, Evidence
<1>3. \A a \in Attempts : transfer[a] = "none"
  BY <1>2 DEF IInv, TypeOK, Counted
<1>4. TypeOK'
  BY <1>1 DEF IInv, TypeOK
<1>5. Counted' /\ Replays'
  BY <1>1, <1>2, ConstantsOK DEF IInv, TypeOK, Counted, Replays, MayReplay
<1>6. Current' /\ Completing'
  BY <1>1, <1>2, <1>3 DEF IInv, Current, Completing
<1>7. Evidence'
  BY <1>1, <1>2 DEF Evidence, Stopped
<1>8. Guarded'
  BY <1>1 DEF Guarded
<1> QED BY <1>4, <1>5, <1>6, <1>7, <1>8 DEF IInv

\* A transfer is started with an attempt that is left.
LEMMA TransferKeeps ==
  ASSUME IInv, Transfer, phase \in {"authorized", "waited"} PROVE IInv'
<1>1. CASE StopHere
  BY <1>1, StopKeeps
<1>2. CASE RefusesRequest
  BY <1>2, ThrowKeeps DEF RefusesRequest
<1>3. CASE ~StopHere /\ ~RefusesRequest
  <2>1. attempt + 1 \in Attempts /\ (~replaySafe => attempt = 0)
    BY ConstantsOK DEF IInv, TypeOK, Counted, Replays, MayReplay
  <2>2. ~Stopped /\ UNCHANGED <<aborted, listener, timer, completions, world, result>>
        /\ attempt' = attempt + 1
        /\ transfer' = [transfer EXCEPT ![attempt + 1] = "pending"]
        /\ answer' = "none" /\ demand' = "none" /\ phase' = "transferring" /\ Silent
    BY <1>3 DEF Transfer
  <2> QED BY <2>1, <2>2 DEF Silent, world, IInv, TypeOK, Counted, Replays, Current,
               Completing, Evidence, Guarded, Stopped, MayReplay
<1> QED BY <1>1, <1>2, <1>3

\* The provider, the transports and their answers.
LEMMA StoreKeeps ==
  ASSUME IInv, NEW a \in Attempts, Store(a) PROVE IInv'
BY DEF Store, Silent, flow, IInv, TypeOK, Counted, Replays, Current, Completing, Evidence,
       Guarded, Stopped, MayReplay

\* A report comes from the transfer that is awaited.
LEMMA ReportKeeps ==
  ASSUME IInv, NEW a \in Attempts, NEW r \in Reactions, Report(a, r) PROVE IInv'
<1>1. phase = "transferring" /\ a = attempt
  BY DEF Report, IInv, Current
<1> QED BY <1>1, ConstantsOK DEF Report, Announce, Hears, Fail, world, IInv, TypeOK,
             Counted, Replays, Current, Completing, Evidence, Guarded, Stopped, MayReplay

\* The provider answers the current attempt.
LEMMA AnswerKeeps ==
  ASSUME IInv, NEW kind \in {"ok", "retryable", "refused", "malformed"}, Answer(kind)
  PROVE  IInv'
BY DEF Answer, Silent, world, IInv, TypeOK, Counted, Replays, Current, Completing,
       Evidence, Guarded, Stopped, MayReplay

\* It answers one that was given up.
LEMMA AnswerLateKeeps ==
  ASSUME IInv, NEW a \in Attempts, NEW o \in {"released", "failed"}, AnswerLate(a, o)
  PROVE  IInv'
BY DEF AnswerLate, Silent, world, IInv, TypeOK, Counted, Replays, Current, Completing,
       Evidence, Guarded, Stopped, MayReplay

\* The current attempt breaks.
LEMMA TransferFailsKeeps ==
  ASSUME IInv, TransferFails PROVE IInv'
BY DEF TransferFails, Fail, Silent, world, IInv, TypeOK, Counted, Replays, Current,
       Completing, Evidence, Guarded, Stopped, MayReplay

\* An answer comes as the upload is stopped.
LEMMA AnswerStoppedKeeps ==
  ASSUME IInv, AnswerStopped PROVE IInv'
BY DEF AnswerStopped, StopCause, CancelBody, Fail, Silent, world, IInv, TypeOK, Counted,
       Replays, Current, Completing, Evidence, Guarded, Stopped, MayReplay

\* The file is accepted.
LEMMA AcceptKeeps ==
  ASSUME IInv, NEW r \in Reactions, Accept(r) PROVE IInv'
BY ConstantsOK DEF Accept, Announce, Hears, CancelBody, Fail, world, IInv, TypeOK, Counted,
  Replays, Current, Completing, Evidence, Guarded, Stopped, MayReplay

\* It is not.
LEMMA RejectKeeps ==
  ASSUME IInv, NEW d \in Demands, Reject(d) PROVE IInv'
BY DEF Reject, CancelBody, Silent, world, IInv, TypeOK, Counted, Replays, Current,
       Completing, Evidence, Guarded, Stopped, MayReplay

\* What follows a refusal or a failure.
LEMMA AfterRejectionKeeps ==
  ASSUME IInv, NEW delayed \in BOOLEAN, AfterRejection(delayed) PROVE IInv'
BY DEF AfterRejection, RetriesAnswer, Pause, Fail, Silent, flow, world, IInv, TypeOK,
       Counted, Replays, Current, Completing, Evidence, Guarded, Stopped, MayReplay

\* After a transfer that broke.
LEMMA AfterFailureKeeps ==
  ASSUME IInv, NEW delayed \in BOOLEAN, AfterFailure(delayed) PROVE IInv'
BY DEF AfterFailure, StopCause, Pause, Fail, Silent, flow, world, IInv, TypeOK, Counted,
       Replays, Current, Completing, Evidence, Guarded, Stopped, MayReplay

\* Completion, and the end.
LEMMA CompleteKeeps ==
  ASSUME IInv, NEW r \in Reactions, Complete(r) PROVE IInv'
<1>1. CASE StopHere
  BY <1>1, StopKeeps DEF Complete
<1>2. CASE ~StopHere
  <2>1. TypeOK'
    <3>1. /\ UNCHANGED <<timer, attempt, transfer, answer, demand, replaySafe, stored>>
          /\ completions' \in {completions, completions + 1}
          /\ report' = "completing" /\ r \in {"returns", "aborts", "throws"}
      BY <1>2, ConstantsOK DEF Complete, Announce, world
    <3>2. aborted' \in BOOLEAN /\ listener' \in BOOLEAN
      BY <1>2 DEF Complete, Announce, Hears, IInv, TypeOK
    <3>3. /\ phase' \in {"completing", "failing"}
          /\ result' \in {result, "signal", "configuration"}
      BY <1>2 DEF Complete, Announce, Fail
    <3> QED BY <3>1, <3>2, <3>3 DEF IInv, TypeOK
  <2>2. Counted'
    BY <1>2, ConstantsOK DEF Complete, Announce, Hears, Fail, world, IInv, TypeOK, Counted
  <2>3. Replays'
    BY <1>2, ConstantsOK DEF Complete, Announce, Hears, Fail, world, IInv, TypeOK,
      Replays, MayReplay
  <2>4. Current'
    BY <1>2, ConstantsOK DEF Complete, Announce, Hears, Fail, world, IInv, TypeOK,
      Current, Stopped, Counted
  <2>5. Completing'
    BY <1>2, ConstantsOK DEF Complete, Announce, Hears, Fail, world, IInv, TypeOK,
      Completing, Counted, Current
  <2>6. Evidence'
    BY <1>2, ConstantsOK DEF Complete, Announce, Hears, Fail, world, IInv, TypeOK,
      Evidence, Stopped, Completing
  <2>7. Guarded'
    BY <1>2, ConstantsOK DEF Complete, Announce, Hears, Fail, world, IInv, TypeOK, Guarded
  <2> QED BY <2>1, <2>2, <2>3, <2>4, <2>5, <2>6, <2>7 DEF IInv
<1> QED BY <1>1, <1>2

\* complete() has answered.
LEMMA ConcludeKeeps ==
  ASSUME IInv, NEW r \in Reactions, Conclude(r) PROVE IInv'
<1>1. CASE StopHere
  BY <1>1, StopKeeps DEF Conclude
<1>2. CASE RefusesCompletion
  BY <1>2, ThrowKeeps DEF Conclude, RefusesCompletion
<1>3. CASE ~StopHere /\ ~RefusesCompletion
  BY <1>3 DEF Conclude, Cleanup, Fail, flow, world, IInv, TypeOK, Counted, Replays,
    Current, Completing, Evidence, Guarded, Stopped, MayReplay
<1> QED BY <1>1, <1>2, <1>3

\* The catch block and the finally block of upload().
LEMMA CatchKeeps ==
  ASSUME IInv, Catch PROVE IInv'
<1>1. TypeOK'
  BY DEF Catch, Classified, StopCause, Cleanup, Silent, flow, world, IInv, TypeOK
<1>2. Counted'
  BY DEF Catch, Classified, StopCause, Cleanup, Silent, flow, world, IInv, TypeOK, Counted
<1>3. Replays'
  BY DEF Catch, Classified, StopCause, Cleanup, Silent, flow, world, IInv, TypeOK,
    Replays, MayReplay
<1>4. Current'
  BY DEF Catch, Classified, StopCause, Cleanup, Silent, flow, world, IInv, TypeOK,
    Current, Stopped, Counted
<1>5. Completing'
  BY DEF Catch, Classified, StopCause, Cleanup, Silent, flow, world, IInv, TypeOK,
    Completing, Counted
<1>6. Evidence'
  BY DEF Catch, Classified, StopCause, Cleanup, Silent, flow, world, IInv, TypeOK,
    Evidence, Stopped, Completing
<1>7. Guarded'
  BY DEF Catch, Classified, StopCause, Cleanup, Silent, flow, world, IInv, TypeOK, Guarded
<1> QED BY <1>1, <1>2, <1>3, <1>4, <1>5, <1>6, <1>7 DEF IInv

\* Timers and the caller.
LEMMA TimerKeeps ==
  ASSUME IInv, Timer PROVE IInv'
<1>1. TypeOK'
  BY DEF Timer, TimerFires, DelayElapses, Fail, Silent, flow, world, IInv, TypeOK
<1>2. Counted'
  BY DEF Timer, TimerFires, DelayElapses, Fail, Silent, flow, world, IInv, TypeOK, Counted
<1>3. Replays'
  BY DEF Timer, TimerFires, DelayElapses, Fail, Silent, flow, world, IInv, TypeOK,
    Replays, MayReplay
<1>4. Current'
  BY DEF Timer, TimerFires, DelayElapses, Fail, Silent, flow, world, IInv, TypeOK,
    Current, Stopped, Counted
<1>5. Completing'
  BY DEF Timer, TimerFires, DelayElapses, Fail, Silent, flow, world, IInv, TypeOK,
    Completing, Counted
<1>6. Evidence'
  BY DEF Timer, TimerFires, DelayElapses, Fail, Silent, flow, world, IInv, TypeOK,
    Evidence, Stopped, Completing
<1>7. Guarded'
  BY DEF Timer, TimerFires, DelayElapses, Fail, Silent, flow, world, IInv, TypeOK, Guarded
<1> QED BY <1>1, <1>2, <1>3, <1>4, <1>5, <1>6, <1>7 DEF IInv

\* The caller aborts.
LEMMA AbortKeeps ==
  ASSUME IInv, Abort PROVE IInv'
<1>1. TypeOK'
  BY DEF Abort, Fail, Silent, flow, world, IInv, TypeOK
<1>2. Counted'
  BY DEF Abort, Fail, Silent, flow, world, IInv, TypeOK, Counted
<1>3. Replays'
  BY DEF Abort, Fail, Silent, flow, world, IInv, TypeOK, Replays, MayReplay
<1>4. Current'
  BY DEF Abort, Fail, Silent, flow, world, IInv, TypeOK, Current, Stopped, Counted
<1>5. Completing'
  BY DEF Abort, Fail, Silent, flow, world, IInv, TypeOK, Completing, Counted
<1>6. Evidence'
  BY DEF Abort, Fail, Silent, flow, world, IInv, TypeOK, Evidence, Stopped, Completing
<1>7. Guarded'
  BY DEF Abort, Fail, Silent, flow, world, IInv, TypeOK, Guarded
<1> QED BY <1>1, <1>2, <1>3, <1>4, <1>5, <1>6, <1>7 DEF IInv

\* Every step keeps the invariant.
LEMMA StepIInv == IInv /\ [Next]_vars => IInv'
<1> SUFFICES ASSUME IInv, [Next]_vars PROVE IInv'
  OBVIOUS
<1>1. ASSUME Microtask PROVE IInv'
  <2>1. CASE Authorized
    <3>1. CASE RefusesAuthorization
      BY <2>1, <3>1, ThrowKeeps DEF Authorized, RefusesAuthorization
    <3>2. CASE Transfer
      BY <2>1, <3>2, TransferKeeps DEF Authorized
    <3> QED BY <2>1, <3>1, <3>2 DEF Authorized
  <2>2. CASE NextAttempt
    BY <2>2, TransferKeeps DEF NextAttempt
  <2>3. CASE AnswerMalformed
    BY <2>3, ThrowKeeps DEF AnswerMalformed
  <2> QED BY <1>1, <2>1, <2>2, <2>3, HashedKeeps, AuthorizeKeeps, AcceptKeeps, CompleteKeeps,
             ConcludeKeeps, AnswerStoppedKeeps, RejectKeeps, AfterRejectionKeeps,
             AfterFailureKeeps, CatchKeeps DEF Microtask
<1>2. ASSUME Environment PROVE IInv'
  <2>1. ASSUME NEW cause \in {"host", "protocol"}, StepRejects(cause) PROVE IInv'
    BY <2>1, ThrowKeeps DEF StepRejects
  <2> QED BY <1>2, <2>1, StartKeeps, RefuseKeeps, StepResolvesKeeps, StoreKeeps,
             ReportKeeps, AnswerKeeps, AnswerLateKeeps, TransferFailsKeeps DEF Environment
<1>3. CASE Quiet \/ UNCHANGED vars
  <2>1. TypeOK'
    <3>1. /\ UNCHANGED <<aborted, listener, timer, phase, replaySafe, result>>
          /\ UNCHANGED <<attempt, transfer, answer, demand, completions, stored>>
          /\ report' \in {"none", report}
      BY <1>3 DEF Quiet, Silent, vars, flow, world
    <3> QED BY <3>1 DEF IInv, TypeOK
  <2>2. Counted'
    BY <1>3 DEF Quiet, Silent, vars, flow, world, IInv, TypeOK, Counted
  <2>3. Replays'
    BY <1>3 DEF Quiet, Silent, vars, flow, world, IInv, TypeOK, Replays, MayReplay
  <2>4. Current'
    BY <1>3 DEF Quiet, Silent, vars, flow, world, IInv, TypeOK, Current, Stopped, Counted
  <2>5. Completing'
    BY <1>3 DEF Quiet, Silent, vars, flow, world, IInv, TypeOK, Completing, Counted
  <2>6. Evidence'
    BY <1>3 DEF Quiet, Silent, vars, flow, world, IInv, TypeOK, Evidence, Stopped,
      Completing
  <2>7. Guarded'
    BY <1>3 DEF Quiet, Silent, vars, flow, world, IInv, TypeOK, Guarded
  <2> QED BY <2>1, <2>2, <2>3, <2>4, <2>5, <2>6, <2>7 DEF IInv
<1> QED BY <1>1, <1>2, <1>3, TimerKeeps, AbortKeeps DEF Next

\* The invariant holds in every reachable state.
THEOREM Invariance == Spec => []IInv
<1> QED BY InitIInv, StepIInv, PTL DEF Spec

-----------------------------------------------------------------------------
(* The properties *)

\* Without a replay-safe authorization at most one copy of the file is sent and stored,
\* and none after a Retry-After beyond the maximum.
THEOREM ReplaysAreSafe == Spec => []ReplayOnlyIfSafe
<1>1. ASSUME IInv PROVE ReplayOnlyIfSafe
  <2>1. ASSUME ~replaySafe PROVE Cardinality(stored) <= 1
    <3>1. stored \subseteq 1..attempt /\ attempt \in Nat /\ attempt <= 1
      BY <1>1, <2>1, ConstantsOK DEF IInv, TypeOK, Counted, Replays
    <3>2. \A a \in stored : a = 1
      BY <3>1
    <3>3. stored = {} \/ stored = {1}
      BY <3>2
    <3>4. Cardinality({}) = 0 /\ Cardinality({1}) = 1
      BY FS_EmptySet, FS_Singleton
    <3> QED BY <3>3, <3>4
  <2>2. demand = "over" => phase \notin {"transferring", "backoff", "waited"}
    BY <1>1 DEF IInv, Replays
  <2> QED BY <1>1, <2>1, <2>2 DEF IInv, Replays, ReplayOnlyIfSafe
<1> QED BY <1>1, Invariance, PTL

\* complete() is called once at most, for a file that the provider has acknowledged.
THEOREM CompletionsAreStored == Spec => []CompletesStored
<1>1. IInv => CompletesStored
  BY DEF IInv, TypeOK, Completing, CompletesStored
<1> QED BY <1>1, Invariance, PTL

\* No response, listener or timer survives its upload.
THEOREM UploadsCleanUp == Spec => []NothingLeftBehind
<1>1. IInv => NothingLeftBehind
  BY DEF IInv, Current, Guarded, NothingLeftBehind
<1> QED BY <1>1, Invariance, PTL

\* The outcome of an upload says what became of it.
THEOREM OutcomesAreTrue == Spec => []TruthfulOutcome
<1>1. IInv => TruthfulOutcome
  BY DEF IInv, TypeOK, Evidence, TruthfulOutcome
<1> QED BY <1>1, Invariance, PTL

\* Nothing more is started in a step that finds the upload stopped.
THEOREM StopsAreFinal == Spec => NothingStartedAfterStop
<1> DEFINE Starts == \/ attempt' # attempt
                     \/ completions' # completions
                     \/ phase' = "announced" /\ phase # "announced"
<1>1. ASSUME IInv, [Next]_vars, Starts PROVE ~Stopped
  <2>1. ASSUME Environment \/ Timer \/ Abort \/ Quiet \/ UNCHANGED vars PROVE FALSE
    BY <1>1, <2>1
       DEF Environment, Timer, Abort, Quiet, Start, Announce, Refuse, StepResolves,
           Continuation, StepRejects, Throw, Store, Report, Answer, AnswerLate,
           TransferFails, TimerFires, DelayElapses, Fail, flow, vars
  <2>2. ASSUME StopHere PROVE FALSE
    BY <1>1, <2>2 DEF StopHere, Throw, Fail, flow
  <2>3. CASE Authorized \/ NextAttempt
    BY <1>1, <2>2, <2>3
       DEF Authorized, NextAttempt, RefusesAuthorization, Throw, Fail, flow, Transfer
  <2>4. ASSUME NEW r \in Reactions, Hashed(r) \/ Accept(r) \/ Complete(r)
        PROVE  ~Stopped
    BY <1>1, <2>2, <2>4 DEF Hashed, Accept, Complete
  <2>5. ASSUME NEW r \in Reactions, Conclude(r) PROVE ~Stopped
    BY <1>1, <2>2, <2>5 DEF Conclude, RefusesCompletion, Throw, Fail, flow
  <2>6. CASE AnswerStopped \/ AnswerMalformed \/ Catch
    BY <1>1, <2>6 DEF AnswerStopped, AnswerMalformed, Catch, Throw, Fail, flow
  <2>7. CASE \E d \in Demands : Reject(d)
    BY <1>1, <2>7 DEF Reject
  <2>8. CASE \E delayed \in BOOLEAN : AfterRejection(delayed) \/ AfterFailure(delayed)
    BY <1>1, <2>8 DEF AfterRejection, AfterFailure, Pause, Fail, flow
  <2>9. ASSUME NEW r \in Reactions, Authorize(r) PROVE FALSE
    BY <1>1, <2>9 DEF Authorize, Announce, Fail, flow
  <2> QED BY <1>1, <2>1, <2>3, <2>4, <2>5, <2>6, <2>7, <2>8, <2>9 DEF Next, Microtask
<1>2. IInv /\ [Next]_vars => [Starts => ~Stopped]_vars
  BY <1>1
<1> QED BY <1>2, Invariance, PTL DEF Spec, NothingStartedAfterStop

\* Progress events are reported by the step they are about, and none by a step that finds
\* the upload stopped, but for the second of two events whose callback aborts at the first.
THEOREM ReportsBelong == Spec => ReportsAreCurrent
<1> DEFINE Current1 == /\ phase # "done"
                       /\ Stopped => /\ phase = "announced" /\ report' = "authorizing"
                                     /\ timer # "fired"
                       /\ report' = "uploading" => phase \in {"transferring", "answered"}
                       /\ report' = "completed" => completions = 1
<1>1. ASSUME IInv, Next, report' # "none" PROVE Current1
  <2>1. ASSUME StopHere \/ RefusesAuthorization \/ RefusesCompletion PROVE FALSE
    BY <1>1, <2>1 DEF StopHere, RefusesAuthorization, RefusesCompletion, Throw, Silent
  <2>2. ASSUME Transfer PROVE FALSE
    BY <1>1, <2>1, <2>2 DEF Transfer, RefusesRequest, Throw, Silent
  <2>3. ASSUME NEW r \in Reactions, Hashed(r) \/ Accept(r) \/ Complete(r) \/ Conclude(r)
        PROVE  Current1
    BY <1>1, <2>1, <2>3
       DEF Hashed, Accept, Complete, Conclude, Inform, Announce, IInv, Completing
  <2>4. ASSUME NEW r \in Reactions, NEW next \in {"hashing", "hashed"}, Start(r, next)
        PROVE  Current1
    BY <1>1, <2>4 DEF Start, Announce, Silent, Stopped, IInv, Guarded
  <2>5. ASSUME NEW a \in Attempts, NEW r \in Reactions, Report(a, r) PROVE Current1
    BY <1>1, <2>5 DEF Report, Announce, IInv, Current
  <2>6. ASSUME NEW d \in Demands, Reject(d) PROVE FALSE
    BY <1>1, <2>6 DEF Reject, Silent
  <2>7. ASSUME NEW delayed \in BOOLEAN, AfterRejection(delayed) \/ AfterFailure(delayed)
        PROVE  FALSE
    BY <1>1, <2>7 DEF AfterRejection, AfterFailure, Silent
  <2>8. CASE AnswerStopped \/ AnswerMalformed \/ Catch \/ Timer \/ Abort \/ Quiet
    BY <1>1, <2>8
       DEF AnswerStopped, AnswerMalformed, Throw, Catch, Timer, TimerFires, DelayElapses,
           Abort, Quiet, Silent
  <2>9. CASE \/ Refuse \/ StepResolves \/ TransferFails
             \/ \E cause \in {"host", "protocol"} : StepRejects(cause)
             \/ \E a \in Attempts : Store(a)
             \/ \E kind \in {"ok", "retryable", "refused", "malformed"} : Answer(kind)
             \/ \E a \in Attempts, o \in {"released", "failed"} : AnswerLate(a, o)
    BY <1>1, <2>9
       DEF Refuse, StepResolves, TransferFails, StepRejects, Throw, Store, Answer,
           AnswerLate, Silent
  <2>10. ASSUME NEW r \in Reactions, Authorize(r) PROVE Current1
    BY <1>1, <2>10 DEF Authorize, Announce, Stopped, IInv, Guarded
  <2> QED BY <1>1, <2>2, <2>3, <2>4, <2>5, <2>6, <2>7, <2>8, <2>9, <2>10
          DEF Next, Microtask, Environment, Authorized, NextAttempt, RefusesAuthorization,
              Throw, Silent
<1>2. IInv /\ [Next]_vars => [report' # "none" => Current1]_vars
  BY <1>1
<1> QED BY <1>2, Invariance, PTL DEF Spec, ReportsAreCurrent

-----------------------------------------------------------------------------
(* The promise of UploadPromise *)

\* Most steps concern neither the number of transfers nor completion, and begin and end
\* while the upload is under way, or leave its phase alone.
Inside ==
  /\ UNCHANGED <<replaySafe, attempt, completions>>
  /\ \/ phase \notin {"idle", "done"} /\ phase' \notin {"idle", "done"}
     \/ UNCHANGED <<phase, result>>

\* All steps but these four are of that kind.
LEMMA InsideSteps ==
  ASSUME IInv, [Next]_vars
  PROVE  \/ Inside
         \/ Refuse \/ Catch
         \/ \E r \in Reactions : Complete(r) \/ Conclude(r)
         \/ \E r \in Reactions, next \in {"hashing", "hashed"} : Start(r, next)
         \/ (Authorized \/ NextAttempt) /\ Transfer
<1>1. ASSUME NEW cause, Throw(cause), phase \notin {"idle", "done"} PROVE Inside
  BY <1>1 DEF Throw, Fail, flow, world, Inside
<1>2. ASSUME NEW r \in Reactions, Hashed(r) \/ Authorize(r) \/ Accept(r) PROVE Inside
  BY <1>1, <1>2
     DEF Hashed, Authorize, StopHere, Accept, Inform, Announce, Fail, flow, world, Inside
<1>3. CASE Authorized \/ NextAttempt
  BY <1>1, <1>3 DEF Authorized, NextAttempt, RefusesAuthorization
<1>4. CASE AnswerStopped \/ AnswerMalformed \/ \E d \in Demands : Reject(d)
  BY <1>1, <1>4 DEF AnswerStopped, AnswerMalformed, Reject, Fail, world, Inside
<1>5. ASSUME NEW delayed \in BOOLEAN, AfterRejection(delayed) \/ AfterFailure(delayed)
      PROVE  Inside
  BY <1>5 DEF AfterRejection, AfterFailure, Pause, Fail, flow, world, Inside
<1>6. CASE Timer \/ Abort \/ Quiet \/ UNCHANGED vars
  BY <1>6 DEF Timer, TimerFires, DelayElapses, Abort, Quiet, Fail, flow, world, vars,
    Inside
<1>7. ASSUME NEW a \in Attempts, NEW r \in Reactions, Report(a, r) PROVE Inside
  <2>1. phase = "transferring"
    BY <1>7 DEF Report, IInv, Current
  <2> QED BY <1>7, <2>1 DEF Report, Announce, Fail, world, Inside
<1>8. CASE \/ StepResolves \/ TransferFails
           \/ \E cause \in {"host", "protocol"} : StepRejects(cause)
           \/ \E a \in Attempts : Store(a)
           \/ \E kind \in {"ok", "retryable", "refused", "malformed"} : Answer(kind)
           \/ \E a \in Attempts, o \in {"released", "failed"} : AnswerLate(a, o)
  BY <1>1, <1>8 DEF StepResolves, Continuation, TransferFails, StepRejects, Store, Answer,
                    AnswerLate, Fail, flow, world, Inside
<1> QED BY <1>2, <1>3, <1>4, <1>5, <1>6, <1>7, <1>8 DEF Next, Microtask, Environment

\* Every step of an upload is a step of its promise or leaves it alone.
LEMMA PromiseStep ==
  ASSUME IInv, [Next]_vars
  PROVE  [Promise!Next]_(Promise!vars)
<1> DEFINE Stutter == UNCHANGED <<stage, replaySafe, attempt, outcome>>
<1>1. Stutter => UNCHANGED Promise!vars
  BY DEF Promise!vars
<1>2. CASE Inside
  BY <1>1, <1>2 DEF Inside, stage, outcome
<1>3. CASE Refuse
  BY <1>3 DEF Refuse, flow, world, stage, outcome, Promise!Next, Promise!Refuse
<1>4. CASE Catch
  <2>1. /\ stage \in {"preparing", "sending", "completing"} /\ stage' = "done"
        /\ outcome' \in Outcomes \ {"success"} /\ UNCHANGED <<replaySafe, attempt>>
    BY <1>4 DEF Catch, Classified, StopCause, flow, world, stage, outcome, IInv, TypeOK,
                Evidence
  <2> QED BY <2>1 DEF Promise!Next, Promise!Settle
<1>5. ASSUME NEW r \in Reactions, Complete(r) PROVE Stutter \/ Promise!Next
  <2>1. stage = "sending" /\ completions = 0 /\ phase' \notin {"idle", "done"}
        /\ UNCHANGED <<replaySafe, attempt>> /\ outcome = "none"
    BY <1>5 DEF Complete, StopHere, Throw, Announce, Fail, flow, world, stage, outcome,
      IInv,
                TypeOK, Counted, Completing
  <2>2. outcome' = "none" /\ (completions' = 0 \/ completions' = 1)
    BY <1>5, <2>1 DEF Complete, StopHere, Throw, flow, outcome
  <2>3. stage' = IF completions' = 0 THEN "sending" ELSE "completing"
    BY <2>1, <2>2 DEF stage, IInv, TypeOK
  <2> QED BY <2>1, <2>2, <2>3 DEF Promise!Next, Promise!Complete
<1>6. ASSUME NEW r \in Reactions, Conclude(r) PROVE Stutter \/ Promise!Next
  <2>1. stage = "completing" /\ UNCHANGED <<replaySafe, attempt, completions>>
        /\ outcome = "none" /\ completions = 1
    BY <1>6 DEF Conclude, RefusesCompletion, StopHere, Throw, Fail, flow, world, stage,
                outcome, IInv, Completing
  <2>2. \/ phase' = "failing"
        \/ phase' = "done" /\ result' = "success"
    BY <1>6 DEF Conclude, RefusesCompletion, StopHere, Throw, Fail
  <2> QED BY <2>1, <2>2 DEF stage, outcome, Promise!Next, Promise!Settle
<1>7. ASSUME NEW r \in Reactions, NEW next \in {"hashing", "hashed"}, Start(r, next)
      PROVE  Promise!Next
  BY <1>7 DEF Start, Announce, Fail, flow, world, stage, outcome, IInv, Counted,
    Completing,
              Promise!Next, Promise!Begin
<1>8. CASE (Authorized \/ NextAttempt) /\ Transfer
  <2>1. phase \in {"authorized", "waited"}
    BY <1>8 DEF Authorized, NextAttempt
  <2>2. CASE StopHere \/ RefusesRequest
    BY <1>1, <2>1, <2>2
       DEF StopHere, RefusesRequest, Throw, Fail, flow, world, stage, outcome
  <2>3. CASE /\ attempt' = attempt + 1 /\ phase' = "transferring"
             /\ UNCHANGED <<completions, world, result>>
    <3>1. stage \in {"preparing", "sending"} /\ stage' = "sending"
          /\ UNCHANGED <<outcome, replaySafe>>
      BY <2>1, <2>3 DEF stage, outcome, world, IInv, TypeOK, Counted, Completing
    <3>2. attempt < IF replaySafe THEN MaxAttempts ELSE 1
      BY <2>1, ConstantsOK DEF IInv, TypeOK, Counted, Replays, MayReplay
    <3> QED BY <2>3, <3>1, <3>2 DEF Promise!Next, Promise!Send
  <2> QED BY <1>8, <2>2, <2>3 DEF Transfer
<1> QED BY <1>1, <1>2, <1>3, <1>4, <1>5, <1>6, <1>7, <1>8, InsideSteps

\* An upload keeps the promise of UploadPromise: the order of its steps, the limit on
\* transfers that its authorization sets, and one outcome.
THEOREM UploadImplements == Spec => KeepsPromise
<1>1. Init => Promise!Init
  BY ConstantsOK DEF Init, Promise!Init, stage, outcome
<1> QED BY <1>1, PromiseStep, Invariance, PTL DEF Spec, KeepsPromise, Promise!Spec
=============================================================================
