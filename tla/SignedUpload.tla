---------------------------- MODULE SignedUpload ----------------------------
(***************************************************************************)
(* One upload of createZdpSignedUploadClient (src/upload/client.ts):       *)
(* checksum, authorize, provider transfer with retries, complete, under    *)
(* one timeout for all of it and the caller's AbortSignal.                 *)
(*                                                                         *)
(* A step is what runs between two awaits.  Each await is one phase while  *)
(* its promise is pending (Awaiting) and another one once its continuation *)
(* is queued (Queued), because the application may abort in between.  The  *)
(* application also runs inside a step, as the onProgress callback, where  *)
(* it may abort as well, or throw.  One step makes two such calls and is   *)
(* modelled as two, with nothing in between: "announced".                  *)
(***************************************************************************)
EXTENDS Naturals, FiniteSets

CONSTANTS
  MaxAttempts,   \* retryPolicy.maxAttempts
  Signalled,     \* does the application pass an AbortSignal?
  Reactions      \* what its onProgress callback may do

ASSUME ConstantsOK ==
  /\ MaxAttempts \in Nat \ {0}
  /\ Signalled \in BOOLEAN
  /\ Reactions \subseteq {"returns", "aborts", "throws"}

VARIABLES
  aborted,      \* the caller's signal, where there is one, has aborted
  listener,     \* the merged signal listens to it
  timer,        \* the upload's timeout: off, armed or fired
  phase,        \* what the upload awaits, or which continuation is queued
  report,       \* the progress event emitted by the last step, or none
  replaySafe,   \* what the authorization declares
  attempt,      \* uploadWithRetry's attempt: transfers started
  transfer,     \* what became of each attempt's transfer and response body
  answer,       \* the class of the current attempt's answer
  demand,       \* its Retry-After, against maxDelayMs
  completions,  \* how often complete() was called
  stored,       \* the attempts whose file the provider has stored
  result        \* cause of a failure, then the outcome

vars == <<aborted, listener, timer, phase, report, replaySafe, attempt, transfer,
          answer, demand, completions, stored, result>>

\* What an attempt is about, and what the provider has.
flow == <<attempt, transfer, answer, demand, completions>>
world == <<replaySafe, stored>>

Attempts == 1..MaxAttempts
Awaiting == {"hashing", "authorizing", "transferring", "accepting", "rejecting",
             "backoff", "completing"}
Queued == {"hashed", "announced", "authorized", "answered", "accepted", "rejected",
           "waited", "completed", "broken", "failing"}
\* ZdpUploadErrors pass both catch blocks as they are.
UploadErrors == {"protocol", "configuration", "refused", "lost", "timeout", "aborted"}
Outcomes == UploadErrors \cup {"success", "host"}
\* A Retry-After is absent or zero, covered by maxDelayMs, or beyond it.
Demands == {"none", "within", "over"}
Events == {"hashing", "authorizing", "uploading", "completing", "completed"}

\* The ranges of the variables.
TypeOK ==
  /\ aborted \in BOOLEAN
  /\ listener \in BOOLEAN
  /\ timer \in {"off", "armed", "fired"}
  /\ phase \in Awaiting \cup Queued \cup {"idle", "done"}
  /\ report \in Events \cup {"none"}
  /\ replaySafe \in BOOLEAN
  /\ attempt \in 0..MaxAttempts
  /\ transfer \in [Attempts -> {"none", "pending", "failed", "open", "released"}]
  /\ answer \in {"none", "ok", "retryable", "refused", "malformed"}
  /\ demand \in Demands
  /\ completions \in Nat
  /\ stored \subseteq Attempts
  /\ result \in Outcomes \cup {"none", "signal"}

Init ==
  /\ aborted = FALSE
  /\ listener = FALSE
  /\ timer = "off"
  /\ phase = "idle"
  /\ report = "none"
  /\ replaySafe \in BOOLEAN
  /\ attempt = 0
  /\ transfer = [a \in Attempts |-> "none"]
  /\ answer = "none"
  /\ demand = "none"
  /\ completions = 0
  /\ stored = {}
  /\ result = "none"

-----------------------------------------------------------------------------
(* Stopping *)

Stopped == aborted \/ timer = "fired"

\* What throwIfAborted throws: the timeout comes first.
StopCause == IF timer = "fired" THEN "timeout" ELSE "aborted"

Fail(cause) == phase' = "failing" /\ result' = cause

\* throwIfAborted throws.
Stop == Stopped /\ Fail(StopCause)

Silent == report' = "none"

\* Mutant: a throwing callback is ignored.
AnnounceQuietly(event, r, next) ==
  /\ r = "aborts" => Signalled /\ ~aborted
  /\ report' = event
  /\ aborted' = (aborted \/ r = "aborts")
  /\ \/ r # "aborts" /\ phase' = next /\ UNCHANGED result
     \/ r = "aborts" /\ Fail("signal")

\* emitProgress, then the step it announces is awaited.  The callback may abort
\* the signal the application passed.
Announce(event, r, next) ==
  /\ r = "aborts" => Signalled /\ ~aborted
  /\ report' = event
  /\ aborted' = (aborted \/ r = "aborts")
  /\ \/ r = "returns" /\ phase' = next /\ UNCHANGED result
     \/ r = "aborts" /\ Fail("signal")
     \/ r = "throws" /\ Fail("configuration")

\* The merged signal's listener, registered once only, hears the callback abort.
Hears(r, registered) == listener' = (registered /\ r # "aborts")

\* A step throws, and nothing else happens in it.
Throw(cause) ==
  /\ Fail(cause)
  /\ Silent
  /\ UNCHANGED <<aborted, listener, timer, flow, world>>

\* It finds the upload stopped.
StopHere == Stopped /\ Throw(StopCause)

\* createRequest() throws or returns what the provider must not be sent.
RefusesRequest == \E cause \in {"host", "protocol"} : Throw(cause)

\* validatePreparedUpload: malformed, expired, or its limits exclude the file.
RefusesAuthorization == Throw("protocol")

\* validateCompletion: not an object, for another upload, or in no known state.
RefusesCompletion == Throw("protocol")

-----------------------------------------------------------------------------
(* Checksum and authorization *)

\* upload() up to its first await; a checksum in the input is there at once.
Start(r, next) ==
  /\ phase = "idle"
  /\ timer' = "armed"
  /\ \/ ~aborted /\ Announce("hashing", r, next) /\ Hears(r, Signalled)
     \/ aborted /\ Fail("aborted") /\ Silent /\ Hears("returns", Signalled)
        /\ UNCHANGED aborted
  /\ UNCHANGED <<flow, world>>

\* Mutant: a file the provider accepted needs no completion.
ContinuationSkippingComplete ==
  [hashing |-> "hashed", authorizing |-> "authorized", accepting |-> "completed",
   rejecting |-> "rejected", completing |-> "completed"]

\* Where an await leads once its promise resolves.
Continuation ==
  [hashing |-> "hashed", authorizing |-> "authorized", accepting |-> "accepted",
   rejecting |-> "rejected", completing |-> "completed"]

\* Input, limits, ids or the timeout are invalid: nothing is set up.
Refuse ==
  /\ phase = "idle"
  /\ phase' = "done"
  /\ result' = "configuration"
  /\ Silent
  /\ UNCHANGED <<aborted, listener, timer, flow, world>>

\* The checksum provider, authorize(), complete() or the cancellation of a
\* response body answers.
StepResolves ==
  /\ phase \in DOMAIN Continuation
  /\ phase' = Continuation[phase]
  /\ Silent
  /\ UNCHANGED <<aborted, listener, timer, flow, world, result>>

\* A callback rejects with an error of the host, or with a ZdpUploadError.
StepRejects(cause) ==
  /\ phase \in {"hashing", "authorizing", "completing"}
  /\ cause \in {"host", "protocol"}
  /\ Throw(cause)

\* emitProgress of an event after which the step goes on, also if the callback aborts.
Inform(event, r, next) ==
  /\ r = "aborts" => Signalled /\ ~aborted
  /\ report' = event
  /\ aborted' = (aborted \/ r = "aborts")
  /\ \/ r = "throws" /\ Fail("configuration")
     \/ r # "throws" /\ phase' = next /\ UNCHANGED result

\* Mutant: the step goes on without looking at the signals first.
HashedUnchecked(r) ==
  /\ phase = "hashed"
  /\ Inform("hashing", r, "announced") /\ Hears(r, listener)
  /\ UNCHANGED <<timer, flow, world>>

\* The checksum is there: hashing is reported as finished.
Hashed(r) ==
  /\ phase = "hashed"
  /\ \/ StopHere
     \/ /\ ~Stopped
        /\ Inform("hashing", r, "announced") /\ Hears(r, listener)
        /\ UNCHANGED <<timer, flow, world>>

\* The same step announces the authorization and calls authorize(), whether or not
\* the callback has aborted before: only what awaits the answer notices.
Authorize(r) ==
  /\ phase = "announced"
  /\ \/ ~aborted /\ Announce("authorizing", r, "authorizing")
     \/ /\ aborted /\ r # "aborts"
        /\ report' = "authorizing"
        /\ Fail(IF r = "throws" THEN "configuration" ELSE "signal")
        /\ UNCHANGED aborted
  /\ Hears(r, listener)
  /\ UNCHANGED <<timer, flow, world>>

-----------------------------------------------------------------------------
(* Provider transfer: uploadWithRetry *)

\* The next turn of the loop: createRequest() and, if it returns an acceptable
\* Request, the transfer.
Transfer ==
  \/ StopHere
  \/ ~Stopped /\ RefusesRequest
  \/ /\ ~Stopped
     /\ attempt' = attempt + 1
     /\ transfer' = [transfer EXCEPT ![attempt + 1] = "pending"]
     /\ answer' = "none"
     /\ demand' = "none"
     /\ phase' = "transferring"
     /\ Silent
     /\ UNCHANGED <<aborted, listener, timer, completions, world, result>>

\* authorize() has answered, with something validatePreparedUpload refuses or
\* with a prepared upload.
Authorized ==
  /\ phase = "authorized"
  /\ RefusesAuthorization \/ Transfer

\* The retry delay is over.
NextAttempt == phase = "waited" /\ Transfer

\* The provider stores the file of a request that reached it, whether or not
\* anybody still waits for its answer.
Store(a) ==
  /\ transfer[a] = "pending"
  /\ stored' = stored \cup {a}
  /\ Silent
  /\ UNCHANGED <<aborted, listener, timer, phase, flow, replaySafe, result>>

\* Mutant: a transport that was given up still reaches the callback.
ReportUngated(a, r) ==
  /\ transfer[a] = "pending"
  /\ phase \notin Queued
  /\ IF phase = "transferring" THEN Announce("uploading", r, "transferring")
     ELSE report' = "uploading" /\ UNCHANGED <<aborted, phase, result>>
  /\ Hears(r, listener)
  /\ UNCHANGED <<timer, flow, world>>

\* The transport of attempt a reports progress, which ends at the signal.  It
\* stops the transfer and rejects if the callback throws.
Report(a, r) ==
  /\ transfer[a] = "pending"
  /\ phase \notin Queued
  /\ ~Stopped
  /\ Announce("uploading", r, "transferring")
  /\ Hears(r, listener)
  /\ transfer' = [transfer EXCEPT ![a] = IF r = "throws" THEN "failed" ELSE @]
  /\ UNCHANGED <<timer, attempt, answer, demand, completions, world>>

\* The awaited transfer resolves.  The provider answers ok only for a file it
\* stored; a transport of the application may resolve with something else.
Answer(kind) ==
  /\ phase = "transferring"
  /\ kind = "ok" => attempt \in stored
  /\ transfer' = [transfer EXCEPT ![attempt] = IF kind = "malformed" THEN "released"
                                               ELSE "open"]
  /\ answer' = kind
  /\ phase' = "answered"
  /\ Silent
  /\ UNCHANGED <<aborted, listener, timer, attempt, demand, completions, world, result>>

\* A transfer nobody waits for resolves (its response is cancelled) or rejects.
AnswerLate(a, outcome) ==
  /\ transfer[a] = "pending"
  /\ ~(phase = "transferring" /\ a = attempt)
  /\ phase \notin Queued
  /\ outcome \in {"released", "failed"}
  /\ transfer' = [transfer EXCEPT ![a] = outcome]
  /\ Silent
  /\ UNCHANGED <<aborted, listener, timer, phase, attempt, answer, demand, completions,
                 world, result>>

\* The awaited transfer rejects: the connection fails, before or after the
\* provider stored the file, or the transport throws a ZdpUploadError.
TransferFails ==
  /\ phase = "transferring"
  /\ transfer' = [transfer EXCEPT ![attempt] = "failed"]
  /\ \/ phase' = "broken" /\ UNCHANGED result
     \/ Fail("configuration")
  /\ Silent
  /\ UNCHANGED <<aborted, listener, timer, attempt, answer, demand, completions, world>>

\* Mutant: the body of an answer that came too late is left to itself.
LeaveBody == UNCHANGED transfer

\* The body of the current answer is cancelled.
CancelBody ==
  transfer' = [transfer EXCEPT ![attempt] = IF @ = "open" THEN "released" ELSE @]

\* The transfer resolved, but the upload was stopped before its continuation ran.
AnswerStopped ==
  /\ phase = "answered"
  /\ Stopped
  /\ Fail(StopCause)
  /\ CancelBody
  /\ Silent
  /\ UNCHANGED <<aborted, listener, timer, attempt, answer, demand, completions, world>>

AnswerMalformed ==
  /\ phase = "answered"
  /\ ~Stopped
  /\ answer = "malformed"
  /\ Throw("protocol")

\* Mutant: response.ok is not looked at.
AcceptAnything(r) ==
  /\ phase = "answered"
  /\ ~Stopped
  /\ answer # "malformed"
  /\ Announce("uploading", r, "accepting")
  /\ Hears(r, listener)
  /\ CancelBody
  /\ UNCHANGED <<timer, attempt, answer, demand, completions, world>>

\* The provider accepted the file.  Its answer's body is cancelled, by the catch
\* block if the callback throws, and the cancellation awaited.
Accept(r) ==
  /\ phase = "answered"
  /\ ~Stopped
  /\ answer = "ok"
  /\ Announce("uploading", r, "accepting")
  /\ Hears(r, listener)
  /\ CancelBody
  /\ UNCHANGED <<timer, attempt, answer, demand, completions, world>>

\* It did not, and may have asked for a delay.
Reject(d) ==
  /\ phase = "answered"
  /\ ~Stopped
  /\ answer \in {"retryable", "refused"}
  /\ demand' = d
  /\ phase' = "rejecting"
  /\ CancelBody
  /\ Silent
  /\ UNCHANGED <<aborted, listener, timer, attempt, answer, completions, world, result>>

\* abortableDelay: a delay of zero is over at once.
Pause(delayed) ==
  /\ demand = "within" => delayed
  /\ phase' = IF delayed THEN "backoff" ELSE "waited"
  /\ UNCHANGED result

\* Mutant: the declaration of the authorization is ignored.
MayReplayAnything == attempt < MaxAttempts

MayReplay == replaySafe /\ attempt < MaxAttempts

RetriesAnswer == MayReplay /\ answer = "retryable" /\ demand # "over"

\* The body of a refusal is cancelled: wait and retry, or give up.  If the upload
\* has been stopped meanwhile only a delay above zero notices.
AfterRejection(delayed) ==
  /\ phase = "rejected"
  /\ \/ RetriesAnswer /\ ~(delayed /\ Stopped) /\ Pause(delayed)
     \/ RetriesAnswer /\ delayed /\ Stopped /\ Fail("signal")
     \/ ~RetriesAnswer /\ Fail("refused")
  /\ Silent
  /\ UNCHANGED <<aborted, listener, timer, flow, world>>

\* The catch block of uploadWithRetry, for a transfer that rejected.
AfterFailure(delayed) ==
  /\ phase = "broken"
  /\ \/ Stopped /\ Fail(StopCause)
     \/ ~Stopped /\ MayReplay /\ Pause(delayed)
     \/ ~Stopped /\ ~MayReplay /\ Fail("lost")
  /\ Silent
  /\ UNCHANGED <<aborted, listener, timer, flow, world>>

-----------------------------------------------------------------------------
(* Completion and the end of the upload *)

\* Mutant: complete() is called although the upload was stopped meanwhile.
CompleteUnchecked(r) ==
  /\ phase = "accepted"
  /\ Announce("completing", r, "completing")
  /\ Hears(r, listener)
  /\ completions' = IF r = "throws" THEN completions ELSE completions + 1
  /\ UNCHANGED <<timer, attempt, transfer, answer, demand, world>>

\* complete() is called, also if the callback announcing it aborts.
Complete(r) ==
  /\ phase = "accepted"
  /\ \/ StopHere
     \/ /\ ~Stopped
        /\ Announce("completing", r, "completing")
        /\ Hears(r, listener)
        /\ completions' = IF r = "throws" THEN completions ELSE completions + 1
        /\ UNCHANGED <<timer, attempt, transfer, answer, demand, world>>

\* upload()'s finally.
Cleanup ==
  /\ timer' = IF timer = "armed" THEN "off" ELSE timer
  /\ listener' = FALSE

\* complete() has answered: validateCompletion refuses it, or the upload was
\* stopped meanwhile, or it is reported as completed and the result returned.
Conclude(r) ==
  /\ phase = "completed"
  /\ \/ RefusesCompletion
     \/ StopHere
     \/ /\ ~Stopped
        /\ r = "throws"
        /\ report' = "completed"
        /\ Fail("configuration")
        /\ UNCHANGED <<aborted, listener, timer, flow, world>>
     \/ /\ ~Stopped
        /\ r # "throws"
        /\ r = "aborts" => Signalled
        /\ report' = "completed"
        /\ aborted' = (r = "aborts")
        /\ phase' = "done"
        /\ result' = "success"
        /\ Cleanup
        /\ UNCHANGED <<flow, world>>

\* Mutant: an error of the host is taken for an abort whenever one is possible.
ClassifiedBySignal ==
  IF result \in UploadErrors THEN result
  ELSE IF Signalled THEN "aborted" ELSE "timeout"

\* What upload()'s catch throws.
Classified ==
  IF result \in UploadErrors THEN result ELSE IF Stopped THEN StopCause ELSE "host"

Catch ==
  /\ phase = "failing"
  /\ phase' = "done"
  /\ result' = Classified
  /\ Cleanup
  /\ Silent
  /\ UNCHANGED <<aborted, flow, world>>

-----------------------------------------------------------------------------
(* Timers and the caller's abort *)

DelayElapses ==
  /\ phase = "backoff"
  /\ phase' = "waited"
  /\ Silent
  /\ UNCHANGED <<aborted, listener, timer, flow, world, result>>

\* Mutant: the timeout covers the transfer only.
TimerFiresInTransfer ==
  /\ timer = "armed"
  /\ phase = "transferring"
  /\ timer' = "fired"
  /\ Fail("signal")
  /\ Silent
  /\ UNCHANGED <<aborted, listener, flow, world>>

TimerFires ==
  /\ timer = "armed"
  /\ phase \in Awaiting
  /\ timer' = "fired"
  /\ Fail("signal")
  /\ Silent
  /\ UNCHANGED <<aborted, listener, flow, world>>

\* Mutant: only a transfer listens to the caller.
AbortInTransfer ==
  /\ phase # "announced"
  /\ Signalled
  /\ ~aborted
  /\ aborted' = TRUE
  /\ listener' = FALSE
  /\ \/ phase = "transferring" /\ Fail("signal")
     \/ phase # "transferring" /\ UNCHANGED <<phase, result>>
  /\ Silent
  /\ UNCHANGED <<timer, flow, world>>

\* The caller aborts between two steps, which rejects the one that is pending, if the
\* merged signal hears of it, but not one that has just resolved.
Abort ==
  /\ phase # "announced"
  /\ Signalled
  /\ ~aborted
  /\ aborted' = TRUE
  /\ listener' = FALSE
  /\ \/ listener /\ phase \in Awaiting /\ Fail("signal")
     \/ ~(listener /\ phase \in Awaiting) /\ UNCHANGED <<phase, result>>
  /\ Silent
  /\ UNCHANGED <<timer, flow, world>>

-----------------------------------------------------------------------------
Microtask ==
  \/ \E r \in Reactions : Hashed(r) \/ Authorize(r)
  \/ \E r \in Reactions : Accept(r) \/ Complete(r) \/ Conclude(r)
  \/ Authorized
  \/ NextAttempt
  \/ AnswerStopped
  \/ AnswerMalformed
  \/ \E d \in Demands : Reject(d)
  \/ \E delayed \in BOOLEAN : AfterRejection(delayed) \/ AfterFailure(delayed)
  \/ Catch

Timer == TimerFires \/ DelayElapses

\* Callbacks of the application, the transport and the provider.
Environment ==
  \/ \E r \in Reactions, next \in {"hashing", "hashed"} : Start(r, next)
  \/ Refuse
  \/ StepResolves
  \/ \E cause \in {"host", "protocol"} : StepRejects(cause)
  \/ \E a \in Attempts : Store(a)
  \/ \E a \in Attempts, r \in Reactions : Report(a, r)
  \/ \E kind \in {"ok", "retryable", "refused", "malformed"} : Answer(kind)
  \/ \E a \in Attempts, o \in {"released", "failed"} : AnswerLate(a, o)
  \/ TransferFails

\* The upload has settled: nothing is left that must happen.
Quiet ==
  /\ phase = "done"
  /\ Silent
  /\ UNCHANGED <<aborted, listener, timer, phase, flow, world, result>>

Next == Microtask \/ Timer \/ Environment \/ Abort \/ Quiet

Spec == Init /\ [][Next]_vars

\* The event loop runs queued microtasks; nothing is assumed of callbacks,
\* transport, provider or the caller, nor, unless a property says so, of timers.
FairSpec == Spec /\ WF_vars(Microtask)

\* Due timers fire.
TimersFire == WF_vars(Timer)

-----------------------------------------------------------------------------
(* Safety *)

\* A file is sent again only under an authorization that declares the request
\* replay-safe, so at most one copy is stored otherwise (MayReplay in both retry
\* branches of uploadWithRetry), and not after a Retry-After beyond maxDelayMs.
ReplayOnlyIfSafe ==
  /\ ~replaySafe => attempt <= 1 /\ Cardinality(stored) <= 1
  /\ demand = "over" => phase \notin {"transferring", "backoff", "waited"}

\* complete() is called at most once, and only for a file the provider stored and
\* acknowledged in the attempt that is current.
CompletesStored ==
  /\ completions <= 1
  /\ completions = 1 =>
       answer = "ok" /\ attempt \in stored /\ transfer[attempt] = "released"

\* Every response is cancelled, those that come late or find the upload stopped
\* included: one is open only until its continuation runs.  A settled upload has
\* neither a listener on the caller's signal nor an armed timer.
NothingLeftBehind ==
  /\ \A a \in Attempts : transfer[a] = "open" => a = attempt /\ phase = "answered"
  /\ phase = "done" => ~listener /\ timer # "armed"

\* What a settled upload reports is what happened.
TruthfulOutcome ==
  phase = "done" =>
    /\ result \in Outcomes
    /\ result = "success" => completions = 1
    /\ result = "refused" => answer \in {"retryable", "refused"}
    /\ result = "lost" => transfer[attempt] = "failed"
    /\ result \in {"refused", "lost"} => completions = 0
    /\ result = "aborted" => aborted
    /\ result = "timeout" => timer = "fired"

\* A step that finds the upload stopped when it looks starts nothing more: neither the
\* call of authorize(), nor a transfer, nor complete(), although promises resolved before
\* it.  What its own callback aborts after the look does not hold it back.
NothingStartedAfterStop ==
  [][\/ attempt' # attempt
     \/ completions' # completions
     \/ phase' = "announced" /\ phase # "announced"
     => ~Stopped]_vars

\* Progress events belong to what the upload is doing, and end with it: not from a
\* transport that was given up, not after a timeout, and after an abort only the second of
\* the two events of one step, when the callback aborts at the first.
ReportsAreCurrent ==
  [][report' # "none" =>
       /\ phase # "done"
       /\ Stopped => phase = "announced" /\ report' = "authorizing" /\ timer # "fired"
       /\ report' = "uploading" => phase \in {"transferring", "answered"}
       /\ report' = "completed" => completions = 1]_vars

-----------------------------------------------------------------------------
(* Liveness *)

\* The one timeout, if timers fire, ends the upload whatever callback, transport or
\* cancellation hangs; an abort settles it, also if no timer ever fires.
UploadSettles ==
  /\ TimersFire => (phase # "idle" ~> phase = "done")
  /\ aborted /\ phase # "idle" ~> phase = "done"

-----------------------------------------------------------------------------
(* Refinement: the promise of UploadPromise *)

stage ==
  IF phase \in {"idle", "done"} THEN phase
  ELSE IF completions > 0 THEN "completing"
  ELSE IF attempt > 0 THEN "sending"
  ELSE "preparing"

outcome == IF phase = "done" THEN result ELSE "none"

Promise == INSTANCE UploadPromise
  WITH limit <- IF replaySafe THEN MaxAttempts ELSE 1, sent <- attempt

\* The order of the steps, transfers within the limit of the authorization, success only
\* after complete(), one outcome that is never replaced (UploadPromise).
KeepsPromise == Promise!Spec
=============================================================================
