----------------------------- MODULE CouponUsage ----------------------------
(***************************************************************************)
(* createServerCouponUsageClient (src/server-coupon-usage/client.ts): one  *)
(* durable coupon usage that a product server captures, and compensates if *)
(* its own work failed, by attempts that never retry by themselves.  The   *)
(* Money service, which the client reaches only through requests, keeps    *)
(* the usage idempotent; requests of abandoned attempts still reach it.    *)
(*                                                                         *)
(* A step is what runs between two awaits; an attempt in a Queued phase    *)
(* has a microtask waiting, which nothing but other microtasks, the        *)
(* application's abort among them, can run ahead of.                       *)
(***************************************************************************)
EXTENDS Naturals, FiniteSets

CONSTANTS
  Captures,       \* the attempts made with capture()
  Compensations   \* the attempts made with compensate()

Attempts == Captures \cup Compensations

ASSUME ConstantsOK == Captures \cap Compensations = {}

VARIABLES
  money,      \* the usage at the service: held, settled or compensated
  saved,      \* the product has a confirmed capture receipt
  stopped,    \* what aborted the attempt's controller: nobody, caller, timeout
  preset,     \* the caller's signal had aborted before the attempt began
  timer,      \* the attempt's timeout is armed
  listener,   \* the attempt listens to the caller's signal
  phase,      \* what the attempt awaits, or which continuation is queued
  request,    \* its request: none, inflight, or handled by the service
  reply,      \* the service's answer: receipt, rejection, or neither
  body,       \* the response body: none, open or released
  result      \* what the attempt returned

vars == <<money, saved, stopped, preset, timer, listener, phase, request, reply,
          body, result>>

Awaiting == {"asking", "sending", "reading"}
Queued == {"asked", "delivered", "received", "read"}
Results == {"confirmed", "rejected", "unknown", "not_submitted", "configuration"}

\* The ranges of the variables.
TypeOK ==
  /\ money \in {"held", "settled", "compensated"}
  /\ saved \in BOOLEAN
  /\ stopped \in [Attempts -> {"nobody", "caller", "timeout"}]
  /\ preset \in [Attempts -> BOOLEAN]
  /\ timer \in [Attempts -> BOOLEAN]
  /\ listener \in [Attempts -> BOOLEAN]
  /\ phase \in [Attempts -> Awaiting \cup Queued \cup {"idle", "done"}]
  /\ request \in [Attempts -> {"none", "inflight", "handled"}]
  /\ reply \in [Attempts -> {"none", "receipt", "rejection", "neither"}]
  /\ body \in [Attempts -> {"none", "open", "released"}]
  /\ result \in [Attempts -> Results \cup {"none"}]

Init ==
  /\ money = "held"
  /\ saved = FALSE
  /\ stopped = [a \in Attempts |-> "nobody"]
  /\ preset \in [Attempts -> BOOLEAN]
  /\ timer = [a \in Attempts |-> FALSE]
  /\ listener = [a \in Attempts |-> FALSE]
  /\ phase = [a \in Attempts |-> "idle"]
  /\ request = [a \in Attempts |-> "none"]
  /\ reply = [a \in Attempts |-> "none"]
  /\ body = [a \in Attempts |-> "none"]
  /\ result = [a \in Attempts |-> "none"]

service == <<money, request, reply>>

Quiescent == \A a \in Attempts : phase[a] \notin Queued

Stopped(a) == stopped[a] # "nobody"

\* The attempt goes on to await or run something else.
Enter(a, p) ==
  /\ phase' = [phase EXCEPT ![a] = p]
  /\ UNCHANGED <<timer, listener, result>>

\* The attempt returns: send's finally clears the timer and the listener.
Settle(a, r) ==
  /\ phase' = [phase EXCEPT ![a] = "done"]
  /\ result' = [result EXCEPT ![a] = r]
  /\ timer' = [timer EXCEPT ![a] = FALSE]
  /\ listener' = [listener EXCEPT ![a] = FALSE]

\* Mutant: a failure is evidence that nothing happened.
FailureIsRollback(a) == "not_submitted"

\* What send's catch returns.
Failure(a) == IF request[a] = "none" THEN "not_submitted" ELSE "unknown"

\* The response is consumed or cancelled.
Release(a) == body' = [body EXCEPT ![a] = "released"]

-----------------------------------------------------------------------------
(* One attempt *)

\* Mutant: any compensation may begin.
MayBeginUnconfirmed(a) == TRUE

\* compensate() needs the receipt of a confirmed capture.
MayBegin(a) == a \in Compensations => saved

\* send up to its first await; with an aborted signal it returns at once.
Begin(a) ==
  /\ phase[a] = "idle"
  /\ MayBegin(a)
  /\ \/ /\ ~preset[a]
        /\ phase' = [phase EXCEPT ![a] = "asking"]
        /\ timer' = [timer EXCEPT ![a] = TRUE]
        /\ listener' = [listener EXCEPT ![a] = TRUE]
        /\ UNCHANGED <<stopped, result>>
     \/ /\ preset[a]
        /\ stopped' = [stopped EXCEPT ![a] = "caller"]
        /\ Settle(a, "not_submitted")
  /\ UNCHANGED <<service, saved, preset, body>>

\* The operation, or the receipt to compensate, is not acceptable: the call
\* throws before it does anything.
Refuse(a) ==
  /\ phase[a] = "idle"
  /\ Settle(a, "configuration")
  /\ UNCHANGED <<service, saved, stopped, preset, body>>

\* The credential callback answers.
CredentialGiven(a) ==
  /\ Quiescent
  /\ phase[a] = "asking"
  /\ Enter(a, "asked")
  /\ UNCHANGED <<service, saved, stopped, preset, body>>

\* It rejects, or gives no usable token.
CredentialRefused(a) ==
  /\ \/ Quiescent /\ phase[a] = "asking"
     \/ phase[a] = "asked"
  /\ Settle(a, "not_submitted")
  /\ UNCHANGED <<service, saved, stopped, preset, body>>

\* Mutant: the signal is not looked at between the credential and the request.
SubmitUnchecked(a) ==
  /\ phase[a] = "asked"
  /\ Enter(a, "sending")
  /\ request' = [request EXCEPT ![a] = "inflight"]
  /\ UNCHANGED <<money, reply, saved, stopped, preset, body>>

\* The one request of the attempt.
Submit(a) ==
  /\ phase[a] = "asked"
  /\ ~Stopped(a)
  /\ Enter(a, "sending")
  /\ request' = [request EXCEPT ![a] = "inflight"]
  /\ UNCHANGED <<money, reply, saved, stopped, preset, body>>

\* The attempt was stopped while its credential's continuation was queued.
StoppedBeforeSubmit(a) ==
  /\ phase[a] = "asked"
  /\ Stopped(a)
  /\ Settle(a, Failure(a))
  /\ UNCHANGED <<service, saved, stopped, preset, body>>

\* The service carries the request out.  Its effect is idempotent; the answer is
\* a receipt or one the client cannot verify.
Effect(a) ==
  IF a \in Captures THEN (IF money = "held" THEN "settled" ELSE money)
  ELSE (IF money = "settled" THEN "compensated" ELSE money)

Serve(a, answer) ==
  /\ request[a] = "inflight"
  /\ answer \in {"receipt", "neither"}
  /\ request' = [request EXCEPT ![a] = "handled"]
  /\ reply' = [reply EXCEPT ![a] = answer]
  /\ money' = Effect(a)
  /\ UNCHANGED <<saved, stopped, preset, timer, listener, phase, body, result>>

\* It refuses the request, or is not available.
Decline(a, answer) ==
  /\ request[a] = "inflight"
  /\ answer \in {"rejection", "neither"}
  /\ request' = [request EXCEPT ![a] = "handled"]
  /\ reply' = [reply EXCEPT ![a] = answer]
  /\ UNCHANGED <<money, saved, stopped, preset, timer, listener, phase, body, result>>

\* The transport resolves while it is awaited.
Deliver(a) ==
  /\ Quiescent
  /\ phase[a] = "sending"
  /\ request[a] = "handled"
  /\ Enter(a, "delivered")
  /\ body' = [body EXCEPT ![a] = "open"]
  /\ UNCHANGED <<service, saved, stopped, preset>>

\* Mutant: a response that comes after the abort is not cancelled.
DeliverLateOpen(a) ==
  /\ Quiescent
  /\ phase[a] = "done"
  /\ Stopped(a)
  /\ request[a] = "handled"
  /\ body[a] = "none"
  /\ body' = [body EXCEPT ![a] = "open"]
  /\ UNCHANGED <<service, saved, stopped, preset, timer, listener, phase, result>>

\* It resolves after the controller aborted: the response is cancelled.
DeliverLate(a) ==
  /\ Quiescent
  /\ phase[a] = "done"
  /\ Stopped(a)
  /\ request[a] = "handled"
  /\ body[a] = "none"
  /\ Release(a)
  /\ UNCHANGED <<service, saved, stopped, preset, timer, listener, phase, result>>

\* The transport rejects, whatever became of the request.
TransportFails(a) ==
  /\ Quiescent
  /\ phase[a] = "sending"
  /\ Settle(a, Failure(a))
  /\ UNCHANGED <<service, saved, stopped, preset, body>>

\* wait passes the response on, one microtask after the transport resolved.
HandOver(a) ==
  /\ phase[a] = "delivered"
  /\ Enter(a, "received")
  /\ UNCHANGED <<service, saved, stopped, preset, body>>

\* The response's headers are those of this request: its body is read.
StartReading(a) ==
  /\ phase[a] = "received"
  /\ ~Stopped(a)
  /\ Enter(a, "reading")
  /\ UNCHANGED <<service, saved, stopped, preset, body>>

\* They are not, or the attempt has been stopped, which readBody notices.
Discard(a) ==
  /\ phase[a] = "received"
  /\ Stopped(a) \/ reply[a] = "neither"
  /\ Settle(a, Failure(a))
  /\ Release(a)
  /\ UNCHANGED <<service, saved, stopped, preset>>

\* The last chunk is there.
ReadEnds(a) ==
  /\ Quiescent
  /\ phase[a] = "reading"
  /\ Enter(a, "read")
  /\ Release(a)
  /\ UNCHANGED <<service, saved, stopped, preset>>

\* The body breaks off or grows beyond maxResponseBytes.
ReadFails(a) ==
  /\ Quiescent
  /\ phase[a] = "reading"
  /\ Settle(a, Failure(a))
  /\ Release(a)
  /\ UNCHANGED <<service, saved, stopped, preset>>

\* Mutant: whatever is not a rejection is a receipt.
OutcomeTrusting(a) == IF reply[a] = "rejection" THEN "rejected" ELSE "confirmed"

\* What the body proves: a receipt of exactly this usage, a declared rejection,
\* or nothing.
Outcome(a) ==
  IF reply[a] = "receipt" THEN "confirmed"
  ELSE IF reply[a] = "rejection" THEN "rejected"
  ELSE "unknown"

\* The body is decoded and the result returned; the product saves a receipt.
Conclude(a) ==
  /\ phase[a] = "read"
  /\ Settle(a, Outcome(a))
  /\ saved' = (saved \/ (a \in Captures /\ Outcome(a) = "confirmed"))
  /\ UNCHANGED <<service, stopped, preset, body>>

-----------------------------------------------------------------------------
(* Timeout and abort *)

\* The controller aborts and the pending wait rejects: the attempt returns.  A
\* response whose hand-over is queued is lost, and its body with it.
Interrupt(a, by) ==
  /\ phase[a] \in Awaiting \cup {"delivered"}
  /\ stopped' = [stopped EXCEPT ![a] = by]
  /\ Settle(a, Failure(a))
  /\ body' = [body EXCEPT ![a] = IF phase[a] = "reading" THEN "released" ELSE @]
  /\ UNCHANGED <<service, saved, preset>>

\* Mutant: the timeout ends when the response is there.
TimerFiresUntilResponse(a) ==
  /\ Quiescent
  /\ timer[a]
  /\ phase[a] # "reading"
  /\ Interrupt(a, "timeout")

TimerFires(a) ==
  /\ Quiescent
  /\ timer[a]
  /\ Interrupt(a, "timeout")

\* The caller aborts; a continuation that is queued runs first.
Abort(a) ==
  /\ listener[a]
  /\ \/ Interrupt(a, "caller")
     \/ /\ phase[a] \in {"asked", "received", "read"}
        /\ stopped' = [stopped EXCEPT ![a] = "caller"]
        /\ listener' = [listener EXCEPT ![a] = FALSE]
        /\ UNCHANGED <<service, saved, preset, timer, phase, body, result>>

-----------------------------------------------------------------------------
Microtask(a) ==
  \/ CredentialRefused(a) /\ phase[a] = "asked"
  \/ Submit(a)
  \/ StoppedBeforeSubmit(a)
  \/ HandOver(a)
  \/ StartReading(a)
  \/ Discard(a)
  \/ Conclude(a)

\* Answers of the product, the transport and the service; none need ever come.
Environment(a) ==
  \/ Begin(a)
  \/ Refuse(a)
  \/ CredentialGiven(a)
  \/ CredentialRefused(a) /\ phase[a] = "asking"
  \/ \E answer \in {"receipt", "neither"} : Serve(a, answer)
  \/ \E answer \in {"rejection", "neither"} : Decline(a, answer)
  \/ Deliver(a)
  \/ DeliverLate(a)
  \/ TransportFails(a)
  \/ ReadEnds(a)
  \/ ReadFails(a)
  \/ Abort(a)

\* Every attempt has returned: nothing is left that must happen.
Quiet == (\A a \in Attempts : phase[a] = "done") /\ UNCHANGED vars

Next ==
  \/ \E a \in Attempts : Microtask(a) \/ TimerFires(a) \/ Environment(a)
  \/ Quiet

Spec == Init /\ [][Next]_vars

\* The event loop runs queued microtasks and fires due timers.
FairSpec ==
  Spec /\ \A a \in Attempts : WF_vars(Microtask(a)) /\ WF_vars(TimerFires(a))

-----------------------------------------------------------------------------
(* Safety *)

\* A confirmed result means that the service has carried the usage, or its
\* compensation, out; a rejection is one the service declared for this very
\* request (decodeReceipt and the spec.rejections lookup).
ConfirmedIsDone ==
  \A a \in Attempts :
    /\ result[a] = "confirmed" =>
         money \in IF a \in Captures THEN {"settled", "compensated"} ELSE {"compensated"}
    /\ result[a] = "rejected" => reply[a] = "rejection"

\* not_submitted is said only of an attempt whose request was never sent, so that
\* no late effect can contradict it; everything else that is not proven is unknown
\* ("not evidence of rollback").
NotSubmittedIsCertain ==
  \A a \in Attempts : result[a] \in {"not_submitted", "configuration"} =>
    request[a] = "none"

\* No compensation reaches the service for a usage it has not settled, even if
\* captures time out and are repeated.
CompensationFollowsCapture ==
  \A a \in Compensations : request[a] # "none" => money # "held"

\* A returned attempt has no timer, no listener on the caller's signal and, unless the
\* caller aborted it, no open response body, however late the response comes.
NothingLeftBehind ==
  \A a \in Attempts : phase[a] \in {"idle", "done"} =>
    /\ ~timer[a] /\ ~listener[a]
    /\ body[a] = "open" => stopped[a] = "caller"

\* Once its controller has aborted an attempt sends nothing, and once it returned
\* nothing late changes what it returned.
StoppedSendsNothing ==
  [][\A a \in Attempts :
       /\ request[a] = "none" /\ request'[a] # "none" => ~Stopped(a)
       /\ phase[a] = "done" => phase'[a] = "done" /\ result'[a] = result[a]]_vars

\* Every attempt returns, whatever credential callback, transport or body do.
AttemptsSettle ==
  \A a \in Attempts : phase[a] # "idle" ~> phase[a] = "done"

-----------------------------------------------------------------------------
(* What the test of late responses says *)

\* "cancels a late response even when an injected transport ignores abort": a
\* response the attempt no longer waits for is cancelled.
LateResponseCancelled ==
  \A a \in Attempts : phase[a] = "done" => body[a] # "open"
=============================================================================
