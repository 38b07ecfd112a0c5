----------------------------- MODULE TypedFetch -----------------------------
(***************************************************************************)
(* The call runtime of createZdpTypedFetchClient                           *)
(* (src/typed-fetch/client.ts): logical calls, each a bounded sequence of  *)
(* attempts, that share one caller AbortSignal and one JavaScript event    *)
(* loop.                                                                   *)
(*                                                                         *)
(* A step of the model is what runs between two awaits.  Timers, sockets   *)
(* and token providers complete in a macrotask, so they wait until no call *)
(* has a microtask queued (Quiescent); the application may abort its       *)
(* signal from any microtask.  Time is abstracted: a timer may fire in any *)
(* quiescent state in which it is armed.                                   *)
(***************************************************************************)
EXTENDS Naturals, FiniteSets

CONSTANTS
  Calls,              \* the logical calls made through one client
  Signalled,          \* the calls that pass the shared caller signal
  Requests,           \* the operations and options a call may be made with
  MaxAttempts,        \* the largest retry.maxAttempts configured
  FetchIgnoresAbort   \* may an injected fetch answer after its signal aborted?

RequestType ==
  [ wellFormed  : BOOLEAN,    \* encoding, ids, URL and numeric options are valid
    method      : {"GET", "POST"},
    idempotency : {"required_idempotency_key", "optional_idempotency_key",
                   "not_required"},
    explicitKey : BOOLEAN,    \* callOptions.idempotencyKey is given and not blank
    keyFactory  : {"absent", "value", "blank"},
    auth        : BOOLEAN,    \* operation.authRequired
    maxAttempts : Nat \ {0} ]

ASSUME ConstantsOK ==
  /\ Signalled \subseteq Calls
  /\ Requests \subseteq RequestType
  /\ MaxAttempts \in Nat \ {0}
  /\ \A r \in Requests : r.maxAttempts <= MaxAttempts
  /\ FetchIgnoresAbort \in BOOLEAN

VARIABLES
  aborted,     \* the caller's AbortController has aborted
  listeners,   \* <<call, kind>>: listeners registered on the caller signal
  phase,       \* what each call awaits, or which continuation is queued
  request,     \* what each call was made with
  attempt,     \* performFetchWithRetry's attempt
  timer,       \* the attempt's timeout: off, armed or fired
  token,       \* the access token: unasked, pending or answered
  prepared,    \* preparedInit is set
  builds,      \* how often request init (headers, token, body) was created
  queued,      \* the microtask that invokes fetch is queued
  sends,       \* fetch invocations so far
  exchange,    \* what became of each attempt's fetch and response body
  status,      \* the class of the current attempt's response status
  demand,      \* the wait the server asked for, against maxRetryAfterMs
  pause,       \* where the last retry delay came from
  result       \* cause of a failure, then its class, then the outcome

callVars == <<phase, request, attempt, timer, token, prepared, builds, queued,
              sends, exchange, status, demand, pause, result>>
vars == <<aborted, listeners, callVars>>

Attempts == 1..MaxAttempts
Phases == {"idle", "preparing", "fetching", "inspecting", "discarding",
           "reading", "resolved", "failing", "deciding", "backoff", "waited",
           "done"}
\* The phases in which awaitRequestStep races a pending operation with abort.
Awaiting == {"preparing", "fetching", "inspecting", "discarding", "reading"}
Settlements == {"data", "api", "protocol", "init", "body", "transport",
                "timeout", "aborted", "configuration"}
Statuses == {"success", "retryable", "failure"}

TypeOK ==
  /\ aborted \in BOOLEAN
  /\ listeners \subseteq Signalled \X {"merge", "wait"}
  /\ phase \in [Calls -> Phases]
  /\ request \in [Calls -> Requests]
  /\ attempt \in [Calls -> 0..MaxAttempts]
  /\ timer \in [Calls -> {"off", "armed", "fired"}]
  /\ token \in [Calls -> {"unasked", "pending", "answered"}]
  /\ prepared \in [Calls -> BOOLEAN]
  /\ builds \in [Calls -> Nat]
  /\ queued \in [Calls -> BOOLEAN]
  /\ sends \in [Calls -> Nat]
  /\ exchange \in [Calls -> [Attempts -> {"none", "pending", "failed", "open",
                                          "released"}]]
  /\ status \in [Calls -> Statuses \cup {"none"}]
  /\ demand \in [Calls -> {"none", "within", "over"}]
  /\ pause \in [Calls -> {"none", "backoff", "server"}]
  /\ result \in [Calls -> Settlements \cup {"none", "retry", "network", "signal"}]

-----------------------------------------------------------------------------
(* Request policy *)

\* resolveIdempotencyKey returns a key: the explicit one, or a generated one.
HasKey(r) ==
  \/ r.explicitKey
  \/ r.idempotency # "not_required" /\ r.keyFactory = "value"

\* resolveIdempotencyKey throws: a blank generated key, or none where required.
KeyRefused(r) ==
  /\ ~r.explicitKey
  /\ \/ r.idempotency # "not_required" /\ r.keyFactory = "blank"
     \/ r.idempotency = "required_idempotency_key" /\ r.keyFactory = "absent"

\* isRetrySafeOperation
RetrySafe(r) ==
  \/ r.method = "GET"
  \/ r.idempotency # "not_required" /\ HasKey(r)

Budget(r) == IF RetrySafe(r) THEN r.maxAttempts ELSE 1

\* The caller signal of c has aborted.
Aborted(c) == aborted /\ c \in Signalled

-----------------------------------------------------------------------------
(* The event loop *)

\* createRequestInit has its headers, so its continuation is queued.
InitReady(c) ==
  /\ phase[c] = "preparing"
  /\ prepared[c] \/ ~request[c].auth

Quiescent ==
  \A c \in Calls :
    /\ ~queued[c]
    /\ phase[c] \notin {"resolved", "failing", "deciding", "waited"}
    /\ ~InitReady(c)

\* Mutant: a retry wait does not listen to the caller signal.
ListenInAttemptsOnly(c, kind) ==
  IF c \in Signalled /\ kind = "merge" THEN listeners \cup {<<c, kind>>} ELSE listeners

Listen(c, kind) ==
  IF c \in Signalled THEN listeners \cup {<<c, kind>>} ELSE listeners

Init ==
  /\ aborted = FALSE
  /\ listeners = {}
  /\ phase = [c \in Calls |-> "idle"]
  /\ request \in [Calls -> Requests]
  /\ attempt = [c \in Calls |-> 0]
  /\ timer = [c \in Calls |-> "off"]
  /\ token = [c \in Calls |-> "unasked"]
  /\ prepared = [c \in Calls |-> FALSE]
  /\ builds = [c \in Calls |-> 0]
  /\ queued = [c \in Calls |-> FALSE]
  /\ sends = [c \in Calls |-> 0]
  /\ exchange = [c \in Calls |-> [a \in Attempts |-> "none"]]
  /\ status = [c \in Calls |-> "none"]
  /\ demand = [c \in Calls |-> "none"]
  /\ pause = [c \in Calls |-> "none"]
  /\ result = [c \in Calls |-> "none"]

-----------------------------------------------------------------------------
(* One attempt: performFetch up to its first await *)

\* Mutant: only the first attempt has a timeout.
ArmTimeoutOnce(c) ==
  timer' = [timer EXCEPT ![c] = IF attempt[c] = 0 THEN "armed" ELSE @]

ArmTimeout(c) == timer' = [timer EXCEPT ![c] = "armed"]

\* createRequestInit, unless an earlier attempt has left its result.
CreateInit(c) ==
  /\ builds' = [builds EXCEPT ![c] = IF prepared[c] THEN @ ELSE @ + 1]
  /\ token' = [token EXCEPT ![c] = IF request[c].auth /\ ~prepared[c]
                                   THEN "pending" ELSE @]

\* A fresh timeout and merged signal, then request init is awaited.
Suspend(c) ==
  /\ phase' = [phase EXCEPT ![c] = "preparing"]
  /\ result' = [result EXCEPT ![c] = "none"]
  /\ listeners' = Listen(c, "merge")
  /\ ArmTimeout(c)
  /\ CreateInit(c)

\* throwIfAborted before anything is used.
ThrowAborted(c) ==
  /\ phase' = [phase EXCEPT ![c] = "deciding"]
  /\ result' = [result EXCEPT ![c] = "aborted"]
  /\ UNCHANGED <<listeners, timer, builds, token>>

\* Mutant: the caller signal is not looked at before the attempt.
StartUnchecked(c) == Suspend(c)

StartAttempt(c) ==
  \/ ~Aborted(c) /\ Suspend(c)
  \/ Aborted(c) /\ ThrowAborted(c)

Acceptable(r) == r.wellFormed /\ ~KeyRefused(r)

\* The application calls an operation with a request the client accepts.
Call(c) ==
  /\ phase[c] = "idle"
  /\ Acceptable(request[c])
  /\ attempt' = [attempt EXCEPT ![c] = 1]
  /\ StartAttempt(c)
  /\ UNCHANGED <<aborted, request, prepared, queued, sends, exchange, status,
                 demand, pause>>

\* The call is rejected as a configuration error before anything happens.
Refuse(c) ==
  /\ phase[c] = "idle"
  /\ ~Acceptable(request[c])
  /\ phase' = [phase EXCEPT ![c] = "done"]
  /\ result' = [result EXCEPT ![c] = "configuration"]
  /\ UNCHANGED <<aborted, listeners, request, attempt, timer, token, prepared,
                 builds, queued, sends, exchange, status, demand, pause>>

\* The retry delay is over: the next turn of performFetchWithRetry's loop.
NextAttempt(c) ==
  /\ phase[c] = "waited"
  /\ attempt' = [attempt EXCEPT ![c] = @ + 1]
  /\ status' = [status EXCEPT ![c] = "none"]
  /\ demand' = [demand EXCEPT ![c] = "none"]
  /\ pause' = [pause EXCEPT ![c] = "none"]
  /\ StartAttempt(c)
  /\ UNCHANGED <<aborted, request, prepared, queued, sends, exchange>>

\* The pending step of c rejects with the given cause.
Fail(c, cause) ==
  /\ phase' = [phase EXCEPT ![c] = "failing"]
  /\ result' = [result EXCEPT ![c] = cause]

\* The token provider answers.  The assignment to preparedInit happens even
\* when nobody waits for it any more.
TokenGiven(c) ==
  /\ Quiescent
  /\ token[c] = "pending"
  /\ token' = [token EXCEPT ![c] = "answered"]
  /\ prepared' = [prepared EXCEPT ![c] = TRUE]
  /\ UNCHANGED <<aborted, listeners, phase, request, attempt, timer, builds,
                 queued, sends, exchange, status, demand, pause, result>>

\* The token is blank or the provider fails; nobody may be waiting.
TokenRefused(c) ==
  /\ Quiescent
  /\ token[c] = "pending"
  /\ token' = [token EXCEPT ![c] = "answered"]
  /\ phase' = [phase EXCEPT ![c] = IF @ = "preparing" THEN "failing" ELSE @]
  /\ result' = [result EXCEPT ![c] = IF phase[c] = "preparing" THEN "init" ELSE @]
  /\ UNCHANGED <<aborted, listeners, request, attempt, timer, prepared, builds,
                 queued, sends, exchange, status, demand, pause>>

\* Request init is there and the merged signal has not aborted.
Ready(c) ==
  /\ InitReady(c)
  /\ phase' = [phase EXCEPT ![c] = "fetching"]
  /\ prepared' = [prepared EXCEPT ![c] = TRUE]
  /\ queued' = [queued EXCEPT ![c] = TRUE]
  /\ UNCHANGED <<aborted, listeners, request, attempt, timer, token, builds,
                 sends, exchange, status, demand, pause, result>>

\* Creating request init throws without a token involved (a header value, the
\* body's serialization).
InitRejects(c) ==
  /\ InitReady(c)
  /\ ~prepared[c]
  /\ Fail(c, "init")
  /\ UNCHANGED <<aborted, listeners, request, attempt, timer, token, prepared,
                 builds, queued, sends, exchange, status, demand, pause>>

\* The queued microtask calls fetch, even if the signal aborted meanwhile.
Dispatch(c) ==
  /\ queued[c]
  /\ queued' = [queued EXCEPT ![c] = FALSE]
  /\ sends' = [sends EXCEPT ![c] = @ + 1]
  /\ exchange' = [exchange EXCEPT ![c][attempt[c]] = "pending"]
  /\ UNCHANGED <<aborted, listeners, phase, request, attempt, timer, token,
                 prepared, builds, status, demand, pause, result>>

\* The fetch of attempt a is the one performFetch still waits for.
Awaited(c, a) == phase[c] = "fetching" /\ a = attempt[c]

\* Mutants: the last retry is given up one attempt early; attempts are not counted.
InspectsOneLess(c, s) ==
  /\ RetrySafe(request[c])
  /\ attempt[c] + 1 < request[c].maxAttempts
  /\ s = "retryable"
InspectsEveryRetryable(c, s) == RetrySafe(request[c]) /\ s = "retryable"

\* consumeResponse looks for a server delay instead of decoding.
InspectsRetry(c, s) ==
  /\ RetrySafe(request[c])
  /\ attempt[c] < request[c].maxAttempts
  /\ s = "retryable"

\* The awaited fetch resolves.
Respond(c, s) ==
  /\ Quiescent
  /\ Awaited(c, attempt[c])
  /\ exchange[c][attempt[c]] = "pending"
  /\ exchange' = [exchange EXCEPT ![c][attempt[c]] = "open"]
  /\ status' = [status EXCEPT ![c] = s]
  /\ phase' = [phase EXCEPT ![c] = IF InspectsRetry(c, s) THEN "inspecting"
                                   ELSE "reading"]
  /\ UNCHANGED <<aborted, listeners, request, attempt, timer, token, prepared,
                 builds, queued, sends, demand, pause, result>>

\* A fetch nobody waits for resolves: discardLate cancels its response.
RespondLate(c, a) ==
  /\ Quiescent
  /\ FetchIgnoresAbort
  /\ ~Awaited(c, a)
  /\ exchange[c][a] = "pending"
  /\ exchange' = [exchange EXCEPT ![c][a] = "released"]
  /\ UNCHANGED <<aborted, listeners, phase, request, attempt, timer, token,
                 prepared, builds, queued, sends, status, demand, pause, result>>

\* The awaited fetch rejects.
FetchFails(c) ==
  /\ Quiescent
  /\ Awaited(c, attempt[c])
  /\ exchange[c][attempt[c]] = "pending"
  /\ exchange' = [exchange EXCEPT ![c][attempt[c]] = "failed"]
  /\ Fail(c, "network")
  /\ UNCHANGED <<aborted, listeners, request, attempt, timer, token, prepared,
                 builds, queued, sends, status, demand, pause>>

\* A fetch nobody waits for rejects, which is observed and dropped.
FetchFailsLate(c, a) ==
  /\ Quiescent
  /\ ~Awaited(c, a)
  /\ exchange[c][a] = "pending"
  /\ exchange' = [exchange EXCEPT ![c][a] = "failed"]
  /\ UNCHANGED <<aborted, listeners, phase, request, attempt, timer, token,
                 prepared, builds, queued, sends, status, demand, pause, result>>

-----------------------------------------------------------------------------
(* Consuming a response *)

\* readServerRetryDelayMs finds no delay or one within maxRetryAfterMs: the body
\* is cancelled at once and discardResponse awaited.
Inspected(c, d) ==
  /\ Quiescent
  /\ phase[c] = "inspecting"
  /\ demand' = [demand EXCEPT ![c] = d]
  /\ phase' = [phase EXCEPT ![c] = "discarding"]
  /\ exchange' = [exchange EXCEPT ![c][attempt[c]] = "released"]
  /\ UNCHANGED <<aborted, listeners, request, attempt, timer, token, prepared,
                 builds, queued, sends, status, pause, result>>

\* The server's delay exceeds the cap: the response is decoded instead.
InspectedOver(c) ==
  /\ Quiescent
  /\ phase[c] = "inspecting"
  /\ demand' = [demand EXCEPT ![c] = "over"]
  /\ phase' = [phase EXCEPT ![c] = "reading"]
  /\ UNCHANGED <<aborted, listeners, request, attempt, timer, token, prepared,
                 builds, queued, sends, exchange, status, pause, result>>

\* The cancellation of a retryable response's body settles, either way.
Discarded(c) ==
  /\ Quiescent
  /\ phase[c] = "discarding"
  /\ phase' = [phase EXCEPT ![c] = "resolved"]
  /\ result' = [result EXCEPT ![c] = "retry"]
  /\ UNCHANGED <<aborted, listeners, request, attempt, timer, token, prepared,
                 builds, queued, sends, exchange, status, demand, pause>>

\* decodeResponse yields the data of a success response.
Decoded(c) ==
  /\ Quiescent
  /\ phase[c] = "reading"
  /\ status[c] = "success"
  /\ exchange' = [exchange EXCEPT ![c][attempt[c]] = "released"]
  /\ phase' = [phase EXCEPT ![c] = "resolved"]
  /\ result' = [result EXCEPT ![c] = "data"]
  /\ UNCHANGED <<aborted, listeners, request, attempt, timer, token, prepared,
                 builds, queued, sends, status, demand, pause>>

\* decodeResponse throws: an API error; a protocol error for an oversized body,
\* invalid JSON, a bad envelope or a decoder's complaint; or the stream's error.
DecodeThrows(c, r) ==
  /\ Quiescent
  /\ phase[c] = "reading"
  /\ r = "api" => status[c] # "success"
  /\ exchange' = [exchange EXCEPT ![c][attempt[c]] = "released"]
  /\ Fail(c, r)
  /\ UNCHANGED <<aborted, listeners, request, attempt, timer, token, prepared,
                 builds, queued, sends, status, demand, pause>>

-----------------------------------------------------------------------------
(* Settling an attempt *)

\* performFetch's finally: clearTimeout and mergedSignal.cleanup.
Cleanup(c) ==
  /\ timer' = [timer EXCEPT ![c] = "off"]
  /\ listeners' = listeners \ {<<c, "merge">>}

\* performFetch returns an outcome.
Finish(c) ==
  /\ phase[c] = "resolved"
  /\ Cleanup(c)
  /\ phase' = [phase EXCEPT ![c] = IF result[c] = "data" THEN "done" ELSE "deciding"]
  /\ UNCHANGED <<aborted, request, attempt, token, prepared, builds, queued,
                 sends, exchange, status, demand, pause, result>>

\* Mutant: a timeout is taken for the caller's abort.
ClassifiedBySignal(c) ==
  IF timer[c] = "fired" \/ Aborted(c) THEN "aborted"
  ELSE IF result[c] = "network" THEN "transport"
  ELSE result[c]

\* The error performFetch throws for the cause its try block failed with.
Classified(c) ==
  IF timer[c] = "fired" THEN "timeout"
  ELSE IF Aborted(c) THEN "aborted"
  ELSE IF result[c] = "network" THEN "transport"
  ELSE result[c]

\* The body is cancelled, which a body read to its end does not notice.
CancelBody(c) ==
  exchange' = [exchange EXCEPT ![c][attempt[c]] = IF @ = "open" THEN "released" ELSE @]

\* performFetch's catch and finally.
Catch(c) ==
  /\ phase[c] = "failing"
  /\ ~queued[c]
  /\ Cleanup(c)
  /\ CancelBody(c)
  /\ result' = [result EXCEPT ![c] = Classified(c)]
  /\ phase' = [phase EXCEPT ![c] = "deciding"]
  /\ UNCHANGED <<aborted, request, attempt, token, prepared, builds, queued,
                 sends, status, demand, pause>>

\* Mutant: a transport error is retried whatever the operation.
RetriesAnyError(c) ==
  /\ prepared[c]
  /\ attempt[c] < request[c].maxAttempts
  /\ ~Aborted(c)
  /\ result[c] \in {"transport", "timeout"}

\* preparedInit is set and shouldRetryTransportError.
RetriesError(c) ==
  /\ prepared[c]
  /\ RetrySafe(request[c])
  /\ attempt[c] < request[c].maxAttempts
  /\ ~Aborted(c)
  /\ result[c] \in {"transport", "timeout"}

\* The attempt that just ended is followed by another one.
GoesOn(c) == IF result[c] = "retry" THEN ~Aborted(c) ELSE RetriesError(c)

\* waitForRetry: nothing to wait for a zero delay, otherwise a timer and, for a
\* caller signal, a listener.
WaitForRetry(c, delayed) ==
  /\ phase[c] = "deciding"
  /\ GoesOn(c)
  /\ pause' = [pause EXCEPT ![c] = IF result[c] = "retry" /\ demand[c] = "within"
                                   THEN "server" ELSE "backoff"]
  /\ phase' = [phase EXCEPT ![c] = IF delayed THEN "backoff" ELSE "waited"]
  /\ listeners' = IF delayed THEN Listen(c, "wait") ELSE listeners
  /\ UNCHANGED <<aborted, request, attempt, timer, token, prepared, builds,
                 queued, sends, exchange, status, demand, result>>

\* The call throws: waitForRetry finds the signal aborted, or the error of the
\* attempt is not retried.
Throw(c) ==
  /\ phase[c] = "deciding"
  /\ ~GoesOn(c)
  /\ phase' = [phase EXCEPT ![c] = "done"]
  /\ result' = [result EXCEPT ![c] = IF @ = "retry" THEN "aborted" ELSE @]
  /\ UNCHANGED <<aborted, listeners, request, attempt, timer, token, prepared,
                 builds, queued, sends, exchange, status, demand, pause>>

-----------------------------------------------------------------------------
(* Timers and the caller's abort *)

\* The retry timer fires.
BackoffElapses(c) ==
  /\ Quiescent
  /\ phase[c] = "backoff"
  /\ phase' = [phase EXCEPT ![c] = "waited"]
  /\ listeners' = listeners \ {<<c, "wait">>}
  /\ UNCHANGED <<aborted, request, attempt, timer, token, prepared, builds,
                 queued, sends, exchange, status, demand, pause, result>>

\* The attempt's timeout fires: its signal, and with it the merged one, aborts.
TimerFires(c) ==
  /\ Quiescent
  /\ timer[c] = "armed"
  /\ timer' = [timer EXCEPT ![c] = "fired"]
  /\ listeners' = listeners \ {<<c, "merge">>}
  /\ Fail(c, "signal")
  /\ UNCHANGED <<aborted, request, attempt, token, prepared, builds, queued,
                 sends, exchange, status, demand, pause>>

\* The caller aborts.  Only what listens to the signal hears of it: a merged
\* signal rejects the step that is pending, but not one that has just resolved;
\* a retry wait rejects the call.
Abort ==
  LET merged == {c \in Calls : <<c, "merge">> \in listeners /\ phase[c] \in Awaiting}
      waiting == {c \in Calls : <<c, "wait">> \in listeners}
  IN  /\ ~aborted
      /\ aborted' = TRUE
      /\ listeners' = {}
      /\ phase' = [c \in Calls |-> IF c \in merged THEN "failing"
                                   ELSE IF c \in waiting THEN "done" ELSE phase[c]]
      /\ result' = [c \in Calls |-> IF c \in merged THEN "signal"
                                    ELSE IF c \in waiting THEN "aborted" ELSE result[c]]
      /\ UNCHANGED <<request, attempt, timer, token, prepared, builds, queued,
                     sends, exchange, status, demand, pause>>

-----------------------------------------------------------------------------
Microtask(c) ==
  \/ Ready(c)
  \/ InitRejects(c)
  \/ Dispatch(c)
  \/ Finish(c)
  \/ Catch(c)
  \/ \E delayed \in BOOLEAN : WaitForRetry(c, delayed)
  \/ Throw(c)
  \/ NextAttempt(c)

Timer(c) == TimerFires(c) \/ BackoffElapses(c)

\* Answers from outside; none of them need ever come.
Environment(c) ==
  \/ Call(c)
  \/ Refuse(c)
  \/ TokenGiven(c)
  \/ TokenRefused(c)
  \/ \E s \in Statuses : Respond(c, s)
  \/ \E a \in Attempts : RespondLate(c, a)
  \/ FetchFails(c)
  \/ \E a \in Attempts : FetchFailsLate(c, a)
  \/ \E d \in {"none", "within"} : Inspected(c, d)
  \/ InspectedOver(c)
  \/ Discarded(c)
  \/ Decoded(c)
  \/ \E r \in {"api", "protocol", "body"} : DecodeThrows(c, r)

\* Every call has settled: there is nothing left that must happen.
Quiet == (\A c \in Calls : phase[c] = "done") /\ UNCHANGED vars

Next ==
  \/ \E c \in Calls : Microtask(c) \/ Timer(c) \/ Environment(c)
  \/ Abort
  \/ Quiet

Spec == Init /\ [][Next]_vars

\* The event loop runs queued microtasks; nothing is assumed of token providers,
\* fetch, response streams or the application, nor, unless a property says so, of
\* timers.
FairSpec == Spec /\ \A c \in Calls : WF_vars(Microtask(c))

\* Due timers fire.
TimersFire == \A c \in Calls : WF_vars(Timer(c))

-----------------------------------------------------------------------------
(* Safety *)

\* A request is sent again only if it may be: never more often than the retry
\* policy allows, and once for an operation that is not retry-safe
\* (isRetrySafeOperation and the attempt < maxAttempts tests).
RetriesAreSafe ==
  \A c \in Calls : sends[c] <= Budget(request[c])

\* Token, headers and body are produced at most once per call and nothing is
\* sent before they are: all attempts share one preparedInit.
OneInit ==
  \A c \in Calls : builds[c] <= 1 /\ (sends[c] > 0 => prepared[c])

\* While a call waits, the caller's abort can reach it (mergeAbortSignals and
\* waitForRetry register before they suspend).
Heard(c) ==
  c \in Signalled /\ ~aborted =>
    /\ phase[c] \in Awaiting => <<c, "merge">> \in listeners
    /\ phase[c] = "backoff" => <<c, "wait">> \in listeners
AbortIsHeard == \A c \in Calls : Heard(c)

\* Between attempts and after the call nothing of it is left on the caller
\* signal and no timeout is armed.
NothingLeftBehind ==
  \A c \in Calls :
    phase[c] \in {"idle", "deciding", "waited", "done"} =>
      /\ <<c, "merge">> \notin listeners /\ <<c, "wait">> \notin listeners
      /\ timer[c] = "off"

\* Every response is read to its end or cancelled, late ones included: one may
\* be open only while the attempt that got it consumes it.
BodyInHand(c) ==
  \A a \in Attempts :
    exchange[c][a] = "open" =>
      a = attempt[c] /\ phase[c] \in {"inspecting", "reading", "failing"}
NoBodyLeft == \A c \in Calls : BodyInHand(c)

\* A retryable status or a transport error reaches the application of a
\* retry-safe operation only when retrying was not possible any more.
GivesUpLast ==
  \A c \in Calls :
    /\ phase[c] = "done"
    /\ RetrySafe(request[c])
    /\ result[c] = "transport" \/ (result[c] = "api" /\ status[c] = "retryable")
    => \/ attempt[c] = request[c].maxAttempts
       \/ Aborted(c)
       \/ demand[c] = "over"

\* What a settled call reports is what happened to its last attempt.
TruthfulOutcome ==
  \A c \in Calls : phase[c] = "done" =>
    /\ result[c] \in {"data", "api"} =>
         /\ exchange[c][attempt[c]] = "released"
         /\ (status[c] = "success") <=> (result[c] = "data")
    /\ result[c] = "transport" => exchange[c][attempt[c]] = "failed"
    /\ result[c] = "aborted" => Aborted(c)
    /\ result[c] \in {"init", "configuration"} => sends[c] = 0
    /\ result[c] \in Settlements

\* A Retry-After beyond maxRetryAfterMs is never waited for nor overridden by a
\* shorter backoff, unless reading that very response ran into the timeout.
OverCapSurfaces ==
  \A c \in Calls :
    phase[c] \in {"backoff", "waited"} /\ demand[c] = "over" => result[c] = "timeout"

\* What late tokens, responses and aborts may do to a settled call: nothing.
SettledForGood ==
  [][\A c \in Calls : phase[c] = "done" =>
       /\ phase'[c] = "done"
       /\ result'[c] = result[c]
       /\ sends'[c] = sends[c] /\ queued'[c] = queued[c]
       /\ builds'[c] = builds[c]]_vars

\* Once the caller has aborted no further fetch is scheduled; one whose
\* microtask is already queued still runs.
NothingScheduledAfterAbort ==
  [][\A c \in Calls : queued'[c] /\ ~queued[c] => ~Aborted(c)]_vars

\* The wait the server asked for is kept: a call does not go on to its next
\* attempt after a shorter pause, nor at all beyond the cap.
RetryAfterHonoured ==
  \A c \in Calls : phase[c] = "waited" =>
    /\ demand[c] # "over"
    /\ demand[c] = "within" => pause[c] = "server"

-----------------------------------------------------------------------------
(* The inductive invariant behind the safety properties, part by part for each *)
(* call                                                                        *)

InAttempt == Awaiting \cup {"resolved", "failing"}

\* How far a call is, against the attempts and sends it has used.
Progress(c) ==
  /\ phase[c] = "idle" => attempt[c] = 0 /\ builds[c] = 0
  /\ attempt[c] = 0 => phase[c] \in {"idle", "done"}
  /\ attempt[c] <= request[c].maxAttempts
  /\ attempt[c] > 1 => RetrySafe(request[c])
  /\ sends[c] <= attempt[c]
  /\ queued[c] => \/ phase[c] = "fetching"
                  \/ phase[c] = "failing" /\ result[c] = "signal"
  /\ queued[c] \/ phase[c] = "preparing" => sends[c] < attempt[c]

\* A further attempt is on its way only where one is allowed.
RetryGranted(c) ==
  \/ phase[c] \in {"inspecting", "discarding", "backoff", "waited"}
  \/ phase[c] \in {"resolved", "deciding"} /\ result[c] = "retry"
  => RetrySafe(request[c]) /\ attempt[c] < request[c].maxAttempts /\ prepared[c]

\* When request init exists.
Preparation(c) ==
  /\ token[c] = "pending" => request[c].auth /\ ~prepared[c]
  /\ queued[c] \/ sends[c] > 0 => prepared[c]
  /\ phase[c] \in {"fetching", "inspecting", "discarding", "reading"} => prepared[c]
  /\ builds[c] <= 1

\* Listeners and timers belong to the phase that needs them.
Registrations(c) ==
  /\ <<c, "merge">> \in listeners => phase[c] \in InAttempt
  /\ <<c, "wait">> \in listeners => phase[c] = "backoff"
  /\ timer[c] # "off" => phase[c] \in InAttempt
  /\ timer[c] = "fired" => phase[c] = "failing"

\* After the abort the call does not suspend again.
AbortedStops(c) ==
  Aborted(c) => phase[c] \notin Awaiting \cup {"backoff"}

\* What a call can fail, decide and settle with.
Causes(c) ==
  /\ phase[c] \in Awaiting => result[c] = "none"
  /\ phase[c] = "resolved" => result[c] \in {"data", "retry"}
  /\ phase[c] = "failing" =>
       /\ result[c] \in {"signal", "network", "init", "body", "api", "protocol"}
       /\ result[c] = "signal" => timer[c] = "fired" \/ Aborted(c)
  /\ phase[c] = "deciding" => result[c] \in Settlements \cup {"retry"}
  /\ phase[c] \in {"backoff", "waited"} => result[c] \in {"retry", "transport", "timeout"}
  /\ phase[c] = "done" => result[c] \in Settlements

\* What happened to the attempt whose result a call carries.
Evidence(c) ==
  /\ result[c] \in {"data", "api"} =>
       /\ attempt[c] > 0 /\ exchange[c][attempt[c]] = "released"
       /\ (status[c] = "success") <=> (result[c] = "data")
  /\ result[c] \in {"network", "transport"} =>
       prepared[c] /\ attempt[c] > 0 /\ exchange[c][attempt[c]] = "failed"
  /\ result[c] = "aborted" => Aborted(c)
  /\ result[c] \in {"init", "configuration"} => sends[c] = 0 /\ ~queued[c]

\* Why a retryable response is decoded, or a transport error is final, although
\* the call is retry-safe.
Exhausted(c) ==
  RetrySafe(request[c]) =>
    /\ (phase[c] = "reading" \/ result[c] = "api") /\ status[c] = "retryable" =>
         attempt[c] = request[c].maxAttempts \/ demand[c] = "over"
    /\ phase[c] = "done" /\ result[c] = "transport" =>
         attempt[c] = request[c].maxAttempts \/ Aborted(c)

\* A response whose delay exceeds the cap is being, or has been, decoded.
OverCap(c) ==
  demand[c] = "over" =>
    /\ phase[c] \notin {"idle", "preparing", "fetching", "inspecting", "discarding"}
    /\ result[c] \notin {"retry", "network", "transport"}

Local(c) ==
  /\ Progress(c) /\ RetryGranted(c) /\ Preparation(c) /\ Registrations(c)
  /\ Heard(c) /\ AbortedStops(c) /\ BodyInHand(c)
  /\ Causes(c) /\ Evidence(c) /\ Exhausted(c) /\ OverCap(c)

IInv == TypeOK /\ \A c \in Calls : Local(c)

-----------------------------------------------------------------------------
(* Liveness *)

\* Every call settles if timers fire, even if token provider, fetch and body never
\* answer; an abort settles it, also if no timer ever fires.
CallsSettle ==
  /\ TimersFire => \A c \in Calls : phase[c] # "idle" ~> phase[c] = "done"
  /\ \A c \in Calls : Aborted(c) /\ phase[c] # "idle" ~> phase[c] = "done"

-----------------------------------------------------------------------------
(* Refinement: the promise of RetriedCall *)

stage ==
  [c \in Calls |-> IF phase[c] \in {"idle", "done"} THEN phase[c]
                  ELSE IF phase[c] \in {"backoff", "waited"} THEN "pausing"
                  ELSE "trying"]
outcome == [c \in Calls |-> IF phase[c] = "done" THEN result[c] ELSE "none"]

Promise == INSTANCE RetriedCall
  WITH Outcomes <- Settlements,
       limit <- [c \in Calls |-> Budget(request[c])],
       tries <- attempt

\* Tries within the limit fixed before the first one, a pause between two tries, one
\* outcome that is never replaced (RetriedCall).
KeepsPromise == Promise!Spec
=============================================================================
