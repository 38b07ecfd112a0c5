---------------------------- MODULE ResponseBody -----------------------------
(***************************************************************************)
(* What the call runtime of src/typed-fetch/client.ts does with the body   *)
(* of a response, and how long it waits before a retry, composed with      *)
(* TypedFetch: each of its steps is a step here or leaves it alone.        *)
(*                                                                         *)
(* A retryable response is cloned to look for retry_after_seconds.  The    *)
(* clone and the response itself are two branches of one stream from the   *)
(* network, which is given up only when both are; a branch that is being   *)
(* read is locked and refuses to be cancelled except by its reader.  Bytes *)
(* and milliseconds are small numbers; a body that is null is one that     *)
(* ends at once.                                                           *)
(***************************************************************************)
EXTENDS TypedFetch, Integers

CONSTANTS
  MaxBytes,       \* maxResponseBodyBytes
  Chunks,         \* lengths of the chunks that a stream delivers
  MaxTimer,       \* MAX_TIMER_DELAY_MS, the longest delay that setTimeout knows
  SecondMs,       \* milliseconds of a second
  Seconds,        \* the seconds that Retry-After or retry_after_seconds may ask for
  Dates,          \* milliseconds from now to a Retry-After date, negative in the past
  RetryAfterCap,  \* retry.maxRetryAfterMs
  BaseDelay,      \* retry.baseDelayMs
  MaxDelay        \* retry.maxDelayMs

\* resolveRetryPolicy and validateMaxResponseBodyBytes
ASSUME LimitsOK ==
  /\ MaxBytes \in Nat \ {0} /\ Chunks \subseteq Nat \ {0}
  /\ MaxTimer \in Nat /\ SecondMs \in Nat \ {0} /\ Seconds \subseteq Nat /\ Dates \subseteq Int
  /\ RetryAfterCap \in 0..MaxTimer /\ MaxDelay \in 0..MaxTimer /\ BaseDelay \in 0..MaxDelay

VARIABLES
  main,       \* the body of the response of each call's current attempt
  copy,       \* the body of its clone
  reader,     \* the read that a reader of one of them waits for
  received,   \* the bytes that reader has got
  demanded,   \* the wait the server asked for, and what the client makes of it
  wait        \* the delay that waitForRetry was called with

bodyVars == <<main, copy, reader, received>>
delayVars == <<demanded, wait>>
allVars == <<vars, bodyVars, delayVars>>

Branches == {"none", "open", "locked", "closed", "cancelled"}
Given(branch) == branch \in {"none", "closed", "cancelled"}

\* The stream from the network is read to its end, has failed, or is cancelled.
SourceReleased(c) == Given(main[c]) /\ Given(copy[c])

\* ReadableStream.cancel: refused while there is a reader, without effect at the end.
Cancel(branch) == IF branch = "open" THEN "cancelled" ELSE branch

-----------------------------------------------------------------------------
(* Delays *)

\* Mutant: a delay beyond the timer's range becomes the longest one in it.
SecondsToLongest(s) == IF s * SecondMs > MaxTimer THEN MaxTimer ELSE s * SecondMs

\* secondsToMilliseconds: beyond the timer's range one more than any cap.
SecondsToMilliseconds(s) ==
  IF s * SecondMs > MaxTimer THEN MaxTimer + 1 ELSE s * SecondMs

ClampServerDelay(ms) == IF ms > MaxTimer THEN MaxTimer + 1 ELSE ms

FromZero(n) == IF n < 0 THEN 0 ELSE n

NoDemand == [asked |-> 0, delay |-> -1]
InSeconds == {[asked |-> s * SecondMs, delay |-> SecondsToMilliseconds(s)] : s \in Seconds}

\* parseRetryAfterHeaderMs, when it does not return null
InHeader == InSeconds \cup {[asked |-> FromZero(ms), delay |-> ClampServerDelay(FromZero(ms))] : ms \in Dates}

\* calculateBackoffDelayMs after the given attempt, for any value of Math.random.
Backoffs(n) == {d \in 0..MaxDelay : d <= BaseDelay * 2^FromZero(n - 1)}

Delays(c) ==
  IF result[c] = "retry" /\ demanded[c] # NoDemand THEN {demanded[c].delay}
  ELSE Backoffs(attempt[c])

-----------------------------------------------------------------------------
BodyInit ==
  /\ Init
  /\ main = [c \in Calls |-> "none"]
  /\ copy = [c \in Calls |-> "none"]
  /\ reader = [c \in Calls |-> "none"]
  /\ received = [c \in Calls |-> 0]
  /\ demanded = [c \in Calls |-> NoDemand]
  /\ wait = [c \in Calls |-> 0]

\* consumeResponse has yet to look at the response, or to decode it.
AtStart(c) == phase[c] \in {"inspecting", "reading"} /\ reader[c] = "none"

\* No microtask of a body is queued.
BodyQuiet == \A c \in Calls : ~AtStart(c) /\ reader[c] # "rejected"

\* The awaited fetch resolves with a fresh response.
ResponseOpens(c, s) ==
  /\ Respond(c, s)
  /\ main' = [main EXCEPT ![c] = "open"]
  /\ UNCHANGED <<copy, reader, received, delayVars>>

\* consumeResponse knows the server's delay, or that there is none: the response is
\* discarded, or decoded if the delay exceeds the cap.
Judge(c, d, cloned) ==
  /\ \/ d = NoDemand /\ Inspected(c, "none")
     \/ d # NoDemand /\ d.delay <= RetryAfterCap /\ Inspected(c, "within")
     \/ d.delay > RetryAfterCap /\ InspectedOver(c)
  /\ main' = [main EXCEPT ![c] = IF d.delay > RetryAfterCap THEN @ ELSE Cancel(@)]
  /\ copy' = [copy EXCEPT ![c] = cloned]
  /\ reader' = [reader EXCEPT ![c] = "none"]
  /\ received' = [received EXCEPT ![c] = 0]
  /\ demanded' = [demanded EXCEPT ![c] = d]
  /\ UNCHANGED wait

\* A Retry-After header says it, without a look at the body.
HeaderSays(c) ==
  /\ AtStart(c) /\ phase[c] = "inspecting"
  /\ \E d \in InHeader : Judge(c, d, "none")

\* The declared length of the clone is too large: it is cancelled unread.
CloneRefused(c) ==
  /\ AtStart(c) /\ phase[c] = "inspecting"
  /\ Judge(c, NoDemand, "cancelled")

CloneRead(c) ==
  /\ AtStart(c) /\ phase[c] = "inspecting"
  /\ copy' = [copy EXCEPT ![c] = "locked"]
  /\ reader' = [reader EXCEPT ![c] = "pending"]
  /\ UNCHANGED <<vars, main, received, delayVars>>

\* The response is decoded: its declared length is too large, or it is read.
MainRefused(c) ==
  /\ AtStart(c) /\ phase[c] = "reading"
  /\ copy[c] = "none"
  /\ DecodeThrows(c, "protocol")
  /\ main' = [main EXCEPT ![c] = Cancel(@)]
  /\ UNCHANGED <<copy, reader, received, delayVars>>

MainRead(c) ==
  /\ AtStart(c) /\ phase[c] = "reading"
  /\ main' = [main EXCEPT ![c] = "locked"]
  /\ reader' = [reader EXCEPT ![c] = "pending"]
  /\ UNCHANGED <<vars, copy, received, delayVars>>

-----------------------------------------------------------------------------
(* readBoundedResponseText: what the awaited read brings *)

Reads(c) == Quiescent /\ BodyQuiet /\ reader[c] = "pending"

\* decodeResponse ends for the given reason, with its branch as given.
Decodes(c, ending, branch) ==
  /\ ending
  /\ main' = [main EXCEPT ![c] = branch]
  /\ reader' = [reader EXCEPT ![c] = "none"]
  /\ UNCHANGED <<copy, received, delayVars>>

Chunk(c, n) ==
  /\ Reads(c)
  /\ received[c] + n <= MaxBytes
  /\ received' = [received EXCEPT ![c] = @ + n]
  /\ UNCHANGED <<vars, main, copy, reader, delayVars>>

\* The chunk exceeds the limit: the branch is cancelled.  What has been read from a
\* clone is there again.
TooLarge(c, n) ==
  /\ Reads(c)
  /\ received[c] + n > MaxBytes
  /\ \/ phase[c] = "inspecting" /\ Judge(c, NoDemand, "cancelled")
     \/ copy[c] # "closed" /\ Decodes(c, DecodeThrows(c, "protocol"), "cancelled")

\* The body is complete: it has a retry_after_seconds, or is decoded.
Ends(c) ==
  /\ Reads(c)
  /\ \/ /\ phase[c] = "inspecting"
        /\ \E d \in InSeconds \cup {NoDemand} : Judge(c, d, "closed")
     \/ Decodes(c, Decoded(c) \/ \E r \in {"api", "protocol"} : DecodeThrows(c, r), "closed")

\* The stream fails, and both branches with it; cancelling the other one changes nothing.
Breaks(c) ==
  /\ Reads(c)
  /\ \/ phase[c] = "inspecting" /\ Judge(c, NoDemand, "closed")
     \/ copy[c] # "closed" /\ Decodes(c, DecodeThrows(c, "body"), "closed")

-----------------------------------------------------------------------------
(* Settling an attempt *)

\* A read that is awaited rejects with the attempt's signal.  If consumeResponse has yet
\* to start, it does, and a read that it starts rejects at once.
Interrupted(step) ==
  /\ step
  /\ \E starting \in SUBSET {c \in Calls : AtStart(c)} :
       LET Cut(c) == phase'[c] = "failing" /\ (reader[c] = "pending" \/ c \in starting)
           Locks(c, branch, at) ==
             IF Cut(c) /\ c \in starting /\ phase[c] = at THEN "locked" ELSE branch[c]
       IN  /\ reader' = [c \in Calls |-> IF Cut(c) THEN "rejected" ELSE reader[c]]
           /\ main' = [c \in Calls |-> Locks(c, main, "reading")]
           /\ copy' = [c \in Calls |-> Locks(c, copy, "inspecting")]
  /\ UNCHANGED <<received, delayVars>>

\* Mutant: only a body that is too large is cancelled.
ReaderLeaves(c) ==
  /\ reader[c] = "rejected"
  /\ main' = [main EXCEPT ![c] = IF @ = "locked" THEN "open" ELSE @]
  /\ copy' = [copy EXCEPT ![c] = IF @ = "locked" THEN "open" ELSE @]
  /\ reader' = [reader EXCEPT ![c] = "none"]
  /\ UNCHANGED <<vars, received, delayVars>>

\* The catch of readBoundedResponseText: the reader cancels its branch and lets it go.
ReaderRejects(c) ==
  /\ reader[c] = "rejected"
  /\ main' = [main EXCEPT ![c] = IF @ = "locked" THEN "cancelled" ELSE @]
  /\ copy' = [copy EXCEPT ![c] = IF @ = "locked" THEN "cancelled" ELSE @]
  /\ reader' = [reader EXCEPT ![c] = "none"]
  /\ UNCHANGED <<vars, received, delayVars>>

\* The catch of performFetch, before or after that of the reader.
AttemptFails(c) ==
  /\ Catch(c)
  /\ main' = [main EXCEPT ![c] = Cancel(@)]
  /\ UNCHANGED <<copy, reader, received, delayVars>>

\* The cancellation of a discarded response settles when both branches are given up.
DiscardSettles(c) ==
  /\ SourceReleased(c)
  /\ Discarded(c)
  /\ UNCHANGED <<bodyVars, delayVars>>

Waits(c) ==
  /\ \E d \in Delays(c) :
       WaitForRetry(c, d # 0) /\ wait' = [wait EXCEPT ![c] = d]
  /\ UNCHANGED <<bodyVars, demanded>>

Again(c) ==
  /\ NextAttempt(c)
  /\ main' = [main EXCEPT ![c] = "none"]
  /\ copy' = [copy EXCEPT ![c] = "none"]
  /\ received' = [received EXCEPT ![c] = 0]
  /\ demanded' = [demanded EXCEPT ![c] = NoDemand]
  /\ wait' = [wait EXCEPT ![c] = 0]
  /\ UNCHANGED reader

-----------------------------------------------------------------------------
\* The steps of TypedFetch that touch neither body nor delay.
BodyMicrotask(c) ==
  \/ HeaderSays(c) \/ CloneRefused(c) \/ CloneRead(c) \/ MainRefused(c) \/ MainRead(c)
  \/ ReaderRejects(c)
  \/ AttemptFails(c)
  \/ /\ reader[c] # "rejected"
     /\ \/ Waits(c)
        \/ Again(c)
        \/ /\ Ready(c) \/ InitRejects(c) \/ Dispatch(c) \/ Finish(c) \/ Throw(c)
           /\ UNCHANGED <<bodyVars, delayVars>>

BodyEnvironment(c) ==
  \/ \E s \in Statuses : ResponseOpens(c, s)
  \/ \E n \in Chunks : Chunk(c, n) \/ TooLarge(c, n)
  \/ Ends(c) \/ Breaks(c)
  \/ DiscardSettles(c)
  \/ Interrupted(TimerFires(c))
  \/ /\ \/ Call(c) \/ Refuse(c) \/ TokenGiven(c) \/ TokenRefused(c)
        \/ FetchFails(c) \/ BackoffElapses(c)
        \/ \E a \in Attempts : RespondLate(c, a) \/ FetchFailsLate(c, a)
     /\ UNCHANGED <<bodyVars, delayVars>>

BodyNext ==
  \/ \E c \in Calls : BodyMicrotask(c) \/ (BodyQuiet /\ BodyEnvironment(c))
  \/ Interrupted(Abort)
  \/ Quiet /\ UNCHANGED <<bodyVars, delayVars>>

BodySpec == BodyInit /\ [][BodyNext]_allVars
FairBodySpec == BodySpec /\ \A c \in Calls : WF_allVars(BodyMicrotask(c))

-----------------------------------------------------------------------------
BodyTypeOK ==
  /\ main \in [Calls -> Branches] /\ copy \in [Calls -> Branches]
  /\ reader \in [Calls -> {"none", "pending", "rejected"}]
  /\ received \in [Calls -> 0..MaxBytes]
  /\ demanded \in [Calls -> InHeader \cup {NoDemand}]
  /\ wait \in [Calls -> 0..MaxTimer]

\* Nothing of an attempt outlives it: no listener, no timer, no response that came late,
\* and no stream from the network, although a locked body refuses the cancellation by
\* performFetch and a clone keeps the stream open.  Discarding a response never has to
\* wait for its clone.
NothingHeld ==
  /\ NothingLeftBehind
  /\ NoBodyLeft
  /\ \A c \in Calls :
       /\ phase[c] \notin {"inspecting", "reading", "failing"} /\ reader[c] = "none"
            => SourceReleased(c)
       /\ phase[c] = "discarding" => Given(copy[c])

\* What waitForRetry gives to setTimeout is in its range, and not shorter than what the
\* server asked for, however far beyond range or cap that is.
DelaysFit ==
  \A c \in Calls : phase[c] \in {"backoff", "waited"} =>
    /\ wait[c] \in 0..MaxTimer
    /\ result[c] = "retry" => wait[c] >= demanded[c].asked

-----------------------------------------------------------------------------
(* The inductive invariant behind NothingHeld and DelaysFit, with IInv            *)

\* A branch is locked while it is being read, and open until its attempt has settled.
InHand(c) ==
  /\ copy[c] # "open"
  /\ reader[c] = "none" => main[c] # "locked" /\ copy[c] # "locked"
  /\ main[c] = "open" => phase[c] \in {"inspecting", "reading", "failing"}
  /\ reader[c] = "pending" =>
       \/ phase[c] = "inspecting" /\ main[c] # "locked"
       \/ phase[c] = "reading" /\ copy[c] # "locked"
  /\ reader[c] = "rejected" => phase[c] \in {"failing", "deciding"}

\* A demand that is obeyed is within the cap, and within the timer's range exact.
Obeyed(c) ==
  /\ phase[c] = "discarding" \/ result[c] = "retry" => demanded[c].delay <= RetryAfterCap
  /\ phase[c] \in {"backoff", "waited"} /\ result[c] = "retry" => wait[c] >= demanded[c].asked

BodyInv == BodyTypeOK /\ \A c \in Calls : InHand(c) /\ Obeyed(c)
=============================================================================
