----------------------- MODULE TypedFetchLayersProofs ------------------------
(***************************************************************************)
(* Proofs about the two layers around TypedFetch: ResponseBody below it,   *)
(* for any limits, chunks and delays, and SafeCall above it, for any       *)
(* calls.  Each step of a layer is a step of TypedFetch or leaves it       *)
(* alone, so that the theorems about TypedFetch hold of both; BodyInv adds *)
(* what happens to streams and delays, SafeInv what safeCall captures and  *)
(* reports.  IInv, the invariant of TypedFetch, is the other half of both  *)
(* inductions.                                                             *)
(***************************************************************************)
EXTENDS ResponseBody, SafeCall, TypedFetchProofs

-----------------------------------------------------------------------------
(* ResponseBody implements TypedFetch *)

\* Knowing the server's delay is one of the two steps of consumeResponse.
LEMMA JudgeSteps ==
  ASSUME NEW c \in Calls, NEW d, NEW cloned, Judge(c, d, cloned)
  PROVE  Next
BY DEF Judge, Next, Environment

\* A microtask of ResponseBody is a step of TypedFetch, or leaves it alone.
LEMMA BodyMicrotaskSteps ==
  ASSUME NEW c \in Calls, BodyMicrotask(c)
  PROVE  [Next]_vars
<1>1. CASE HeaderSays(c) \/ CloneRefused(c)
  BY <1>1, JudgeSteps DEF HeaderSays, CloneRefused
<1>2. CASE CloneRead(c) \/ MainRead(c) \/ ReaderRejects(c)
  BY <1>2 DEF CloneRead, MainRead, ReaderRejects
<1>3. CASE MainRefused(c)
  BY <1>3 DEF MainRefused, Next, Environment
<1>4. CASE AttemptFails(c)
  BY <1>4 DEF AttemptFails, Next, Microtask
<1>5. CASE Waits(c)
  <2>1. PICK d \in Delays(c) : WaitForRetry(c, d # 0)
    BY <1>5 DEF Waits
  <2>2. (d # 0) \in BOOLEAN
    OBVIOUS
  <2> QED BY <2>1, <2>2 DEF Next, Microtask
<1>6. CASE Again(c)
  BY <1>6 DEF Again, Next, Microtask
<1>7. CASE Ready(c) \/ InitRejects(c) \/ Dispatch(c) \/ Finish(c) \/ Throw(c)
  BY <1>7 DEF Next, Microtask
<1> QED BY <1>1, <1>2, <1>3, <1>4, <1>5, <1>6, <1>7 DEF BodyMicrotask

\* So is what comes from outside.
LEMMA BodyEnvironmentSteps ==
  ASSUME NEW c \in Calls, BodyEnvironment(c)
  PROVE  [Next]_vars
<1>1. ASSUME NEW s \in Statuses, ResponseOpens(c, s) PROVE Next
  BY <1>1 DEF ResponseOpens, Next, Environment
<1>2. ASSUME NEW n \in Chunks, Chunk(c, n) PROVE UNCHANGED vars
  BY <1>2 DEF Chunk
<1>3. ASSUME NEW n \in Chunks, TooLarge(c, n) PROVE Next
  BY <1>3, JudgeSteps DEF TooLarge, Decodes, Next, Environment
<1>4. CASE Ends(c)
  BY <1>4, JudgeSteps DEF Ends, Decodes, Next, Environment
<1>5. CASE Breaks(c)
  BY <1>5, JudgeSteps DEF Breaks, Decodes, Next, Environment
<1>6. CASE DiscardSettles(c)
  BY <1>6 DEF DiscardSettles, Next, Environment
<1>7. CASE Interrupted(TimerFires(c))
  BY <1>7 DEF Interrupted, Next, Timer
<1>8. CASE \/ Call(c) \/ Refuse(c) \/ TokenGiven(c) \/ TokenRefused(c)
           \/ FetchFails(c) \/ BackoffElapses(c)
           \/ \E a \in Attempts : RespondLate(c, a) \/ FetchFailsLate(c, a)
  BY <1>8 DEF Next, Environment, Timer
<1> QED BY <1>1, <1>2, <1>3, <1>4, <1>5, <1>6, <1>7, <1>8 DEF BodyEnvironment

LEMMA BodySteps == [BodyNext]_allVars => [Next]_vars
<1>1. ASSUME Interrupted(Abort) PROVE Next
  BY <1>1 DEF Interrupted, Next
<1>2. ASSUME Quiet PROVE Next
  BY <1>2 DEF Next
<1> QED BY <1>1, <1>2, BodyMicrotaskSteps, BodyEnvironmentSteps DEF BodyNext, allVars

\* With bodies and delays, the runtime is still that of TypedFetch.
THEOREM BodyImplements == BodySpec => Spec
<1>1. BodyInit => Init
  BY DEF BodyInit
<1> QED BY <1>1, BodySteps, PTL DEF BodySpec, Spec

-----------------------------------------------------------------------------
(* The inductive invariant *)

\* A delay that fits the timer is the one the server asked for.
LEMMA DemandsExact ==
  ASSUME NEW d \in InHeader \cup {NoDemand}
  PROVE  /\ d.delay \in Int /\ d.asked \in Nat
         /\ d # NoDemand /\ d.delay <= RetryAfterCap => d.delay \in 0..MaxTimer /\ d.delay = d.asked
         /\ d = NoDemand => d.asked = 0 /\ d.delay <= RetryAfterCap
<1>0. MaxTimer \in Nat /\ RetryAfterCap \in 0..MaxTimer /\ SecondMs \in Nat
      /\ Seconds \subseteq Nat /\ Dates \subseteq Int
  BY LimitsOK
<1>1. CASE d = NoDemand
  BY <1>0, <1>1 DEF NoDemand
<1>2. ASSUME NEW s \in Seconds, d = [asked |-> s * SecondMs, delay |-> SecondsToMilliseconds(s)]
      PROVE  d.delay \in Nat /\ d.asked \in Nat /\ (d.delay <= RetryAfterCap => d.delay = d.asked)
  <2>1. s * SecondMs \in Nat
    BY <1>0
  <2> DEFINE ms == s * SecondMs
  <2>2. d = [asked |-> ms, delay |-> IF ms > MaxTimer THEN MaxTimer + 1 ELSE ms] /\ ms \in Nat
    BY <1>2, <2>1 DEF SecondsToMilliseconds
  <2> HIDE DEF ms
  <2> QED BY <1>0, <2>2
<1>3. ASSUME NEW ms \in Dates, d = [asked |-> FromZero(ms), delay |-> ClampServerDelay(FromZero(ms))]
      PROVE  d.delay \in Nat /\ d.asked \in Nat /\ (d.delay <= RetryAfterCap => d.delay = d.asked)
  BY <1>0, <1>3 DEF FromZero, ClampServerDelay
<1>4. d # NoDemand /\ d.delay \in Nat /\ d.asked \in Nat
        => (d.delay <= RetryAfterCap => d.delay \in 0..MaxTimer)
  BY <1>0
<1>5. d \in InHeader => d # NoDemand /\ d.delay \in Nat /\ d.asked \in Nat
                        /\ (d.delay <= RetryAfterCap => d.delay = d.asked)
  BY <1>2, <1>3 DEF InHeader, InSeconds, NoDemand
<1> QED BY <1>0, <1>1, <1>4, <1>5

\* A wait of the client fits the timer, and obeys the server if it asked for one.
LEMMA DelaysExact ==
  ASSUME BodyInv, NEW c \in Calls, NEW d \in Delays(c)
  PROVE  d \in 0..MaxTimer /\ (result[c] = "retry" => d >= demanded[c].asked)
<1>1. demanded[c] \in InHeader \cup {NoDemand} /\ Obeyed(c)
  BY DEF BodyInv, BodyTypeOK
<1>2. Backoffs(attempt[c]) \subseteq 0..MaxTimer
  BY LimitsOK DEF Backoffs
<1>3. CASE result[c] = "retry" /\ demanded[c] # NoDemand
  BY <1>1, <1>3, DemandsExact DEF Delays, Obeyed
<1>4. CASE ~(result[c] = "retry" /\ demanded[c] # NoDemand)
  <2>1. d \in 0..MaxTimer
    BY <1>2, <1>4 DEF Delays
  <2>2. result[c] = "retry" => demanded[c].asked = 0
    BY <1>4 DEF NoDemand
  <2> QED BY <2>1, <2>2, LimitsOK
<1> QED BY <1>3, <1>4

LEMMA InitBodyInv == BodyInit => BodyInv
BY LimitsOK DEF BodyInit, Init, BodyInv, BodyTypeOK, Branches, InHand, Obeyed, NoDemand

\* A step that changes phase and result of one call, and neither body nor delay.
LEMMA PlainKeeps ==
  ASSUME IInv, BodyInv, NEW c \in Calls, NEW p, NEW r,
         phase' = [phase EXCEPT ![c] = p], result' = [result EXCEPT ![c] = r],
         UNCHANGED <<bodyVars, delayVars>>,
         p = phase[c] \/ /\ p \notin {"discarding", "backoff", "inspecting", "reading"}
                         /\ phase[c] \notin {"inspecting", "reading", "failing"}
                         /\ reader[c] # "rejected"
                         /\ p = "waited" => phase[c] = "backoff",
         r = "retry" => result[c] = "retry"
  PROVE  BodyInv'
<1>1. BodyTypeOK'
  BY DEF BodyInv, BodyTypeOK, bodyVars, delayVars
<1>2. ASSUME NEW d \in Calls PROVE InHand(d)' /\ Obeyed(d)'
  <2>1. /\ phase'[d] = IF d = c THEN p ELSE phase[d]
        /\ result'[d] = IF d = c THEN r ELSE result[d]
    BY DEF IInv, TypeOK
  <2>2. InHand(d) /\ Obeyed(d) /\ reader[d] \in {"none", "pending", "rejected"}
    BY DEF BodyInv, BodyTypeOK
  <2>3. InHand(d)'
    BY <2>1, <2>2 DEF InHand, bodyVars
  <2>4. Obeyed(d)'
    BY <2>1, <2>2 DEF Obeyed, delayVars
  <2> QED BY <2>3, <2>4
<1> QED BY <1>1, <1>2 DEF BodyInv

\* The steps of TypedFetch that touch neither body nor delay.
LEMMA PlainMicrotaskKeeps ==
  ASSUME IInv, BodyInv, NEW c \in Calls, reader[c] # "rejected",
         Ready(c) \/ InitRejects(c) \/ Dispatch(c) \/ Finish(c) \/ Throw(c),
         UNCHANGED <<bodyVars, delayVars>>
  PROVE  BodyInv'
<1>0. phase \in [Calls -> Phases] /\ result = [result EXCEPT ![c] = result[c]]
      /\ phase = [phase EXCEPT ![c] = phase[c]]
  BY DEF IInv, TypeOK
<1>1. CASE Ready(c)
  <2>1. phase[c] = "preparing" /\ phase' = [phase EXCEPT ![c] = "fetching"] /\ result' = result
    BY <1>1 DEF Ready, InitReady
  <2> QED BY <1>0, <2>1, PlainKeeps
<1>2. CASE InitRejects(c)
  <2>1. /\ phase[c] = "preparing" /\ phase' = [phase EXCEPT ![c] = "failing"]
        /\ result' = [result EXCEPT ![c] = "init"]
    BY <1>2 DEF InitRejects, InitReady, Fail
  <2> QED BY <2>1, PlainKeeps
<1>3. CASE Dispatch(c)
  <2>1. phase' = phase /\ result' = result
    BY <1>3 DEF Dispatch
  <2> QED BY <1>0, <2>1, PlainKeeps
<1>4. CASE Finish(c)
  <2> DEFINE p == IF result[c] = "data" THEN "done" ELSE "deciding"
  <2>1. phase[c] = "resolved" /\ phase' = [phase EXCEPT ![c] = p] /\ result' = result
    BY <1>4 DEF Finish
  <2> QED BY <1>0, <2>1, PlainKeeps
<1>5. CASE Throw(c)
  <2> DEFINE r == IF result[c] = "retry" THEN "aborted" ELSE result[c]
  <2>1. /\ phase[c] = "deciding" /\ phase' = [phase EXCEPT ![c] = "done"]
        /\ result' = [result EXCEPT ![c] = r]
    BY <1>5 DEF Throw
  <2> QED BY <2>1, PlainKeeps
<1> QED BY <1>1, <1>2, <1>3, <1>4, <1>5

LEMMA PlainEnvironmentKeeps ==
  ASSUME IInv, BodyInv, NEW c \in Calls,
         \/ Call(c) \/ Refuse(c) \/ TokenGiven(c) \/ TokenRefused(c)
         \/ FetchFails(c) \/ BackoffElapses(c)
         \/ \E a \in Attempts : RespondLate(c, a) \/ FetchFailsLate(c, a),
         UNCHANGED <<bodyVars, delayVars>>
  PROVE  BodyInv'
<1>0. /\ phase \in [Calls -> Phases] /\ result = [result EXCEPT ![c] = result[c]]
      /\ phase = [phase EXCEPT ![c] = phase[c]]
      /\ phase[c] \notin {"failing", "deciding"} => reader[c] # "rejected"
  BY DEF IInv, TypeOK, BodyInv, InHand
<1>1. CASE Call(c)
  <2>1. phase[c] = "idle" /\ StartAttempt(c)
    BY <1>1 DEF Call
  <2>2. PICK p \in {"preparing", "deciding"}, r \in {"none", "aborted"} :
          phase' = [phase EXCEPT ![c] = p] /\ result' = [result EXCEPT ![c] = r]
    BY <2>1 DEF StartAttempt, Suspend, ThrowAborted
  <2> QED BY <1>0, <2>1, <2>2, PlainKeeps
<1>2. CASE Refuse(c)
  <2>1. /\ phase[c] = "idle" /\ phase' = [phase EXCEPT ![c] = "done"]
        /\ result' = [result EXCEPT ![c] = "configuration"]
    BY <1>2 DEF Refuse
  <2> QED BY <1>0, <2>1, PlainKeeps
<1>3. CASE TokenGiven(c) \/ \E a \in Attempts : RespondLate(c, a) \/ FetchFailsLate(c, a)
  <2>1. phase' = phase /\ result' = result
    BY <1>3 DEF TokenGiven, RespondLate, FetchFailsLate
  <2> QED BY <1>0, <2>1, PlainKeeps
<1>4. CASE TokenRefused(c)
  <2> DEFINE p == IF phase[c] = "preparing" THEN "failing" ELSE phase[c]
             r == IF phase[c] = "preparing" THEN "init" ELSE result[c]
  <2>1. phase' = [phase EXCEPT ![c] = p] /\ result' = [result EXCEPT ![c] = r]
    BY <1>4 DEF TokenRefused
  <2> QED BY <1>0, <2>1, PlainKeeps
<1>5. CASE FetchFails(c)
  <2>1. /\ phase[c] = "fetching" /\ phase' = [phase EXCEPT ![c] = "failing"]
        /\ result' = [result EXCEPT ![c] = "network"]
    BY <1>5 DEF FetchFails, Awaited, Fail
  <2> QED BY <1>0, <2>1, PlainKeeps
<1>6. CASE BackoffElapses(c)
  <2>1. phase[c] = "backoff" /\ phase' = [phase EXCEPT ![c] = "waited"] /\ result' = result
    BY <1>6 DEF BackoffElapses
  <2> QED BY <1>0, <2>1, PlainKeeps
<1> QED BY <1>1, <1>2, <1>3, <1>4, <1>5, <1>6

\* What is left to show of a step that changes everything of one call: the other calls
\* keep their parts of the invariant.
LEMMA OthersKeep ==
  ASSUME IInv, BodyInv, NEW c \in Calls, BodyTypeOK', InHand(c)', Obeyed(c)',
         \A d \in Calls \ {c} :
           /\ phase'[d] = phase[d] /\ result'[d] = result[d]
           /\ main'[d] = main[d] /\ copy'[d] = copy[d] /\ reader'[d] = reader[d]
           /\ demanded'[d] = demanded[d] /\ wait'[d] = wait[d]
  PROVE  BodyInv'
<1>1. ASSUME NEW d \in Calls \ {c} PROVE InHand(d)' /\ Obeyed(d)'
  BY <1>1 DEF BodyInv, InHand, Obeyed
<1> QED BY <1>1 DEF BodyInv

\* consumeResponse has its delay, or none.
LEMMA JudgeKeeps ==
  ASSUME IInv, BodyInv, NEW c \in Calls, NEW d \in InHeader \cup {NoDemand},
         NEW cloned \in {"none", "closed", "cancelled"}, Judge(c, d, cloned)
  PROVE  BodyInv'
<1>0. /\ phase \in [Calls -> Phases] /\ DOMAIN result = Calls /\ BodyTypeOK
      /\ InHand(c) /\ Obeyed(c)
  BY DEF IInv, TypeOK, BodyInv
<1>1. /\ phase[c] = "inspecting" /\ result' = result
      /\ \/ phase' = [phase EXCEPT ![c] = "discarding"] /\ d.delay <= RetryAfterCap
         \/ phase' = [phase EXCEPT ![c] = "reading"] /\ d.delay > RetryAfterCap
  BY DemandsExact DEF Judge, Inspected, InspectedOver
<1>2. result[c] = "none"
  BY <1>1 DEF IInv, Local, Causes, Awaiting
<1>3. BodyTypeOK'
  <2>1. main' \in [Calls -> Branches] /\ copy' \in [Calls -> Branches]
    BY <1>0 DEF Judge, BodyTypeOK, Branches, Cancel
  <2>2. /\ reader' \in [Calls -> {"none", "pending", "rejected"}]
        /\ received' \in [Calls -> 0..MaxBytes] /\ wait' \in [Calls -> 0..MaxTimer]
        /\ demanded' \in [Calls -> InHeader \cup {NoDemand}]
    BY <1>0, LimitsOK DEF Judge, BodyTypeOK
  <2> QED BY <2>1, <2>2 DEF BodyTypeOK
<1>4. /\ reader'[c] = "none" /\ copy'[c] = cloned /\ demanded'[c] = d
      /\ main'[c] = IF d.delay > RetryAfterCap THEN main[c] ELSE Cancel(main[c])
  BY <1>0 DEF Judge, BodyTypeOK
<1>5. main[c] # "locked" /\ main[c] \in Branches
  BY <1>0, <1>1 DEF InHand, BodyTypeOK
<1>6. InHand(c)'
  BY <1>0, <1>1, <1>4, <1>5, DemandsExact, LimitsOK DEF InHand, Cancel, Branches
<1>7. Obeyed(c)'
  BY <1>0, <1>1, <1>2, <1>4 DEF Obeyed
<1> QED BY <1>0, <1>1, <1>3, <1>6, <1>7, OthersKeep DEF Judge, BodyTypeOK

\* A step that changes phase, result, branches and reader of one call as InHand asks.
LEMMA BodyStepKeeps ==
  ASSUME IInv, BodyInv, NEW c \in Calls, NEW p, NEW r,
         NEW m \in Branches, NEW k \in Branches, NEW e \in {"none", "pending", "rejected"},
         phase' = [phase EXCEPT ![c] = p], result' = [result EXCEPT ![c] = r],
         main' = [main EXCEPT ![c] = m], copy' = [copy EXCEPT ![c] = k],
         reader' = [reader EXCEPT ![c] = e],
         received' \in [Calls -> 0..MaxBytes], UNCHANGED delayVars,
         k # "open",
         e = "none" => m # "locked" /\ k # "locked",
         m = "open" => p \in {"inspecting", "reading", "failing"},
         e = "pending" => \/ p = "inspecting" /\ m # "locked"
                          \/ p = "reading" /\ k # "locked",
         e = "rejected" => p \in {"failing", "deciding"},
         p \notin {"discarding", "backoff", "waited"},
         r = "retry" => result[c] = "retry" \/ phase[c] = "discarding"
  PROVE  BodyInv'
<1>0. /\ phase \in [Calls -> Phases] /\ DOMAIN result = Calls /\ BodyTypeOK /\ Obeyed(c)
  BY DEF IInv, TypeOK, BodyInv
<1>1. BodyTypeOK'
  BY <1>0 DEF BodyTypeOK, delayVars
<1>2. /\ phase'[c] = p /\ result'[c] = r /\ main'[c] = m /\ copy'[c] = k /\ reader'[c] = e
      /\ demanded'[c] = demanded[c]
  BY <1>0 DEF BodyTypeOK, delayVars
<1>3. InHand(c)' /\ Obeyed(c)'
  BY <1>0, <1>2 DEF InHand, Obeyed
<1> QED BY <1>0, <1>1, <1>3, OthersKeep DEF BodyTypeOK, delayVars

\* What a step need not mention stays what it is.
Framed(c) ==
  /\ phase = [phase EXCEPT ![c] = phase[c]] /\ result = [result EXCEPT ![c] = result[c]]
  /\ main = [main EXCEPT ![c] = main[c]] /\ copy = [copy EXCEPT ![c] = copy[c]]
  /\ reader = [reader EXCEPT ![c] = reader[c]]
  /\ main[c] \in Branches /\ copy[c] \in Branches
  /\ reader[c] \in {"none", "pending", "rejected"}
  /\ received \in [Calls -> 0..MaxBytes]
  /\ "locked" \in Branches /\ "closed" \in Branches /\ "cancelled" \in Branches

LEMMA Unmentioned ==
  ASSUME IInv, BodyInv, NEW c \in Calls
  PROVE  Framed(c) /\ InHand(c) /\ Obeyed(c)
BY DEF IInv, TypeOK, BodyInv, BodyTypeOK, Branches, Framed

LEMMA StartsKeep ==
  ASSUME IInv, BodyInv, NEW c \in Calls, CloneRead(c) \/ MainRead(c) \/ MainRefused(c)
  PROVE  BodyInv'
<1>0. Framed(c) /\ InHand(c) /\ Obeyed(c) /\ reader[c] = "none"
  BY Unmentioned DEF CloneRead, MainRead, MainRefused, AtStart
<1>1. CASE CloneRead(c) \/ MainRead(c)
  <2>1. BodyTypeOK /\ BodyTypeOK' /\ phase' = phase /\ result' = result /\ UNCHANGED delayVars
    BY <1>0, <1>1
       DEF CloneRead, MainRead, vars, callVars, delayVars, BodyInv, BodyTypeOK, Branches
  <2>2. InHand(c)' /\ Obeyed(c)'
    BY <1>0, <1>1, <2>1
       DEF CloneRead, MainRead, AtStart, delayVars, BodyTypeOK, InHand, Obeyed
  <2> QED BY <1>1, <2>1, <2>2, OthersKeep DEF CloneRead, MainRead, BodyTypeOK, delayVars
<1>2. CASE MainRefused(c)
  <2>1. /\ phase' = [phase EXCEPT ![c] = "failing"] /\ result' = [result EXCEPT ![c] = "protocol"]
        /\ main' = [main EXCEPT ![c] = Cancel(main[c])] /\ copy' = copy /\ reader' = reader
        /\ received' = received /\ UNCHANGED delayVars
    BY <1>2 DEF MainRefused, DecodeThrows, Fail
  <2>2. /\ copy[c] \notin {"open", "locked"}
        /\ Cancel(main[c]) \in Branches /\ Cancel(main[c]) # "locked"
    BY <1>0 DEF InHand, Cancel, Framed, Branches
  <2> QED BY <1>0, <2>1, <2>2, BodyStepKeeps DEF Framed
<1> QED BY <1>1, <1>2

\* decodeResponse ends.
LEMMA DecodesKeep ==
  ASSUME IInv, BodyInv, NEW c \in Calls, NEW branch \in {"closed", "cancelled"},
         NEW p \in {"resolved", "failing"}, NEW r \in Settlements,
         Reads(c), phase[c] = "reading",
         phase' = [phase EXCEPT ![c] = p], result' = [result EXCEPT ![c] = r],
         main' = [main EXCEPT ![c] = branch], reader' = [reader EXCEPT ![c] = "none"],
         UNCHANGED <<copy, received, delayVars>>
  PROVE  BodyInv'
<1>1. Framed(c) /\ InHand(c) /\ Obeyed(c)
  BY Unmentioned
<1>2. copy[c] \notin {"open", "locked"} /\ r # "retry"
  BY <1>1 DEF InHand, Reads, Settlements
<1> QED BY <1>1, <1>2, BodyStepKeeps DEF Framed

LEMMA DecodeThrowsKeep ==
  ASSUME IInv, BodyInv, NEW c \in Calls, NEW branch \in {"closed", "cancelled"}, Reads(c),
         NEW r \in {"api", "protocol", "body"}, Decodes(c, DecodeThrows(c, r), branch)
  PROVE  BodyInv'
<1>1. /\ phase[c] = "reading" /\ r \in Settlements
      /\ phase' = [phase EXCEPT ![c] = "failing"] /\ result' = [result EXCEPT ![c] = r]
      /\ main' = [main EXCEPT ![c] = branch] /\ reader' = [reader EXCEPT ![c] = "none"]
      /\ UNCHANGED <<copy, received, delayVars>>
  BY DEF Decodes, DecodeThrows, Fail, Settlements
<1> QED BY <1>1, DecodesKeep

\* What an awaited read brings.
LEMMA ReadsKeep ==
  ASSUME IInv, BodyInv, NEW c \in Calls,
         \/ \E n \in Chunks : Chunk(c, n) \/ TooLarge(c, n)
         \/ Ends(c) \/ Breaks(c)
  PROVE  BodyInv'
<1>0. Reads(c) /\ Framed(c) /\ DOMAIN received = Calls
  BY Unmentioned DEF Chunk, TooLarge, Ends, Breaks, Framed
<1>1. ASSUME NEW n \in Chunks, Chunk(c, n) PROVE BodyInv'
  <2>1. received[c] \in 0..MaxBytes /\ n \in Nat /\ MaxBytes \in Nat
    BY <1>0, LimitsOK DEF Framed
  <2>2. received[c] + n \in 0..MaxBytes
    BY <1>1, <2>1 DEF Chunk
  <2>3. received' \in [Calls -> 0..MaxBytes]
    BY <1>0, <1>1, <2>2 DEF Chunk, Framed
  <2> QED BY <1>1, <2>3
       DEF Chunk, vars, callVars, delayVars, BodyInv, BodyTypeOK, InHand, Obeyed
<1>2. ASSUME NEW n \in Chunks, TooLarge(c, n) PROVE BodyInv'
  BY <1>0, <1>2, JudgeKeeps, DecodeThrowsKeep DEF TooLarge
<1>3. CASE Ends(c)
  <2>1. ASSUME NEW d \in InSeconds \cup {NoDemand}, Judge(c, d, "closed") PROVE BodyInv'
    BY <2>1, JudgeKeeps DEF InHeader
  <2>2. ASSUME Decodes(c, Decoded(c), "closed") PROVE BodyInv'
    <3>1. /\ phase[c] = "reading" /\ "data" \in Settlements
          /\ phase' = [phase EXCEPT ![c] = "resolved"] /\ result' = [result EXCEPT ![c] = "data"]
          /\ main' = [main EXCEPT ![c] = "closed"] /\ reader' = [reader EXCEPT ![c] = "none"]
          /\ UNCHANGED <<copy, received, delayVars>>
      BY <2>2 DEF Decodes, Decoded, Settlements
    <3> QED BY <1>0, <3>1, DecodesKeep
  <2>3. ASSUME NEW r \in {"api", "protocol"}, Decodes(c, DecodeThrows(c, r), "closed")
        PROVE  BodyInv'
    BY <1>0, <2>3, DecodeThrowsKeep
  <2> QED BY <1>3, <2>1, <2>2, <2>3 DEF Ends, Decodes
<1>4. CASE Breaks(c)
  <2>1. ASSUME Decodes(c, DecodeThrows(c, "body"), "closed") PROVE BodyInv'
    BY <1>0, <2>1, DecodeThrowsKeep
  <2>2. ASSUME Judge(c, NoDemand, "closed") PROVE BodyInv'
    BY <2>2, JudgeKeeps
  <2> QED BY <1>4, <2>1, <2>2 DEF Breaks
<1> QED BY <1>1, <1>2, <1>3, <1>4

\* An abort or a timeout rejects what is awaited, and a read with it.
Cut(c) ==
  \/ phase'[c] = phase[c] /\ result'[c] = result[c]
  \/ phase[c] \in Awaiting /\ phase'[c] = "failing" /\ result'[c] = "signal"
  \/ phase[c] = "backoff" /\ phase'[c] = "done" /\ result'[c] = "aborted"

LEMMA InterruptedKeeps ==
  ASSUME IInv, BodyInv, NEW step, Interrupted(step), \A c \in Calls : Cut(c)
  PROVE  BodyInv'
<1>1. PICK starting \in SUBSET {c \in Calls : AtStart(c)} :
        LET Rejects(c) == phase'[c] = "failing" /\ (reader[c] = "pending" \/ c \in starting)
            Locks(c, branch, at) ==
              IF Rejects(c) /\ c \in starting /\ phase[c] = at THEN "locked" ELSE branch[c]
        IN  /\ reader' = [c \in Calls |-> IF Rejects(c) THEN "rejected" ELSE reader[c]]
            /\ main' = [c \in Calls |-> Locks(c, main, "reading")]
            /\ copy' = [c \in Calls |-> Locks(c, copy, "inspecting")]
  BY DEF Interrupted
<1>2. BodyTypeOK /\ UNCHANGED <<received, delayVars>>
  BY DEF BodyInv, Interrupted
<1>3. BodyTypeOK'
  BY <1>1, <1>2 DEF BodyTypeOK, delayVars, Branches
<1>4. ASSUME NEW c \in Calls PROVE InHand(c)' /\ Obeyed(c)'
  <2>1. InHand(c) /\ Obeyed(c) /\ Cut(c) /\ reader[c] \in {"none", "pending", "rejected"}
    BY <1>2 DEF BodyInv, BodyTypeOK
  <2>2. Obeyed(c)'
    BY <1>2, <2>1 DEF Obeyed, Cut, delayVars
  <2>3. ASSUME c \in starting PROVE InHand(c)'
    <3>1. reader[c] = "none" /\ phase[c] \in {"inspecting", "reading"}
      BY <1>1, <2>3 DEF AtStart
    <3> QED BY <1>1, <2>1, <2>3, <3>1 DEF InHand, Cut, Awaiting
  <2>4. ASSUME c \notin starting PROVE InHand(c)'
    <3>1. /\ main'[c] = main[c] /\ copy'[c] = copy[c]
          /\ reader'[c] = IF phase'[c] = "failing" /\ reader[c] = "pending"
                          THEN "rejected" ELSE reader[c]
      BY <1>1, <2>4
    <3> QED BY <2>1, <3>1 DEF InHand, Cut, Awaiting
  <2> QED BY <2>2, <2>3, <2>4
<1> QED BY <1>3, <1>4 DEF BodyInv

LEMMA TimeoutKeeps ==
  ASSUME IInv, BodyInv, NEW c \in Calls, Interrupted(TimerFires(c))
  PROVE  BodyInv'
<1>1. TimerFires(c)
  BY DEF Interrupted
<1>2. phase[c] \in Awaiting
  BY <1>1 DEF TimerFires, Quiescent, IInv, Local, Registrations, InAttempt
<1>3. \A d \in Calls : Cut(d)
  BY <1>1, <1>2 DEF TimerFires, Fail, Cut, IInv, TypeOK
<1> QED BY <1>3, InterruptedKeeps

LEMMA BodyAbortKeeps ==
  ASSUME IInv, BodyInv, Interrupted(Abort)
  PROVE  BodyInv'
<1>1. Abort
  BY DEF Interrupted
<1>2. ASSUME NEW d \in Calls PROVE Cut(d)
  <2>1. <<d, "wait">> \in listeners => phase[d] = "backoff"
    BY DEF IInv, Local, Registrations
  <2> QED BY <1>1, <2>1 DEF Abort, Cut, Awaiting
<1> QED BY <1>2, InterruptedKeeps

-----------------------------------------------------------------------------
(* The other steps that touch a body or a delay *)

LEMMA OpensKeeps ==
  ASSUME IInv, BodyInv, NEW c \in Calls, NEW s \in Statuses, ResponseOpens(c, s)
  PROVE  BodyInv'
<1>0. phase \in [Calls -> Phases] /\ InHand(c) /\ BodyTypeOK
  BY DEF IInv, TypeOK, BodyInv
<1>1. /\ phase[c] = "fetching" /\ result' = result /\ main' = [main EXCEPT ![c] = "open"]
      /\ \E p \in {"inspecting", "reading"} : phase' = [phase EXCEPT ![c] = p]
      /\ UNCHANGED <<copy, reader, received, delayVars>>
  BY DEF ResponseOpens, Respond, Awaited
<1>2. BodyTypeOK'
  BY <1>0, <1>1 DEF BodyTypeOK, delayVars, Branches
<1>3. result[c] = "none"
  BY <1>1 DEF IInv, Local, Causes, Awaiting
<1>4. InHand(c)' /\ Obeyed(c)'
  BY <1>0, <1>1, <1>3 DEF InHand, Obeyed, BodyTypeOK
<1> QED BY <1>0, <1>1, <1>2, <1>4, OthersKeep DEF BodyTypeOK, delayVars

LEMMA ReaderRejectsKeeps ==
  ASSUME IInv, BodyInv, NEW c \in Calls, ReaderRejects(c)
  PROVE  BodyInv'
<1>0. InHand(c) /\ Obeyed(c) /\ BodyTypeOK
  BY DEF BodyInv
<1>1. UNCHANGED <<phase, result, received, delayVars>> /\ reader[c] = "rejected"
  BY DEF ReaderRejects, vars, callVars
<1>2. BodyTypeOK'
  BY <1>0, <1>1 DEF ReaderRejects, BodyTypeOK, delayVars, Branches
<1>3. InHand(c)' /\ Obeyed(c)'
  BY <1>0, <1>1 DEF ReaderRejects, InHand, Obeyed, BodyTypeOK, delayVars
<1> QED BY <1>0, <1>1, <1>2, <1>3, OthersKeep DEF ReaderRejects, BodyTypeOK, delayVars

LEMMA AttemptFailsKeeps ==
  ASSUME IInv, BodyInv, NEW c \in Calls, AttemptFails(c)
  PROVE  BodyInv'
<1>0. phase \in [Calls -> Phases] /\ DOMAIN result = Calls /\ InHand(c) /\ BodyTypeOK
  BY DEF IInv, TypeOK, BodyInv
<1>1. /\ phase[c] = "failing" /\ phase' = [phase EXCEPT ![c] = "deciding"]
      /\ result' = [result EXCEPT ![c] = Classified(c)]
      /\ main' = [main EXCEPT ![c] = Cancel(main[c])]
      /\ UNCHANGED <<copy, reader, received, delayVars>>
  BY DEF AttemptFails, Catch
<1>2. result[c] # "retry" /\ Classified(c) # "retry"
  BY <1>1 DEF IInv, Local, Causes, Classified
<1>3. BodyTypeOK'
  BY <1>0, <1>1 DEF BodyTypeOK, delayVars, Branches, Cancel
<1>4. InHand(c)' /\ Obeyed(c)'
  BY <1>0, <1>1, <1>2 DEF InHand, Obeyed, BodyTypeOK, Branches, Cancel
<1> QED BY <1>0, <1>1, <1>3, <1>4, OthersKeep DEF BodyTypeOK, delayVars

LEMMA DiscardKeeps ==
  ASSUME IInv, BodyInv, NEW c \in Calls, DiscardSettles(c)
  PROVE  BodyInv'
<1>0. phase \in [Calls -> Phases] /\ DOMAIN result = Calls /\ InHand(c) /\ Obeyed(c) /\ BodyTypeOK
  BY DEF IInv, TypeOK, BodyInv
<1>1. /\ phase[c] = "discarding" /\ phase' = [phase EXCEPT ![c] = "resolved"]
      /\ result' = [result EXCEPT ![c] = "retry"] /\ UNCHANGED <<bodyVars, delayVars>>
  BY DEF DiscardSettles, Discarded
<1>2. BodyTypeOK'
  BY <1>0, <1>1 DEF BodyTypeOK, delayVars, bodyVars
<1>3. InHand(c)' /\ Obeyed(c)'
  BY <1>0, <1>1 DEF InHand, Obeyed, BodyTypeOK, delayVars, bodyVars
<1> QED BY <1>0, <1>1, <1>2, <1>3, OthersKeep DEF delayVars, bodyVars

LEMMA WaitsKeeps ==
  ASSUME IInv, BodyInv, NEW c \in Calls, Waits(c), reader[c] # "rejected"
  PROVE  BodyInv'
<1>0. phase \in [Calls -> Phases] /\ DOMAIN result = Calls /\ InHand(c) /\ Obeyed(c) /\ BodyTypeOK
  BY DEF IInv, TypeOK, BodyInv
<1>1. PICK d \in Delays(c), p \in {"backoff", "waited"} :
        /\ phase[c] = "deciding" /\ phase' = [phase EXCEPT ![c] = p] /\ result' = result
        /\ wait' = [wait EXCEPT ![c] = d] /\ UNCHANGED <<bodyVars, demanded>>
  BY DEF Waits, WaitForRetry
<1>2. d \in 0..MaxTimer /\ (result[c] = "retry" => d >= demanded[c].asked)
  BY DelaysExact
<1>3. BodyTypeOK'
  BY <1>0, <1>1, <1>2 DEF BodyTypeOK, bodyVars
<1>4. InHand(c)' /\ Obeyed(c)'
  BY <1>0, <1>1, <1>2 DEF InHand, Obeyed, BodyTypeOK, bodyVars
<1> QED BY <1>0, <1>1, <1>3, <1>4, OthersKeep DEF BodyTypeOK, bodyVars

LEMMA AgainKeeps ==
  ASSUME IInv, BodyInv, NEW c \in Calls, Again(c)
  PROVE  BodyInv'
<1>0. phase \in [Calls -> Phases] /\ DOMAIN result = Calls /\ InHand(c) /\ BodyTypeOK
  BY DEF IInv, TypeOK, BodyInv
<1>1. phase[c] = "waited" /\ StartAttempt(c)
  BY DEF Again, NextAttempt
<1>2. PICK p \in {"preparing", "deciding"}, r \in {"none", "aborted"} :
        phase' = [phase EXCEPT ![c] = p] /\ result' = [result EXCEPT ![c] = r]
  BY <1>1 DEF StartAttempt, Suspend, ThrowAborted
<1>3. BodyTypeOK'
  BY <1>0, LimitsOK DEF Again, BodyTypeOK, Branches
<1>4. reader[c] = "none"
  BY <1>0, <1>1 DEF InHand, BodyTypeOK
<1>5. InHand(c)' /\ Obeyed(c)'
  BY <1>0, <1>2, <1>4 DEF Again, InHand, Obeyed, BodyTypeOK
<1> QED BY <1>0, <1>2, <1>3, <1>5, OthersKeep DEF Again, BodyTypeOK

LEMMA BodyNextKeeps == IInv /\ BodyInv /\ [BodyNext]_allVars => BodyInv'
<1> SUFFICES ASSUME IInv, BodyInv, [BodyNext]_allVars PROVE BodyInv'
  OBVIOUS
<1>1. ASSUME NEW c \in Calls, BodyMicrotask(c) PROVE BodyInv'
  <2>1. CASE HeaderSays(c)
    BY <2>1, JudgeKeeps DEF HeaderSays
  <2>2. CASE CloneRefused(c)
    BY <2>2, JudgeKeeps DEF CloneRefused
  <2>3. CASE CloneRead(c) \/ MainRefused(c) \/ MainRead(c)
    BY <2>3, StartsKeep
  <2>4. CASE ReaderRejects(c) \/ AttemptFails(c)
    BY <2>4, ReaderRejectsKeeps, AttemptFailsKeeps
  <2>5. CASE Again(c)
    BY <2>5, AgainKeeps
  <2>6. CASE reader[c] # "rejected" /\ Waits(c)
    BY <2>6, WaitsKeeps
  <2>7. CASE /\ reader[c] # "rejected"
             /\ Ready(c) \/ InitRejects(c) \/ Dispatch(c) \/ Finish(c) \/ Throw(c)
             /\ UNCHANGED <<bodyVars, delayVars>>
    BY <2>7, PlainMicrotaskKeeps
  <2> QED BY <1>1, <2>1, <2>2, <2>3, <2>4, <2>5, <2>6, <2>7 DEF BodyMicrotask
<1>2. ASSUME NEW c \in Calls, BodyEnvironment(c) PROVE BodyInv'
  <2>1. ASSUME NEW s \in Statuses, ResponseOpens(c, s) PROVE BodyInv'
    BY <2>1, OpensKeeps
  <2>2. CASE \/ \E n \in Chunks : Chunk(c, n) \/ TooLarge(c, n)
             \/ Ends(c) \/ Breaks(c)
    BY <2>2, ReadsKeep
  <2>3. CASE DiscardSettles(c)
    BY <2>3, DiscardKeeps
  <2>4. CASE Interrupted(TimerFires(c))
    BY <2>4, TimeoutKeeps
  <2>5. CASE /\ \/ Call(c) \/ Refuse(c) \/ TokenGiven(c) \/ TokenRefused(c)
                \/ FetchFails(c) \/ BackoffElapses(c)
                \/ \E a \in Attempts : RespondLate(c, a) \/ FetchFailsLate(c, a)
             /\ UNCHANGED <<bodyVars, delayVars>>
    BY <2>5, PlainEnvironmentKeeps
  <2> QED BY <1>2, <2>1, <2>2, <2>3, <2>4, <2>5 DEF BodyEnvironment
<1>3. CASE Interrupted(Abort)
  BY <1>3, BodyAbortKeeps
<1>4. CASE UNCHANGED allVars \/ (Quiet /\ UNCHANGED <<bodyVars, delayVars>>)
  <2>1. UNCHANGED allVars
    BY <1>4 DEF Quiet, allVars
  <2> QED BY <2>1 DEF allVars, vars, callVars, bodyVars, delayVars, BodyInv, BodyTypeOK, InHand, Obeyed
<1> QED BY <1>1, <1>2, <1>3, <1>4 DEF BodyNext

\* The invariant of bodies and delays holds in every reachable state.
THEOREM BodyInvariance == BodySpec => [](IInv /\ BodyInv)
<1>1. BodyInit => BodyInv
  BY InitBodyInv
<1>2. IInv /\ BodyInv /\ [BodyNext]_allVars => BodyInv'
  BY BodyNextKeeps
<1>3. BodySpec => []IInv
  BY BodyImplements, Invariance, PTL
<1> QED BY <1>1, <1>2, <1>3, PTL DEF BodySpec

-----------------------------------------------------------------------------
(* What follows *)

\* No listener, timer, late response or stream outlives its attempt.
THEOREM StreamsAreReleased == BodySpec => []NothingHeld
<1>1. IInv /\ BodyInv => \A c \in Calls :
        /\ phase[c] \notin {"inspecting", "reading", "failing"} /\ reader[c] = "none"
             => SourceReleased(c)
        /\ phase[c] = "discarding" => Given(copy[c])
  BY DEF BodyInv, BodyTypeOK, InHand, Branches, SourceReleased, Given
<1>2. BodySpec => []NothingLeftBehind /\ []NoBodyLeft
  BY BodyImplements, NothingRemains, BodiesAreReleased, PTL
<1>3. IInv /\ BodyInv /\ NothingLeftBehind /\ NoBodyLeft => NothingHeld
  BY <1>1 DEF NothingHeld
<1> QED BY <1>2, <1>3, BodyInvariance, PTL

\* Every wait is in the timer's range and as long as the server asked.
THEOREM WaitsFit == BodySpec => []DelaysFit
<1>1. BodyInv => DelaysFit
  BY DEF BodyInv, BodyTypeOK, Obeyed, DelaysFit
<1> QED BY <1>1, BodyInvariance, PTL

\* With bodies and delays too, what may not be repeated is sent once, the rest at most
\* as often as the policy says, and a settled call reports what happened.
THEOREM BodySendsAreSafe == BodySpec => [](RetriesAreSafe /\ GivesUpLast /\ TruthfulOutcome)
BY BodyImplements, SendsAreSafe, GivesUpOnlyLast, OutcomesAreTrue, PTL

-----------------------------------------------------------------------------
(* SafeCall: which response a call holds *)

\* What a step does with the fetches of one call.
Consuming == {"inspecting", "reading"}
Untouched(c) ==
  /\ exchange'[c] = exchange[c] /\ attempt'[c] = attempt[c]
  /\ phase'[c] \in Consuming => phase[c] \in Consuming
Started(c) ==
  /\ phase[c] \in {"idle", "waited"} /\ phase'[c] \notin Consuming
  /\ exchange'[c] = exchange[c] /\ attempt'[c] = attempt[c] + 1
Sent(c) ==
  /\ phase[c] \notin Consuming /\ phase'[c] = phase[c] /\ attempt'[c] = attempt[c]
  /\ attempt[c] \in Attempts
  /\ exchange'[c] = [exchange[c] EXCEPT ![attempt[c]] = "pending"]
Answered(c) ==
  /\ attempt'[c] = attempt[c] /\ attempt[c] \in Attempts
  /\ exchange[c][attempt[c]] = "pending"
  /\ exchange'[c] = [exchange[c] EXCEPT ![attempt[c]] = "open"]
Rejected(c) ==
  /\ attempt'[c] = attempt[c]
  /\ phase'[c] \in Consuming => phase[c] \in Consuming
  /\ \E a \in Attempts :
       /\ exchange[c][a] = "pending"
       /\ exchange'[c] = [exchange[c] EXCEPT ![a] = "failed"]
Consumed(c) ==
  /\ attempt'[c] = attempt[c] /\ attempt[c] \in Attempts
  /\ phase[c] \in Consuming \/ exchange[c][attempt[c]] = "open"
  /\ phase'[c] \notin Consuming
  /\ exchange'[c] = [exchange[c] EXCEPT ![attempt[c]] = "released"]

\* These are all the steps there are, if fetch respects its signal.
LEMMA StepKinds ==
  ASSUME ~FetchIgnoresAbort, IInv, [Next]_vars, NEW c \in Calls
  PROVE  \/ Untouched(c) \/ Started(c) \/ Sent(c) \/ Answered(c) \/ Rejected(c)
         \/ Consumed(c)
<1> DEFINE Kinds == \/ Untouched(c) \/ Started(c) \/ Sent(c) \/ Answered(c)
                    \/ Rejected(c) \/ Consumed(c)
<1>0. TypeOK /\ Local(c)
  BY DEF IInv
<1>a. phase[c] \notin {"idle", "done"} => attempt[c] \in Attempts
  BY <1>0, Counts DEF Local, Progress
<1>1. ASSUME NEW e \in Calls, Microtask(e) PROVE Kinds
  <2>1. CASE e # c
    <3>1. CASE NextAttempt(e)
      BY <1>0, <2>1, <3>1 DEF TypeOK, NextAttempt, StartAttempt, Suspend, ThrowAborted,
         Untouched
    <3>2. CASE Ready(e) \/ InitRejects(e) \/ Finish(e) \/ Throw(e)
               \/ \E delayed \in BOOLEAN : WaitForRetry(e, delayed)
      BY <1>0, <2>1, <3>2 DEF TypeOK, Ready, InitRejects, Fail, Finish, Throw,
         WaitForRetry, Untouched
    <3>3. CASE Dispatch(e) \/ Catch(e)
      BY <1>0, <2>1, <3>3 DEF TypeOK, Dispatch, Catch, CancelBody, Untouched
    <3> QED BY <1>1, <3>1, <3>2, <3>3 DEF Microtask
  <2>2. CASE e = c
    <3>1. CASE NextAttempt(c)
      BY <1>0, <3>1 DEF TypeOK, NextAttempt, StartAttempt, Suspend, ThrowAborted,
         Started, Consuming
    <3>2. CASE Ready(c) \/ InitRejects(c) \/ Finish(c) \/ Throw(c)
               \/ \E delayed \in BOOLEAN : WaitForRetry(c, delayed)
      BY <1>0, <3>2 DEF TypeOK, Ready, InitRejects, Fail, Finish, Throw,
         WaitForRetry, Untouched, Consuming
    <3>3. CASE Dispatch(c)
      BY <1>0, <1>a, <3>3 DEF TypeOK, Dispatch, Local, Progress, Sent, Consuming
    <3>4. CASE Catch(c)
      <4>1. /\ phase'[c] = "deciding" /\ attempt'[c] = attempt[c]
            /\ exchange'[c] = [exchange[c] EXCEPT ![attempt[c]] =
                                 IF @ = "open" THEN "released" ELSE @]
            /\ attempt[c] \in Attempts
        BY <1>0, <1>a, <3>4 DEF TypeOK, Catch, CancelBody
      <4>2. CASE exchange[c][attempt[c]] = "open"
        BY <4>1, <4>2 DEF Consumed, Consuming
      <4>3. CASE exchange[c][attempt[c]] # "open"
        BY <1>0, <4>1, <4>3 DEF TypeOK, Untouched, Consuming
      <4> QED BY <4>2, <4>3
    <3> QED BY <1>1, <2>2, <3>1, <3>2, <3>3, <3>4 DEF Microtask
  <2> QED BY <2>1, <2>2
<1>2. ASSUME NEW e \in Calls, Timer(e) PROVE Kinds
  BY <1>0, <1>2 DEF TypeOK, Timer, TimerFires, BackoffElapses, Fail, Untouched, Consuming
<1>3. ASSUME NEW e \in Calls, Environment(e) PROVE Kinds
  <2>1. CASE Call(e)
    <3>1. CASE e = c
      <4>1. attempt[c] = 0
        BY <1>0, <2>1, <3>1 DEF Call, Local, Progress
      <4> QED BY <1>0, <2>1, <3>1, <4>1 DEF TypeOK, Call, StartAttempt, Suspend,
              ThrowAborted, Started, Consuming
    <3>2. CASE e # c
      BY <1>0, <2>1, <3>2 DEF TypeOK, Call, StartAttempt, Suspend, ThrowAborted, Untouched
    <3> QED BY <3>1, <3>2
  <2>2. CASE Refuse(e) \/ TokenGiven(e) \/ TokenRefused(e) \/ InspectedOver(e)
             \/ Discarded(e)
    BY <1>0, <2>2 DEF TypeOK, Refuse, TokenGiven, TokenRefused, InspectedOver, Discarded,
       Untouched, Consuming
  <2>3. CASE \E s \in Statuses : Respond(e, s)
    <3>1. CASE e = c
      BY <1>0, <1>a, <2>3, <3>1 DEF TypeOK, Respond, Awaited, Answered
    <3>2. CASE e # c
      BY <1>0, <2>3, <3>2 DEF TypeOK, Respond, Untouched
    <3> QED BY <3>1, <3>2
  <2>4. CASE FetchFails(e)
    <3>1. CASE e = c
      BY <1>0, <1>a, <2>4, <3>1 DEF TypeOK, FetchFails, Awaited, Fail, Rejected, Consuming
    <3>2. CASE e # c
      BY <1>0, <2>4, <3>2 DEF TypeOK, FetchFails, Fail, Untouched
    <3> QED BY <3>1, <3>2
  <2>5. CASE \E a \in Attempts : FetchFailsLate(e, a)
    <3>1. CASE e = c
      <4>1. PICK a \in Attempts : FetchFailsLate(c, a)
        BY <2>5, <3>1
      <4>2. /\ attempt'[c] = attempt[c] /\ phase'[c] = phase[c]
            /\ exchange[c][a] = "pending"
            /\ exchange'[c] = [exchange[c] EXCEPT ![a] = "failed"]
        BY <1>0, <4>1 DEF TypeOK, FetchFailsLate
      <4> QED BY <4>2 DEF Rejected
    <3>2. CASE e # c
      BY <1>0, <2>5, <3>2 DEF TypeOK, FetchFailsLate, Untouched
    <3> QED BY <3>1, <3>2
  <2>6. CASE \/ \E d \in {"none", "within"} : Inspected(e, d)
             \/ Decoded(e)
             \/ \E r \in {"api", "protocol", "body"} : DecodeThrows(e, r)
    <3>1. CASE e = c
      <4>1. /\ phase[c] \in Consuming /\ attempt'[c] = attempt[c]
            /\ phase'[c] \in {"discarding", "resolved", "failing"}
            /\ exchange' = [exchange EXCEPT ![c][attempt[c]] = "released"]
        BY <1>0, <2>6, <3>1 DEF TypeOK, Inspected, Decoded, DecodeThrows, Fail, Consuming
      <4>2. exchange'[c] = [exchange[c] EXCEPT ![attempt[c]] = "released"]
        BY <1>0, <4>1 DEF TypeOK
      <4> QED BY <1>a, <4>1, <4>2 DEF Consumed, Consuming
    <3>2. CASE e # c
      BY <1>0, <2>6, <3>2 DEF TypeOK, Inspected, Decoded, DecodeThrows, Fail, Untouched
    <3> QED BY <3>1, <3>2
  <2> QED BY <1>3, <2>1, <2>2, <2>3, <2>4, <2>5, <2>6 DEF Environment, RespondLate
<1>4. CASE Abort
  BY <1>0, <1>4 DEF TypeOK, Abort, Untouched, Consuming
<1>5. CASE UNCHANGED vars
  BY <1>5 DEF vars, callVars, Untouched
<1> QED BY <1>1, <1>2, <1>3, <1>4, <1>5 DEF Next, Quiet

-----------------------------------------------------------------------------
(* The invariant of safeCall *)

\* The closure of a call holds the response of its last attempt, as soon as there is
\* one; that is the response which is consumed.
Held(c) ==
  /\ \A a \in Attempts : a > attempt[c] => exchange[c][a] = "none"
  /\ phase[c] \in Consuming => attempt[c] \in Attempts /\ exchange[c][attempt[c]] = "open"
  /\ attempt[c] \in Attempts /\ exchange[c][attempt[c]] \in {"open", "released"}
       => finalResponse[c] = <<c, attempt[c]>>

\* What safeCall has reported of a settled call.
Told(c) ==
  /\ report[c].kind \in {"ok", "error"} =>
       phase[c] = "done" /\ report[c].from = <<c, attempt[c]>>
  /\ phase[c] = "done" /\ result[c] = "data" => report[c].kind = "ok"

SafeInv == SafeTypeOK /\ \A c \in Calls : Held(c) /\ Told(c)

LEMMA SafeInitInv == SafeInit => IInv /\ SafeInv
<1> SUFFICES ASSUME SafeInit PROVE IInv /\ SafeInv
  OBVIOUS
<1>1. IInv
  BY InitLocal DEF SafeInit
<1>2. \A c \in Calls : Held(c) /\ Told(c)
  BY DEF SafeInit, Init, Held, Told, Consuming
<1>3. SafeTypeOK
  BY DEF SafeInit, SafeTypeOK, Nothing, ReportKinds
<1> QED BY <1>1, <1>2, <1>3 DEF SafeInv

\* The response captured in a step is the one of the current attempt.
LEMMA CaptureKeeps ==
  ASSUME ~FetchIgnoresAbort, IInv, SafeInv, IInv', SafeNext, NEW c \in Calls
  PROVE  /\ Held(c)'
         /\ finalResponse'[c] \in Fetches \cup {Nothing}
         /\ finalResponse'[c] = finalResponse[c]
              \/ (attempt'[c] \in Attempts /\ exchange'[c][attempt'[c]] = "open")
<1>0. /\ TypeOK /\ TypeOK' /\ Held(c) /\ finalResponse[c] \in Fetches \cup {Nothing}
      /\ attempt[c] \in Nat /\ attempt'[c] \in Nat /\ Attempts \subseteq Nat
  <2>1. TypeOK /\ TypeOK' /\ Held(c) /\ finalResponse[c] \in Fetches \cup {Nothing}
    BY DEF IInv, SafeInv, SafeTypeOK
  <2>2. attempt[c] \in 0..MaxAttempts /\ attempt'[c] \in 0..MaxAttempts
    BY <2>1 DEF TypeOK
  <2> QED BY <2>1, <2>2, ConstantsOK DEF Attempts
<1>1. /\ ResolvedNow(c) = {} => finalResponse'[c] = finalResponse[c]
      /\ ResolvedNow(c) # {} => finalResponse'[c] = CHOOSE f \in ResolvedNow(c) : TRUE
  BY DEF SafeNext, Capture
<1>2. CASE Answered(c)
  <2>1. ResolvedNow(c) = {<<c, attempt[c]>>}
    BY <1>0, <1>2 DEF ResolvedNow, Answered, TypeOK
  <2>2. finalResponse'[c] = <<c, attempt[c]>>
    BY <1>1, <2>1
  <2>3. Held(c)' /\ finalResponse'[c] \in Fetches
    BY <1>0, <1>2, <2>2 DEF Answered, Held, TypeOK, Fetches
  <2>4. attempt'[c] \in Attempts /\ exchange'[c][attempt'[c]] = "open"
    BY <1>0, <1>2 DEF Answered, TypeOK
  <2> QED BY <2>3, <2>4
<1>3. CASE \/ Untouched(c) \/ Started(c) \/ Sent(c) \/ Rejected(c) \/ Consumed(c)
  <2>1. ResolvedNow(c) = {}
    <3> SUFFICES ASSUME NEW a \in Attempts, exchange[c][a] = "pending",
                        exchange'[c][a] \in {"open", "released"}
                 PROVE  FALSE
      BY DEF ResolvedNow
    <3>1. exchange[c] \in [Attempts -> {"none", "pending", "failed", "open", "released"}]
      BY <1>0 DEF TypeOK
    <3>2. CASE Consumed(c)
      BY <1>0, <3>1, <3>2 DEF Consumed, Held
    <3>3. CASE Untouched(c) \/ Started(c) \/ Sent(c)
      BY <3>1, <3>3 DEF Untouched, Started, Sent
    <3>4. CASE Rejected(c)
      BY <3>1, <3>4 DEF Rejected
    <3> QED BY <1>3, <3>2, <3>3, <3>4
  <2>2. finalResponse'[c] = finalResponse[c]
    BY <1>1, <2>1
  <2>3. CASE Untouched(c)
    BY <1>0, <2>2, <2>3 DEF Held, Untouched
  <2>4. CASE Started(c)
    BY <1>0, <2>2, <2>4 DEF Held, Started
  <2>5. CASE Sent(c)
    BY <1>0, <2>2, <2>5 DEF Held, Sent, TypeOK
  <2>6. CASE Rejected(c)
    BY <1>0, <2>2, <2>6 DEF Held, Rejected, TypeOK
  <2>7. CASE Consumed(c)
    BY <1>0, <2>2, <2>7 DEF Held, Consumed, TypeOK
  <2> QED BY <1>0, <1>3, <2>2, <2>3, <2>4, <2>5, <2>6, <2>7
<1>4. [Next]_vars
  BY DEF SafeNext
<1> QED BY <1>2, <1>3, <1>4, StepKinds

\* What safeCall reports of a call that settles in this step.
LEMMA ReturnKeeps ==
  ASSUME ~FetchIgnoresAbort, IInv, SafeInv, IInv', SafeNext, NEW c \in Calls
  PROVE  /\ Told(c)'
         /\ report'[c] \in [kind : ReportKinds, from : Fetches \cup {Nothing}]
<1>0. /\ TypeOK' /\ Evidence(c)' /\ Told(c)
      /\ finalResponse[c] \in Fetches \cup {Nothing}
      /\ report[c] \in [kind : ReportKinds, from : Fetches \cup {Nothing}]
  BY DEF IInv, Local, SafeInv, SafeTypeOK
<1>1. PICK declared \in BOOLEAN :
        report' = [e \in Calls |-> IF phase[e] # "done" /\ phase'[e] = "done"
                                   THEN Reported(e, declared) ELSE report[e]]
  BY DEF SafeNext, Return
<1>2. CASE phase[c] # "done" /\ phase'[c] = "done"
  <2>1. report'[c] = Reported(c, declared)
    BY <1>1, <1>2
  <2>2. result'[c] \in {"data", "api"} =>
          finalResponse[c] = <<c, attempt'[c]>> /\ finalResponse[c] # Nothing
    <3> SUFFICES ASSUME result'[c] \in {"data", "api"}
                 PROVE  finalResponse[c] = <<c, attempt'[c]>> /\ finalResponse[c] # Nothing
      OBVIOUS
    <3>1. attempt'[c] > 0 /\ exchange'[c][attempt'[c]] = "released"
      BY <1>0 DEF Evidence
    <3>2. attempt'[c] \in Attempts
      <4>1. attempt'[c] \in 0..MaxAttempts
        BY <1>0 DEF TypeOK
      <4> QED BY <3>1, <4>1, ConstantsOK DEF Attempts
    <3>3. finalResponse'[c] = <<c, attempt'[c]>>
      BY <3>1, <3>2, CaptureKeeps DEF Held
    <3>4. finalResponse'[c] = finalResponse[c]
      BY <3>1, CaptureKeeps
    <3> QED BY <3>3, <3>4 DEF Nothing
  <2>3. CASE result'[c] = "data"
    <3>1. report'[c] = [kind |-> "ok", from |-> finalResponse[c]]
      BY <2>1, <2>2, <2>3 DEF Reported
    <3> QED BY <1>0, <1>2, <2>2, <2>3, <3>1 DEF Told, ReportKinds
  <2>4. CASE result'[c] = "api" /\ declared
    <3>1. report'[c] = [kind |-> "error", from |-> finalResponse[c]]
      BY <2>1, <2>2, <2>4 DEF Reported
    <3> QED BY <1>0, <1>2, <2>2, <2>4, <3>1 DEF Told, ReportKinds
  <2>5. CASE result'[c] # "data" /\ ~(result'[c] = "api" /\ declared)
    <3>1. report'[c] = [kind |-> "threw", from |-> Nothing]
      BY <2>1, <2>5 DEF Reported
    <3> QED BY <2>5, <3>1 DEF Told, ReportKinds
  <2> QED BY <2>3, <2>4, <2>5
<1>3. CASE ~(phase[c] # "done" /\ phase'[c] = "done")
  <2>1. report'[c] = report[c]
    BY <1>1, <1>3
  <2>2. CASE phase[c] = "done"
    <3>1. phase'[c] = "done" /\ result'[c] = result[c]
      BY <2>2, SettledStep DEF SafeNext
    <3>2. attempt'[c] = attempt[c]
      BY <2>2, StepKinds DEF SafeNext, Untouched, Started, Sent, Answered, Rejected, Consumed
    <3> QED BY <1>0, <2>1, <2>2, <3>1, <3>2 DEF Told
  <2>3. CASE phase[c] # "done"
    BY <1>0, <1>3, <2>1, <2>3 DEF Told
  <2> QED BY <2>2, <2>3
<1> QED BY <1>2, <1>3

LEMMA SafeNextInv ==
  ~FetchIgnoresAbort /\ IInv /\ SafeInv /\ [SafeNext]_safeVars => IInv' /\ SafeInv'
<1> SUFFICES ASSUME ~FetchIgnoresAbort, IInv, SafeInv, [SafeNext]_safeVars
             PROVE  IInv' /\ SafeInv'
  OBVIOUS
<1>1. CASE SafeNext
  <2>1. IInv'
    BY <1>1, NextKeeps DEF SafeNext
  <2>2. \A c \in Calls :
          /\ Held(c)' /\ Told(c)' /\ finalResponse'[c] \in Fetches \cup {Nothing}
          /\ report'[c] \in [kind : ReportKinds, from : Fetches \cup {Nothing}]
    BY <1>1, <2>1, CaptureKeeps, ReturnKeeps
  <2>3. /\ finalResponse' = [c \in Calls |-> finalResponse'[c]]
        /\ report' = [c \in Calls |-> report'[c]]
    BY <1>1 DEF SafeNext, Capture, Return
  <2>4. SafeTypeOK'
    BY <2>2, <2>3 DEF SafeTypeOK
  <2> QED BY <2>1, <2>2, <2>4 DEF SafeInv
<1>2. CASE UNCHANGED safeVars
  <2>1. IInv'
    BY <1>2, NextKeeps DEF safeVars
  <2> QED BY <1>2, <2>1 DEF safeVars, vars, callVars, SafeInv, SafeTypeOK, Held, Told
<1> QED BY <1>1, <1>2

\* The wrapper adds nothing to what its calls do: each of its behaviours is one of
\* TypedFetch, for which the theorems above hold.
THEOREM SafeCallsAreCalls == SafeSpec => Spec
<1>1. SafeInit => Init
  BY DEF SafeInit
<1>2. [SafeNext]_safeVars => [Next]_vars
  BY DEF SafeNext, safeVars
<1> QED BY <1>1, <1>2, PTL DEF SafeSpec, Spec

\* The metadata that safeCall returns are those of the response it decoded, for any
\* calls, requests and aborts, if the fetch that was injected respects its signal.
THEOREM MetadataIsOfAnswer == ~FetchIgnoresAbort => (SafeSpec => []MetadataOfAnswer)
<1> SUFFICES ASSUME ~FetchIgnoresAbort PROVE SafeSpec => []MetadataOfAnswer
  OBVIOUS
<1>1. IInv /\ SafeInv /\ [SafeNext]_safeVars => IInv' /\ SafeInv'
  BY SafeNextInv
<1>2. SafeInv => MetadataOfAnswer
  BY DEF SafeInv, Told, MetadataOfAnswer
<1> QED BY <1>1, <1>2, SafeInitInv, PTL DEF SafeSpec
=============================================================================
