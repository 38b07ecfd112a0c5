-------------------------- MODULE TypedFetchProofs ---------------------------
(***************************************************************************)
(* Proofs about TypedFetch for every set of calls, every set of requests   *)
(* and every maximum of attempts.  IInv is the inductive invariant: the    *)
(* type invariant and, for each call, Local(c).  An action changes one     *)
(* call; the lemma named after it shows that this call keeps Local and     *)
(* that every other call, whose state is the same, does (SameIsLocal).     *)
(* Only Abort touches several calls at once.                               *)
(***************************************************************************)
EXTENDS TypedFetch, TLAPS

\* A step leaves everything that belongs to call c alone.
Same(c) ==
  /\ aborted' = aborted
  /\ \A k \in {"merge", "wait"} :
       <<c, k>> \in listeners' <=> <<c, k>> \in listeners
  /\ phase'[c] = phase[c] /\ request'[c] = request[c] /\ attempt'[c] = attempt[c]
  /\ timer'[c] = timer[c] /\ token'[c] = token[c] /\ prepared'[c] = prepared[c]
  /\ builds'[c] = builds[c] /\ queued'[c] = queued[c] /\ sends'[c] = sends[c]
  /\ exchange'[c] = exchange[c] /\ status'[c] = status[c]
  /\ demand'[c] = demand[c] /\ pause'[c] = pause[c] /\ result'[c] = result[c]

\* The counters of a call are numbers, and its attempts index its exchanges.
LEMMA Counts ==
  ASSUME TypeOK, NEW c \in Calls
  PROVE  /\ attempt[c] \in Nat /\ request[c].maxAttempts \in Nat
         /\ sends[c] \in Nat /\ builds[c] \in Nat
         /\ 1 <= request[c].maxAttempts /\ request[c].maxAttempts <= MaxAttempts
         /\ MaxAttempts \in Nat
         /\ attempt[c] > 0 => attempt[c] \in Attempts
BY ConstantsOK DEF TypeOK, RequestType, Attempts

\* A call that a step leaves alone keeps its part of the invariant.
LEMMA SameIsLocal ==
  ASSUME NEW c \in Calls, Same(c), Local(c)
  PROVE  Local(c)'
<1>1. Progress(c)' /\ RetryGranted(c)' /\ Preparation(c)'
  BY DEF Same, Local, Progress, RetryGranted, Preparation, RetrySafe, HasKey
<1>2. Registrations(c)' /\ Heard(c)' /\ AbortedStops(c)'
  BY DEF Same, Local, Registrations, Heard, AbortedStops, Aborted
<1>3. BodyInHand(c)' /\ Causes(c)' /\ Evidence(c)' /\ Exhausted(c)' /\ OverCap(c)'
  BY DEF Same, Local, BodyInHand, Causes, Evidence, Exhausted, OverCap,
         Aborted, RetrySafe, HasKey
<1> QED BY <1>1, <1>2, <1>3 DEF Local

-----------------------------------------------------------------------------
(* Init, the start of an attempt, and the abort *)

\* The initial states satisfy the invariant.
LEMMA InitLocal == Init => IInv
<1> SUFFICES ASSUME Init PROVE IInv
  OBVIOUS
<1>1. TypeOK
  <2>1. 0 \in 0..MaxAttempts
    BY ConstantsOK
  <2>2. exchange \in [Calls -> [Attempts -> {"none", "pending", "failed", "open",
                                            "released"}]]
    BY DEF Init
  <2> QED BY <2>1, <2>2 DEF Init, TypeOK, Phases, Statuses, Settlements
<1>2. ASSUME NEW c \in Calls PROVE Local(c)
  <2>1. /\ phase[c] = "idle" /\ attempt[c] = 0 /\ builds[c] = 0 /\ sends[c] = 0
        /\ ~queued[c] /\ result[c] = "none" /\ token[c] = "unasked"
        /\ demand[c] = "none"
        /\ timer[c] = "off" /\ listeners = {} /\ aborted = FALSE
        /\ \A a \in Attempts : exchange[c][a] = "none"
    BY <1>2 DEF Init
  <2>2. Progress(c) /\ RetryGranted(c) /\ Preparation(c)
    BY <2>1, <1>1, Counts DEF Progress, RetryGranted, Preparation
  <2>3. Registrations(c) /\ Heard(c) /\ AbortedStops(c)
    BY <2>1 DEF Registrations, Heard, AbortedStops, Aborted, Awaiting, InAttempt
  <2>4. BodyInHand(c) /\ Causes(c) /\ Evidence(c) /\ Exhausted(c) /\ OverCap(c)
    BY <2>1 DEF BodyInHand, Causes, Evidence, Exhausted, OverCap, Awaiting, Settlements
  <2> QED BY <2>2, <2>3, <2>4 DEF Local
<1> QED BY <1>1, <1>2 DEF IInv

\* An attempt that starts, first or later, suspends with its timer and listener
\* in place or is stopped by the abort.
LEMMA StartedIsLocal ==
  ASSUME IInv, NEW c \in Calls, StartAttempt(c), TypeOK',
         phase[c] \in {"idle", "waited"},
         attempt'[c] = attempt[c] + 1,
         aborted' = aborted,
         request'[c] = request[c], prepared'[c] = prepared[c],
         queued'[c] = queued[c], sends'[c] = sends[c], exchange'[c] = exchange[c],
         status'[c] = status[c] \/ status'[c] = "none",
         demand'[c] # "over"
  PROVE  Local(c)'
<1>0. TypeOK /\ Local(c) BY DEF IInv
<1>1. CASE ~Aborted(c) /\ Suspend(c)
  <2>1. /\ ~Aborted(c)
        /\ phase'[c] = "preparing" /\ result'[c] = "none" /\ timer'[c] = "armed"
        /\ listeners' = Listen(c, "merge")
        /\ builds'[c] = (IF prepared[c] THEN builds[c] ELSE builds[c] + 1)
        /\ token'[c] = (IF request[c].auth /\ ~prepared[c] THEN "pending" ELSE token[c])
    BY <1>0, <1>1 DEF TypeOK, Suspend, ArmTimeout, CreateInit
  <2>2. phase[c] = "waited" => prepared[c]
    BY <1>0 DEF Local, RetryGranted
  <2>3. Progress(c)' /\ RetryGranted(c)' /\ Preparation(c)'
    BY <1>0, <2>1, <2>2, Counts DEF Local, Progress, RetryGranted, Preparation
  <2>4. Registrations(c)' /\ Heard(c)' /\ AbortedStops(c)'
    BY <1>0, <2>1 DEF Local, Registrations, Heard, AbortedStops, Aborted,
                      Awaiting, InAttempt, Listen
  <2>5. BodyInHand(c)' /\ Causes(c)' /\ Evidence(c)' /\ Exhausted(c)' /\ OverCap(c)'
    BY <1>0, <2>1 DEF Local, BodyInHand, Causes, Evidence, Exhausted, OverCap, Awaiting,
                      Settlements
  <2> QED BY <2>3, <2>4, <2>5 DEF Local
<1>2. CASE Aborted(c) /\ ThrowAborted(c)
  <2>1. /\ Aborted(c)
        /\ phase'[c] = "deciding" /\ result'[c] = "aborted"
        /\ listeners' = listeners /\ timer'[c] = timer[c]
        /\ builds'[c] = builds[c] /\ token'[c] = token[c]
    BY <1>0, <1>2 DEF TypeOK, ThrowAborted
  <2>3. Progress(c)' /\ RetryGranted(c)' /\ Preparation(c)'
    BY <1>0, <2>1, Counts DEF Local, Progress, RetryGranted, Preparation
  <2>4. Registrations(c)' /\ Heard(c)' /\ AbortedStops(c)'
    BY <1>0, <2>1 DEF Local, Registrations, Heard, AbortedStops, Aborted,
                      Awaiting, InAttempt
  <2>5. BodyInHand(c)' /\ Causes(c)' /\ Evidence(c)' /\ Exhausted(c)' /\ OverCap(c)'
    BY <1>0, <2>1 DEF Local, BodyInHand, Causes, Evidence, Exhausted, OverCap, Aborted,
                      Awaiting, Settlements
  <2> QED BY <2>3, <2>4, <2>5 DEF Local
<1> QED BY <1>1, <1>2 DEF StartAttempt

\* The first attempt counts as one.
LEMMA CallKeeps ==
  ASSUME IInv, NEW c \in Calls, Call(c)
  PROVE  IInv'
<1>0. TypeOK /\ Local(c) BY DEF IInv
<1>1. attempt[c] = 0
  BY <1>0 DEF Local, Progress, Call
<1>2. TypeOK'
  <2>1. CASE Suspend(c)
    BY <1>0, <2>1, ConstantsOK DEF TypeOK, Call, Suspend, ArmTimeout, CreateInit,
           Listen, Phases, Settlements
  <2>2. CASE ThrowAborted(c)
    BY <1>0, <2>2, ConstantsOK DEF TypeOK, Call, ThrowAborted, Phases, Settlements
  <2> QED BY <2>1, <2>2 DEF Call, StartAttempt
<1>3. ASSUME NEW e \in Calls, e # c PROVE Local(e)'
  <2>1. Local(e) BY DEF IInv
  <2>2. CASE Suspend(c)
    BY <1>0, <1>3, <2>1, <2>2, SameIsLocal DEF TypeOK, Call, Suspend, ArmTimeout, CreateInit,
           Listen, Same
  <2>3. CASE ThrowAborted(c)
    BY <1>0, <1>3, <2>1, <2>3, SameIsLocal DEF TypeOK, Call, ThrowAborted, Same
  <2> QED BY <2>2, <2>3 DEF Call, StartAttempt
<1>4. Local(c)'
  <2>1. /\ StartAttempt(c) /\ phase[c] = "idle" /\ attempt'[c] = attempt[c] + 1
        /\ aborted' = aborted /\ request'[c] = request[c]
        /\ prepared'[c] = prepared[c] /\ queued'[c] = queued[c]
        /\ sends'[c] = sends[c] /\ exchange'[c] = exchange[c]
        /\ status'[c] = status[c] /\ demand'[c] # "over"
    BY <1>0, <1>1 DEF TypeOK, Call, Local, OverCap
  <2> QED BY <1>2, <2>1, StartedIsLocal
<1> QED BY <1>2, <1>3, <1>4 DEF IInv

\* A further attempt stays within the granted budget.
LEMMA NextAttemptKeeps ==
  ASSUME IInv, NEW c \in Calls, NextAttempt(c)
  PROVE  IInv'
<1>0. TypeOK /\ Local(c) BY DEF IInv
<1>1. attempt[c] + 1 \in 0..MaxAttempts
  BY <1>0, Counts DEF Local, RetryGranted, NextAttempt
<1>2. TypeOK'
  <2>1. CASE Suspend(c)
    BY <1>0, <1>1, <2>1 DEF TypeOK, NextAttempt, Suspend, ArmTimeout, CreateInit,
           Listen, Phases, Settlements
  <2>2. CASE ThrowAborted(c)
    BY <1>0, <1>1, <2>2 DEF TypeOK, NextAttempt, ThrowAborted, Phases, Settlements
  <2> QED BY <2>1, <2>2 DEF NextAttempt, StartAttempt
<1>3. ASSUME NEW e \in Calls, e # c PROVE Local(e)'
  <2>1. Local(e) BY DEF IInv
  <2>2. CASE Suspend(c)
    BY <1>0, <1>3, <2>1, <2>2, SameIsLocal DEF TypeOK, NextAttempt, Suspend, ArmTimeout, CreateInit,
           Listen, Same
  <2>3. CASE ThrowAborted(c)
    BY <1>0, <1>3, <2>1, <2>3, SameIsLocal DEF TypeOK, NextAttempt, ThrowAborted, Same
  <2> QED BY <2>2, <2>3 DEF NextAttempt, StartAttempt
<1>4. Local(c)'
  <2>1. /\ StartAttempt(c) /\ phase[c] = "waited" /\ attempt'[c] = attempt[c] + 1
        /\ aborted' = aborted /\ request'[c] = request[c]
        /\ prepared'[c] = prepared[c] /\ queued'[c] = queued[c]
        /\ sends'[c] = sends[c] /\ exchange'[c] = exchange[c]
        /\ status'[c] = "none" /\ demand'[c] # "over"
    BY <1>0 DEF TypeOK, NextAttempt
  <2> QED BY <1>2, <2>1, StartedIsLocal
<1> QED BY <1>2, <1>3, <1>4 DEF IInv

\* The abort reaches every call that waits, and each settles or fails with it.
LEMMA AbortKeeps ==
  ASSUME IInv, Abort
  PROVE  IInv'
<1>0. TypeOK BY DEF IInv
<1>1. TypeOK'
  BY <1>0 DEF TypeOK, Abort, Phases, Settlements
<1>2. ASSUME NEW c \in Calls PROVE Local(c)'
  <2>0. Local(c) BY DEF IInv
  <2>1. /\ aborted' = TRUE /\ ~aborted /\ listeners' = {}
        /\ request'[c] = request[c] /\ attempt'[c] = attempt[c]
        /\ timer'[c] = timer[c] /\ token'[c] = token[c]
        /\ prepared'[c] = prepared[c] /\ builds'[c] = builds[c]
        /\ queued'[c] = queued[c] /\ sends'[c] = sends[c]
        /\ exchange'[c] = exchange[c] /\ status'[c] = status[c]
        /\ demand'[c] = demand[c] /\ pause'[c] = pause[c]
    BY <1>2 DEF Abort
  <2>2. \/ /\ c \in Signalled
           /\ phase[c] \in Awaiting
           /\ phase'[c] = "failing" /\ result'[c] = "signal"
        \/ /\ c \in Signalled
           /\ phase[c] = "backoff"
           /\ phase'[c] = "done" /\ result'[c] = "aborted"
        \/ /\ c \in Signalled => phase[c] \notin Awaiting \cup {"backoff"}
           /\ phase'[c] = phase[c] /\ result'[c] = result[c]
    BY <1>0, <2>0 DEF TypeOK, Abort, Local, Registrations, Heard, Awaiting, InAttempt
  <2>3. Progress(c)' /\ RetryGranted(c)' /\ Preparation(c)'
    BY <2>0, <2>1, <2>2 DEF Local, Progress, RetryGranted, Preparation, Awaiting,
                            RetrySafe, HasKey
  <2>4. Registrations(c)' /\ Heard(c)' /\ AbortedStops(c)'
    BY <2>0, <2>1, <2>2 DEF Local, Registrations, Heard, AbortedStops, Aborted,
                            Awaiting, InAttempt
  <2>5. BodyInHand(c)' /\ Causes(c)' /\ Evidence(c)' /\ Exhausted(c)' /\ OverCap(c)'
    BY <2>0, <2>1, <2>2 DEF Local, BodyInHand, Causes, Evidence, Exhausted, OverCap, Aborted,
                            Awaiting, Settlements, RetrySafe, HasKey
  <2> QED BY <2>3, <2>4, <2>5 DEF Local
<1> QED BY <1>1, <1>2 DEF IInv

\* A step that changes nothing keeps the invariant.
LEMMA StutterKeeps ==
  ASSUME IInv, UNCHANGED vars
  PROVE  IInv'
<1>1. TypeOK' BY DEF IInv, TypeOK, vars, callVars
<1>2. ASSUME NEW c \in Calls PROVE Local(c)'
  <2>1. Same(c) BY DEF Same, vars, callVars
  <2> QED BY <2>1, SameIsLocal DEF IInv
<1> QED BY <1>1, <1>2 DEF IInv

-----------------------------------------------------------------------------
(* The other actions, one lemma each *)

\* A refused call settles without touching anything else.
LEMMA RefuseKeeps ==
  ASSUME IInv, NEW c \in Calls, Refuse(c)
  PROVE  IInv'
<1>0. TypeOK /\ Local(c) BY DEF IInv
<1>1. /\ phase'[c] = "done"
      /\ result'[c] = "configuration"
      /\ aborted' = aborted /\ listeners' = listeners
      /\ request'[c] = request[c] /\ attempt'[c] = attempt[c]
      /\ timer'[c] = timer[c] /\ token'[c] = token[c]
      /\ prepared'[c] = prepared[c] /\ builds'[c] = builds[c]
      /\ queued'[c] = queued[c] /\ sends'[c] = sends[c]
      /\ exchange'[c] = exchange[c] /\ status'[c] = status[c]
      /\ demand'[c] = demand[c] /\ pause'[c] = pause[c]
      /\ phase[c] = "idle"
  BY <1>0 DEF TypeOK, Refuse, Quiescent
<1>3. TypeOK' BY <1>0, <1>1, Counts DEF TypeOK, Refuse, Phases, Settlements,
           Statuses
<1>4. ASSUME NEW e \in Calls, e # c PROVE Local(e)'
  <2>1. Local(e) BY DEF IInv
  <2>2. Same(e) BY <1>0, <1>1, <1>4 DEF TypeOK, Refuse, Same
  <2> QED BY <2>1, <2>2, SameIsLocal
<1>5. Local(c)'
  <2>1. Progress(c)' /\ RetryGranted(c)' /\ Preparation(c)'
    BY <1>0, <1>1, Counts DEF Local, Progress, RetryGranted, Preparation,
           Causes, Registrations, Aborted, Awaiting, InAttempt, Settlements
  <2>2. Registrations(c)' /\ Heard(c)' /\ AbortedStops(c)'
    BY <1>0, <1>1, Counts DEF Local, Registrations, Heard, AbortedStops,
           Causes, Progress, Aborted, Awaiting, InAttempt, Settlements
  <2>3. BodyInHand(c)' /\ Causes(c)' /\ Evidence(c)' /\ Exhausted(c)' /\ OverCap(c)'
    BY <1>0, <1>1, Counts DEF Local, BodyInHand, Causes, Evidence, Exhausted,
           OverCap, Progress, Preparation, RetryGranted, Registrations,
           Aborted, Awaiting, InAttempt, Settlements
  <2> QED BY <2>1, <2>2, <2>3 DEF Local
<1> QED BY <1>3, <1>4, <1>5 DEF IInv

\* A token that arrives, wanted or not, sets request init and nothing more.
LEMMA TokenGivenKeeps ==
  ASSUME IInv, NEW c \in Calls, TokenGiven(c)
  PROVE  IInv'
<1>0. TypeOK /\ Local(c) BY DEF IInv
<1>1. /\ token'[c] = "answered"
      /\ prepared'[c] = TRUE
      /\ aborted' = aborted /\ listeners' = listeners
      /\ phase'[c] = phase[c] /\ request'[c] = request[c]
      /\ attempt'[c] = attempt[c] /\ timer'[c] = timer[c]
      /\ builds'[c] = builds[c] /\ queued'[c] = queued[c]
      /\ sends'[c] = sends[c] /\ exchange'[c] = exchange[c]
      /\ status'[c] = status[c] /\ demand'[c] = demand[c]
      /\ pause'[c] = pause[c] /\ result'[c] = result[c]
      /\ token[c] = "pending"
  BY <1>0 DEF TypeOK, TokenGiven, Quiescent
<1>3. TypeOK' BY <1>0, <1>1, Counts DEF TypeOK, TokenGiven, Phases,
           Settlements, Statuses
<1>4. ASSUME NEW e \in Calls, e # c PROVE Local(e)'
  <2>1. Local(e) BY DEF IInv
  <2>2. Same(e) BY <1>0, <1>1, <1>4 DEF TypeOK, TokenGiven, Same
  <2> QED BY <2>1, <2>2, SameIsLocal
<1>5. Local(c)'
  <2>1. Progress(c)' /\ RetryGranted(c)' /\ Preparation(c)'
    BY <1>0, <1>1, Counts DEF Local, Progress, RetryGranted, Preparation,
           Causes, Registrations, Aborted, Awaiting, InAttempt, Settlements
  <2>2. Registrations(c)' /\ Heard(c)' /\ AbortedStops(c)'
    BY <1>0, <1>1, Counts DEF Local, Registrations, Heard, AbortedStops,
           Causes, Progress, Aborted, Awaiting, InAttempt, Settlements
  <2>3. BodyInHand(c)' /\ Causes(c)' /\ Evidence(c)' /\ Exhausted(c)' /\ OverCap(c)'
    BY <1>0, <1>1, Counts DEF Local, BodyInHand, Causes, Evidence, Exhausted,
           OverCap, Progress, Preparation, RetryGranted, Registrations,
           Aborted, Awaiting, InAttempt, Settlements
  <2> QED BY <2>1, <2>2, <2>3 DEF Local
<1> QED BY <1>3, <1>4, <1>5 DEF IInv

\* A refused token fails the attempt that waits for it and no other.
LEMMA TokenRefusedKeeps ==
  ASSUME IInv, NEW c \in Calls, TokenRefused(c)
  PROVE  IInv'
<1>0. TypeOK /\ Local(c) BY DEF IInv
<1>1. /\ token'[c] = "answered"
      /\ phase'[c] = IF phase[c] = "preparing" THEN "failing" ELSE phase[c]
      /\ result'[c] = IF phase[c] = "preparing" THEN "init" ELSE result[c]
      /\ aborted' = aborted /\ listeners' = listeners
      /\ request'[c] = request[c] /\ attempt'[c] = attempt[c]
      /\ timer'[c] = timer[c] /\ prepared'[c] = prepared[c]
      /\ builds'[c] = builds[c] /\ queued'[c] = queued[c]
      /\ sends'[c] = sends[c] /\ exchange'[c] = exchange[c]
      /\ status'[c] = status[c] /\ demand'[c] = demand[c]
      /\ pause'[c] = pause[c]
      /\ token[c] = "pending"
  BY <1>0 DEF TypeOK, TokenRefused, Quiescent
<1>3. TypeOK' BY <1>0, <1>1, Counts DEF TypeOK, TokenRefused, Phases,
           Settlements, Statuses
<1>4. ASSUME NEW e \in Calls, e # c PROVE Local(e)'
  <2>1. Local(e) BY DEF IInv
  <2>2. Same(e) BY <1>0, <1>1, <1>4 DEF TypeOK, TokenRefused, Same
  <2> QED BY <2>1, <2>2, SameIsLocal
<1>5. Local(c)'
  <2>1. Progress(c)' /\ RetryGranted(c)' /\ Preparation(c)'
    BY <1>0, <1>1, Counts DEF Local, Progress, RetryGranted, Preparation,
           Causes, Registrations, Aborted, Awaiting, InAttempt, Settlements
  <2>2. Registrations(c)' /\ Heard(c)' /\ AbortedStops(c)'
    BY <1>0, <1>1, Counts DEF Local, Registrations, Heard, AbortedStops,
           Causes, Progress, Aborted, Awaiting, InAttempt, Settlements
  <2>3. BodyInHand(c)' /\ Causes(c)' /\ Evidence(c)' /\ Exhausted(c)' /\ OverCap(c)'
    BY <1>0, <1>1, Counts DEF Local, BodyInHand, Causes, Evidence, Exhausted,
           OverCap, Progress, Preparation, RetryGranted, Registrations,
           Aborted, Awaiting, InAttempt, Settlements
  <2> QED BY <2>1, <2>2, <2>3 DEF Local
<1> QED BY <1>3, <1>4, <1>5 DEF IInv

\* Going on to fetch schedules the one send this attempt may make.
LEMMA ReadyKeeps ==
  ASSUME IInv, NEW c \in Calls, Ready(c)
  PROVE  IInv'
<1>0. TypeOK /\ Local(c) BY DEF IInv
<1>1. /\ phase'[c] = "fetching"
      /\ prepared'[c] = TRUE
      /\ queued'[c] = TRUE
      /\ aborted' = aborted /\ listeners' = listeners
      /\ request'[c] = request[c] /\ attempt'[c] = attempt[c]
      /\ timer'[c] = timer[c] /\ token'[c] = token[c]
      /\ builds'[c] = builds[c] /\ sends'[c] = sends[c]
      /\ exchange'[c] = exchange[c] /\ status'[c] = status[c]
      /\ demand'[c] = demand[c] /\ pause'[c] = pause[c]
      /\ result'[c] = result[c]
      /\ phase[c] = "preparing"
      /\ prepared[c] \/ ~request[c].auth
  BY <1>0 DEF TypeOK, Ready, InitReady, Quiescent
<1>3. TypeOK' BY <1>0, <1>1, Counts DEF TypeOK, Ready, InitReady, Phases,
           Settlements, Statuses
<1>4. ASSUME NEW e \in Calls, e # c PROVE Local(e)'
  <2>1. Local(e) BY DEF IInv
  <2>2. Same(e) BY <1>0, <1>1, <1>4 DEF TypeOK, Ready, InitReady, Same
  <2> QED BY <2>1, <2>2, SameIsLocal
<1>5. Local(c)'
  <2>1. Progress(c)' /\ RetryGranted(c)' /\ Preparation(c)'
    BY <1>0, <1>1, Counts DEF Local, Progress, RetryGranted, Preparation,
           Causes, Registrations, Aborted, Awaiting, InAttempt, Settlements
  <2>2. Registrations(c)' /\ Heard(c)' /\ AbortedStops(c)'
    BY <1>0, <1>1, Counts DEF Local, Registrations, Heard, AbortedStops,
           Causes, Progress, Aborted, Awaiting, InAttempt, Settlements
  <2>3. BodyInHand(c)' /\ Causes(c)' /\ Evidence(c)' /\ Exhausted(c)' /\ OverCap(c)'
    BY <1>0, <1>1, Counts DEF Local, BodyInHand, Causes, Evidence, Exhausted,
           OverCap, Progress, Preparation, RetryGranted, Registrations,
           Aborted, Awaiting, InAttempt, Settlements
  <2> QED BY <2>1, <2>2, <2>3 DEF Local
<1> QED BY <1>3, <1>4, <1>5 DEF IInv

\* A rejected request init has sent nothing.
LEMMA InitRejectsKeeps ==
  ASSUME IInv, NEW c \in Calls, InitRejects(c)
  PROVE  IInv'
<1>0. TypeOK /\ Local(c) BY DEF IInv
<1>1. /\ phase'[c] = "failing"
      /\ result'[c] = "init"
      /\ aborted' = aborted /\ listeners' = listeners
      /\ request'[c] = request[c] /\ attempt'[c] = attempt[c]
      /\ timer'[c] = timer[c] /\ token'[c] = token[c]
      /\ prepared'[c] = prepared[c] /\ builds'[c] = builds[c]
      /\ queued'[c] = queued[c] /\ sends'[c] = sends[c]
      /\ exchange'[c] = exchange[c] /\ status'[c] = status[c]
      /\ demand'[c] = demand[c] /\ pause'[c] = pause[c]
      /\ phase[c] = "preparing"
      /\ ~prepared[c]
  BY <1>0 DEF TypeOK, InitRejects, InitReady, Fail, Quiescent
<1>3. TypeOK' BY <1>0, <1>1, Counts DEF TypeOK, InitRejects, InitReady, Fail,
           Phases, Settlements, Statuses
<1>4. ASSUME NEW e \in Calls, e # c PROVE Local(e)'
  <2>1. Local(e) BY DEF IInv
  <2>2. Same(e) BY <1>0, <1>1, <1>4 DEF TypeOK, InitRejects, InitReady, Fail,
               Same
  <2> QED BY <2>1, <2>2, SameIsLocal
<1>5. Local(c)'
  <2>1. Progress(c)' /\ RetryGranted(c)' /\ Preparation(c)'
    BY <1>0, <1>1, Counts DEF Local, Progress, RetryGranted, Preparation,
           Causes, Registrations, Aborted, Awaiting, InAttempt, Settlements
  <2>2. Registrations(c)' /\ Heard(c)' /\ AbortedStops(c)'
    BY <1>0, <1>1, Counts DEF Local, Registrations, Heard, AbortedStops,
           Causes, Progress, Aborted, Awaiting, InAttempt, Settlements
  <2>3. BodyInHand(c)' /\ Causes(c)' /\ Evidence(c)' /\ Exhausted(c)' /\ OverCap(c)'
    BY <1>0, <1>1, Counts DEF Local, BodyInHand, Causes, Evidence, Exhausted,
           OverCap, Progress, Preparation, RetryGranted, Registrations,
           Aborted, Awaiting, InAttempt, Settlements
  <2> QED BY <2>1, <2>2, <2>3 DEF Local
<1> QED BY <1>3, <1>4, <1>5 DEF IInv

\* The scheduled send uses up the attempt it was counted for.
LEMMA DispatchKeeps ==
  ASSUME IInv, NEW c \in Calls, Dispatch(c)
  PROVE  IInv'
<1>0. TypeOK /\ Local(c) BY DEF IInv
<1>1. /\ queued'[c] = FALSE
      /\ sends'[c] = sends[c] + 1
      /\ exchange'[c] = [exchange[c] EXCEPT ![attempt[c]] = "pending"]
      /\ aborted' = aborted /\ listeners' = listeners
      /\ phase'[c] = phase[c] /\ request'[c] = request[c]
      /\ attempt'[c] = attempt[c] /\ timer'[c] = timer[c]
      /\ token'[c] = token[c] /\ prepared'[c] = prepared[c]
      /\ builds'[c] = builds[c] /\ status'[c] = status[c]
      /\ demand'[c] = demand[c] /\ pause'[c] = pause[c]
      /\ result'[c] = result[c]
      /\ queued[c]
  BY <1>0 DEF TypeOK, Dispatch, Quiescent
<1>2. /\ attempt[c] > 0 => attempt[c] \in Attempts
      /\ exchange[c] \in [Attempts -> {"none", "pending", "failed", "open",
                                       "released"}]
      /\ attempt[c] > 0
  BY <1>0, <1>1, Counts DEF TypeOK, Local, Progress
<1>3. TypeOK' BY <1>0, <1>1, <1>2, Counts DEF TypeOK, Dispatch, Phases,
           Settlements, Statuses
<1>4. ASSUME NEW e \in Calls, e # c PROVE Local(e)'
  <2>1. Local(e) BY DEF IInv
  <2>2. Same(e) BY <1>0, <1>1, <1>4 DEF TypeOK, Dispatch, Same
  <2> QED BY <2>1, <2>2, SameIsLocal
<1>5. Local(c)'
  <2>1. Progress(c)' /\ RetryGranted(c)' /\ Preparation(c)'
    BY <1>0, <1>1, <1>2, Counts DEF Local, Progress, RetryGranted,
           Preparation, Causes, Registrations, Aborted, Awaiting, InAttempt,
           Settlements
  <2>2. Registrations(c)' /\ Heard(c)' /\ AbortedStops(c)'
    BY <1>0, <1>1, <1>2, Counts DEF Local, Registrations, Heard, AbortedStops,
           Causes, Progress, Aborted, Awaiting, InAttempt, Settlements
  <2>3. BodyInHand(c)' /\ Causes(c)' /\ Evidence(c)' /\ Exhausted(c)' /\ OverCap(c)'
    BY <1>0, <1>1, <1>2, Counts DEF Local, BodyInHand, Causes, Evidence,
           Exhausted, OverCap, Progress, Preparation, RetryGranted,
           Registrations, Aborted, Awaiting, InAttempt, Settlements
  <2> QED BY <2>1, <2>2, <2>3 DEF Local
<1> QED BY <1>3, <1>4, <1>5 DEF IInv

\* A response is inspected only where another attempt is allowed.
LEMMA RespondKeeps ==
  ASSUME IInv, NEW c \in Calls, NEW s \in Statuses, Respond(c, s)
  PROVE  IInv'
<1>0. TypeOK /\ Local(c) BY DEF IInv
<1>1. /\ exchange'[c] = [exchange[c] EXCEPT ![attempt[c]] = "open"]
      /\ status'[c] = s
      /\ phase'[c] = IF InspectsRetry(c, s) THEN "inspecting" ELSE "reading"
      /\ aborted' = aborted /\ listeners' = listeners
      /\ request'[c] = request[c] /\ attempt'[c] = attempt[c]
      /\ timer'[c] = timer[c] /\ token'[c] = token[c]
      /\ prepared'[c] = prepared[c] /\ builds'[c] = builds[c]
      /\ queued'[c] = queued[c] /\ sends'[c] = sends[c]
      /\ demand'[c] = demand[c] /\ pause'[c] = pause[c]
      /\ result'[c] = result[c]
      /\ phase[c] = "fetching"
      /\ exchange[c][attempt[c]] = "pending"
      /\ ~queued[c]
  BY <1>0 DEF TypeOK, Respond, Awaited, Quiescent
<1>2. /\ attempt[c] > 0 => attempt[c] \in Attempts
      /\ exchange[c] \in [Attempts -> {"none", "pending", "failed", "open",
                                       "released"}]
      /\ attempt[c] > 0
  BY <1>0, <1>1, Counts DEF TypeOK, Local, Progress
<1>3. TypeOK' BY <1>0, <1>1, <1>2, Counts DEF TypeOK, Respond, Awaited,
           Phases, Settlements, Statuses
<1>4. ASSUME NEW e \in Calls, e # c PROVE Local(e)'
  <2>1. Local(e) BY DEF IInv
  <2>2. Same(e) BY <1>0, <1>1, <1>4 DEF TypeOK, Respond, Awaited, Same
  <2> QED BY <2>1, <2>2, SameIsLocal
<1>5. Local(c)'
  <2>1. Progress(c)' /\ RetryGranted(c)' /\ Preparation(c)'
    BY <1>0, <1>1, <1>2, Counts DEF Local, Progress, RetryGranted,
           Preparation, Causes, Registrations, Aborted, Awaiting, InAttempt,
           Settlements, InspectsRetry
  <2>2. Registrations(c)' /\ Heard(c)' /\ AbortedStops(c)'
    BY <1>0, <1>1, <1>2, Counts DEF Local, Registrations, Heard, AbortedStops,
           Causes, Progress, Aborted, Awaiting, InAttempt, Settlements,
           InspectsRetry
  <2>3. BodyInHand(c)' /\ Causes(c)' /\ Evidence(c)' /\ Exhausted(c)' /\ OverCap(c)'
    BY <1>0, <1>1, <1>2, Counts DEF Local, BodyInHand, Causes, Evidence,
           Exhausted, OverCap, Progress, Preparation, RetryGranted,
           Registrations, Aborted, Awaiting, InAttempt, Settlements,
           InspectsRetry
  <2> QED BY <2>1, <2>2, <2>3 DEF Local
<1> QED BY <1>3, <1>4, <1>5 DEF IInv

\* A late response is released, whoever awaits what by then.
LEMMA RespondLateKeeps ==
  ASSUME IInv, NEW c \in Calls, NEW a \in Attempts, RespondLate(c, a)
  PROVE  IInv'
<1>0. TypeOK /\ Local(c) BY DEF IInv
<1>1. /\ exchange'[c] = [exchange[c] EXCEPT ![a] = "released"]
      /\ aborted' = aborted /\ listeners' = listeners
      /\ phase'[c] = phase[c] /\ request'[c] = request[c]
      /\ attempt'[c] = attempt[c] /\ timer'[c] = timer[c]
      /\ token'[c] = token[c] /\ prepared'[c] = prepared[c]
      /\ builds'[c] = builds[c] /\ queued'[c] = queued[c]
      /\ sends'[c] = sends[c] /\ status'[c] = status[c]
      /\ demand'[c] = demand[c] /\ pause'[c] = pause[c]
      /\ result'[c] = result[c]
      /\ exchange[c][a] = "pending"
  BY <1>0 DEF TypeOK, RespondLate, Quiescent
<1>2. /\ attempt[c] > 0 => attempt[c] \in Attempts
      /\ exchange[c] \in [Attempts -> {"none", "pending", "failed", "open",
                                       "released"}]
  BY <1>0, <1>1, Counts DEF TypeOK, Local, Progress
<1>3. TypeOK' BY <1>0, <1>1, <1>2, Counts DEF TypeOK, RespondLate, Phases,
           Settlements, Statuses
<1>4. ASSUME NEW e \in Calls, e # c PROVE Local(e)'
  <2>1. Local(e) BY DEF IInv
  <2>2. Same(e) BY <1>0, <1>1, <1>4 DEF TypeOK, RespondLate, Same
  <2> QED BY <2>1, <2>2, SameIsLocal
<1>5. Local(c)'
  <2>1. Progress(c)' /\ RetryGranted(c)' /\ Preparation(c)'
    BY <1>0, <1>1, <1>2, Counts DEF Local, Progress, RetryGranted,
           Preparation, Causes, Registrations, Aborted, Awaiting, InAttempt,
           Settlements
  <2>2. Registrations(c)' /\ Heard(c)' /\ AbortedStops(c)'
    BY <1>0, <1>1, <1>2, Counts DEF Local, Registrations, Heard, AbortedStops,
           Causes, Progress, Aborted, Awaiting, InAttempt, Settlements
  <2>3. BodyInHand(c)' /\ Causes(c)' /\ Evidence(c)' /\ Exhausted(c)' /\ OverCap(c)'
    BY <1>0, <1>1, <1>2, Counts DEF Local, BodyInHand, Causes, Evidence,
           Exhausted, OverCap, Progress, Preparation, RetryGranted,
           Registrations, Aborted, Awaiting, InAttempt, Settlements
  <2> QED BY <2>1, <2>2, <2>3 DEF Local
<1> QED BY <1>3, <1>4, <1>5 DEF IInv

\* A rejected fetch is the evidence of a transport error.
LEMMA FetchFailsKeeps ==
  ASSUME IInv, NEW c \in Calls, FetchFails(c)
  PROVE  IInv'
<1>0. TypeOK /\ Local(c) BY DEF IInv
<1>1. /\ exchange'[c] = [exchange[c] EXCEPT ![attempt[c]] = "failed"]
      /\ phase'[c] = "failing"
      /\ result'[c] = "network"
      /\ aborted' = aborted /\ listeners' = listeners
      /\ request'[c] = request[c] /\ attempt'[c] = attempt[c]
      /\ timer'[c] = timer[c] /\ token'[c] = token[c]
      /\ prepared'[c] = prepared[c] /\ builds'[c] = builds[c]
      /\ queued'[c] = queued[c] /\ sends'[c] = sends[c]
      /\ status'[c] = status[c] /\ demand'[c] = demand[c]
      /\ pause'[c] = pause[c]
      /\ phase[c] = "fetching"
      /\ exchange[c][attempt[c]] = "pending"
      /\ ~queued[c]
  BY <1>0 DEF TypeOK, FetchFails, Awaited, Fail, Quiescent
<1>2. /\ attempt[c] > 0 => attempt[c] \in Attempts
      /\ exchange[c] \in [Attempts -> {"none", "pending", "failed", "open",
                                       "released"}]
      /\ attempt[c] > 0
  BY <1>0, <1>1, Counts DEF TypeOK, Local, Progress
<1>3. TypeOK' BY <1>0, <1>1, <1>2, Counts DEF TypeOK, FetchFails, Awaited,
           Fail, Phases, Settlements, Statuses
<1>4. ASSUME NEW e \in Calls, e # c PROVE Local(e)'
  <2>1. Local(e) BY DEF IInv
  <2>2. Same(e) BY <1>0, <1>1, <1>4 DEF TypeOK, FetchFails, Awaited, Fail,
               Same
  <2> QED BY <2>1, <2>2, SameIsLocal
<1>5. Local(c)'
  <2>1. Progress(c)' /\ RetryGranted(c)' /\ Preparation(c)'
    BY <1>0, <1>1, <1>2, Counts DEF Local, Progress, RetryGranted,
           Preparation, Causes, Registrations, Aborted, Awaiting, InAttempt,
           Settlements
  <2>2. Registrations(c)' /\ Heard(c)' /\ AbortedStops(c)'
    BY <1>0, <1>1, <1>2, Counts DEF Local, Registrations, Heard, AbortedStops,
           Causes, Progress, Aborted, Awaiting, InAttempt, Settlements
  <2>3. BodyInHand(c)' /\ Causes(c)' /\ Evidence(c)' /\ Exhausted(c)' /\ OverCap(c)'
    BY <1>0, <1>1, <1>2, Counts DEF Local, BodyInHand, Causes, Evidence,
           Exhausted, OverCap, Progress, Preparation, RetryGranted,
           Registrations, Aborted, Awaiting, InAttempt, Settlements
  <2> QED BY <2>1, <2>2, <2>3 DEF Local
<1> QED BY <1>3, <1>4, <1>5 DEF IInv

\* A late rejection changes nothing an outcome rests on.
LEMMA FetchFailsLateKeeps ==
  ASSUME IInv, NEW c \in Calls, NEW a \in Attempts, FetchFailsLate(c, a)
  PROVE  IInv'
<1>0. TypeOK /\ Local(c) BY DEF IInv
<1>1. /\ exchange'[c] = [exchange[c] EXCEPT ![a] = "failed"]
      /\ aborted' = aborted /\ listeners' = listeners
      /\ phase'[c] = phase[c] /\ request'[c] = request[c]
      /\ attempt'[c] = attempt[c] /\ timer'[c] = timer[c]
      /\ token'[c] = token[c] /\ prepared'[c] = prepared[c]
      /\ builds'[c] = builds[c] /\ queued'[c] = queued[c]
      /\ sends'[c] = sends[c] /\ status'[c] = status[c]
      /\ demand'[c] = demand[c] /\ pause'[c] = pause[c]
      /\ result'[c] = result[c]
      /\ exchange[c][a] = "pending"
  BY <1>0 DEF TypeOK, FetchFailsLate, Quiescent
<1>2. /\ attempt[c] > 0 => attempt[c] \in Attempts
      /\ exchange[c] \in [Attempts -> {"none", "pending", "failed", "open",
                                       "released"}]
  BY <1>0, <1>1, Counts DEF TypeOK, Local, Progress
<1>3. TypeOK' BY <1>0, <1>1, <1>2, Counts DEF TypeOK, FetchFailsLate, Phases,
           Settlements, Statuses
<1>4. ASSUME NEW e \in Calls, e # c PROVE Local(e)'
  <2>1. Local(e) BY DEF IInv
  <2>2. Same(e) BY <1>0, <1>1, <1>4 DEF TypeOK, FetchFailsLate, Same
  <2> QED BY <2>1, <2>2, SameIsLocal
<1>5. Local(c)'
  <2>1. Progress(c)' /\ RetryGranted(c)' /\ Preparation(c)'
    BY <1>0, <1>1, <1>2, Counts DEF Local, Progress, RetryGranted,
           Preparation, Causes, Registrations, Aborted, Awaiting, InAttempt,
           Settlements
  <2>2. Registrations(c)' /\ Heard(c)' /\ AbortedStops(c)'
    BY <1>0, <1>1, <1>2, Counts DEF Local, Registrations, Heard, AbortedStops,
           Causes, Progress, Aborted, Awaiting, InAttempt, Settlements
  <2>3. BodyInHand(c)' /\ Causes(c)' /\ Evidence(c)' /\ Exhausted(c)' /\ OverCap(c)'
    BY <1>0, <1>1, <1>2, Counts DEF Local, BodyInHand, Causes, Evidence,
           Exhausted, OverCap, Progress, Preparation, RetryGranted,
           Registrations, Aborted, Awaiting, InAttempt, Settlements
  <2> QED BY <2>1, <2>2, <2>3 DEF Local
<1> QED BY <1>3, <1>4, <1>5 DEF IInv

\* A retryable response is released before the retry is decided.
LEMMA InspectedKeeps ==
  ASSUME IInv, NEW c \in Calls, NEW d \in {"none", "within"}, Inspected(c, d)
  PROVE  IInv'
<1>0. TypeOK /\ Local(c) BY DEF IInv
<1>1. /\ demand'[c] = d
      /\ phase'[c] = "discarding"
      /\ exchange'[c] = [exchange[c] EXCEPT ![attempt[c]] = "released"]
      /\ aborted' = aborted /\ listeners' = listeners
      /\ request'[c] = request[c] /\ attempt'[c] = attempt[c]
      /\ timer'[c] = timer[c] /\ token'[c] = token[c]
      /\ prepared'[c] = prepared[c] /\ builds'[c] = builds[c]
      /\ queued'[c] = queued[c] /\ sends'[c] = sends[c]
      /\ status'[c] = status[c] /\ pause'[c] = pause[c]
      /\ result'[c] = result[c]
      /\ phase[c] = "inspecting"
  BY <1>0 DEF TypeOK, Inspected, Quiescent
<1>2. /\ attempt[c] > 0 => attempt[c] \in Attempts
      /\ exchange[c] \in [Attempts -> {"none", "pending", "failed", "open",
                                       "released"}]
      /\ attempt[c] > 0
  BY <1>0, <1>1, Counts DEF TypeOK, Local, Progress
<1>3. TypeOK' BY <1>0, <1>1, <1>2, Counts DEF TypeOK, Inspected, Phases,
           Settlements, Statuses
<1>4. ASSUME NEW e \in Calls, e # c PROVE Local(e)'
  <2>1. Local(e) BY DEF IInv
  <2>2. Same(e) BY <1>0, <1>1, <1>4 DEF TypeOK, Inspected, Same
  <2> QED BY <2>1, <2>2, SameIsLocal
<1>5. Local(c)'
  <2>1. Progress(c)' /\ RetryGranted(c)' /\ Preparation(c)'
    BY <1>0, <1>1, <1>2, Counts DEF Local, Progress, RetryGranted,
           Preparation, Causes, Registrations, Aborted, Awaiting, InAttempt,
           Settlements
  <2>2. Registrations(c)' /\ Heard(c)' /\ AbortedStops(c)'
    BY <1>0, <1>1, <1>2, Counts DEF Local, Registrations, Heard, AbortedStops,
           Causes, Progress, Aborted, Awaiting, InAttempt, Settlements
  <2>3. BodyInHand(c)' /\ Causes(c)' /\ Evidence(c)' /\ Exhausted(c)' /\ OverCap(c)'
    BY <1>0, <1>1, <1>2, Counts DEF Local, BodyInHand, Causes, Evidence,
           Exhausted, OverCap, Progress, Preparation, RetryGranted,
           Registrations, Aborted, Awaiting, InAttempt, Settlements
  <2> QED BY <2>1, <2>2, <2>3 DEF Local
<1> QED BY <1>3, <1>4, <1>5 DEF IInv

\* A delay beyond the cap is remembered while its response is decoded.
LEMMA InspectedOverKeeps ==
  ASSUME IInv, NEW c \in Calls, InspectedOver(c)
  PROVE  IInv'
<1>0. TypeOK /\ Local(c) BY DEF IInv
<1>1. /\ demand'[c] = "over"
      /\ phase'[c] = "reading"
      /\ aborted' = aborted /\ listeners' = listeners
      /\ request'[c] = request[c] /\ attempt'[c] = attempt[c]
      /\ timer'[c] = timer[c] /\ token'[c] = token[c]
      /\ prepared'[c] = prepared[c] /\ builds'[c] = builds[c]
      /\ queued'[c] = queued[c] /\ sends'[c] = sends[c]
      /\ exchange'[c] = exchange[c] /\ status'[c] = status[c]
      /\ pause'[c] = pause[c] /\ result'[c] = result[c]
      /\ phase[c] = "inspecting"
  BY <1>0 DEF TypeOK, InspectedOver, Quiescent
<1>3. TypeOK' BY <1>0, <1>1, Counts DEF TypeOK, InspectedOver, Phases,
           Settlements, Statuses
<1>4. ASSUME NEW e \in Calls, e # c PROVE Local(e)'
  <2>1. Local(e) BY DEF IInv
  <2>2. Same(e) BY <1>0, <1>1, <1>4 DEF TypeOK, InspectedOver, Same
  <2> QED BY <2>1, <2>2, SameIsLocal
<1>5. Local(c)'
  <2>1. Progress(c)' /\ RetryGranted(c)' /\ Preparation(c)'
    BY <1>0, <1>1, Counts DEF Local, Progress, RetryGranted, Preparation,
           Causes, Registrations, Aborted, Awaiting, InAttempt, Settlements
  <2>2. Registrations(c)' /\ Heard(c)' /\ AbortedStops(c)'
    BY <1>0, <1>1, Counts DEF Local, Registrations, Heard, AbortedStops,
           Causes, Progress, Aborted, Awaiting, InAttempt, Settlements
  <2>3. BodyInHand(c)' /\ Causes(c)' /\ Evidence(c)' /\ Exhausted(c)' /\ OverCap(c)'
    BY <1>0, <1>1, Counts DEF Local, BodyInHand, Causes, Evidence, Exhausted,
           OverCap, Progress, Preparation, RetryGranted, Registrations,
           Aborted, Awaiting, InAttempt, Settlements
  <2> QED BY <2>1, <2>2, <2>3 DEF Local
<1> QED BY <1>3, <1>4, <1>5 DEF IInv

\* Only a discarded response asks for a retry.
LEMMA DiscardedKeeps ==
  ASSUME IInv, NEW c \in Calls, Discarded(c)
  PROVE  IInv'
<1>0. TypeOK /\ Local(c) BY DEF IInv
<1>1. /\ phase'[c] = "resolved"
      /\ result'[c] = "retry"
      /\ aborted' = aborted /\ listeners' = listeners
      /\ request'[c] = request[c] /\ attempt'[c] = attempt[c]
      /\ timer'[c] = timer[c] /\ token'[c] = token[c]
      /\ prepared'[c] = prepared[c] /\ builds'[c] = builds[c]
      /\ queued'[c] = queued[c] /\ sends'[c] = sends[c]
      /\ exchange'[c] = exchange[c] /\ status'[c] = status[c]
      /\ demand'[c] = demand[c] /\ pause'[c] = pause[c]
      /\ phase[c] = "discarding"
  BY <1>0 DEF TypeOK, Discarded, Quiescent
<1>3. TypeOK' BY <1>0, <1>1, Counts DEF TypeOK, Discarded, Phases,
           Settlements, Statuses
<1>4. ASSUME NEW e \in Calls, e # c PROVE Local(e)'
  <2>1. Local(e) BY DEF IInv
  <2>2. Same(e) BY <1>0, <1>1, <1>4 DEF TypeOK, Discarded, Same
  <2> QED BY <2>1, <2>2, SameIsLocal
<1>5. Local(c)'
  <2>1. Progress(c)' /\ RetryGranted(c)' /\ Preparation(c)'
    BY <1>0, <1>1, Counts DEF Local, Progress, RetryGranted, Preparation,
           Causes, Registrations, Aborted, Awaiting, InAttempt, Settlements
  <2>2. Registrations(c)' /\ Heard(c)' /\ AbortedStops(c)'
    BY <1>0, <1>1, Counts DEF Local, Registrations, Heard, AbortedStops,
           Causes, Progress, Aborted, Awaiting, InAttempt, Settlements
  <2>3. BodyInHand(c)' /\ Causes(c)' /\ Evidence(c)' /\ Exhausted(c)' /\ OverCap(c)'
    BY <1>0, <1>1, Counts DEF Local, BodyInHand, Causes, Evidence, Exhausted,
           OverCap, Progress, Preparation, RetryGranted, Registrations,
           Aborted, Awaiting, InAttempt, Settlements
  <2> QED BY <2>1, <2>2, <2>3 DEF Local
<1> QED BY <1>3, <1>4, <1>5 DEF IInv

\* Data comes from a released success response.
LEMMA DecodedKeeps ==
  ASSUME IInv, NEW c \in Calls, Decoded(c)
  PROVE  IInv'
<1>0. TypeOK /\ Local(c) BY DEF IInv
<1>1. /\ phase'[c] = "resolved"
      /\ result'[c] = "data"
      /\ exchange'[c] = [exchange[c] EXCEPT ![attempt[c]] = "released"]
      /\ aborted' = aborted /\ listeners' = listeners
      /\ request'[c] = request[c] /\ attempt'[c] = attempt[c]
      /\ timer'[c] = timer[c] /\ token'[c] = token[c]
      /\ prepared'[c] = prepared[c] /\ builds'[c] = builds[c]
      /\ queued'[c] = queued[c] /\ sends'[c] = sends[c]
      /\ status'[c] = status[c] /\ demand'[c] = demand[c]
      /\ pause'[c] = pause[c]
      /\ phase[c] = "reading"
      /\ status[c] = "success"
  BY <1>0 DEF TypeOK, Decoded, Quiescent
<1>2. /\ attempt[c] > 0 => attempt[c] \in Attempts
      /\ exchange[c] \in [Attempts -> {"none", "pending", "failed", "open",
                                       "released"}]
      /\ attempt[c] > 0
  BY <1>0, <1>1, Counts DEF TypeOK, Local, Progress
<1>3. TypeOK' BY <1>0, <1>1, <1>2, Counts DEF TypeOK, Decoded, Phases,
           Settlements, Statuses
<1>4. ASSUME NEW e \in Calls, e # c PROVE Local(e)'
  <2>1. Local(e) BY DEF IInv
  <2>2. Same(e) BY <1>0, <1>1, <1>4 DEF TypeOK, Decoded, Same
  <2> QED BY <2>1, <2>2, SameIsLocal
<1>5. Local(c)'
  <2>1. Progress(c)' /\ RetryGranted(c)' /\ Preparation(c)'
    BY <1>0, <1>1, <1>2, Counts DEF Local, Progress, RetryGranted,
           Preparation, Causes, Registrations, Aborted, Awaiting, InAttempt,
           Settlements
  <2>2. Registrations(c)' /\ Heard(c)' /\ AbortedStops(c)'
    BY <1>0, <1>1, <1>2, Counts DEF Local, Registrations, Heard, AbortedStops,
           Causes, Progress, Aborted, Awaiting, InAttempt, Settlements
  <2>3. BodyInHand(c)' /\ Causes(c)' /\ Evidence(c)' /\ Exhausted(c)' /\ OverCap(c)'
    BY <1>0, <1>1, <1>2, Counts DEF Local, BodyInHand, Causes, Evidence,
           Exhausted, OverCap, Progress, Preparation, RetryGranted,
           Registrations, Aborted, Awaiting, InAttempt, Settlements
  <2> QED BY <2>1, <2>2, <2>3 DEF Local
<1> QED BY <1>3, <1>4, <1>5 DEF IInv

\* An API error comes from a released response that is no success.
LEMMA DecodeThrowsKeeps ==
  ASSUME IInv, NEW c \in Calls, NEW r \in {"api", "protocol", "body"}, DecodeThrows(c, r)
  PROVE  IInv'
<1>0. TypeOK /\ Local(c) BY DEF IInv
<1>1. /\ phase'[c] = "failing"
      /\ result'[c] = r
      /\ exchange'[c] = [exchange[c] EXCEPT ![attempt[c]] = "released"]
      /\ aborted' = aborted /\ listeners' = listeners
      /\ request'[c] = request[c] /\ attempt'[c] = attempt[c]
      /\ timer'[c] = timer[c] /\ token'[c] = token[c]
      /\ prepared'[c] = prepared[c] /\ builds'[c] = builds[c]
      /\ queued'[c] = queued[c] /\ sends'[c] = sends[c]
      /\ status'[c] = status[c] /\ demand'[c] = demand[c]
      /\ pause'[c] = pause[c]
      /\ phase[c] = "reading"
      /\ r = "api" => status[c] # "success"
  BY <1>0 DEF TypeOK, DecodeThrows, Fail, Quiescent
<1>2. /\ attempt[c] > 0 => attempt[c] \in Attempts
      /\ exchange[c] \in [Attempts -> {"none", "pending", "failed", "open",
                                       "released"}]
      /\ attempt[c] > 0
  BY <1>0, <1>1, Counts DEF TypeOK, Local, Progress
<1>3. TypeOK' BY <1>0, <1>1, <1>2, Counts DEF TypeOK, DecodeThrows, Fail,
           Phases, Settlements, Statuses
<1>4. ASSUME NEW e \in Calls, e # c PROVE Local(e)'
  <2>1. Local(e) BY DEF IInv
  <2>2. Same(e) BY <1>0, <1>1, <1>4 DEF TypeOK, DecodeThrows, Fail, Same
  <2> QED BY <2>1, <2>2, SameIsLocal
<1>5. Local(c)'
  <2>1. Progress(c)' /\ RetryGranted(c)' /\ Preparation(c)'
    BY <1>0, <1>1, <1>2, Counts DEF Local, Progress, RetryGranted,
           Preparation, Causes, Registrations, Aborted, Awaiting, InAttempt,
           Settlements
  <2>2. Registrations(c)' /\ Heard(c)' /\ AbortedStops(c)'
    BY <1>0, <1>1, <1>2, Counts DEF Local, Registrations, Heard, AbortedStops,
           Causes, Progress, Aborted, Awaiting, InAttempt, Settlements
  <2>3. BodyInHand(c)' /\ Causes(c)' /\ Evidence(c)' /\ Exhausted(c)' /\ OverCap(c)'
    BY <1>0, <1>1, <1>2, Counts DEF Local, BodyInHand, Causes, Evidence,
           Exhausted, OverCap, Progress, Preparation, RetryGranted,
           Registrations, Aborted, Awaiting, InAttempt, Settlements
  <2> QED BY <2>1, <2>2, <2>3 DEF Local
<1> QED BY <1>3, <1>4, <1>5 DEF IInv

\* performFetch returns with its timer and listener cleaned up.
LEMMA FinishKeeps ==
  ASSUME IInv, NEW c \in Calls, Finish(c)
  PROVE  IInv'
<1>0. TypeOK /\ Local(c) BY DEF IInv
<1>1. /\ timer'[c] = "off"
      /\ phase'[c] = IF result[c] = "data" THEN "done" ELSE "deciding"
      /\ listeners' = listeners \ {<<c, "merge">>}
      /\ aborted' = aborted
      /\ request'[c] = request[c] /\ attempt'[c] = attempt[c]
      /\ token'[c] = token[c] /\ prepared'[c] = prepared[c]
      /\ builds'[c] = builds[c] /\ queued'[c] = queued[c]
      /\ sends'[c] = sends[c] /\ exchange'[c] = exchange[c]
      /\ status'[c] = status[c] /\ demand'[c] = demand[c]
      /\ pause'[c] = pause[c] /\ result'[c] = result[c]
      /\ phase[c] = "resolved"
  BY <1>0 DEF TypeOK, Finish, Cleanup, Quiescent
<1>3. TypeOK' BY <1>0, <1>1, Counts DEF TypeOK, Finish, Cleanup, Phases,
           Settlements, Statuses
<1>4. ASSUME NEW e \in Calls, e # c PROVE Local(e)'
  <2>1. Local(e) BY DEF IInv
  <2>2. Same(e) BY <1>0, <1>1, <1>4 DEF TypeOK, Finish, Cleanup, Same
  <2> QED BY <2>1, <2>2, SameIsLocal
<1>5. Local(c)'
  <2>1. Progress(c)' /\ RetryGranted(c)' /\ Preparation(c)'
    BY <1>0, <1>1, Counts DEF Local, Progress, RetryGranted, Preparation,
           Causes, Registrations, Aborted, Awaiting, InAttempt, Settlements
  <2>2. Registrations(c)' /\ Heard(c)' /\ AbortedStops(c)'
    BY <1>0, <1>1, Counts DEF Local, Registrations, Heard, AbortedStops,
           Causes, Progress, Aborted, Awaiting, InAttempt, Settlements
  <2>3. BodyInHand(c)' /\ Causes(c)' /\ Evidence(c)' /\ Exhausted(c)' /\ OverCap(c)'
    BY <1>0, <1>1, Counts DEF Local, BodyInHand, Causes, Evidence, Exhausted,
           OverCap, Progress, Preparation, RetryGranted, Registrations,
           Aborted, Awaiting, InAttempt, Settlements
  <2> QED BY <2>1, <2>2, <2>3 DEF Local
<1> QED BY <1>3, <1>4, <1>5 DEF IInv

\* performFetch throws with its timer, listener and open body cleaned up.
LEMMA CatchKeeps ==
  ASSUME IInv, NEW c \in Calls, Catch(c)
  PROVE  IInv'
<1>0. TypeOK /\ Local(c) BY DEF IInv
<1>1. /\ timer'[c] = "off"
      /\ phase'[c] = "deciding"
      /\ result'[c] = Classified(c)
      /\ exchange'[c] = [exchange[c] EXCEPT ![attempt[c]] = IF @ = "open" THEN "released" ELSE @]
      /\ listeners' = listeners \ {<<c, "merge">>}
      /\ aborted' = aborted
      /\ request'[c] = request[c] /\ attempt'[c] = attempt[c]
      /\ token'[c] = token[c] /\ prepared'[c] = prepared[c]
      /\ builds'[c] = builds[c] /\ queued'[c] = queued[c]
      /\ sends'[c] = sends[c] /\ status'[c] = status[c]
      /\ demand'[c] = demand[c] /\ pause'[c] = pause[c]
      /\ phase[c] = "failing"
      /\ ~queued[c]
  BY <1>0 DEF TypeOK, Catch, Cleanup, CancelBody, Quiescent
<1>2. /\ attempt[c] > 0 => attempt[c] \in Attempts
      /\ exchange[c] \in [Attempts -> {"none", "pending", "failed", "open",
                                       "released"}]
      /\ attempt[c] > 0
  BY <1>0, <1>1, Counts DEF TypeOK, Local, Progress
<1>3. TypeOK' BY <1>0, <1>1, <1>2, Counts DEF TypeOK, Catch, Cleanup,
           CancelBody, Phases, Settlements, Statuses, Classified, Local,
           Causes
<1>4. ASSUME NEW e \in Calls, e # c PROVE Local(e)'
  <2>1. Local(e) BY DEF IInv
  <2>2. Same(e) BY <1>0, <1>1, <1>4 DEF TypeOK, Catch, Cleanup, CancelBody,
               Same
  <2> QED BY <2>1, <2>2, SameIsLocal
<1>5. Local(c)'
  <2>1. Progress(c)' /\ RetryGranted(c)' /\ Preparation(c)'
    BY <1>0, <1>1, <1>2, Counts DEF Local, Progress, RetryGranted,
           Preparation, Causes, Registrations, Aborted, Awaiting, InAttempt,
           Settlements, Classified
  <2>2. Registrations(c)' /\ Heard(c)' /\ AbortedStops(c)'
    BY <1>0, <1>1, <1>2, Counts DEF Local, Registrations, Heard, AbortedStops,
           Causes, Progress, Aborted, Awaiting, InAttempt, Settlements,
           Classified
  <2>3. BodyInHand(c)' /\ Causes(c)' /\ Evidence(c)' /\ Exhausted(c)' /\ OverCap(c)'
    BY <1>0, <1>1, <1>2, Counts DEF Local, BodyInHand, Causes, Evidence,
           Exhausted, OverCap, Progress, Preparation, RetryGranted,
           Registrations, Aborted, Awaiting, InAttempt, Settlements,
           Classified
  <2> QED BY <2>1, <2>2, <2>3 DEF Local
<1> QED BY <1>3, <1>4, <1>5 DEF IInv

\* A retry wait listens to the caller signal before it suspends.
LEMMA WaitForRetryKeeps ==
  ASSUME IInv, NEW c \in Calls, NEW delayed \in BOOLEAN, WaitForRetry(c, delayed)
  PROVE  IInv'
<1>0. TypeOK /\ Local(c) BY DEF IInv
<1>1. /\ phase'[c] = IF delayed THEN "backoff" ELSE "waited"
      /\ listeners' = IF delayed THEN Listen(c, "wait") ELSE listeners
      /\ aborted' = aborted
      /\ request'[c] = request[c] /\ attempt'[c] = attempt[c]
      /\ timer'[c] = timer[c] /\ token'[c] = token[c]
      /\ prepared'[c] = prepared[c] /\ builds'[c] = builds[c]
      /\ queued'[c] = queued[c] /\ sends'[c] = sends[c]
      /\ exchange'[c] = exchange[c] /\ status'[c] = status[c]
      /\ demand'[c] = demand[c] /\ result'[c] = result[c]
      /\ phase[c] = "deciding"
      /\ GoesOn(c)
  BY <1>0 DEF TypeOK, WaitForRetry, Listen, Quiescent
<1>3. TypeOK' BY <1>0, <1>1, Counts DEF TypeOK, WaitForRetry, Listen, Phases,
           Settlements, Statuses
<1>4. ASSUME NEW e \in Calls, e # c PROVE Local(e)'
  <2>1. Local(e) BY DEF IInv
  <2>2. Same(e) BY <1>0, <1>1, <1>4 DEF TypeOK, WaitForRetry, Listen, Same,
               Listen
  <2> QED BY <2>1, <2>2, SameIsLocal
<1>5. Local(c)'
  <2>1. Progress(c)' /\ RetryGranted(c)' /\ Preparation(c)'
    BY <1>0, <1>1, Counts DEF Local, Progress, RetryGranted, Preparation,
           Causes, Registrations, Aborted, Awaiting, InAttempt, Settlements,
           GoesOn, RetriesError, Listen
  <2>2. Registrations(c)' /\ Heard(c)' /\ AbortedStops(c)'
    BY <1>0, <1>1, Counts DEF Local, Registrations, Heard, AbortedStops,
           Causes, Progress, Aborted, Awaiting, InAttempt, Settlements,
           GoesOn, RetriesError, Listen
  <2>3. BodyInHand(c)' /\ Causes(c)' /\ Evidence(c)' /\ Exhausted(c)' /\ OverCap(c)'
    BY <1>0, <1>1, Counts DEF Local, BodyInHand, Causes, Evidence, Exhausted,
           OverCap, Progress, Preparation, RetryGranted, Registrations,
           Aborted, Awaiting, InAttempt, Settlements, GoesOn, RetriesError,
           Listen
  <2> QED BY <2>1, <2>2, <2>3 DEF Local
<1> QED BY <1>3, <1>4, <1>5 DEF IInv

\* A call throws what its last attempt ended with.
LEMMA ThrowKeeps ==
  ASSUME IInv, NEW c \in Calls, Throw(c)
  PROVE  IInv'
<1>0. TypeOK /\ Local(c) BY DEF IInv
<1>1. /\ phase'[c] = "done"
      /\ result'[c] = IF result[c] = "retry" THEN "aborted" ELSE result[c]
      /\ aborted' = aborted /\ listeners' = listeners
      /\ request'[c] = request[c] /\ attempt'[c] = attempt[c]
      /\ timer'[c] = timer[c] /\ token'[c] = token[c]
      /\ prepared'[c] = prepared[c] /\ builds'[c] = builds[c]
      /\ queued'[c] = queued[c] /\ sends'[c] = sends[c]
      /\ exchange'[c] = exchange[c] /\ status'[c] = status[c]
      /\ demand'[c] = demand[c] /\ pause'[c] = pause[c]
      /\ phase[c] = "deciding"
      /\ result[c] = "retry" => Aborted(c)
      /\ result[c] # "retry" => ~RetriesError(c)
  BY <1>0 DEF TypeOK, Throw, GoesOn, Quiescent
<1>3. TypeOK' BY <1>0, <1>1, Counts DEF TypeOK, Throw, GoesOn, Phases,
           Settlements, Statuses
<1>4. ASSUME NEW e \in Calls, e # c PROVE Local(e)'
  <2>1. Local(e) BY DEF IInv
  <2>2. Same(e) BY <1>0, <1>1, <1>4 DEF TypeOK, Throw, GoesOn, Same
  <2> QED BY <2>1, <2>2, SameIsLocal
<1>5. Local(c)'
  <2>1. Progress(c)' /\ RetryGranted(c)' /\ Preparation(c)'
    BY <1>0, <1>1, Counts DEF Local, Progress, RetryGranted, Preparation,
           Causes, Registrations, Aborted, Awaiting, InAttempt, Settlements,
           RetriesError
  <2>2. Registrations(c)' /\ Heard(c)' /\ AbortedStops(c)'
    BY <1>0, <1>1, Counts DEF Local, Registrations, Heard, AbortedStops,
           Causes, Progress, Aborted, Awaiting, InAttempt, Settlements,
           RetriesError
  <2>3. BodyInHand(c)' /\ Causes(c)' /\ Evidence(c)' /\ Exhausted(c)' /\ OverCap(c)'
    BY <1>0, <1>1, Counts DEF Local, BodyInHand, Causes, Evidence, Exhausted,
           OverCap, Progress, Preparation, RetryGranted, Registrations,
           Aborted, Awaiting, InAttempt, Settlements, RetriesError
  <2> QED BY <2>1, <2>2, <2>3 DEF Local
<1> QED BY <1>3, <1>4, <1>5 DEF IInv

\* The end of a retry wait takes its listener away.
LEMMA BackoffElapsesKeeps ==
  ASSUME IInv, NEW c \in Calls, BackoffElapses(c)
  PROVE  IInv'
<1>0. TypeOK /\ Local(c) BY DEF IInv
<1>1. /\ phase'[c] = "waited"
      /\ listeners' = listeners \ {<<c, "wait">>}
      /\ aborted' = aborted
      /\ request'[c] = request[c] /\ attempt'[c] = attempt[c]
      /\ timer'[c] = timer[c] /\ token'[c] = token[c]
      /\ prepared'[c] = prepared[c] /\ builds'[c] = builds[c]
      /\ queued'[c] = queued[c] /\ sends'[c] = sends[c]
      /\ exchange'[c] = exchange[c] /\ status'[c] = status[c]
      /\ demand'[c] = demand[c] /\ pause'[c] = pause[c]
      /\ result'[c] = result[c]
      /\ phase[c] = "backoff"
  BY <1>0 DEF TypeOK, BackoffElapses, Quiescent
<1>3. TypeOK' BY <1>0, <1>1, Counts DEF TypeOK, BackoffElapses, Phases,
           Settlements, Statuses
<1>4. ASSUME NEW e \in Calls, e # c PROVE Local(e)'
  <2>1. Local(e) BY DEF IInv
  <2>2. Same(e) BY <1>0, <1>1, <1>4 DEF TypeOK, BackoffElapses, Same
  <2> QED BY <2>1, <2>2, SameIsLocal
<1>5. Local(c)'
  <2>1. Progress(c)' /\ RetryGranted(c)' /\ Preparation(c)'
    BY <1>0, <1>1, Counts DEF Local, Progress, RetryGranted, Preparation,
           Causes, Registrations, Aborted, Awaiting, InAttempt, Settlements
  <2>2. Registrations(c)' /\ Heard(c)' /\ AbortedStops(c)'
    BY <1>0, <1>1, Counts DEF Local, Registrations, Heard, AbortedStops,
           Causes, Progress, Aborted, Awaiting, InAttempt, Settlements
  <2>3. BodyInHand(c)' /\ Causes(c)' /\ Evidence(c)' /\ Exhausted(c)' /\ OverCap(c)'
    BY <1>0, <1>1, Counts DEF Local, BodyInHand, Causes, Evidence, Exhausted,
           OverCap, Progress, Preparation, RetryGranted, Registrations,
           Aborted, Awaiting, InAttempt, Settlements
  <2> QED BY <2>1, <2>2, <2>3 DEF Local
<1> QED BY <1>3, <1>4, <1>5 DEF IInv

\* A timeout fails the attempt it was armed for.
LEMMA TimerFiresKeeps ==
  ASSUME IInv, NEW c \in Calls, TimerFires(c)
  PROVE  IInv'
<1>0. TypeOK /\ Local(c) BY DEF IInv
<1>1. /\ timer'[c] = "fired"
      /\ phase'[c] = "failing"
      /\ result'[c] = "signal"
      /\ listeners' = listeners \ {<<c, "merge">>}
      /\ aborted' = aborted
      /\ request'[c] = request[c] /\ attempt'[c] = attempt[c]
      /\ token'[c] = token[c] /\ prepared'[c] = prepared[c]
      /\ builds'[c] = builds[c] /\ queued'[c] = queued[c]
      /\ sends'[c] = sends[c] /\ exchange'[c] = exchange[c]
      /\ status'[c] = status[c] /\ demand'[c] = demand[c]
      /\ pause'[c] = pause[c]
      /\ timer[c] = "armed"
  BY <1>0 DEF TypeOK, TimerFires, Fail, Quiescent
<1>3. TypeOK' BY <1>0, <1>1, Counts DEF TypeOK, TimerFires, Fail, Phases,
           Settlements, Statuses
<1>4. ASSUME NEW e \in Calls, e # c PROVE Local(e)'
  <2>1. Local(e) BY DEF IInv
  <2>2. Same(e) BY <1>0, <1>1, <1>4 DEF TypeOK, TimerFires, Fail, Same
  <2> QED BY <2>1, <2>2, SameIsLocal
<1>5. Local(c)'
  <2>1. Progress(c)' /\ RetryGranted(c)' /\ Preparation(c)'
    BY <1>0, <1>1, Counts DEF Local, Progress, RetryGranted, Preparation,
           Causes, Registrations, Aborted, Awaiting, InAttempt, Settlements
  <2>2. Registrations(c)' /\ Heard(c)' /\ AbortedStops(c)'
    BY <1>0, <1>1, Counts DEF Local, Registrations, Heard, AbortedStops,
           Causes, Progress, Aborted, Awaiting, InAttempt, Settlements
  <2>3. BodyInHand(c)' /\ Causes(c)' /\ Evidence(c)' /\ Exhausted(c)' /\ OverCap(c)'
    BY <1>0, <1>1, Counts DEF Local, BodyInHand, Causes, Evidence, Exhausted,
           OverCap, Progress, Preparation, RetryGranted, Registrations,
           Aborted, Awaiting, InAttempt, Settlements
  <2> QED BY <2>1, <2>2, <2>3 DEF Local
<1> QED BY <1>3, <1>4, <1>5 DEF IInv

-----------------------------------------------------------------------------
(* The theorems *)

\* Every step of the system keeps the invariant.
LEMMA NextKeeps == IInv /\ [Next]_vars => IInv'
<1> SUFFICES ASSUME IInv, [Next]_vars PROVE IInv'
  OBVIOUS
<1>1. ASSUME NEW c \in Calls, Microtask(c) PROVE IInv'
  BY <1>1, ReadyKeeps, InitRejectsKeeps, DispatchKeeps, FinishKeeps, CatchKeeps,
     WaitForRetryKeeps, ThrowKeeps, NextAttemptKeeps DEF Microtask
<1>2. ASSUME NEW c \in Calls, Timer(c) PROVE IInv'
  BY <1>2, TimerFiresKeeps, BackoffElapsesKeeps DEF Timer
<1>3. ASSUME NEW c \in Calls, Environment(c) PROVE IInv'
  BY <1>3, CallKeeps, RefuseKeeps, TokenGivenKeeps, TokenRefusedKeeps, RespondKeeps,
     RespondLateKeeps, FetchFailsKeeps, FetchFailsLateKeeps, InspectedKeeps,
     InspectedOverKeeps, DiscardedKeeps, DecodedKeeps, DecodeThrowsKeeps
     DEF Environment
<1> QED BY <1>1, <1>2, <1>3, AbortKeeps, StutterKeeps DEF Next, Quiet

\* The inductive invariant holds in every reachable state.
THEOREM Invariance == Spec => []IInv
BY InitLocal, NextKeeps, PTL DEF Spec

\* The state keeps its shape: attempts stay within the configured maximum and
\* only calls that were given the signal ever listen to it.
THEOREM TypeCorrect == Spec => []TypeOK
<1>1. IInv => TypeOK BY DEF IInv
<1> QED BY <1>1, Invariance, PTL

\* An operation that is not retry-safe is sent at most once, any other at most
\* maxAttempts times, whatever answers, time-outs and aborts come.
THEOREM SendsAreSafe == Spec => []RetriesAreSafe
<1>1. ASSUME IInv PROVE RetriesAreSafe
  <2> SUFFICES ASSUME NEW c \in Calls PROVE sends[c] <= Budget(request[c])
    BY DEF RetriesAreSafe
  <2>1. TypeOK /\ Progress(c) BY <1>1 DEF IInv, Local
  <2> QED BY <2>1, Counts DEF Progress, Budget
<1> QED BY <1>1, Invariance, PTL

\* Token, headers and body are produced once for all attempts of a call, and
\* before anything is sent.
THEOREM InitIsShared == Spec => []OneInit
<1>1. ASSUME IInv PROVE OneInit
  <2> SUFFICES ASSUME NEW c \in Calls
               PROVE  builds[c] <= 1 /\ (sends[c] > 0 => prepared[c])
    BY DEF OneInit
  <2> QED BY <1>1 DEF IInv, Local, Preparation
<1> QED BY <1>1, Invariance, PTL

\* No call ever waits without the caller's abort being able to reach it.
THEOREM AbortReaches == Spec => []AbortIsHeard
<1>1. IInv => AbortIsHeard BY DEF IInv, Local, AbortIsHeard
<1> QED BY <1>1, Invariance, PTL

\* Between attempts and after the call neither a listener on the caller's signal
\* nor an armed timeout is left.
THEOREM NothingRemains == Spec => []NothingLeftBehind
<1>1. IInv => NothingLeftBehind
  BY DEF IInv, Local, Registrations, NothingLeftBehind, InAttempt, Awaiting
<1> QED BY <1>1, Invariance, PTL

\* No response body is left unread and uncancelled, not even one that arrives
\* after its attempt was given up.
THEOREM BodiesAreReleased == Spec => []NoBodyLeft
<1>1. IInv => NoBodyLeft BY DEF IInv, Local, NoBodyLeft
<1> QED BY <1>1, Invariance, PTL

\* What a settled call reports is what happened to its last attempt.
THEOREM OutcomesAreTrue == Spec => []TruthfulOutcome
<1>1. IInv => TruthfulOutcome
  BY DEF IInv, Local, Causes, Evidence, TruthfulOutcome
<1> QED BY <1>1, Invariance, PTL

\* A Retry-After beyond the cap is never waited for or overridden, save when the
\* attempt that got it timed out.
THEOREM OverCapIsSurfaced == Spec => []OverCapSurfaces
<1>1. IInv => OverCapSurfaces
  BY DEF IInv, Local, Causes, OverCap, OverCapSurfaces
<1> QED BY <1>1, Invariance, PTL

\* A retryable status or a transport error is final for a retry-safe operation
\* only after the last attempt, an abort or a delay beyond the cap.
THEOREM GivesUpOnlyLast == Spec => []GivesUpLast
<1>1. ASSUME IInv, NEW c \in Calls, phase[c] = "done", RetrySafe(request[c]),
             result[c] = "transport" \/ (result[c] = "api" /\ status[c] = "retryable")
      PROVE  attempt[c] = request[c].maxAttempts \/ Aborted(c) \/ demand[c] = "over"
  BY <1>1 DEF IInv, Local, Exhausted
<1>2. IInv => GivesUpLast BY <1>1 DEF GivesUpLast
<1> QED BY <1>2, Invariance, PTL

\* A step leaves a settled call alone.
LEMMA SettledStep ==
  ASSUME IInv, [Next]_vars, NEW c \in Calls, phase[c] = "done"
  PROVE  /\ phase'[c] = "done" /\ result'[c] = result[c]
         /\ sends'[c] = sends[c] /\ queued'[c] = queued[c]
         /\ builds'[c] = builds[c]
<1> DEFINE Kept == /\ phase'[c] = "done" /\ result'[c] = result[c]
                   /\ sends'[c] = sends[c] /\ queued'[c] = queued[c]
                   /\ builds'[c] = builds[c]
<1>0. TypeOK /\ Progress(c) /\ Preparation(c) /\ Registrations(c)
  BY DEF IInv, Local
<1>1. ASSUME NEW e \in Calls, Microtask(e) PROVE Kept
  <2>1. CASE e = c
    BY <1>0, <1>1, <2>1 DEF Microtask, Ready, InitRejects, InitReady, Dispatch,
       Finish, Catch, WaitForRetry, Throw, NextAttempt, Progress
  <2>2. CASE e # c
    <3>1. CASE NextAttempt(e)
      BY <1>0, <2>2, <3>1
         DEF TypeOK, NextAttempt, StartAttempt, Suspend, CreateInit,
             ThrowAborted
    <3>2. CASE \E delayed \in BOOLEAN : WaitForRetry(e, delayed)
      BY <1>0, <2>2, <3>2 DEF TypeOK, WaitForRetry
    <3>3. CASE Ready(e) \/ InitRejects(e) \/ Dispatch(e) \/ Finish(e) \/ Catch(e)
               \/ Throw(e)
      BY <1>0, <2>2, <3>3 DEF TypeOK, Ready, InitRejects, Dispatch, Finish,
         Catch, Throw, Fail
    <3> QED BY <1>1, <3>1, <3>2, <3>3 DEF Microtask
  <2> QED BY <2>1, <2>2
<1>2. ASSUME NEW e \in Calls, Timer(e) PROVE Kept
  BY <1>0, <1>2 DEF TypeOK, Timer, TimerFires, BackoffElapses, Fail,
     Registrations, InAttempt, Awaiting
<1>3. ASSUME NEW e \in Calls, Environment(e) PROVE Kept
  <2>1. CASE Call(e)
    BY <1>0, <2>1 DEF TypeOK, Call, StartAttempt, Suspend, CreateInit,
       ThrowAborted
  <2>2. CASE \/ \E s \in Statuses : Respond(e, s)
             \/ \E a \in Attempts : RespondLate(e, a) \/ FetchFailsLate(e, a)
             \/ FetchFails(e)
    BY <1>0, <2>2 DEF TypeOK, Respond, RespondLate, FetchFails, FetchFailsLate,
       Awaited, Fail
  <2>3. CASE \/ Refuse(e) \/ TokenGiven(e) \/ TokenRefused(e)
             \/ \E d \in {"none", "within"} : Inspected(e, d)
             \/ InspectedOver(e) \/ Discarded(e) \/ Decoded(e)
             \/ \E r \in {"api", "protocol", "body"} : DecodeThrows(e, r)
    BY <1>0, <2>3 DEF TypeOK, Refuse, TokenGiven, TokenRefused, Inspected,
       InspectedOver, Discarded, Decoded, DecodeThrows, Fail
  <2> QED BY <1>3, <2>1, <2>2, <2>3 DEF Environment
<1>4. CASE Abort
  BY <1>0, <1>4 DEF TypeOK, Abort, Registrations, InAttempt, Awaiting
<1>5. CASE UNCHANGED vars
  BY <1>5 DEF vars, callVars
<1> QED BY <1>1, <1>2, <1>3, <1>4, <1>5 DEF Next, Quiet

\* Late tokens, responses, timers and aborts leave a settled call alone.
THEOREM SettledStays == Spec => SettledForGood
<1>1. IInv /\ [Next]_vars =>
        [\A c \in Calls : phase[c] = "done" =>
           /\ phase'[c] = "done"
           /\ result'[c] = result[c]
           /\ sends'[c] = sends[c] /\ queued'[c] = queued[c]
           /\ builds'[c] = builds[c]]_vars
  BY SettledStep
<1> QED BY <1>1, Invariance, PTL DEF Spec, SettledForGood

\* Once the caller has aborted no further fetch is scheduled.
THEOREM NothingFurther == Spec => NothingScheduledAfterAbort
<1>1. ASSUME IInv, [Next]_vars, NEW c \in Calls, queued'[c], ~queued[c]
      PROVE  ~Aborted(c)
  <2>0. TypeOK /\ AbortedStops(c)
    BY <1>1 DEF IInv, Local
  <2>1. ASSUME NEW e \in Calls, Microtask(e) PROVE ~Aborted(c)
    <3>1. CASE Ready(e)
      <4>1. e = c BY <1>1, <2>0, <3>1 DEF TypeOK, Ready
      <4> QED BY <2>0, <3>1, <4>1 DEF Ready, InitReady, AbortedStops, Awaiting
    <3>2. CASE ~Ready(e)
      BY <1>1, <2>0, <2>1, <3>2 DEF TypeOK, Microtask, InitRejects, Dispatch,
         Finish, Catch, WaitForRetry, Throw, NextAttempt
    <3> QED BY <3>1, <3>2
  <2>2. CASE (\E e \in Calls : Timer(e) \/ Environment(e)) \/ Abort \/ UNCHANGED vars
    BY <1>1, <2>2 DEF Timer, TimerFires, BackoffElapses, Environment, Call, Refuse,
       TokenGiven, TokenRefused, Respond, RespondLate, FetchFails, FetchFailsLate,
       Inspected, InspectedOver, Discarded, Decoded, DecodeThrows, Abort, vars, callVars
  <2> QED BY <1>1, <2>1, <2>2 DEF Next, Quiet
<1>2. IInv /\ [Next]_vars =>
        [\A c \in Calls : queued'[c] /\ ~queued[c] => ~Aborted(c)]_vars
  BY <1>1
<1> QED BY <1>2, Invariance, PTL DEF Spec, NothingScheduledAfterAbort

-----------------------------------------------------------------------------
(***************************************************************************)
(* TypedFetch keeps the promise of RetriedCall: initial states map to      *)
(* initial states, every step to a step of the promise or a stutter.  That *)
(* a started call goes on at all needs fairness and is left to TLC         *)
(* (CallsSettle).                                                          *)
(***************************************************************************)
\* What RetriedCall sees of a phase.
StageOf(p) ==
  IF p \in {"idle", "done"} THEN p
  ELSE IF p \in {"backoff", "waited"} THEN "pausing" ELSE "trying"

\* A step of one call moves the stage of that call, and its outcome when it is done.
LEMMA Moves ==
  ASSUME TypeOK, NEW c \in Calls, NEW p, NEW r,
         phase' = [phase EXCEPT ![c] = p],
         result' = [result EXCEPT ![c] = r]
  PROVE  /\ stage' = [stage EXCEPT ![c] = StageOf(p)]
         /\ outcome' = [outcome EXCEPT ![c] = IF p = "done" THEN r ELSE "none"]
BY DEF TypeOK, stage, outcome, StageOf

\* A step inside an attempt is a stutter of the promise.
LEMMA Within ==
  ASSUME TypeOK, NEW c \in Calls, NEW p, NEW r,
         phase' = [phase EXCEPT ![c] = p],
         result' = [result EXCEPT ![c] = r],
         StageOf(p) = StageOf(phase[c]), phase[c] # "done", p # "done",
         request' = request, attempt' = attempt
  PROVE  UNCHANGED Promise!vars
<1>1. stage' = stage
  BY Moves DEF TypeOK, stage, StageOf
<1>2. outcome' = outcome
  BY Moves DEF TypeOK, outcome
<1> QED BY <1>1, <1>2 DEF Promise!vars

\* The initial states of the client are initial states of the promise.
LEMMA PromiseInit == Init => Promise!Init
<1> SUFFICES ASSUME Init PROVE Promise!Init
  OBVIOUS
<1>1. \A c \in Calls : Budget(request[c]) \in Nat \ {0}
  BY ConstantsOK DEF Init, Budget, RequestType
<1> QED BY <1>1 DEF Init, Promise!Init, stage, outcome

\* Every step of the client is a step of the promise or a stutter.
LEMMA PromiseNext == IInv /\ [Next]_vars => [Promise!Next]_Promise!vars
<1> SUFFICES ASSUME IInv, [Next]_vars PROVE Promise!Next \/ UNCHANGED Promise!vars
  OBVIOUS
<1> DEFINE Promised == Promise!Next \/ UNCHANGED Promise!vars
<1>0. TypeOK BY DEF IInv
<1>1. ASSUME NEW c \in Calls, Call(c) PROVE Promised
  <2>1. PICK p, r :
          /\ p \in {"preparing", "deciding"}
          /\ phase' = [phase EXCEPT ![c] = p]
          /\ result' = [result EXCEPT ![c] = r]
    BY <1>1 DEF Call, StartAttempt, Suspend, ThrowAborted
  <2>2. attempt' = [attempt EXCEPT ![c] = 1] /\ request' = request /\ phase[c] = "idle"
    BY <1>1 DEF Call
  <2>3. stage[c] = "idle" /\ stage' = [stage EXCEPT ![c] = "trying"] /\ outcome' = outcome
    BY <1>0, <2>1, <2>2, Moves DEF TypeOK, stage, outcome, StageOf
  <2> QED BY <2>2, <2>3 DEF Promise!Next, Promise!Begin, Promise!Enter
<1>2. ASSUME NEW c \in Calls, NextAttempt(c) PROVE Promised
  <2>1. PICK p, r :
          /\ p \in {"preparing", "deciding"}
          /\ phase' = [phase EXCEPT ![c] = p]
          /\ result' = [result EXCEPT ![c] = r]
    BY <1>2 DEF NextAttempt, StartAttempt, Suspend, ThrowAborted
  <2>2. /\ attempt' = [attempt EXCEPT ![c] = @ + 1] /\ request' = request
        /\ phase[c] = "waited"
    BY <1>2 DEF NextAttempt
  <2>3. stage[c] = "pausing" /\ stage' = [stage EXCEPT ![c] = "trying"]
        /\ outcome' = outcome
    BY <1>0, <2>1, <2>2, Moves DEF TypeOK, stage, outcome, StageOf
  <2> QED BY <2>2, <2>3 DEF Promise!Next, Promise!Continue, Promise!Resume, Promise!Enter
<1>3. ASSUME NEW c \in Calls, Refuse(c) PROVE Promised
  <2>1. stage[c] = "idle" /\ stage' = [stage EXCEPT ![c] = "done"]
        /\ outcome' = [outcome EXCEPT ![c] = "configuration"]
    BY <1>0, <1>3, Moves DEF Refuse, stage, StageOf
  <2>2. request' = request /\ attempt' = attempt /\ "configuration" \in Settlements
    BY <1>3 DEF Refuse, Settlements
  <2> QED BY <2>1, <2>2 DEF Promise!Next, Promise!Refuse, Promise!Enter
<1>4. ASSUME NEW c \in Calls, NEW delayed \in BOOLEAN, WaitForRetry(c, delayed)
      PROVE  Promised
  <2>1. phase' = [phase EXCEPT ![c] = IF delayed THEN "backoff" ELSE "waited"]
        /\ result' = result /\ phase[c] = "deciding" /\ GoesOn(c)
        /\ request' = request /\ attempt' = attempt
    BY <1>4 DEF WaitForRetry
  <2>2. stage[c] = "trying" /\ stage' = [stage EXCEPT ![c] = "pausing"]
        /\ outcome' = outcome
    BY <1>0, <2>1 DEF TypeOK, stage, outcome
  <2>3. RetrySafe(request[c]) /\ attempt[c] < request[c].maxAttempts
    BY <2>1 DEF IInv, Local, RetryGranted, GoesOn, RetriesError
  <2>4. attempt[c] < Budget(request[c])
    BY <2>3 DEF Budget
  <2> QED BY <2>1, <2>2, <2>4 DEF Promise!Next, Promise!Continue, Promise!Pause,
          Promise!Enter
<1>5. ASSUME NEW c \in Calls, Throw(c) PROVE Promised
  <2>1. PICK r : result' = [result EXCEPT ![c] = r] /\ r \in Settlements
    <3>1. result[c] \in Settlements \cup {"retry"}
      BY <1>5 DEF IInv, Local, Causes, Throw
    <3> QED BY <1>5, <3>1 DEF Throw, Settlements
  <2>2. stage[c] = "trying" /\ stage' = [stage EXCEPT ![c] = "done"]
        /\ outcome' = [outcome EXCEPT ![c] = r]
    BY <1>0, <1>5, <2>1, Moves DEF Throw, stage, StageOf
  <2>3. request' = request /\ attempt' = attempt
    BY <1>5 DEF Throw
  <2> QED BY <2>1, <2>2, <2>3 DEF Promise!Next, Promise!Continue, Promise!Settle,
          Promise!Enter
<1>6. ASSUME NEW c \in Calls, Finish(c) PROVE Promised
  <2>0. phase[c] = "resolved" /\ result[c] \in {"data", "retry"} /\ result' = result
        /\ request' = request /\ attempt' = attempt
    BY <1>6 DEF IInv, Local, Causes, Finish
  <2>1. CASE result[c] = "data"
    <3>1. phase' = [phase EXCEPT ![c] = "done"]
      BY <1>0, <1>6, <2>1 DEF TypeOK, Finish
    <3>2. stage[c] = "trying" /\ stage' = [stage EXCEPT ![c] = "done"]
          /\ outcome' = [outcome EXCEPT ![c] = "data"]
      BY <1>0, <2>0, <2>1, <3>1 DEF TypeOK, stage, outcome
    <3> QED BY <2>0, <3>2 DEF Promise!Next, Promise!Continue, Promise!Settle,
            Promise!Enter, Settlements
  <2>2. CASE result[c] = "retry"
    <3>1. phase' = [phase EXCEPT ![c] = "deciding"]
      BY <1>0, <1>6, <2>2 DEF TypeOK, Finish
    <3>2. result' = [result EXCEPT ![c] = result[c]]
      BY <1>0, <2>0 DEF TypeOK
    <3> QED BY <1>0, <2>0, <3>1, <3>2, Within DEF StageOf
  <2> QED BY <2>0, <2>1, <2>2
<1>7. ASSUME NEW c \in Calls,
             \/ Ready(c) \/ InitRejects(c) \/ Catch(c) \/ FetchFails(c)
             \/ \E s \in Statuses : Respond(c, s)
             \/ \E d \in {"none", "within"} : Inspected(c, d)
             \/ InspectedOver(c) \/ Discarded(c) \/ Decoded(c)
             \/ \E r \in {"api", "protocol", "body"} : DecodeThrows(c, r)
             \/ BackoffElapses(c) \/ TimerFires(c)
      PROVE  Promised
  <2>1. CASE Ready(c)
    <3>1. /\ phase' = [phase EXCEPT ![c] = "fetching"]
          /\ result' = [result EXCEPT ![c] = result[c]]
          /\ StageOf("fetching") = StageOf(phase[c]) /\ phase[c] # "done"
          /\ request' = request /\ attempt' = attempt
      BY <1>0, <2>1 DEF TypeOK, StageOf, InitReady, Ready
    <3> QED BY <1>0, <3>1, Within
  <2>2. CASE InitRejects(c)
    <3>1. /\ phase' = [phase EXCEPT ![c] = "failing"]
          /\ result' = [result EXCEPT ![c] = "init"]
          /\ StageOf("failing") = StageOf(phase[c]) /\ phase[c] # "done"
          /\ request' = request /\ attempt' = attempt
      BY <1>0, <2>2 DEF TypeOK, StageOf, InitReady, InitRejects, Fail
    <3> QED BY <1>0, <3>1, Within
  <2>3. CASE Catch(c)
    <3>1. /\ phase' = [phase EXCEPT ![c] = "deciding"]
          /\ result' = [result EXCEPT ![c] = Classified(c)]
          /\ StageOf("deciding") = StageOf(phase[c]) /\ phase[c] # "done"
          /\ request' = request /\ attempt' = attempt
      BY <1>0, <2>3 DEF TypeOK, StageOf, Catch
    <3> QED BY <1>0, <3>1, Within
  <2>4. CASE FetchFails(c)
    <3>1. /\ phase' = [phase EXCEPT ![c] = "failing"]
          /\ result' = [result EXCEPT ![c] = "network"]
          /\ StageOf("failing") = StageOf(phase[c]) /\ phase[c] # "done"
          /\ request' = request /\ attempt' = attempt
      BY <1>0, <2>4 DEF TypeOK, StageOf, FetchFails, Awaited, Fail
    <3> QED BY <1>0, <3>1, Within
  <2>5. CASE \E s \in Statuses : Respond(c, s)
    <3>1. PICK s \in Statuses : Respond(c, s)
      BY <2>5
    <3>2. PICK p : p = IF InspectsRetry(c, s) THEN "inspecting" ELSE "reading"
      OBVIOUS
    <3>3. /\ phase' = [phase EXCEPT ![c] = p]
          /\ result' = [result EXCEPT ![c] = result[c]]
          /\ phase[c] = "fetching"
          /\ request' = request /\ attempt' = attempt
      BY <1>0, <3>1, <3>2 DEF TypeOK, Respond, Awaited
    <3>4. StageOf(p) = StageOf("fetching") /\ p # "done"
      BY <3>2 DEF StageOf
    <3> QED BY <1>0, <3>3, <3>4, Within
  <2>6. CASE \E d \in {"none", "within"} : Inspected(c, d)
    <3>1. /\ phase' = [phase EXCEPT ![c] = "discarding"]
          /\ result' = [result EXCEPT ![c] = result[c]]
          /\ StageOf("discarding") = StageOf(phase[c]) /\ phase[c] # "done"
          /\ request' = request /\ attempt' = attempt
      BY <1>0, <2>6 DEF TypeOK, StageOf, Inspected
    <3> QED BY <1>0, <3>1, Within
  <2>7. CASE InspectedOver(c)
    <3>1. /\ phase' = [phase EXCEPT ![c] = "reading"]
          /\ result' = [result EXCEPT ![c] = result[c]]
          /\ StageOf("reading") = StageOf(phase[c]) /\ phase[c] # "done"
          /\ request' = request /\ attempt' = attempt
      BY <1>0, <2>7 DEF TypeOK, StageOf, InspectedOver
    <3> QED BY <1>0, <3>1, Within
  <2>8. CASE Discarded(c)
    <3>1. /\ phase' = [phase EXCEPT ![c] = "resolved"]
          /\ result' = [result EXCEPT ![c] = "retry"]
          /\ StageOf("resolved") = StageOf(phase[c]) /\ phase[c] # "done"
          /\ request' = request /\ attempt' = attempt
      BY <1>0, <2>8 DEF TypeOK, StageOf, Discarded
    <3> QED BY <1>0, <3>1, Within
  <2>9. CASE Decoded(c)
    <3>1. /\ phase' = [phase EXCEPT ![c] = "resolved"]
          /\ result' = [result EXCEPT ![c] = "data"]
          /\ StageOf("resolved") = StageOf(phase[c]) /\ phase[c] # "done"
          /\ request' = request /\ attempt' = attempt
      BY <1>0, <2>9 DEF TypeOK, StageOf, Decoded
    <3> QED BY <1>0, <3>1, Within
  <2>10. CASE \E r \in {"api", "protocol", "body"} : DecodeThrows(c, r)
    <3>1. PICK r :
          /\ phase' = [phase EXCEPT ![c] = "failing"]
          /\ result' = [result EXCEPT ![c] = r]
          /\ StageOf("failing") = StageOf(phase[c]) /\ phase[c] # "done"
          /\ request' = request /\ attempt' = attempt
      BY <1>0, <2>10 DEF TypeOK, StageOf, DecodeThrows, Fail
    <3> QED BY <1>0, <3>1, Within
  <2>11. CASE BackoffElapses(c)
    <3>1. /\ phase' = [phase EXCEPT ![c] = "waited"]
          /\ result' = [result EXCEPT ![c] = result[c]]
          /\ StageOf("waited") = StageOf(phase[c]) /\ phase[c] # "done"
          /\ request' = request /\ attempt' = attempt
      BY <1>0, <2>11 DEF TypeOK, StageOf, BackoffElapses
    <3> QED BY <1>0, <3>1, Within
  <2>12. CASE TimerFires(c)
    <3>1. /\ phase' = [phase EXCEPT ![c] = "failing"]
          /\ result' = [result EXCEPT ![c] = "signal"]
          /\ StageOf("failing") = StageOf(phase[c]) /\ phase[c] # "done"
          /\ request' = request /\ attempt' = attempt
      BY <1>0, <2>12 DEF TypeOK, StageOf, TimerFires, Fail, IInv, Local, Registrations, InAttempt, Awaiting
    <3> QED BY <1>0, <3>1, Within
  <2> QED BY <1>7, <2>1, <2>2, <2>3, <2>4, <2>5, <2>6, <2>7, <2>8, <2>9, <2>10, <2>11, <2>12
<1>8. ASSUME NEW c \in Calls,
             \/ TokenGiven(c) \/ Dispatch(c)
             \/ \E a \in Attempts : RespondLate(c, a) \/ FetchFailsLate(c, a)
      PROVE  Promised
  <2>1. phase' = phase /\ result' = result /\ request' = request /\ attempt' = attempt
    BY <1>8 DEF TokenGiven, Dispatch, RespondLate, FetchFailsLate
  <2> QED BY <2>1 DEF Promise!vars, stage, outcome
<1>9. ASSUME NEW c \in Calls, TokenRefused(c) PROVE Promised
  <2>1. CASE phase[c] = "preparing"
    <3>1. /\ phase' = [phase EXCEPT ![c] = "failing"]
          /\ result' = [result EXCEPT ![c] = "init"]
          /\ request' = request /\ attempt' = attempt
      BY <1>0, <1>9, <2>1 DEF TypeOK, TokenRefused
    <3> QED BY <1>0, <2>1, <3>1, Within DEF StageOf
  <2>2. CASE phase[c] # "preparing"
    <3>1. phase' = phase /\ result' = result /\ request' = request /\ attempt' = attempt
      BY <1>0, <1>9, <2>2 DEF TypeOK, TokenRefused
    <3> QED BY <3>1 DEF Promise!vars, stage, outcome
  <2> QED BY <2>1, <2>2
<1>10. CASE Abort
  <2> DEFINE S == {c \in Calls : <<c, "wait">> \in listeners}
  <2>1. S \in SUBSET {c \in Calls : stage[c] = "pausing"}
    BY DEF IInv, Local, Registrations, stage
  <2>2. stage' = [c \in Calls |-> IF c \in S THEN "done" ELSE stage[c]]
    BY <1>0, <1>10 DEF TypeOK, IInv, Local, Registrations, InAttempt, Awaiting, Abort,
       stage
  <2>3. outcome' = [c \in Calls |-> IF c \in S THEN "aborted" ELSE outcome[c]]
    BY <1>0, <1>10 DEF TypeOK, IInv, Local, Registrations, InAttempt, Awaiting, Abort,
       outcome
  <2>4. request' = request /\ attempt' = attempt /\ "aborted" \in Settlements
    BY <1>10 DEF Abort, Settlements
  <2> QED BY <2>1, <2>2, <2>3, <2>4 DEF Promise!Next, Promise!CancelPauses
<1>11. CASE UNCHANGED vars
  BY <1>11 DEF vars, callVars, Promise!vars, stage, outcome
<1> QED
  BY <1>1, <1>2, <1>3, <1>4, <1>5, <1>6, <1>7, <1>8, <1>9, <1>10, <1>11
     DEF Next, Microtask, Timer, Environment, Quiet

\* The client keeps the promise of RetriedCall: tries within the limit fixed at
\* the start, a pause between two tries, one outcome that is never replaced.
THEOREM ImplementsPromise == Spec => KeepsPromise
BY PromiseInit, PromiseNext, Invariance, PTL DEF Spec, KeepsPromise, Promise!Spec
-----------------------------------------------------------------------------
(***************************************************************************)
(* Every step is progress.  Liveness is out of the prover's reach, but     *)
(* what it rests on is not: no step of the client takes a call back or     *)
(* round in a circle (Advances), how far a call can come is bounded        *)
(* (Bounded), and no call waits without a timer (NobodyStuck).  So each    *)
(* call takes finitely many steps, and until it has settled one of its own *)
(* continuations or timers is still to come.                               *)
(***************************************************************************)
\* The order of the phases within an attempt.
Rank(p) ==
  CASE p = "idle" -> 0
    [] p = "preparing" -> 1
    [] p = "fetching" -> 2
    [] p = "inspecting" -> 3
    [] p \in {"discarding", "reading"} -> 4
    [] p \in {"resolved", "failing"} -> 5
    [] p = "deciding" -> 6
    [] p = "backoff" -> 7
    [] p = "waited" -> 8
    [] p = "done" -> 9

\* How far a call is, attempts before phases.
Position(c) == 10 * attempt[c] + Rank(phase[c])

\* How far its token and the exchange of one of its attempts are.
Asked(c) == CASE token[c] = "unasked" -> 0 [] token[c] = "pending" -> 1
              [] token[c] = "answered" -> 2
Exchanged(c, a) ==
  CASE exchange[c][a] = "none" -> 0 [] exchange[c][a] = "pending" -> 1
    [] exchange[c][a] = "open" -> 2 [] exchange[c][a] \in {"failed", "released"} -> 3

NoLess(c) ==
  /\ Position(c)' >= Position(c) /\ Asked(c)' >= Asked(c) /\ sends'[c] >= sends[c]
  /\ \A a \in Attempts : Exchanged(c, a)' >= Exchanged(c, a)
More(c) ==
  \/ Position(c)' > Position(c) \/ Asked(c)' > Asked(c) \/ sends'[c] > sends[c]
  \/ \E a \in Attempts : Exchanged(c, a)' > Exchanged(c, a)

\* A step brings a call forward, or is the one abort, and takes no call back.
Advances ==
  /\ \A c \in Calls : NoLess(c)
  /\ aborted => aborted'
  /\ (aborted' /\ ~aborted) \/ \E c \in Calls : More(c)

\* What the measure of a call, and what it is worth, rests on: no token is asked for
\* before the call, no exchange of an attempt exists before its fetch, and the
\* attempt's timeout is armed as long as it awaits anything.
Underway(c) ==
  /\ phase[c] = "idle" => token[c] = "unasked"
  /\ \A a \in Attempts :
       \/ a > attempt[c]
       \/ a = attempt[c] /\ (phase[c] = "preparing" \/ queued[c])
       => exchange[c][a] = "none"
  /\ phase[c] \in Awaiting => timer[c] = "armed"

\* A call that a step leaves alone stays where it is.
LEMMA SameIsUnderway ==
  ASSUME NEW c \in Calls, TypeOK, Same(c), Underway(c)
  PROVE  NoLess(c) /\ Underway(c)'
<1>1. /\ attempt[c] \in Nat /\ sends[c] \in Nat
      /\ phase[c] \in Phases
      /\ token[c] \in {"unasked", "pending", "answered"}
      /\ \A a \in Attempts :
           exchange[c][a] \in {"none", "pending", "failed", "open", "released"}
  BY DEF TypeOK
<1>2. Position(c)' = Position(c) /\ Position(c) \in Nat
  BY <1>1 DEF Same, Position, Rank, Phases
<1>3. Asked(c)' = Asked(c) /\ Asked(c) \in Nat
  BY <1>1 DEF Same, Asked
<1>4. \A a \in Attempts : Exchanged(c, a)' = Exchanged(c, a) /\ Exchanged(c, a) \in Nat
  BY <1>1 DEF Same, Exchanged
<1>5. NoLess(c) BY <1>1, <1>2, <1>3, <1>4 DEF NoLess, Same
<1>6. Underway(c)' BY DEF Same, Underway
<1> QED BY <1>5, <1>6

\* The step takes call c forward and leaves every other call alone.
Forward(c) ==
  /\ aborted' = aborted /\ NoLess(c) /\ More(c) /\ Underway(c)'
  /\ \A e \in Calls \ {c} : Same(e)

\* A call that turns to a later phase goes forward.
LEMMA TurnsForward ==
  ASSUME TypeOK, NEW c \in Calls, Underway(c),
         aborted' = aborted,
         attempt'[c] = attempt[c], exchange'[c] = exchange[c], token'[c] = token[c],
         sends'[c] = sends[c],
         NEW p \in Phases, phase'[c] = p, Rank(p) > Rank(phase[c]),
         p # "preparing",
         queued'[c] => queued[c] \/ phase[c] = "preparing",
         p \in Awaiting => phase[c] \in Awaiting /\ timer'[c] = timer[c],
         \A e \in Calls \ {c} : Same(e)
  PROVE  Forward(c)
<1>1. /\ attempt[c] \in Nat /\ sends[c] \in Nat
      /\ phase[c] \in Phases
      /\ token[c] \in {"unasked", "pending", "answered"}
      /\ \A a \in Attempts :
           exchange[c][a] \in {"none", "pending", "failed", "open", "released"}
  BY DEF TypeOK
<1>2. Position(c)' > Position(c)
  BY <1>1 DEF Position, Rank, Phases
<1>3. Asked(c)' = Asked(c) /\ Asked(c) \in Nat
  BY <1>1 DEF Asked
<1>4. \A a \in Attempts : Exchanged(c, a)' = Exchanged(c, a) /\ Exchanged(c, a) \in Nat
  BY <1>1 DEF Exchanged
<1>5. Position(c)' \in Nat /\ Position(c) \in Nat
  BY <1>1 DEF Position, Rank, Phases
<1>6. NoLess(c) /\ More(c) BY <1>1, <1>2, <1>3, <1>4, <1>5 DEF NoLess, More
<1>7. p # "idle"
  BY <1>1 DEF Rank, Phases
<1>8. Underway(c)'
  BY <1>7 DEF Underway
<1> QED BY <1>6, <1>8 DEF Forward

\* So are the fates of a fetch and of a body: one exchange goes on, with or without
\* the phase.
LEMMA ExchangesForward ==
  ASSUME TypeOK, NEW c \in Calls, Underway(c),
         aborted' = aborted,
         attempt'[c] = attempt[c], token'[c] = token[c],
         sends'[c] = sends[c] \/ sends'[c] = sends[c] + 1,
         NEW p \in Phases, phase'[c] = p,
         p = phase[c] \/ (Rank(p) > Rank(phase[c]) /\ p # "preparing"),
         NEW a \in Attempts,
         NEW x \in {"pending", "failed", "open", "released"},
         exchange'[c] = [exchange[c] EXCEPT ![a] = x],
         \/ exchange[c][a] = "none" /\ x = "pending" /\ sends'[c] = sends[c] + 1
         \/ exchange[c][a] = "pending" /\ x # "pending"
         \/ Rank(p) > Rank(phase[c]) /\ x \in {"failed", "released"},
         ~(a > attempt[c]),
         a = attempt[c] => p # "preparing" /\ ~queued'[c],
         queued'[c] => queued[c],
         p \in Awaiting => phase[c] \in Awaiting /\ timer'[c] = timer[c],
         \A e \in Calls \ {c} : Same(e)
  PROVE  Forward(c)
<1>1. /\ attempt[c] \in Nat /\ sends[c] \in Nat
      /\ phase[c] \in Phases
      /\ token[c] \in {"unasked", "pending", "answered"}
      /\ exchange[c] \in [Attempts -> {"none", "pending", "failed", "open", "released"}]
  BY DEF TypeOK
<1>2. Position(c)' >= Position(c) /\ (Rank(p) > Rank(phase[c]) => Position(c)' > Position(c))
  BY <1>1 DEF Position, Rank, Phases
<1>3. Asked(c)' = Asked(c) /\ Asked(c) \in Nat
  BY <1>1 DEF Asked
<1>4. \A b \in Attempts : Exchanged(c, b)' >= Exchanged(c, b)
  BY <1>1 DEF Exchanged
<1>5. \/ Position(c)' > Position(c) \/ sends'[c] > sends[c]
      \/ Exchanged(c, a)' > Exchanged(c, a)
  BY <1>1, <1>2 DEF Exchanged
<1>6. NoLess(c) /\ More(c) BY <1>1, <1>2, <1>3, <1>4, <1>5 DEF NoLess, More
<1>7. p = "idle" => phase[c] = "idle"
  BY <1>1 DEF Rank, Phases
<1>8. Underway(c)'
  <2>1. phase'[c] = "idle" => token'[c] = "unasked"
    BY <1>7 DEF Underway
  <2>2. ASSUME NEW b \in Attempts,
               b > attempt'[c] \/ (b = attempt'[c] /\ (phase'[c] = "preparing" \/ queued'[c]))
        PROVE  exchange'[c][b] = "none"
    BY <1>1, <2>2 DEF Underway
  <2>3. phase'[c] \in Awaiting => timer'[c] = "armed"
    BY DEF Underway
  <2> QED BY <2>1, <2>2, <2>3 DEF Underway
<1> QED BY <1>6, <1>8 DEF Forward

\* An attempt that starts is a later one, with nothing sent for it yet.
LEMMA StartsForward ==
  ASSUME IInv, NEW c \in Calls, Underway(c), StartAttempt(c),
         phase[c] \in {"idle", "waited"},
         aborted' = aborted, request' = request, prepared' = prepared,
         attempt' = [attempt EXCEPT ![c] = @ + 1],
         queued' = queued, sends' = sends, exchange' = exchange,
         \A e \in Calls \ {c} :
           status'[e] = status[e] /\ demand'[e] = demand[e] /\ pause'[e] = pause[e]
  PROVE  Forward(c)
<1>0. TypeOK /\ Progress(c) /\ RetryGranted(c)
  BY DEF IInv, Local
<1>1. /\ attempt[c] \in Nat /\ sends[c] \in Nat
      /\ token[c] \in {"unasked", "pending", "answered"}
      /\ \A a \in Attempts :
           exchange[c][a] \in {"none", "pending", "failed", "open", "released"}
      /\ attempt'[c] = attempt[c] + 1 /\ sends'[c] = sends[c] /\ exchange'[c] = exchange[c]
      /\ queued'[c] = queued[c] /\ ~queued[c]
  BY <1>0 DEF TypeOK, Progress
<1>2. /\ phase'[c] \in {"preparing", "deciding"}
      /\ phase'[c] = "preparing" => timer'[c] = "armed"
      /\ token'[c] = token[c] \/ (token[c] = "unasked" /\ token'[c] = "pending")
  <2>1. CASE Suspend(c)
    <3>1. phase[c] = "waited" => prepared[c]
      BY <1>0 DEF RetryGranted
    <3> QED BY <1>0, <2>1, <3>1 DEF TypeOK, Suspend, ArmTimeout, CreateInit, Underway
  <2>2. CASE ThrowAborted(c)
    BY <1>0, <2>2 DEF TypeOK, ThrowAborted
  <2> QED BY <2>1, <2>2 DEF StartAttempt
<1>3. Position(c)' > Position(c) /\ Position(c)' \in Nat /\ Position(c) \in Nat
  BY <1>1, <1>2 DEF Position, Rank
<1>4. Asked(c)' >= Asked(c)
  BY <1>1, <1>2 DEF Asked
<1>5. \A a \in Attempts : Exchanged(c, a)' = Exchanged(c, a) /\ Exchanged(c, a) \in Nat
  BY <1>1 DEF Exchanged
<1>6. NoLess(c) /\ More(c)
  BY <1>1, <1>3, <1>4, <1>5 DEF NoLess, More
<1>7. Underway(c)'
  <2>1. \A a \in Attempts : a \in Nat BY DEF Attempts
  <2>2. \A a \in Attempts : a > attempt'[c] \/ a = attempt'[c] => a > attempt[c]
    BY <1>1, <2>1
  <2> QED BY <1>1, <1>2, <2>2 DEF Underway, Awaiting
<1>8. ASSUME NEW e \in Calls, e # c PROVE Same(e)
  <2>1. CASE Suspend(c)
    BY <1>0, <1>8, <2>1 DEF TypeOK, Suspend, ArmTimeout, CreateInit, Listen, Same
  <2>2. CASE ThrowAborted(c)
    BY <1>0, <1>8, <2>2 DEF TypeOK, ThrowAborted, Same
  <2> QED BY <2>1, <2>2 DEF StartAttempt
<1> QED BY <1>6, <1>7, <1>8 DEF Forward

\* The provider's one answer takes the token forward.
LEMMA TokensForward ==
  ASSUME IInv, NEW c \in Calls, Underway(c), TokenGiven(c) \/ TokenRefused(c)
  PROVE  Forward(c)
<1>0. TypeOK /\ Registrations(c) BY DEF IInv, Local
<1>1. /\ attempt[c] \in Nat /\ sends[c] \in Nat /\ phase[c] \in Phases
      /\ \A a \in Attempts :
           exchange[c][a] \in {"none", "pending", "failed", "open", "released"}
      /\ token[c] = "pending" /\ token'[c] = "answered"
      /\ attempt'[c] = attempt[c] /\ sends'[c] = sends[c] /\ exchange'[c] = exchange[c]
      /\ queued'[c] = queued[c] /\ timer'[c] = timer[c]
      /\ phase'[c] = phase[c] \/ (phase[c] = "preparing" /\ phase'[c] = "failing")
  BY <1>0 DEF TypeOK, TokenGiven, TokenRefused
<1>2. Position(c)' >= Position(c)
  BY <1>1 DEF Position, Rank, Phases
<1>3. Asked(c)' > Asked(c) /\ Asked(c)' >= Asked(c)
  BY <1>1 DEF Asked
<1>4. \A a \in Attempts : Exchanged(c, a)' = Exchanged(c, a) /\ Exchanged(c, a) \in Nat
  BY <1>1 DEF Exchanged
<1>5. NoLess(c) /\ More(c) BY <1>1, <1>2, <1>3, <1>4 DEF NoLess, More
<1>6. Underway(c)'
  BY <1>1 DEF Underway, Awaiting
<1>7. aborted' = aborted /\ \A e \in Calls \ {c} : Same(e)
  BY <1>0 DEF TypeOK, TokenGiven, TokenRefused, Same
<1> QED BY <1>5, <1>6, <1>7 DEF Forward

\* Queued continuations take their call forward.
LEMMA MicrotasksForward ==
  ASSUME IInv, NEW c \in Calls, Underway(c), Microtask(c)
  PROVE  Forward(c)
<1>0. TypeOK /\ Progress(c) /\ Causes(c) BY DEF IInv, Local
<1>1. CASE Ready(c) \/ InitRejects(c)
  <2>1. /\ phase[c] = "preparing" /\ phase'[c] \in {"fetching", "failing"}
        /\ timer'[c] = timer[c] /\ (queued'[c] => queued[c] \/ phase[c] = "preparing")
        /\ attempt'[c] = attempt[c] /\ exchange'[c] = exchange[c]
        /\ token'[c] = token[c] /\ sends'[c] = sends[c] /\ aborted' = aborted
    BY <1>0, <1>1 DEF TypeOK, Ready, InitRejects, InitReady, Fail
  <2>2. \A e \in Calls \ {c} : Same(e)
    BY <1>0, <1>1 DEF TypeOK, Ready, InitRejects, Fail, Same
  <2> QED BY <1>0, <2>1, <2>2, TurnsForward DEF Phases, Rank, Awaiting
<1>2. CASE Dispatch(c)
  <2>1. /\ attempt[c] \in Attempts /\ exchange[c][attempt[c]] = "none"
        /\ phase'[c] = phase[c] /\ phase[c] \in Phases /\ phase[c] # "preparing"
    BY <1>0, <1>2, Counts DEF TypeOK, Dispatch, Progress, Underway
  <2>2. /\ timer'[c] = timer[c] /\ queued'[c] = FALSE
        /\ exchange'[c] = [exchange[c] EXCEPT ![attempt[c]] = "pending"]
        /\ attempt'[c] = attempt[c] /\ token'[c] = token[c]
        /\ sends'[c] = sends[c] + 1 /\ aborted' = aborted
    BY <1>0, <1>2 DEF TypeOK, Dispatch
  <2>3. \A e \in Calls \ {c} : Same(e)
    BY <1>0, <1>2 DEF TypeOK, Dispatch, Same
  <2>4. ~(attempt[c] > attempt[c])
    BY <1>0, Counts
  <2> QED BY <1>0, <2>1, <2>2, <2>3, <2>4, ExchangesForward
<1>3. CASE Finish(c) \/ Throw(c) \/ \E delayed \in BOOLEAN : WaitForRetry(c, delayed)
  <2>1. /\ \/ phase[c] = "resolved" /\ phase'[c] \in {"done", "deciding"}
           \/ phase[c] = "deciding" /\ phase'[c] \in {"done", "backoff", "waited"}
        /\ queued'[c] = queued[c]
        /\ attempt'[c] = attempt[c] /\ exchange'[c] = exchange[c]
        /\ token'[c] = token[c] /\ sends'[c] = sends[c] /\ aborted' = aborted
    BY <1>0, <1>3 DEF TypeOK, Finish, Throw, WaitForRetry
  <2>2. \A e \in Calls \ {c} : Same(e)
    BY <1>0, <1>3 DEF TypeOK, Finish, Throw, WaitForRetry, Cleanup, Listen, Same
  <2> QED BY <1>0, <2>1, <2>2, TurnsForward DEF Phases, Rank, Awaiting
<1>4. CASE Catch(c)
  <2>1. /\ phase[c] = "failing" /\ phase'[c] = "deciding" /\ ~queued[c]
        /\ queued'[c] = queued[c] /\ attempt'[c] = attempt[c]
        /\ token'[c] = token[c] /\ sends'[c] = sends[c] /\ aborted' = aborted
        /\ exchange'[c] = [exchange[c] EXCEPT ![attempt[c]] =
                             IF @ = "open" THEN "released" ELSE @]
    BY <1>0, <1>4 DEF TypeOK, Catch, CancelBody
  <2>2. \A e \in Calls \ {c} : Same(e)
    BY <1>0, <1>4 DEF TypeOK, Catch, CancelBody, Cleanup, Same
  <2>3. attempt[c] \in Attempts /\ ~(attempt[c] > attempt[c])
    BY <1>0, <2>1, Counts DEF Progress
  <2>4. CASE exchange[c][attempt[c]] = "open"
    <3>1. exchange'[c] = [exchange[c] EXCEPT ![attempt[c]] = "released"]
      BY <2>1, <2>4
    <3>2. phase'[c] \in Phases /\ Rank(phase'[c]) > Rank(phase[c])
      BY <2>1 DEF Phases, Rank
    <3> QED BY <1>0, <2>1, <2>2, <2>3, <3>1, <3>2, ExchangesForward DEF Awaiting
  <2>5. CASE exchange[c][attempt[c]] # "open"
    <3>1. exchange'[c] = exchange[c]
      BY <1>0, <2>1, <2>3, <2>5 DEF TypeOK
    <3> QED BY <1>0, <2>1, <2>2, <3>1, TurnsForward DEF Phases, Rank, Awaiting
  <2> QED BY <2>4, <2>5
<1>5. CASE NextAttempt(c)
  BY <1>0, <1>5, StartsForward DEF TypeOK, NextAttempt
<1> QED BY <1>1, <1>2, <1>3, <1>4, <1>5 DEF Microtask

\* A timer that fires ends an await or a pause.
LEMMA TimersForward ==
  ASSUME IInv, NEW c \in Calls, Underway(c), Timer(c)
  PROVE  Forward(c)
<1>0. TypeOK /\ Registrations(c) BY DEF IInv, Local
<1>1. /\ \/ phase[c] \in Awaiting /\ phase'[c] = "failing"
         \/ phase[c] = "backoff" /\ phase'[c] = "waited"
      /\ queued'[c] = queued[c]
      /\ attempt'[c] = attempt[c] /\ exchange'[c] = exchange[c]
      /\ token'[c] = token[c] /\ sends'[c] = sends[c] /\ aborted' = aborted
  BY <1>0 DEF TypeOK, Timer, TimerFires, BackoffElapses, Fail, Quiescent,
              Registrations, InAttempt
<1>2. \A e \in Calls \ {c} : Same(e)
  BY <1>0 DEF TypeOK, Timer, TimerFires, BackoffElapses, Fail, Same
<1> QED BY <1>0, <1>1, <1>2, TurnsForward DEF Phases, Rank, Awaiting

\* So do the application, the network and the response streams.
LEMMA EnvironmentForward ==
  ASSUME IInv, NEW c \in Calls, Underway(c), Environment(c)
  PROVE  Forward(c)
<1>0. TypeOK /\ Progress(c) BY DEF IInv, Local
<1>1. CASE Call(c)
  <2>1. attempt[c] = 0
    BY <1>0, <1>1 DEF Progress, Call
  <2>2. attempt' = [attempt EXCEPT ![c] = @ + 1]
    BY <1>1, <2>1 DEF Call
  <2> QED BY <1>0, <1>1, <2>2, StartsForward DEF TypeOK, Call
<1>2. CASE TokenGiven(c) \/ TokenRefused(c)
  BY <1>2, TokensForward
<1>3. CASE Refuse(c) \/ InspectedOver(c) \/ Discarded(c)
  <2>1. /\ \/ phase[c] = "idle" /\ phase'[c] = "done"
           \/ phase[c] = "inspecting" /\ phase'[c] = "reading"
           \/ phase[c] = "discarding" /\ phase'[c] = "resolved"
        /\ queued'[c] = queued[c] /\ timer'[c] = timer[c]
        /\ attempt'[c] = attempt[c] /\ exchange'[c] = exchange[c]
        /\ token'[c] = token[c] /\ sends'[c] = sends[c] /\ aborted' = aborted
    BY <1>0, <1>3 DEF TypeOK, Refuse, InspectedOver, Discarded
  <2>2. \A e \in Calls \ {c} : Same(e)
    BY <1>0, <1>3 DEF TypeOK, Refuse, InspectedOver, Discarded, Same
  <2> QED BY <1>0, <2>1, <2>2, TurnsForward DEF Phases, Rank, Awaiting
<1>4. ASSUME NEW a \in Attempts, RespondLate(c, a) \/ FetchFailsLate(c, a)
      PROVE  Forward(c)
  <2>1. PICK x \in {"failed", "released"} :
             exchange'[c] = [exchange[c] EXCEPT ![a] = x]
    BY <1>0, <1>4 DEF TypeOK, RespondLate, FetchFailsLate
  <2>2. /\ exchange[c][a] = "pending" /\ phase'[c] = phase[c] /\ phase[c] \in Phases
        /\ queued'[c] = queued[c] /\ timer'[c] = timer[c]
        /\ attempt'[c] = attempt[c] /\ token'[c] = token[c]
        /\ sends'[c] = sends[c] /\ aborted' = aborted
    BY <1>0, <1>4 DEF TypeOK, RespondLate, FetchFailsLate
  <2>3. /\ ~(a > attempt[c])
        /\ a = attempt[c] => phase[c] # "preparing" /\ ~queued[c]
    BY <2>2 DEF Underway
  <2>4. \A e \in Calls \ {c} : Same(e)
    BY <1>0, <1>4 DEF TypeOK, RespondLate, FetchFailsLate, Same
  <2> QED BY <1>0, <2>1, <2>2, <2>3, <2>4, ExchangesForward
<1>5. CASE \/ \E s \in Statuses : Respond(c, s)
           \/ FetchFails(c)
           \/ \E d \in {"none", "within"} : Inspected(c, d)
           \/ Decoded(c)
           \/ \E r \in {"api", "protocol", "body"} : DecodeThrows(c, r)
  <2>1. /\ \/ /\ phase[c] = "fetching" /\ exchange[c][attempt[c]] = "pending"
              /\ phase'[c] \in {"inspecting", "reading", "failing"}
              /\ \E x \in {"open", "failed"} :
                   exchange'[c] = [exchange[c] EXCEPT ![attempt[c]] = x]
           \/ /\ \/ phase[c] = "inspecting" /\ phase'[c] = "discarding"
                 \/ phase[c] = "reading" /\ phase'[c] \in {"resolved", "failing"}
              /\ exchange'[c] = [exchange[c] EXCEPT ![attempt[c]] = "released"]
        /\ queued'[c] = queued[c] /\ timer'[c] = timer[c]
        /\ attempt'[c] = attempt[c] /\ token'[c] = token[c]
        /\ sends'[c] = sends[c] /\ aborted' = aborted /\ ~queued[c]
    <3>1. CASE \E s \in Statuses : Respond(c, s)
      BY <1>0, <3>1 DEF TypeOK, Respond, Awaited, Quiescent
    <3>4. CASE FetchFails(c)
      BY <1>0, <3>4 DEF TypeOK, FetchFails, Awaited, Fail, Quiescent
    <3>2. CASE \E d \in {"none", "within"} : Inspected(c, d)
      BY <1>0, <3>2 DEF TypeOK, Inspected, Quiescent
    <3>3. CASE Decoded(c) \/ \E r \in {"api", "protocol", "body"} : DecodeThrows(c, r)
      BY <1>0, <3>3 DEF TypeOK, Decoded, DecodeThrows, Fail, Quiescent
    <3> QED BY <1>5, <3>1, <3>2, <3>3, <3>4
  <2>2. \A e \in Calls \ {c} : Same(e)
    BY <1>0, <1>5 DEF TypeOK, Respond, FetchFails, Inspected, Decoded, DecodeThrows,
                      Fail, Same
  <2>3. attempt[c] \in Attempts /\ ~(attempt[c] > attempt[c])
    BY <1>0, <2>1, Counts DEF Progress
  <2>4. PICK x \in {"pending", "failed", "open", "released"} :
          /\ exchange'[c] = [exchange[c] EXCEPT ![attempt[c]] = x]
          /\ x # "pending"
          /\ exchange[c][attempt[c]] = "pending" \/ x \in {"failed", "released"}
    BY <2>1
  <2>5. phase'[c] \in Phases /\ Rank(phase'[c]) > Rank(phase[c]) /\ phase'[c] # "preparing"
    BY <2>1 DEF Phases, Rank
  <2>6. phase'[c] \in Awaiting => phase[c] \in Awaiting
    BY <2>1 DEF Awaiting
  <2> QED BY <1>0, <2>1, <2>2, <2>3, <2>4, <2>5, <2>6, ExchangesForward
<1> QED BY <1>1, <1>2, <1>3, <1>4, <1>5 DEF Environment

\* The abort takes every call it reaches to its end or to its error.
LEMMA AbortForward ==
  ASSUME IInv, NEW c \in Calls, Underway(c), Abort
  PROVE  NoLess(c) /\ Underway(c)'
<1>0. TypeOK /\ Registrations(c) BY DEF IInv, Local
<1>1. /\ attempt[c] \in Nat /\ sends[c] \in Nat /\ phase[c] \in Phases
      /\ token[c] \in {"unasked", "pending", "answered"}
      /\ \A a \in Attempts :
           exchange[c][a] \in {"none", "pending", "failed", "open", "released"}
  BY <1>0 DEF TypeOK
<1>2. /\ \/ phase'[c] = phase[c]
         \/ phase[c] \in Awaiting /\ phase'[c] = "failing"
         \/ phase[c] = "backoff" /\ phase'[c] = "done"
      /\ token' = token /\ exchange' = exchange /\ attempt' = attempt
      /\ timer' = timer /\ queued' = queued /\ sends' = sends
  BY <1>0 DEF Abort, Registrations
<1>3. Position(c)' >= Position(c)
  BY <1>1, <1>2 DEF Position, Rank, Phases, Awaiting
<1>4. Asked(c)' = Asked(c) /\ Asked(c) \in Nat
  BY <1>1, <1>2 DEF Asked
<1>5. \A a \in Attempts : Exchanged(c, a)' = Exchanged(c, a) /\ Exchanged(c, a) \in Nat
  BY <1>1, <1>2 DEF Exchanged
<1>6. NoLess(c) BY <1>1, <1>2, <1>3, <1>4, <1>5 DEF NoLess
<1>7. Underway(c)' BY <1>2 DEF Underway, Awaiting
<1> QED BY <1>6, <1>7

\* Every step advances and leaves all attempts under their timeouts, or is a stutter.
LEMMA NextAdvances ==
  ASSUME IInv, \A c \in Calls : Underway(c), [Next]_vars
  PROVE  (\A c \in Calls : Underway(c))' /\ (Advances \/ UNCHANGED vars)
<1>0. TypeOK BY DEF IInv
<1>1. CASE UNCHANGED vars
  <2>1. \A c \in Calls : Underway(c)'
    BY <1>1 DEF Underway, vars, callVars
  <2> QED BY <1>1, <2>1
<1>2. ASSUME NEW c \in Calls, Microtask(c) \/ Timer(c) \/ Environment(c)
      PROVE  (\A e \in Calls : Underway(e)') /\ Advances
  <2>1. Forward(c)
    BY <1>2, MicrotasksForward, TimersForward, EnvironmentForward
  <2>2. \A e \in Calls : NoLess(e) /\ Underway(e)'
    BY <1>0, <2>1, SameIsUnderway DEF Forward
  <2> QED BY <2>1, <2>2 DEF Forward, Advances
<1>3. CASE Abort
  <2>1. \A e \in Calls : NoLess(e) /\ Underway(e)'
    BY <1>3, AbortForward
  <2>2. aborted' /\ ~aborted BY <1>3 DEF Abort
  <2> QED BY <2>1, <2>2 DEF Advances
<1> QED BY <1>1, <1>2, <1>3 DEF Next, Quiet

\* Attempts run under their timeouts in every reachable state.
LEMMA UnderwayInvariance == Spec => []((\A c \in Calls : Underway(c)) /\ IInv)
<1>1. Init => \A c \in Calls : Underway(c)
  <2> SUFFICES ASSUME Init, NEW c \in Calls PROVE Underway(c)
    OBVIOUS
  <2>1. /\ phase[c] = "idle" /\ token[c] = "unasked"
        /\ \A a \in Attempts : exchange[c][a] = "none"
    BY DEF Init
  <2> QED BY <2>1 DEF Underway, Awaiting
<1>2. IInv /\ (\A c \in Calls : Underway(c)) /\ [Next]_vars => (\A c \in Calls : Underway(c))'
  BY NextAdvances
<1> QED BY <1>1, <1>2, Invariance, PTL DEF Spec

\* No step takes a call back: every one but the abort, which happens once, brings a
\* call forward, on its way through the attempts, with its token or with one of its
\* exchanges.  So nothing is retried, waited for or answered in a circle.
THEOREM StepsAdvance == Spec => [][Advances]_vars
<1>1. (\A c \in Calls : Underway(c)) /\ IInv /\ [Next]_vars => [Advances]_vars
  BY NextAdvances
<1> QED BY <1>1, UnderwayInvariance, PTL DEF Spec

\* Each measure of a call is bounded.
Bounded ==
  \A c \in Calls :
    /\ Position(c) \in 0..10 * MaxAttempts + 9
    /\ Asked(c) \in 0..2 /\ sends[c] \in 0..MaxAttempts
    /\ \A a \in Attempts : Exchanged(c, a) \in 0..3

\* A call that is not settled has a continuation queued, or waits under a timer of its
\* own: the attempt's timeout or the retry delay.
NobodyStuck ==
  \A c \in Calls : phase[c] \notin {"idle", "done"} =>
    \/ queued[c] \/ InitReady(c)
    \/ phase[c] \in {"resolved", "failing", "deciding", "waited"}
    \/ phase[c] \in Awaiting /\ timer[c] = "armed"
    \/ phase[c] = "backoff"

\* The measures are bounded by maxAttempts, and no call waits without a timer, even if
\* token provider, fetch and response stream never answer.
THEOREM CallsCannotHang == Spec => [](Bounded /\ NobodyStuck)
<1>1. ASSUME IInv, \A c \in Calls : Underway(c) PROVE Bounded
  <2> SUFFICES ASSUME NEW c \in Calls
               PROVE  /\ Position(c) \in 0..10 * MaxAttempts + 9
                      /\ Asked(c) \in 0..2 /\ sends[c] \in 0..MaxAttempts
                      /\ \A a \in Attempts : Exchanged(c, a) \in 0..3
    BY DEF Bounded
  <2>0. TypeOK /\ Progress(c) BY <1>1 DEF IInv, Local
  <2>1. /\ attempt[c] \in Nat /\ attempt[c] <= MaxAttempts /\ MaxAttempts \in Nat
        /\ sends[c] \in Nat /\ sends[c] <= attempt[c] /\ phase[c] \in Phases
        /\ token[c] \in {"unasked", "pending", "answered"}
        /\ \A a \in Attempts :
             exchange[c][a] \in {"none", "pending", "failed", "open", "released"}
    BY <2>0, ConstantsOK DEF TypeOK, Progress
  <2>2. Position(c) \in 0..10 * MaxAttempts + 9
    BY <2>1 DEF Position, Rank, Phases
  <2>3. Asked(c) \in 0..2 BY <2>1 DEF Asked
  <2>4. \A a \in Attempts : Exchanged(c, a) \in 0..3 BY <2>1 DEF Exchanged
  <2> QED BY <2>1, <2>2, <2>3, <2>4
<1>2. ASSUME IInv, \A c \in Calls : Underway(c) PROVE NobodyStuck
  BY <1>2 DEF IInv, TypeOK, Phases, Underway, NobodyStuck, Awaiting
<1> QED BY <1>1, <1>2, UnderwayInvariance, PTL
=============================================================================
