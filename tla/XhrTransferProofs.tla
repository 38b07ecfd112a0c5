------------------------- MODULE XhrTransferProofs ---------------------------
(***************************************************************************)
(* The properties of XhrTransfer, for any number of transfers that share a *)
(* signal.                                                                 *)
(***************************************************************************)
EXTENDS XhrTransfer, TLAPS

\* A transfer listens and has a request in the browser while it is pending, and only
\* then; only the answer of a request settles its transfer with a response.
Local(t) ==
  /\ t \in onSignal <=> outcome[t] = "pending"
  /\ xhr[t] = "sent" <=> outcome[t] = "pending"
  /\ aborted => outcome[t] # "pending"
  /\ xhr[t] = "loaded" => outcome[t] \in {"response", "thrown"}
  /\ outcome[t] = "response" => xhr[t] = "loaded"
  /\ outcome[t] = "unstarted" => xhr[t] = "unsent"

\* The inductive invariant.
IInv == TypeOK /\ \A t \in Transfers : Local(t)

\* The invariant holds at the beginning.
LEMMA InitIInv == Init => IInv
BY DEF Init, IInv, TypeOK, Local, Endings, Settlements, Silent

\* Stopping transfers that are pending or have not been started, all pending ones of
\* them if the signal is aborted, keeps the invariant.
LEMMA StopKeeps ==
  ASSUME IInv, NEW ts \in SUBSET Transfers, NEW how \in {"abort", "thrown"},
         \A t \in ts : outcome[t] \in {"unstarted", "pending"},
         Stop(ts, how), aborted' \in BOOLEAN, report'.of \in Transfers \cup {"nobody"},
         aborted' => \A t \in Transfers \ ts : outcome[t] # "pending"
  PROVE  IInv'
<1>1. TypeOK'
  BY DEF IInv, TypeOK, Stop, Cleanup, Endings, Settlements
<1>2. ASSUME NEW t \in Transfers PROVE Local(t)'
  BY <1>1 DEF IInv, TypeOK, Local, Stop, Cleanup, Endings, Settlements
<1> QED BY <1>1, <1>2 DEF IInv

\* The transfers that an abort reaches have not been settled.
LEMMA ListeningPending ==
  ASSUME IInv, NEW t \in Transfers, outcome[t] \in {"unstarted", "pending"}
  PROVE  /\ Listening(t) \in SUBSET Transfers
         /\ \A u \in Listening(t) : outcome[u] \in {"unstarted", "pending"}
         /\ \A u \in Transfers \ Listening(t) : outcome[u] # "pending"
BY DEF IInv, TypeOK, Local, Listening, Settled, Settlements

\* Every step keeps the invariant.
LEMMA StepIInv == IInv /\ [Next]_vars => IInv'
<1> SUFFICES ASSUME IInv, [Next]_vars PROVE IInv'
  OBVIOUS
<1>1. CASE UNCHANGED vars
  BY <1>1 DEF IInv, TypeOK, Local, vars
<1>2. CASE Abort
  <2> DEFINE ts == {t \in onSignal : ~Settled(t)}
  <2>1. ts \in SUBSET Transfers /\ \A t \in ts : outcome[t] \in {"unstarted", "pending"}
    BY DEF IInv, TypeOK, Local
  <2>2. \A t \in Transfers \ ts : outcome[t] # "pending"
    BY DEF IInv, Local, Settled, Settlements
  <2>3. Stop(ts, "abort") /\ aborted' \in BOOLEAN /\ report'.of = "nobody"
    BY <1>2 DEF Abort, Silent
  <2> QED BY <2>1, <2>2, <2>3, StopKeeps
<1>3. ASSUME NEW t \in Transfers, Refuse(t) PROVE IInv'
  <2>1. PICK how \in {"abort", "thrown"} : Stop({t}, how)
    BY <1>3 DEF Refuse
  <2>2. /\ outcome[t] = "unstarted" /\ aborted' = aborted /\ report'.of = "nobody"
        /\ aborted => \A u \in Transfers : outcome[u] # "pending"
    BY <1>3 DEF Refuse, Silent, IInv, Local
  <2>3. aborted' \in BOOLEAN
    BY <2>2 DEF IInv, TypeOK
  <2> QED BY <2>1, <2>2, <2>3, StopKeeps
<1>4. ASSUME NEW t \in Transfers, Send(t) PROVE IInv'
  <2>1. TypeOK'
    BY <1>4 DEF Send, Reporting, IInv, TypeOK, Endings, Settlements
  <2>2. ASSUME NEW u \in Transfers PROVE Local(u)'
    BY <1>4, <2>1 DEF Send, IInv, TypeOK, Local, Endings, Settlements
  <2> QED BY <2>1, <2>2 DEF IInv
<1>5. ASSUME NEW t \in Transfers, SendFails(t) PROVE IInv'
  <2>1. outcome[t] = "unstarted" /\ ~aborted /\ report'.of = t
    BY <1>5 DEF SendFails, Reporting
  <2>2. CASE Stop({t}, "thrown") /\ UNCHANGED aborted
    BY <2>1, <2>2, StopKeeps DEF IInv, TypeOK
  <2>3. CASE Stop(Listening(t), "abort") /\ aborted' = TRUE
    BY <2>1, <2>3, StopKeeps, ListeningPending
  <2> QED BY <1>5, <2>2, <2>3 DEF SendFails
<1>6. ASSUME NEW t \in Transfers, Fail(t) PROVE IInv'
  <2>1. PICK how \in {"failure", "abort", "timeout"}, ending \in {"failed", "stopped", "timedOut"} :
          Finish(t, how, ending)
    BY <1>6 DEF Fail
  <2>2. TypeOK'
    BY <1>6, <2>1 DEF Fail, Silent, Finish, Cleanup, IInv, TypeOK, Endings, Settlements
  <2>3. ASSUME NEW u \in Transfers PROVE Local(u)'
    BY <1>6, <2>1, <2>2 DEF Fail, Finish, Cleanup, IInv, TypeOK, Local, Endings, Settlements
  <2> QED BY <2>2, <2>3 DEF IInv
<1>7. ASSUME NEW t \in Transfers, NEW reaction \in Reactions, Progress(t, reaction)
      PROVE  IInv'
  <2>1. outcome[t] = "pending" /\ ~aborted /\ report'.of = t
    BY <1>7 DEF Progress, Reporting, IInv, TypeOK, Local
  <2>2. CASE UNCHANGED <<xhr, onSignal, onXhr, outcome>> /\ reaction = {}
    BY <1>7, <2>1, <2>2 DEF Progress, IInv, TypeOK, Local, Settlements, Endings
  <2>3. CASE Stop({t}, "thrown") /\ reaction = {"throws"}
    <3>1. aborted' = FALSE
      BY <1>7, <2>1, <2>3 DEF Progress, IInv, TypeOK
    <3>2. {t} \in SUBSET Transfers /\ \A u \in {t} : outcome[u] \in {"unstarted", "pending"}
      BY <2>1
    <3>3. Stop({t}, "thrown")
      BY <2>3
    <3> HIDE <2>3
    <3> QED BY <2>1, <3>1, <3>2, <3>3, StopKeeps
  <2>4. CASE Stop(Listening(t), "abort") /\ "aborts" \in reaction
    <3>1. aborted' = TRUE
      BY <1>7, <2>4 DEF Progress
    <3> QED BY <2>1, <2>4, <3>1, StopKeeps, ListeningPending
  <2> QED BY <1>7, <2>2, <2>3, <2>4 DEF Progress
<1>8. ASSUME NEW t \in Transfers, NEW reaction \in Reactions, Load(t, reaction)
      PROVE  IInv'
  <2> DEFINE others == IF "aborts" \in reaction THEN Listening(t) \ {t} ELSE {}
             how == IF "throws" \in reaction THEN "thrown" ELSE "response"
  <2>1. outcome[t] = "pending" /\ aborted \in BOOLEAN
    BY <1>8 DEF Load, IInv, TypeOK, Local
  <2>2. /\ others \in SUBSET Transfers
        /\ \A u \in others : outcome[u] = "pending"
        /\ "aborts" \in reaction => \A u \in Transfers \ (others \cup {t}) : outcome[u] # "pending"
    BY <2>1 DEF Listening, Settled, Settlements, IInv, TypeOK, Local
  <2>3. /\ outcome' = [u \in Transfers |-> IF u = t THEN how
                                          ELSE IF u \in others THEN "abort" ELSE outcome[u]]
        /\ xhr' = [u \in Transfers |-> IF u = t THEN "loaded"
                                       ELSE IF u \in others THEN "cancelled" ELSE xhr[u]]
        /\ onSignal' = onSignal \ (others \cup {t})
        /\ onXhr' = onXhr \ (others \cup {t})
        /\ aborted' = (aborted \/ "aborts" \in reaction)
        /\ report'.of = t
    BY <1>8 DEF Load, Cleanup, Reporting
  <2>4. how \in {"thrown", "response"}
    OBVIOUS
  <2> HIDE DEF others, how
  <2>5. TypeOK'
    BY <2>1, <2>2, <2>3, <2>4 DEF IInv, TypeOK, Endings, Settlements
  <2>6. ASSUME NEW u \in Transfers PROVE Local(u)'
    BY <2>1, <2>2, <2>3, <2>4 DEF IInv, TypeOK, Local, Endings, Settlements
  <2> QED BY <2>5, <2>6 DEF IInv
<1> QED BY <1>1, <1>2, <1>3, <1>4, <1>5, <1>6, <1>7, <1>8 DEF Next

\* The invariant holds in every reachable state.
THEOREM Invariance == Spec => []IInv
<1>1. Init => IInv
  BY InitIInv
<1>2. IInv /\ [Next]_vars => IInv'
  BY StepIInv
<1> QED BY <1>1, <1>2, PTL DEF Spec

\* A settled transfer has neither a request in the browser nor a listener, and an abort
\* leaves none waiting for the browser.
THEOREM NobodyIsStranded == Spec => []NobodyStranded
<1>1. IInv => NobodyStranded
  BY DEF IInv, TypeOK, Local, NobodyStranded, Settled, Settlements
<1> QED BY <1>1, Invariance, PTL

\* An answer that has arrived is what its transfer is settled with, or the error of
\* the callback that was told of it.
THEOREM AnswersAreKept == Spec => []AnswerKept
<1>1. IInv => AnswerKept
  BY DEF IInv, Local, AnswerKept
<1> QED BY <1>1, Invariance, PTL

\* Nothing is sent in a step that leaves the signal aborted.
THEOREM SendsBeforeAbort == Spec => NoSendAfterAbort
<1>1. ASSUME IInv, [Next]_vars, NEW t \in Transfers, xhr[t] = "unsent", xhr'[t] = "sent"
      PROVE  ~aborted'
  <2>1. ASSUME NEW ts, NEW how, Stop(ts, how) PROVE FALSE
    BY <1>1, <2>1 DEF Stop
  <2>2. ASSUME NEW u \in Transfers, NEW how, NEW ending \in Endings, Finish(u, how, ending)
        PROVE  FALSE
    BY <1>1, <2>2 DEF Finish, Endings, IInv, TypeOK
  <2>3. ASSUME NEW u \in Transfers, NEW reaction \in Reactions, Load(u, reaction)
        PROVE  FALSE
    BY <1>1, <2>3 DEF Load
  <2>4. PICK u \in Transfers : Send(u)
    BY <1>1, <2>1, <2>2, <2>3
       DEF Next, Abort, Refuse, SendFails, Progress, Fail, vars, Endings
  <2> QED BY <2>4 DEF Send
<1>2. IInv /\ [Next]_vars
        => [\A t \in Transfers : xhr[t] = "unsent" /\ xhr'[t] = "sent" => ~aborted']_vars
  BY <1>1
<1> QED BY <1>2, Invariance, PTL DEF Spec, NoSendAfterAbort

\* A settled transfer reports nothing.
THEOREM ReportsAreTimely == Spec => ReportsWhilePending
<1>1. ASSUME IInv, Next, NEW t \in Transfers, report'.of = t PROVE ~Settled(t)
  <2>1. ASSUME NEW u \in Transfers, NEW amount, outcome[u] \in {"unstarted", "pending"},
               Reporting(u, amount)
        PROVE  ~Settled(t)
    BY <1>1, <2>1 DEF Reporting, Settled, Settlements
  <2>2. ASSUME report' = Silent PROVE FALSE
    BY <1>1, <2>2, NobodyIsNoTransfer DEF Silent
  <2>3. ASSUME NEW u \in Transfers, Send(u) \/ SendFails(u) PROVE ~Settled(t)
    BY <2>1, <2>3 DEF Send, SendFails
  <2>4. ASSUME NEW u \in Transfers, NEW reaction \in Reactions,
               Progress(u, reaction) \/ Load(u, reaction)
        PROVE  ~Settled(t)
    BY <1>1, <2>1, <2>4 DEF Progress, Load, IInv, Local
  <2> QED BY <1>1, <2>2, <2>3, <2>4 DEF Next, Abort, Refuse, Fail
<1>2. IInv /\ [Next]_vars => [\A t \in Transfers : report'.of = t => ~Settled(t)]_vars
  BY <1>1
<1> QED BY <1>2, Invariance, PTL DEF Spec, ReportsWhilePending
=============================================================================
