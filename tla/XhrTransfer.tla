---------------------------- MODULE XhrTransfer ------------------------------
(***************************************************************************)
(* transferWithXhr (src/upload/transports.ts): transfers by XMLHttpRequest *)
(* that share an abort signal.  A step is one run of JavaScript, from an   *)
(* event of the browser or a call of the application to the end of all     *)
(* handlers it sets off: an abort inside onProgress runs the abort         *)
(* handlers of every listening transfer before onProgress returns.         *)
(***************************************************************************)
EXTENDS Naturals

CONSTANT Transfers

ASSUME NobodyIsNoTransfer == "nobody" \notin Transfers

VARIABLES
  aborted,   \* the signal has been aborted
  xhr,       \* the request in the browser: unsent, sent, how it ended, or cancelled
  onSignal,  \* the transfers that listen to the signal
  onXhr,     \* the transfers that listen to their request
  outcome,   \* unstarted, pending, or what the promise was settled with
  report     \* the call of onProgress in the last step

vars == <<aborted, xhr, onSignal, onXhr, outcome, report>>

Endings == {"loaded", "failed", "stopped", "timedOut"}
Settlements == {"response", "failure", "abort", "timeout", "thrown"}
Silent == [of |-> "nobody", loaded |-> "nothing"]

Settled(t) == outcome[t] \in Settlements

\* What the application's onProgress does, if not just return.
Reactions == SUBSET {"throws", "aborts"}

Init ==
  /\ aborted \in BOOLEAN
  /\ xhr = [t \in Transfers |-> "unsent"]
  /\ onSignal = {}
  /\ onXhr = {}
  /\ outcome = [t \in Transfers |-> "unstarted"]
  /\ report = Silent

Reporting(t, amount) == report' = [of |-> t, loaded |-> amount]

\* cleanup, for each of the given transfers
Cleanup(ts) == onSignal' = onSignal \ ts /\ onXhr' = onXhr \ ts

\* Mutant: the promise is rejected, nothing else.
StopPromiseOnly(ts, how) ==
  /\ outcome' = [t \in Transfers |-> IF t \in ts THEN how ELSE outcome[t]]
  /\ UNCHANGED <<xhr, onSignal, onXhr>>

\* finish and stop: those of the given transfers that are not settled are settled so,
\* without listeners, and their requests cancelled.
Stop(ts, how) ==
  /\ outcome' = [t \in Transfers |-> IF t \in ts THEN how ELSE outcome[t]]
  /\ xhr' = [t \in Transfers |-> IF t \in ts /\ xhr[t] = "sent" THEN "cancelled" ELSE xhr[t]]
  /\ Cleanup(ts)

\* The listeners that an abort of the signal reaches, t among them if it listens too.
Listening(t) == {u \in onSignal \cup {t} : ~Settled(u)}

\* finish: the request has ended by itself.
Finish(t, how, ending) ==
  /\ outcome' = [outcome EXCEPT ![t] = how]
  /\ xhr' = [xhr EXCEPT ![t] = ending]
  /\ Cleanup({t})

-----------------------------------------------------------------------------
\* open or setRequestHeader throws, or the signal had been aborted.
Refuse(t) ==
  /\ outcome[t] = "unstarted"
  /\ \/ Stop({t}, "thrown")
     \/ aborted /\ Stop({t}, "abort")
  /\ report' = Silent
  /\ UNCHANGED aborted

\* Mutant: the listener on the signal is added after the initial report, and forgotten.
SendUnheard(t) ==
  /\ outcome[t] = "unstarted" /\ ~aborted
  /\ outcome' = [outcome EXCEPT ![t] = "pending"]
  /\ xhr' = [xhr EXCEPT ![t] = "sent"]
  /\ onXhr' = onXhr \cup {t}
  /\ Reporting(t, "none")
  /\ UNCHANGED <<aborted, onSignal>>

\* The initial report returns and the request is sent.
Send(t) ==
  /\ outcome[t] = "unstarted" /\ ~aborted
  /\ outcome' = [outcome EXCEPT ![t] = "pending"]
  /\ xhr' = [xhr EXCEPT ![t] = "sent"]
  /\ onSignal' = onSignal \cup {t}
  /\ onXhr' = onXhr \cup {t}
  /\ Reporting(t, "none")
  /\ UNCHANGED aborted

\* The initial report throws or aborts, or send throws.
SendFails(t) ==
  /\ outcome[t] = "unstarted" /\ ~aborted
  /\ Reporting(t, "none")
  /\ \/ Stop({t}, "thrown") /\ UNCHANGED aborted
     \/ Stop(Listening(t), "abort") /\ aborted' = TRUE

\* The browser reports progress of the upload.
Progress(t, reaction) ==
  /\ xhr[t] = "sent" /\ t \in onXhr
  /\ Reporting(t, "some")
  /\ \/ reaction = {} /\ UNCHANGED <<xhr, onSignal, onXhr, outcome>>
     \/ reaction = {"throws"} /\ Stop({t}, "thrown")
     \/ "aborts" \in reaction /\ Stop(Listening(t), "abort")
  /\ aborted' = (aborted \/ "aborts" \in reaction)

\* Mutant: the transfer still listens to the signal during the final report.
LoadAbortable(t, reaction) ==
  /\ xhr[t] = "sent" /\ t \in onXhr
  /\ Reporting(t, "all")
  /\ LET ended == IF "aborts" \in reaction THEN Listening(t) ELSE {}
     IN  /\ outcome' = [u \in Transfers |-> IF u \in ended THEN "abort"
                                            ELSE IF u = t THEN "response" ELSE outcome[u]]
         /\ xhr' = [u \in Transfers |-> IF u = t THEN "loaded"
                                        ELSE IF u \in ended THEN "cancelled" ELSE xhr[u]]
         /\ Cleanup(ended \cup {t})
  /\ aborted' = (aborted \/ "aborts" \in reaction)

\* The answer is there.  The transfer counts as settled before the final report, which
\* may still abort the others.
Load(t, reaction) ==
  /\ xhr[t] = "sent" /\ t \in onXhr
  /\ Reporting(t, "all")
  /\ LET others == IF "aborts" \in reaction THEN Listening(t) \ {t} ELSE {}
         how == IF "throws" \in reaction THEN "thrown" ELSE "response"
     IN  /\ outcome' = [u \in Transfers |-> IF u = t THEN how
                                            ELSE IF u \in others THEN "abort" ELSE outcome[u]]
         /\ xhr' = [u \in Transfers |-> IF u = t THEN "loaded"
                                        ELSE IF u \in others THEN "cancelled" ELSE xhr[u]]
         /\ Cleanup(others \cup {t})
  /\ aborted' = (aborted \/ "aborts" \in reaction)

\* The request ends in another event: load with the status 0, error, abort (by the
\* browser) or timeout.
Fail(t) ==
  /\ xhr[t] = "sent" /\ t \in onXhr
  /\ \/ Finish(t, "failure", "failed")
     \/ Finish(t, "abort", "stopped")
     \/ Finish(t, "timeout", "timedOut")
  /\ report' = Silent
  /\ UNCHANGED aborted

\* The application aborts the signal.
Abort ==
  /\ ~aborted
  /\ aborted' = TRUE
  /\ Stop({t \in onSignal : ~Settled(t)}, "abort")
  /\ report' = Silent

Next ==
  \/ Abort
  \/ \E t \in Transfers :
       \/ Refuse(t) \/ Send(t) \/ SendFails(t) \/ Fail(t)
       \/ \E reaction \in Reactions : Progress(t, reaction) \/ Load(t, reaction)

Spec == Init /\ [][Next]_vars

-----------------------------------------------------------------------------
\* A transfer listens to the signal and to its request, or to neither.
TypeOK ==
  /\ aborted \in BOOLEAN
  /\ xhr \in [Transfers -> {"unsent", "sent", "cancelled"} \cup Endings]
  /\ onSignal \subseteq Transfers
  /\ onXhr = onSignal
  /\ outcome \in [Transfers -> {"unstarted", "pending"} \cup Settlements]
  /\ report.of \in Transfers \cup {"nobody"}

\* A settled transfer has no request in the browser and no listener anywhere, in
\* whichever order the signal, the callbacks and the browser settled it (cleanup); and
\* when an abort has been handled, no transfer waits for the browser: an XMLHttpRequest
\* that emits no abort event strands nobody (transports.ts:103).
NobodyStranded ==
  \A t \in Transfers :
    /\ Settled(t) => xhr[t] # "sent" /\ t \notin onSignal \cup onXhr
    /\ aborted => outcome[t] # "pending"

\* An answer that has arrived is handed over, or the callback's error is: an abort from
\* within the final report does not take it away, and nothing else is called an answer.
AnswerKept ==
  \A t \in Transfers :
    /\ xhr[t] = "loaded" => outcome[t] \in {"response", "thrown"}
    /\ outcome[t] = "response" => xhr[t] = "loaded"

\* Nothing is sent once the signal is aborted, be it by the initial report itself.
NoSendAfterAbort ==
  [][\A t \in Transfers : xhr[t] = "unsent" /\ xhr'[t] = "sent" => ~aborted']_vars

\* A transfer reports progress only until it is settled: what SignedUpload assumes.
ReportsWhilePending == [][\A t \in Transfers : report'.of = t => ~Settled(t)]_vars
=============================================================================
