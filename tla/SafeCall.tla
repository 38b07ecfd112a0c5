------------------------------ MODULE SafeCall ------------------------------
(***************************************************************************)
(* createZdpSafeTypedFetchClient (src/typed-fetch/safe-call.ts): safeCall  *)
(* runs a typed fetch call through a capturing fetch of its own and        *)
(* returns response metadata next to the data or the declared API error.   *)
(* Composed with TypedFetch: each of its steps is also a step here.        *)
(***************************************************************************)
EXTENDS TypedFetch

VARIABLES
  finalResponse,  \* the fetch whose response the closure holds, as <<call, attempt>>
  report          \* what safeCall returned, and the response its metadata is from

safeVars == <<vars, finalResponse, report>>

Nothing == <<>>
Fetches == Calls \X Attempts
ReportKinds == {"none", "ok", "error", "threw"}

SafeTypeOK ==
  /\ finalResponse \in [Calls -> Fetches \cup {Nothing}]
  /\ report \in [Calls -> [kind : ReportKinds, from : Fetches \cup {Nothing}]]

SafeInit ==
  /\ Init
  /\ finalResponse = [c \in Calls |-> Nothing]
  /\ report = [c \in Calls |-> [kind |-> "none", from |-> Nothing]]

\* The fetches of c whose promise resolves with a response in this step.
ResolvedNow(c) ==
  {<<c, a>> : a \in {b \in Attempts : /\ exchange[c][b] = "pending"
                                      /\ exchange'[c][b] \in {"open", "released"}}}

\* Mutant: one closure for all calls.
CaptureShared ==
  LET all == UNION {ResolvedNow(c) : c \in Calls}
  IN  finalResponse' = [c \in Calls |-> IF all = {} THEN finalResponse[c]
                                        ELSE CHOOSE f \in all : TRUE]

\* capturingFetch stores every response, whoever still waits for it.
Capture ==
  finalResponse' =
    [c \in Calls |-> IF ResolvedNow(c) = {} THEN finalResponse[c]
                     ELSE CHOOSE f \in ResolvedNow(c) : TRUE]

\* What safeCall makes of a settled call: an API error is a result only if the
\* operation declares its code; other errors are rethrown as they are.
Reported(c, declared) ==
  LET kind == CASE result'[c] = "data" -> "ok"
                [] result'[c] = "api" -> IF declared THEN "error" ELSE "threw"
                [] OTHER -> "threw"
      missing == kind # "threw" /\ finalResponse[c] = Nothing
  IN  [kind |-> IF missing THEN "threw" ELSE kind,
       from |-> IF kind = "threw" THEN Nothing ELSE finalResponse[c]]

Return ==
  \E declared \in BOOLEAN :
    report' = [c \in Calls |-> IF phase[c] # "done" /\ phase'[c] = "done"
                               THEN Reported(c, declared) ELSE report[c]]

SafeNext == Next /\ Capture /\ Return

SafeSpec == SafeInit /\ [][SafeNext]_safeVars

-----------------------------------------------------------------------------
\* The metadata (and the status of a typed API error) that safeCall returns
\* belong to the response whose body it decoded: the one of the last attempt of
\* this call, not of an earlier attempt and not of another call.  Data never get lost
\* for want of a captured response (requireResponseMetadata).
MetadataOfAnswer ==
  \A c \in Calls :
    /\ report[c].kind \in {"ok", "error"} => report[c].from = <<c, attempt[c]>>
    /\ phase[c] = "done" /\ result[c] = "data" => report[c].kind = "ok"
=============================================================================
