----------------------------- MODULE MCSafeCall -----------------------------
(***************************************************************************)
(* Instances of SafeCall for TLC: a retried read without authentication.   *)
(***************************************************************************)
EXTENDS SafeCall

RetriedRead ==
  {[wellFormed |-> TRUE, method |-> "GET", idempotency |-> "not_required",
    explicitKey |-> FALSE, keyFactory |-> "absent", auth |-> FALSE,
    maxAttempts |-> MaxAttempts]}
=============================================================================
