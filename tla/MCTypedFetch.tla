---------------------------- MODULE MCTypedFetch ----------------------------
(***************************************************************************)
(* Instances of TypedFetch for TLC: which requests the calls may make.     *)
(***************************************************************************)
EXTENDS TypedFetch

\* A request in its usual shape; the sets below vary it.
Usual ==
  [wellFormed |-> TRUE, method |-> "GET", idempotency |-> "not_required",
   explicitKey |-> FALSE, keyFactory |-> "absent", auth |-> FALSE,
   maxAttempts |-> MaxAttempts]

\* Every combination of method, idempotency policy and key source.
AllRequests ==
  {r \in [wellFormed : BOOLEAN, method : {"GET", "POST"},
          idempotency : {"required_idempotency_key", "optional_idempotency_key",
                         "not_required"},
          explicitKey : BOOLEAN, keyFactory : {"absent", "value", "blank"},
          auth : BOOLEAN, maxAttempts : 1..MaxAttempts] :
     r.wellFormed \/ (r.method = "GET" /\ r.maxAttempts = 1)}

\* An authenticated read and a mutation with an idempotency key, both retried.
PairRequests ==
  {[Usual EXCEPT !.auth = TRUE],
   [Usual EXCEPT !.method = "POST", !.idempotency = "required_idempotency_key",
                 !.keyFactory = "value"]}
=============================================================================
