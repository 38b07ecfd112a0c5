----------------------------- MODULE MCSurfaces ------------------------------
(***************************************************************************)
(* A small public surface for TLC, and the pieces to vary it.              *)
(***************************************************************************)
EXTENDS SurfaceDiff, TLC

Wire(name) == [wrappers |-> <<>>, base |-> name, values |-> {}]
Enum(values) == [wrappers |-> <<>>, base |-> "enum", values |-> values]
Wrapped(wrapper, type) == [type EXCEPT !.wrappers = <<wrapper>> \o @]

Operation ==
  [method |-> "POST", path |-> "items", requestSchemaRef |-> "req",
   responseSchemaRef |-> "res", responseBodyMode |-> "schema",
   authRequired |-> TRUE, requestIdRequired |-> TRUE, traceIdRequired |-> TRUE,
   idempotency |-> "optional_idempotency_key",
   successStatuses |-> {201}, errorCodes |-> {"invalid"}]

Schema(kind) ==
  [kind |-> kind, schemaId |-> kind, carriesSecretMaterial |-> FALSE,
   requiredFields |-> {"a"}, optionalFields |-> {}, secretFields |-> {}]

Plain ==
  [operations |-> [create |-> Operation],
   schemas |-> [req |-> Schema("request"), res |-> Schema("response")],
   runtimeSchemas |-> [req |-> [a |-> Wire("string")], res |-> [a |-> Wire("string")]]]
=============================================================================
