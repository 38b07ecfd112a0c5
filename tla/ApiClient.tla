------------------------------ MODULE ApiClient -------------------------------
(***************************************************************************)
(* One call of an operation through the generated client.  The facade      *)
(* (api-client.ts) checks the request of the caller against                *)
(* api-model-runtime.ts and splits it into path, query and body; the       *)
(* generated operation (generated-operations.ts) checks what the facade    *)
(* encoded against api-operations.ts; the runtime (client.ts) writes it    *)
(* into a URL and a body.  Both also look at the answer.  A step that      *)
(* throws is a predicate here.                                             *)
(*                                                                         *)
(* A request is a function from the fields that the caller gives to        *)
(* values, an answer a set: empty, or with the fields of the one object    *)
(* that was answered.                                                      *)
(***************************************************************************)
EXTENDS GenerationPlan, Naturals, Sequences

Nothing == [f \in {} |-> "text"]
Part(request, fields) == [f \in fields \cap DOMAIN request |-> request[f]]

\* Kinds of values that the checks tell apart: a text, one with no characters, one that
\* is a dot segment of a URL; lists of texts and empty ones.
Texts == {"text", "empty", "dot"}
Values == Texts \cup {"null", "items", "none", "object"}

OfType == [text |-> Texts, nullable |-> Texts \cup {"null"}, list |-> {"items", "none"},
           object |-> {"object"}]

-----------------------------------------------------------------------------
\* A method of one operation would be where that of another is, or where a namespace of
\* the other is.
Shadows(op, other) ==
  \/ op.names = other.names
  \/ Len(op.names) < Len(other.names) /\ SubSeq(other.names, 1, Len(op.names)) = op.names

\* createZdpClient: installOperationMethod, for each operation.
Installs(ops) == \A op, other \in ops : op # other => ~Shadows(op, other)

\* The operation that a caller finds under its names, if any: createZdpClient assigns
\* members of its own over the namespaces.
Found(ops, names) == {op \in ops : op.names = names /\ Head(names) \notin {"raw", "call", "safeCall"}}

\* createOperationDefinition, for each operation.
Defines(ops, models) ==
  \A op \in ops :
    /\ op.supported
    /\ \E s \in models : Ref(s) = op.request /\ s.kind = "request"
    /\ \A r \in op.response : \E s \in models : Ref(s) = r /\ s.kind = "response"

-----------------------------------------------------------------------------
\* Mutant: a field that is not there does not fit.
FieldsAllThere(descriptor, given) ==
  \A f \in DOMAIN descriptor.types :
    f \in DOMAIN given /\ given[f] \in OfType[descriptor.types[f]]

\* validateSchemaFields: required fields are there, and those that are there fit.
FieldsOk(descriptor, given) ==
  /\ descriptor.required \subseteq DOMAIN given
  /\ \A f \in DOMAIN given \cap DOMAIN descriptor.types : given[f] \in OfType[descriptor.types[f]]

\* prepareCall: an operation without fields and parameters takes no request.
Given(schema, op, request) ==
  IF schema.required \cup schema.optional \cup op.params = {} THEN Nothing ELSE request

\* validateRequestPayload: parameters of the path are fields, too.
RequestOk(descriptor, op, given) ==
  /\ DOMAIN given \subseteq DOMAIN descriptor.types \cup op.params
  /\ op.params \subseteq DOMAIN given
  /\ FieldsOk(descriptor, given)

\* encodeDomainRequest throws for a parameter that is no text or an empty one, and
\* encodeQuery for what is no query value.
Encodable(op, given) ==
  /\ \A f \in op.params : given[f] \in Texts \ {"empty"}
  /\ op.method = "GET" => \A f \in DOMAIN given \ op.params : given[f] # "object"

\* encodeDomainRequest: a GET has a query and no body, a POST always a body.
Encoded(op, given) ==
  LET payload == Part(given, DOMAIN given \ op.params)
      get == op.method = "GET"
  IN  [path |-> Part(given, op.params),
       query |-> IF get THEN payload ELSE Nothing,
       body |-> IF get \/ (op.method # "POST" /\ payload = Nothing) THEN {} ELSE {payload}]

InUrl(encoded) == DOMAIN encoded.path \cup DOMAIN encoded.query
InBody(encoded) == UNION {DOMAIN b : b \in encoded.body}

\* Mutant: a secret in the path goes unnoticed.
PathUnchecked(schema, encoded) ==
  /\ schema.required \subseteq InUrl(encoded) \cup InBody(encoded)
  /\ schema.secret \cap DOMAIN encoded.query = {}

\* encodeGeneratedOperationRequest: required fields are somewhere, secrets not in the URL.
EncodedOk(schema, encoded) ==
  /\ schema.required \subseteq InUrl(encoded) \cup InBody(encoded)
  /\ schema.secret \cap InUrl(encoded) = {}

\* buildUrl: each parameter has a value, and no segment of the path is a dot segment.
Routable(op, encoded) ==
  op.params \subseteq DOMAIN encoded.path /\ \A f \in op.params : encoded.path[f] # "dot"

\* appendQueryValue: null and an empty list leave no trace in the URL.
Traced(query) == Part(query, {f \in DOMAIN query : query[f] \notin {"null", "none"}})
Placed(encoded) == [path |-> encoded.path, query |-> Traced(encoded.query), body |-> encoded.body]

\* The request that a call sends, if no step throws.
Sends(files, op, request) ==
  LET accepted ==
        {s \in files.operations.models :
           /\ Ref(s) = op.request
           /\ LET given == Given(s, op, request)
              IN  /\ RequestOk(files.runtime[op.request], op, given)
                  /\ Encodable(op, given)
                  /\ EncodedOk(s, Encoded(op, given))
                  /\ Routable(op, Encoded(op, given))}
  IN  {Placed(Encoded(op, Given(s, op, request))) : s \in accepted}

-----------------------------------------------------------------------------
\* decodeGeneratedOperationResponse: no body where none is declared, or an object with
\* the required fields.
AnswerOk(op, models, answer) ==
  IF op.response = {}
  THEN answer = {}
  ELSE /\ answer # {}
       /\ \A a \in answer : \A s \in models :
            Ref(s) \in op.response => s.required \subseteq DOMAIN a

\* The call returns the answer: decodeDomainResponse has nothing against it, either.
Returns(files, op, answer) ==
  /\ AnswerOk(op, files.operations.models, answer)
  /\ \A r \in op.response : \A a \in answer : FieldsOk(files.runtime[r], a)
=============================================================================
