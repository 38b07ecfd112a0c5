--------------------------- MODULE MCSurfaceChain ----------------------------
(***************************************************************************)
(* Families of surfaces for TLC: one part of a surface varies, everything  *)
(* else is as in Plain.                                                    *)
(***************************************************************************)
EXTENDS SurfaceChain, MCSurfaces

\* What one operation demands and answers, and a second operation.
Operations ==
  {[Operation EXCEPT !.authRequired = auth, !.idempotency = policy,
                     !.successStatuses = statuses, !.errorCodes = codes] :
     auth \in BOOLEAN, policy \in DOMAIN Strictness,
     statuses \in {{201}, {200, 201}}, codes \in SUBSET {"invalid", "conflict"}}

OperationFamily ==
  {[Plain EXCEPT !.operations.create = op] : op \in Operations}
    \cup {[Plain EXCEPT !.operations.create[f] = "other"] : f \in {"method", "path"}}
    \cup {[Plain EXCEPT !.operations.create.responseBodyMode = "none"]}
    \cup {[Plain EXCEPT !.operations = [create |-> Operation, list |-> op]] :
            op \in {Operation, [Operation EXCEPT !.responseSchemaRef = "none",
                                                 !.responseBodyMode = "none"]}}

Types ==
  LET bases == {Wire("string"), Wire("integer"), Enum({"x"}), Enum({"y"}), Enum({"x", "y"})}
  IN  bases \cup {Wrapped(w, b) : w \in {"nullable", "array"},
                                  b \in {Wire("string"), Enum({"x"}), Enum({"x", "y"})}}
            \cup {Wrapped("nullable", Wrapped("array", b)) : b \in {Enum({"x"}), Enum({"x", "y"})}}

\* Two fields of one schema, each with its presence and type.
SchemaFamily(ref) ==
  LET shape(req, opt, types) ==
        [Plain EXCEPT !.schemas[ref].requiredFields = req,
                      !.schemas[ref].optionalFields = opt,
                      !.runtimeSchemas[ref] = types]
      presences == {p \in (SUBSET {"a", "b"}) \X (SUBSET {"a", "b"}) : p[1] \cap p[2] = {}}
  IN  {shape(p[1], p[2], [f \in p[1] \cup p[2] |-> IF f = "a" THEN t ELSE Wire("string")]) :
         p \in presences, t \in Types}

\* Schema attributes that are no part of a message.
AttributeFamily ==
  {[Plain EXCEPT !.schemas.res.secretFields = secrets,
                 !.schemas.res.carriesSecretMaterial = secret,
                 !.schemas.req.schemaId = id] :
     secrets \in SUBSET {"a"}, secret \in BOOLEAN, id \in {"request", "renamed"}}

\* Surfaces from before there were runtime descriptors, or that describe some of
\* their schemas or fields.
DescriptorFamily ==
  LET types(fields) == {[f \in described |-> t] : described \in SUBSET fields,
                                                 t \in {Wire("string"), Wire("integer")}}
      answers(optional) == {<<>>} \cup {[res |-> t] : t \in types({"a"} \cup optional)}
      requests == {<<>>} \cup {[req |-> t] : t \in types({"a"})}
  IN  UNION {{[Plain EXCEPT !.schemas.res.optionalFields = optional,
                            !.runtimeSchemas = r @@ q] :
                r \in answers(optional), q \in requests} : optional \in SUBSET {"b"}}

\* A schema that operations do not use yet, as the lock file's schemas that have no
\* generated operation, and an operation that does use it.
UnreferencedFamily ==
  LET schemas(kept) ==
        [Plain EXCEPT !.schemas = @ @@ [spare |-> [Schema("response") EXCEPT !.requiredFields = kept]],
                      !.runtimeSchemas = @ @@ [spare |-> [f \in kept |-> Wire("string")]]]
      list == [Operation EXCEPT !.path = "list", !.responseSchemaRef = "spare"]
      unused == {schemas(kept) : kept \in SUBSET {"a", "b"}}
  IN  {Plain} \cup unused \cup {[s EXCEPT !.operations = @ @@ [list |-> list]] : s \in unused}

AllFamilies ==
  {OperationFamily, SchemaFamily("req"), SchemaFamily("res"), AttributeFamily,
   DescriptorFamily, UnreferencedFamily}
=============================================================================
