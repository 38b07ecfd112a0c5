----------------------------- MODULE SurfaceDiff -----------------------------
(***************************************************************************)
(* diffGeneratedPublicSurface (scripts/sdk-semver): what changed between   *)
(* the generated public surfaces of two releases, and whether the change   *)
(* breaks consumers.                                                       *)
(*                                                                         *)
(* A surface has operations, schemas and runtime types, each a function    *)
(* from names.  A field type is a sequence of wrappers around a base: a    *)
(* named wire type, or "enum" with its values.  Lists that the comparison  *)
(* only searches are sets.                                                 *)
(***************************************************************************)
EXTENDS Naturals, Sequences, FiniteSets

Breaking == "breaking"
Additive == "additive"

Change(level, code, target) == [level |-> level, code |-> code, target |-> target]

\* The change, where there is one.
When(condition, change) == IF condition THEN {change} ELSE {}

\* A stronger demand breaks callers, a weaker one does not.
Demand(stronger) == IF stronger THEN Breaking ELSE Additive

\* compareStringSet, compareNumberSet
SetChanges(code, target, old, new, removed, added) ==
  {Change(removed, code, <<"removed", target, v>>) : v \in old \ new}
    \cup {Change(added, code, <<"added", target, v>>) : v \in new \ old}

-----------------------------------------------------------------------------
(* Operations *)

Strictness ==
  [not_required |-> 0, optional_idempotency_key |-> 1, required_idempotency_key |-> 2]

\* Mutant: one more step of strictness is let through.
IdempotencyOffByOne(id, old, new) ==
  When(old.idempotency # new.idempotency,
       Change(Demand(Strictness[new.idempotency] > Strictness[old.idempotency] + 1),
              "operation.idempotency", id))

IdempotencyChange(id, old, new) ==
  When(old.idempotency # new.idempotency,
       Change(Demand(Strictness[new.idempotency] > Strictness[old.idempotency]),
              "operation.idempotency", id))

\* Mutant: how the body of a response is read is not compared.
IdentityWithoutBodyMode == {"method", "path", "requestSchemaRef", "responseSchemaRef"}

\* The fields whose every change is breaking, and the three requirement flags.
Identity == {"method", "path", "requestSchemaRef", "responseSchemaRef", "responseBodyMode"}
Flags == {"authRequired", "requestIdRequired", "traceIdRequired"}

\* compareOperation
OperationChanges(id, old, new) ==
  {Change(Breaking, f, id) : f \in {g \in Identity : old[g] # new[g]}}
    \cup {Change(Demand(new[f]), f, id) : f \in {g \in Flags : old[g] # new[g]}}
    \cup IdempotencyChange(id, old, new)
    \cup SetChanges("success-status", id, old.successStatuses, new.successStatuses,
                    Breaking, Additive)
    \cup SetChanges("error-code", id, old.errorCodes, new.errorCodes, Additive, Breaking)

\* compareOperations
OperationsChanges(old, new) ==
  {Change(Breaking, "operation.removed", id) : id \in DOMAIN old \ DOMAIN new}
    \cup {Change(Additive, "operation.added", id) : id \in DOMAIN new \ DOMAIN old}
    \cup UNION {OperationChanges(id, old[id], new[id]) : id \in DOMAIN old \cap DOMAIN new}

-----------------------------------------------------------------------------
(* Schemas *)

Fields(schema) == schema.requiredFields \cup schema.optionalFields

Presence(schema, field) ==
  IF field \in schema.requiredFields THEN "required"
  ELSE IF field \in schema.optionalFields THEN "optional" ELSE "absent"

\* Mutant: what a field was is not looked at.
PresenceBreaksByNow(kind, was, is) == IF kind = "request" THEN is = "required" ELSE is = "absent"

\* compareFieldPresence, for a field whose presence changed
PresenceBreaks(kind, was, is) ==
  IF kind = "request"
  THEN is = "required" \/ (was # "absent" /\ is = "absent")
  ELSE is = "absent" \/ (was = "required" /\ is = "optional")

\* compareFieldType: wrappers that both have are stripped, and only enums whose
\* wrappers agree are compared value by value.
TypeChanges(kind, target, was, is) ==
  IF was = is THEN {}
  ELSE IF was.wrappers = is.wrappers /\ was.base = "enum" /\ is.base = "enum"
  THEN SetChanges("enum-values", target, was.values, is.values,
                  IF kind = "request" THEN Breaking ELSE Additive,
                  IF kind = "response" THEN Breaking ELSE Additive)
  ELSE {Change(Breaking, "field-type.changed", target)}

\* One field of a schema that both surfaces have; types are looked at where both
\* surfaces declare the field and describe the schema.
FieldChanges(ref, field, old, new, typed, oldTypes, newTypes) ==
  LET target == <<ref, field>>
      was == Presence(old, field)
      is == Presence(new, field)
      described == typed /\ was # "absent" /\ is # "absent"
  IN  When(was # is, Change(Demand(PresenceBreaks(old.kind, was, is)), "field", target))
      \cup (IF ~described THEN {}
            ELSE IF field \notin DOMAIN oldTypes
            THEN When(field \in DOMAIN newTypes,
                      Change(Additive, "field-type.added", target))
            ELSE IF field \notin DOMAIN newTypes
            THEN {Change(Breaking, "field-type.removed", target)}
            ELSE TypeChanges(old.kind, target, oldTypes[field], newTypes[field]))

\* compareSchema
SchemaChanges(ref, old, new, compareTypes, oldRuntime, newRuntime) ==
  LET was == old.schemas[ref]
      is == new.schemas[ref]
      described == compareTypes /\ ref \in DOMAIN oldRuntime
      typed == described /\ ref \in DOMAIN newRuntime
  IN  IF was.kind # is.kind THEN {Change(Breaking, "kind", ref)}
      ELSE When(was.schemaId # is.schemaId, Change(Breaking, "id", ref))
           \cup When(was.carriesSecretMaterial # is.carriesSecretMaterial,
                     Change(Demand(is.carriesSecretMaterial), "secret-material", ref))
           \cup When(described /\ ~typed, Change(Breaking, "runtime-descriptor.removed", ref))
           \cup (UNION {FieldChanges(ref, f, was, is, typed,
                                     IF typed THEN oldRuntime[ref] ELSE <<>>,
                                     IF typed THEN newRuntime[ref] ELSE <<>>) :
                          f \in Fields(was) \cup Fields(is)})
           \cup SetChanges("secret-field", ref, was.secretFields, is.secretFields,
                           Additive, Breaking)

\* collectReferencedSchemaRefs; "none" stands for a null response schema
Referenced(surface) ==
  UNION {{op.requestSchemaRef, op.responseSchemaRef} \ {"none"} :
           op \in {surface.operations[id] : id \in DOMAIN surface.operations}}

\* compareSchemas.  A reference that neither surface defines is an error of the
\* generator and makes the comparison fail; surfaces here have none.
SchemasChanges(old, new) ==
  LET refs == Referenced(old) \cup Referenced(new)
      before == DOMAIN old.schemas
      now == DOMAIN new.schemas
      compareTypes == DOMAIN old.runtimeSchemas # {}
  IN  {Change(Additive, "schema.added", r) : r \in (refs \cap now) \ before}
        \cup {Change(Breaking, "schema.removed", r) : r \in (refs \cap before) \ now}
        \cup UNION {SchemaChanges(r, old, new, compareTypes, old.runtimeSchemas,
                                  new.runtimeSchemas) : r \in refs \cap before \cap now}

\* diffGeneratedPublicSurface and finalizeChanges
Changes(old, new) ==
  OperationsChanges(old.operations, new.operations) \cup SchemasChanges(old, new)

Classification(old, new) ==
  LET levels == {c.level : c \in Changes(old, new)}
  IN  IF Breaking \in levels THEN Breaking
      ELSE IF levels # {} THEN Additive ELSE "none"

-----------------------------------------------------------------------------
(* The surfaces that extractGeneratedPublicSurface makes of generated sources *)

\* A record with the given fields, or a map.
HasFields(record, fields) == record = [f \in fields |-> record[f]]
IsMap(map) == HasFields(map, DOMAIN map)

\* readSchemaModel: a schema that an operation names is there and of the right kind.
HasSchema(schemas, ref, kind) == ref \in DOMAIN schemas /\ schemas[ref].kind = kind

\* parseOperationMap, for what createOperationDefinition accepts
IsOperation(op, schemas) ==
  /\ HasFields(op, {"method", "path", "successStatuses", "requestSchemaRef", "responseSchemaRef",
                    "responseBodyMode", "authRequired", "idempotency", "requestIdRequired",
                    "traceIdRequired", "errorCodes"})
  /\ op.requestSchemaRef # "none" /\ HasSchema(schemas, op.requestSchemaRef, "request")
  /\ op.responseSchemaRef = "none" \/ HasSchema(schemas, op.responseSchemaRef, "response")
  /\ op.responseBodyMode \in {"schema", "none"}
  /\ \A f \in Flags : op[f] \in BOOLEAN
  /\ op.idempotency \in DOMAIN Strictness

\* parseSchemaMap
IsSchema(schema) ==
  /\ HasFields(schema, {"kind", "schemaId", "carriesSecretMaterial", "requiredFields",
                        "optionalFields", "secretFields"})
  /\ schema.kind \in {"request", "response"}
  /\ schema.carriesSecretMaterial \in BOOLEAN
  /\ schema.requiredFields \cap schema.optionalFields = {}

\* parseRuntimeFieldType
IsType(type) ==
  /\ HasFields(type, {"wrappers", "base", "values"})
  /\ type.wrappers \in Seq({"nullable", "array"})
  /\ type.base # "enum" => type.values = {}

\* parseRuntimeSchemaMap, for the descriptors that renderRuntimeSource writes
DescribesFields(types, schema) ==
  /\ IsMap(types) /\ DOMAIN types \subseteq Fields(schema)
  /\ \A f \in DOMAIN types : IsType(types[f])

WellFormed(surface) ==
  /\ HasFields(surface, {"operations", "schemas", "runtimeSchemas"})
  /\ IsMap(surface.operations) /\ IsMap(surface.schemas) /\ IsMap(surface.runtimeSchemas)
  /\ \A id \in DOMAIN surface.operations :
       IsOperation(surface.operations[id], surface.schemas)
  /\ \A ref \in DOMAIN surface.schemas : IsSchema(surface.schemas[ref])
  /\ \A ref \in DOMAIN surface.runtimeSchemas :
       /\ ref \in DOMAIN surface.schemas
       /\ DescribesFields(surface.runtimeSchemas[ref], surface.schemas[ref])

-----------------------------------------------------------------------------
(* What a surface means to a consumer, independently of the comparison *)

\* The values a base may take on the wire.  Distinct wire types share none.
BaseValues(type) ==
  IF type.base = "enum" THEN {<<"literal", v>> : v \in type.values} ELSE {<<type.base, 1>>}

\* How many of the first n wrappers are lists.
Lists(wrappers, n) == Cardinality({i \in 1..n : wrappers[i] = "array"})

\* Null or an empty list where a wrapper admits them, told apart by the lists around.
Blanks(wrappers) ==
  {<<Lists(wrappers, i - 1), IF wrappers[i] = "array" THEN <<"empty">> ELSE <<"null">>>> :
     i \in 1..Len(wrappers)}

\* The values of a field type, with lists of at most one element.
FieldValues(type) ==
  Blanks(type.wrappers)
    \cup {<<Lists(type.wrappers, Len(type.wrappers)), v>> : v \in BaseValues(type)}

Missing == <<"missing">>

Described(surface, ref, field) ==
  ref \in DOMAIN surface.runtimeSchemas /\ field \in DOMAIN surface.runtimeSchemas[ref]

\* What a field may hold in a message; its values are told apart only where both
\* surfaces describe them.
Contents(ref, field, surface, other) ==
  LET described == Described(surface, ref, field) /\ Described(other, ref, field)
      values == IF described THEN FieldValues(surface.runtimeSchemas[ref][field])
                ELSE {<<"undescribed">>}
      presence == Presence(surface.schemas[ref], field)
  IN  (IF presence = "absent" THEN {} ELSE values)
        \cup (IF presence = "required" THEN {} ELSE {Missing})

\* Every message of the one schema is a message of the other, as far as the
\* given fields are concerned.
Within(ref, narrow, wide, fields) ==
  \A f \in fields : Contents(ref, f, narrow, wide) \subseteq Contents(ref, f, wide, narrow)

\* A consumer written for an operation of the old surface can still make the call:
\* nothing more is demanded of it, every request it sends is accepted, and every
\* answer is one that it handles, unknown fields aside.
CallSurvives(id, old, new) ==
  LET was == old.operations[id]
      is == new.operations[id]
      request == was.requestSchemaRef
      response == was.responseSchemaRef
  IN  /\ \A f \in Identity : was[f] = is[f]
      /\ \A f \in Flags : is[f] => was[f]
      /\ is.idempotency = "required_idempotency_key" => was.idempotency = is.idempotency
      /\ was.idempotency = "not_required" => is.idempotency = "not_required"
      /\ was.successStatuses \subseteq is.successStatuses
      /\ is.errorCodes \subseteq was.errorCodes
      /\ Within(request, old, new,
                Fields(old.schemas[request]) \cup Fields(new.schemas[request]))
      /\ response # "none" => Within(response, new, old, Fields(old.schemas[response]))

ConsumerSurvives(old, new) ==
  \A id \in DOMAIN old.operations :
    id \in DOMAIN new.operations /\ CallSurvives(id, old, new)

\* Operations, the schemas they use and the types of those schemas are the same.
SameInUse(old, new) ==
  /\ new.operations = old.operations
  /\ \A ref \in Referenced(old) :
       /\ new.schemas[ref] = old.schemas[ref]
       /\ ref \in DOMAIN old.runtimeSchemas =>
            /\ ref \in DOMAIN new.runtimeSchemas
            /\ new.runtimeSchemas[ref] = old.runtimeSchemas[ref]
=============================================================================
