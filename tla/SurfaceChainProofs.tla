-------------------------- MODULE SurfaceChainProofs --------------------------
(***************************************************************************)
(* What the verdicts of SurfaceDiff mean, for all surfaces that the parser *)
(* accepts: that no change breaks is the same as that every operation, and *)
(* every schema in use, follows its predecessor (Follows).  To follow is   *)
(* transitive and keeps consumers working, although the comparison itself  *)
(* is not transitive.  The theorems about SurfaceChain come from that.     *)
(***************************************************************************)
EXTENDS SurfaceChain, TLAPS

Harmless(changes) == \A c \in changes : c.level # Breaking

-----------------------------------------------------------------------------
(* What it means that no change breaks, from sets to surfaces *)

\* An operation demands no more and answers no errors that were not known.
OperationFollows(was, is) ==
  /\ \A f \in Identity : was[f] = is[f]
  /\ \A f \in Flags : is[f] => was[f]
  /\ Strictness[is.idempotency] <= Strictness[was.idempotency]
  /\ was.successStatuses \subseteq is.successStatuses
  /\ is.errorCodes \subseteq was.errorCodes

PresenceFollows(kind, was, is) == was = is \/ ~PresenceBreaks(kind, was, is)

TypeFollows(kind, was, is) ==
  \/ was = is
  \/ /\ was.wrappers = is.wrappers /\ was.base = "enum" /\ is.base = "enum"
     /\ kind = "request" => was.values \subseteq is.values
     /\ kind = "response" => is.values \subseteq was.values

\* A field that was described still is, with a type that follows.
FieldFollows(ref, f, old, new) ==
  LET kind == old.schemas[ref].kind
      was == Presence(old.schemas[ref], f)
      is == Presence(new.schemas[ref], f)
  IN  /\ PresenceFollows(kind, was, is)
      /\ Described(old, ref, f) /\ was # "absent" /\ is # "absent" =>
           /\ Described(new, ref, f)
           /\ TypeFollows(kind, old.runtimeSchemas[ref][f], new.runtimeSchemas[ref][f])

SchemaFollows(ref, old, new) ==
  LET was == old.schemas[ref]
      is == new.schemas[ref]
  IN  /\ was.kind = is.kind /\ was.schemaId = is.schemaId
      /\ is.carriesSecretMaterial => was.carriesSecretMaterial
      /\ ref \in DOMAIN old.runtimeSchemas => ref \in DOMAIN new.runtimeSchemas
      /\ \A f : FieldFollows(ref, f, old, new)
      /\ is.secretFields \subseteq was.secretFields

Follows(old, new) ==
  /\ \A id \in DOMAIN old.operations :
       /\ id \in DOMAIN new.operations
       /\ OperationFollows(old.operations[id], new.operations[id])
  /\ \A ref \in Referenced(old) : ref \in DOMAIN new.schemas /\ SchemaFollows(ref, old, new)

-----------------------------------------------------------------------------
(* The comparisons, each with the relation it decides *)

\* The verdict is that of the worst change, and "none" says that there is none.
LEMMA VerdictOf ==
  ASSUME NEW old, NEW new
  PROVE  /\ Classification(old, new) # Breaking <=> Harmless(Changes(old, new))
         /\ Classification(old, new) = "none" => Changes(old, new) = {}
         /\ Classification(old, new) \in {"none", Additive, Breaking}
<1> DEFINE levels == {c.level : c \in Changes(old, new)}
<1>1. Classification(old, new) = IF Breaking \in levels THEN Breaking
                                 ELSE IF levels # {} THEN Additive ELSE "none"
  BY DEF Classification
<1>2. Breaking # Additive /\ Breaking # "none" /\ Additive # "none"
  BY DEF Breaking, Additive
<1>3. Breaking \in levels <=> ~Harmless(Changes(old, new))
  BY DEF Harmless
<1>4. levels = {} => Changes(old, new) = {}
  OBVIOUS
<1> HIDE DEF levels
<1> QED BY <1>1, <1>2, <1>3, <1>4

LEMMA LevelOf ==
  ASSUME NEW level, NEW code, NEW target
  PROVE  Change(level, code, target).level = level
BY DEF Change

\* A set of breaking and additive differences.
LEMMA SetVerdict ==
  ASSUME NEW code, NEW target, NEW old, NEW new, NEW removed, NEW added
  PROVE  /\ Harmless(SetChanges(code, target, old, new, removed, added))
              <=> /\ removed = Breaking => old \subseteq new
                  /\ added = Breaking => new \subseteq old
         /\ SetChanges(code, target, old, new, removed, added) = {} => old = new
<1> DEFINE S == SetChanges(code, target, old, new, removed, added)
<1>1. \A c : c \in S
               <=> \/ \E v \in old \ new : c = Change(removed, code, <<"removed", target, v>>)
                   \/ \E v \in new \ old : c = Change(added, code, <<"added", target, v>>)
  BY DEF SetChanges
<1> HIDE DEF S
<1>2. \A v \in old \ new : \E c \in S : c.level = removed
  <2>1. \A v \in old \ new : Change(removed, code, <<"removed", target, v>>) \in S
    BY <1>1
  <2> QED BY <2>1, LevelOf
<1>3. \A v \in new \ old : \E c \in S : c.level = added
  <2>1. \A v \in new \ old : Change(added, code, <<"added", target, v>>) \in S
    BY <1>1
  <2> QED BY <2>1, LevelOf
<1>4. \A c \in S : \/ c.level = removed /\ ~(old \subseteq new)
                   \/ c.level = added /\ ~(new \subseteq old)
  <2> SUFFICES ASSUME NEW c \in S
               PROVE  \/ c.level = removed /\ ~(old \subseteq new)
                      \/ c.level = added /\ ~(new \subseteq old)
    OBVIOUS
  <2>1. CASE \E v \in old \ new : c = Change(removed, code, <<"removed", target, v>>)
    BY <2>1, LevelOf
  <2>2. CASE \E v \in new \ old : c = Change(added, code, <<"added", target, v>>)
    BY <2>2, LevelOf
  <2> QED BY <1>1, <2>1, <2>2
<1>5. Harmless(S) <=> /\ removed = Breaking => old \subseteq new
                      /\ added = Breaking => new \subseteq old
  BY <1>2, <1>3, <1>4 DEF Harmless
<1>6. S = {} => old = new
  <2> SUFFICES ASSUME S = {} PROVE \A v : v \in old <=> v \in new
    OBVIOUS
  <2> QED BY <1>2, <1>3
<1> QED BY <1>5, <1>6 DEF S

LEMMA WhenVerdict ==
  ASSUME NEW condition \in BOOLEAN, NEW level, NEW code, NEW target
  PROVE  /\ Harmless(When(condition, Change(level, code, target)))
              <=> (condition => level # Breaking)
         /\ When(condition, Change(level, code, target)) = {} => ~condition
BY LevelOf DEF When, Harmless

LEMMA DemandVerdict ==
  ASSUME NEW stronger
  PROVE  Demand(stronger) # Breaking <=> ~stronger
BY DEF Demand, Breaking, Additive

\* compareOperation
LEMMA OperationVerdict ==
  ASSUME NEW id, NEW was, NEW is,
         was.idempotency \in DOMAIN Strictness, is.idempotency \in DOMAIN Strictness,
         \A f \in Flags : was[f] \in BOOLEAN /\ is[f] \in BOOLEAN
  PROVE  /\ Harmless(OperationChanges(id, was, is)) <=> OperationFollows(was, is)
         /\ OperationChanges(id, was, is) = {} =>
              /\ \A f \in Identity \cup Flags : was[f] = is[f]
              /\ was.idempotency = is.idempotency
              /\ was.successStatuses = is.successStatuses
              /\ was.errorCodes = is.errorCodes
<1> DEFINE identity == {Change(Breaking, f, id) : f \in {g \in Identity : was[g] # is[g]}}
           flags == {Change(Demand(is[f]), f, id) : f \in {g \in Flags : was[g] # is[g]}}
           statuses == SetChanges("success-status", id, was.successStatuses,
                                  is.successStatuses, Breaking, Additive)
           codes == SetChanges("error-code", id, was.errorCodes, is.errorCodes,
                               Additive, Breaking)
<1>1. OperationChanges(id, was, is)
        = identity \cup flags \cup IdempotencyChange(id, was, is) \cup statuses \cup codes
  BY DEF OperationChanges
<1>2. /\ Harmless(identity) <=> \A f \in Identity : was[f] = is[f]
      /\ identity = {} => \A f \in Identity : was[f] = is[f]
  BY LevelOf DEF Harmless
<1>3. /\ Harmless(flags) <=> \A f \in Flags : is[f] => was[f]
      /\ flags = {} => \A f \in Flags : was[f] = is[f]
  <2>1. \A c : c \in flags <=> \E f \in Flags : was[f] # is[f] /\ c = Change(Demand(is[f]), f, id)
    OBVIOUS
  <2>2. Harmless(flags) <=> \A f \in Flags : was[f] # is[f] => ~is[f]
    BY <2>1, LevelOf, DemandVerdict DEF Harmless
  <2>3. \A f \in Flags : (was[f] # is[f] => ~is[f]) <=> (is[f] => was[f])
    OBVIOUS
  <2>4. flags = {} => \A f \in Flags : was[f] = is[f]
    BY <2>1
  <2> HIDE DEF flags
  <2> QED BY <2>2, <2>3, <2>4
<1>4. /\ Harmless(IdempotencyChange(id, was, is))
           <=> Strictness[is.idempotency] <= Strictness[was.idempotency]
      /\ IdempotencyChange(id, was, is) = {} => was.idempotency = is.idempotency
  <2>1. Strictness[is.idempotency] \in 0..2 /\ Strictness[was.idempotency] \in 0..2
    BY DEF Strictness
  <2> DEFINE differ == was.idempotency # is.idempotency
             stricter == Strictness[is.idempotency] > Strictness[was.idempotency]
  <2>2. /\ Harmless(IdempotencyChange(id, was, is)) <=> (differ => Demand(stricter) # Breaking)
        /\ IdempotencyChange(id, was, is) = {} => ~differ
    BY WhenVerdict DEF IdempotencyChange
  <2>3. Demand(stricter) # Breaking <=> ~stricter
    BY DemandVerdict
  <2>4. stricter => differ
    BY <2>1
  <2> QED BY <2>1, <2>2, <2>3, <2>4
<1>5. /\ Harmless(statuses) <=> was.successStatuses \subseteq is.successStatuses
      /\ statuses = {} => was.successStatuses = is.successStatuses
      /\ Harmless(codes) <=> is.errorCodes \subseteq was.errorCodes
      /\ codes = {} => was.errorCodes = is.errorCodes
  <2>1. Breaking # Additive
    BY DEF Breaking, Additive
  <2> QED BY <2>1, SetVerdict
<1> HIDE DEF identity, flags, statuses, codes
<1>6. Harmless(OperationChanges(id, was, is))
        <=> /\ Harmless(identity) /\ Harmless(flags)
            /\ Harmless(IdempotencyChange(id, was, is))
            /\ Harmless(statuses) /\ Harmless(codes)
  BY <1>1 DEF Harmless
<1>7. OperationChanges(id, was, is) = {}
        => /\ identity = {} /\ flags = {} /\ IdempotencyChange(id, was, is) = {}
           /\ statuses = {} /\ codes = {}
  BY <1>1
<1> QED BY <1>2, <1>3, <1>4, <1>5, <1>6, <1>7 DEF OperationFollows

\* compareFieldPresence
LEMMA PresenceVerdict ==
  ASSUME NEW kind, NEW was, NEW is, NEW target
  PROVE  LET changes == When(was # is, Change(Demand(PresenceBreaks(kind, was, is)),
                                              "field", target))
         IN  /\ Harmless(changes) <=> PresenceFollows(kind, was, is)
             /\ changes = {} => was = is
BY WhenVerdict, DemandVerdict DEF PresenceFollows

\* compareFieldType
LEMMA TypeVerdict ==
  ASSUME NEW kind \in {"request", "response"}, NEW target, NEW was, NEW is
  PROVE  /\ Harmless(TypeChanges(kind, target, was, is)) <=> TypeFollows(kind, was, is)
         /\ IsType(was) /\ IsType(is) /\ TypeChanges(kind, target, was, is) = {} => was = is
<1>0. Breaking # Additive
  BY DEF Breaking, Additive
<1>1. CASE was = is
  BY <1>1 DEF TypeChanges, TypeFollows, Harmless
<1>2. CASE was # is /\ was.wrappers = is.wrappers /\ was.base = "enum" /\ is.base = "enum"
  <2> DEFINE removed == IF kind = "request" THEN Breaking ELSE Additive
             added == IF kind = "response" THEN Breaking ELSE Additive
  <2>1. TypeChanges(kind, target, was, is)
          = SetChanges("enum-values", target, was.values, is.values, removed, added)
    BY <1>2 DEF TypeChanges
  <2>2. /\ removed = Breaking <=> kind = "request"
        /\ added = Breaking <=> kind = "response"
    BY <1>0
  <2> HIDE DEF removed, added
  <2>3. Harmless(TypeChanges(kind, target, was, is)) <=> TypeFollows(kind, was, is)
    BY <1>2, <2>1, <2>2, SetVerdict DEF TypeFollows
  <2>4. TypeChanges(kind, target, was, is) = {} => was.values = is.values
    BY <2>1, SetVerdict
  <2>5. IsType(was) /\ IsType(is) /\ was.values = is.values => was = is
    BY <1>2 DEF IsType, HasFields
  <2> QED BY <2>3, <2>4, <2>5
<1>3. CASE was # is /\ ~(was.wrappers = is.wrappers /\ was.base = "enum" /\ is.base = "enum")
  <2>1. TypeChanges(kind, target, was, is) = {Change(Breaking, "field-type.changed", target)}
    BY <1>3 DEF TypeChanges
  <2> QED BY <1>3, <2>1, LevelOf DEF TypeFollows, Harmless
<1> QED BY <1>1, <1>2, <1>3

\* One field in compareSchema: when its changes are harmless, and what it means that
\* there are none.
FieldAllowed(f, old, new, typed, oldTypes, newTypes) ==
  LET was == Presence(old, f)
      is == Presence(new, f)
  IN  /\ PresenceFollows(old.kind, was, is)
      /\ typed /\ was # "absent" /\ is # "absent" /\ f \in DOMAIN oldTypes =>
           f \in DOMAIN newTypes /\ TypeFollows(old.kind, oldTypes[f], newTypes[f])

FieldSame(ref, f, old, new, typed, oldTypes, newTypes) ==
  LET was == Presence(old, f)
      is == Presence(new, f)
  IN  /\ was = is
      /\ typed /\ was # "absent" =>
           /\ f \in DOMAIN oldTypes <=> f \in DOMAIN newTypes
           /\ f \in DOMAIN oldTypes =>
                TypeChanges(old.kind, <<ref, f>>, oldTypes[f], newTypes[f]) = {}

LEMMA FieldVerdict ==
  ASSUME NEW ref, NEW f, NEW old, NEW new, NEW typed \in BOOLEAN, NEW oldTypes, NEW newTypes,
         old.kind \in {"request", "response"}
  PROVE  /\ Harmless(FieldChanges(ref, f, old, new, typed, oldTypes, newTypes))
              <=> FieldAllowed(f, old, new, typed, oldTypes, newTypes)
         /\ FieldChanges(ref, f, old, new, typed, oldTypes, newTypes) = {}
              => FieldSame(ref, f, old, new, typed, oldTypes, newTypes)
<1> DEFINE was == Presence(old, f)
           is == Presence(new, f)
           compared == typed /\ was # "absent" /\ is # "absent"
           presence == When(was # is, Change(Demand(PresenceBreaks(old.kind, was, is)),
                                             "field", <<ref, f>>))
           types == IF ~compared THEN {}
                    ELSE IF f \notin DOMAIN oldTypes
                    THEN When(f \in DOMAIN newTypes,
                              Change(Additive, "field-type.added", <<ref, f>>))
                    ELSE IF f \notin DOMAIN newTypes
                    THEN {Change(Breaking, "field-type.removed", <<ref, f>>)}
                    ELSE TypeChanges(old.kind, <<ref, f>>, oldTypes[f], newTypes[f])
           typesFollow == compared /\ f \in DOMAIN oldTypes =>
                            /\ f \in DOMAIN newTypes
                            /\ TypeFollows(old.kind, oldTypes[f], newTypes[f])
<1>1. FieldChanges(ref, f, old, new, typed, oldTypes, newTypes) = presence \cup types
  BY DEF FieldChanges
<1>2. /\ Harmless(presence) <=> PresenceFollows(old.kind, was, is)
      /\ presence = {} => was = is
  BY PresenceVerdict
<1> HIDE DEF was, is, presence
<1>3. /\ Harmless(types) <=> typesFollow
      /\ types = {} /\ compared =>
           /\ f \in DOMAIN oldTypes <=> f \in DOMAIN newTypes
           /\ f \in DOMAIN oldTypes =>
                TypeChanges(old.kind, <<ref, f>>, oldTypes[f], newTypes[f]) = {}
  <2>1. CASE ~compared
    BY <2>1 DEF Harmless
  <2>2. CASE compared /\ f \notin DOMAIN oldTypes
    <3>1. types = When(f \in DOMAIN newTypes,
                       Change(Additive, "field-type.added", <<ref, f>>))
      BY <2>2
    <3>2. Additive # Breaking /\ (f \in DOMAIN newTypes) \in BOOLEAN
      BY DEF Additive, Breaking
    <3> HIDE DEF types, compared
    <3>3. Harmless(types) /\ (types = {} => f \notin DOMAIN newTypes)
      BY <3>1, <3>2, WhenVerdict
    <3> QED BY <2>2, <3>3
  <2>3. CASE compared /\ f \in DOMAIN oldTypes /\ f \notin DOMAIN newTypes
    <3>1. types = {Change(Breaking, "field-type.removed", <<ref, f>>)}
      BY <2>3
    <3>2. ~Harmless(types) /\ types # {}
      BY <3>1, LevelOf DEF Harmless
    <3> HIDE DEF types, compared
    <3> QED BY <2>3, <3>2
  <2>4. CASE compared /\ f \in DOMAIN oldTypes /\ f \in DOMAIN newTypes
    <3>1. types = TypeChanges(old.kind, <<ref, f>>, oldTypes[f], newTypes[f])
      BY <2>4
    <3> HIDE DEF types, compared
    <3> QED BY <2>4, <3>1, TypeVerdict
  <2> QED BY <2>1, <2>2, <2>3, <2>4
<1> HIDE DEF types, typesFollow
<1>4. Harmless(presence \cup types) <=> Harmless(presence) /\ Harmless(types)
  BY DEF Harmless
<1> QED BY <1>1, <1>2, <1>3, <1>4 DEF was, is, typesFollow, FieldAllowed, FieldSame

\* What WellFormed says of one schema and of its runtime descriptor.
LEMMA SchemaOf ==
  ASSUME NEW s, WellFormed(s), NEW ref \in DOMAIN s.schemas
  PROVE  /\ IsSchema(s.schemas[ref])
         /\ ref \in DOMAIN s.runtimeSchemas =>
              DescribesFields(s.runtimeSchemas[ref], s.schemas[ref])
BY DEF WellFormed

\* With disjoint lists, who is where follows from the presence of each field.
LEMMA PresenceOf ==
  ASSUME NEW schema, IsSchema(schema), NEW f
  PROVE  /\ Presence(schema, f) \in {"required", "optional", "absent"}
         /\ Presence(schema, f) = "required" <=> f \in schema.requiredFields
         /\ Presence(schema, f) = "optional" <=> f \in schema.optionalFields
         /\ Presence(schema, f) # "absent" <=> f \in Fields(schema)
BY DEF Presence, Fields, IsSchema

LEMMA SameDescriptors ==
  ASSUME NEW types, NEW other, NEW schema, NEW kind \in {"request", "response"}, NEW ref,
         DescribesFields(types, schema), DescribesFields(other, schema),
         \A f \in Fields(schema) :
           /\ f \in DOMAIN types <=> f \in DOMAIN other
           /\ f \in DOMAIN types => TypeChanges(kind, <<ref, f>>, types[f], other[f]) = {}
  PROVE  types = other
<1>1. DOMAIN types = DOMAIN other
  BY DEF DescribesFields
<1>2. \A f \in DOMAIN types : types[f] = other[f]
  BY <1>1, TypeVerdict DEF DescribesFields
<1>3. types = [f \in DOMAIN types |-> types[f]] /\ other = [f \in DOMAIN other |-> other[f]]
  BY DEF DescribesFields, IsMap, HasFields
<1> QED BY <1>1, <1>2, <1>3

\* compareSchema
LEMMA SchemaVerdict ==
  ASSUME NEW old, NEW new, WellFormed(old), WellFormed(new),
         NEW ref \in DOMAIN old.schemas, ref \in DOMAIN new.schemas
  PROVE  LET changes == SchemaChanges(ref, old, new, DOMAIN old.runtimeSchemas # {},
                                      old.runtimeSchemas, new.runtimeSchemas)
         IN  /\ Harmless(changes) <=> SchemaFollows(ref, old, new)
             /\ changes = {} =>
                  /\ new.schemas[ref] = old.schemas[ref]
                  /\ ref \in DOMAIN old.runtimeSchemas =>
                       /\ ref \in DOMAIN new.runtimeSchemas
                       /\ new.runtimeSchemas[ref] = old.runtimeSchemas[ref]
<1> DEFINE was == old.schemas[ref]
           is == new.schemas[ref]
           described == DOMAIN old.runtimeSchemas # {} /\ ref \in DOMAIN old.runtimeSchemas
           typed == described /\ ref \in DOMAIN new.runtimeSchemas
           oldTypes == IF typed THEN old.runtimeSchemas[ref] ELSE <<>>
           newTypes == IF typed THEN new.runtimeSchemas[ref] ELSE <<>>
           changes == SchemaChanges(ref, old, new, DOMAIN old.runtimeSchemas # {},
                                    old.runtimeSchemas, new.runtimeSchemas)
           identity == When(was.schemaId # is.schemaId, Change(Breaking, "id", ref))
           secret == When(was.carriesSecretMaterial # is.carriesSecretMaterial,
                          Change(Demand(is.carriesSecretMaterial), "secret-material", ref))
           descriptor == When(described /\ ~typed,
                              Change(Breaking, "runtime-descriptor.removed", ref))
           field(f) == FieldChanges(ref, f, was, is, typed, oldTypes, newTypes)
           fields == UNION {field(f) : f \in Fields(was) \cup Fields(is)}
           secrets == SetChanges("secret-field", ref, was.secretFields, is.secretFields,
                                 Additive, Breaking)
<1>1. /\ IsSchema(was) /\ IsSchema(is) /\ was.kind \in {"request", "response"}
      /\ was.carriesSecretMaterial \in BOOLEAN /\ is.carriesSecretMaterial \in BOOLEAN
  BY SchemaOf DEF IsSchema
<1>2. changes = IF was.kind # is.kind THEN {Change(Breaking, "kind", ref)}
                ELSE identity \cup secret \cup descriptor \cup fields \cup secrets
  BY DEF SchemaChanges
<1>3. described <=> ref \in DOMAIN old.runtimeSchemas
  OBVIOUS
<1> HIDE DEF changes
<1>4. CASE was.kind # is.kind
  <2>1. ~Harmless(changes) /\ changes # {}
    BY <1>2, <1>4, LevelOf DEF Harmless
  <2>2. ~SchemaFollows(ref, old, new)
    BY <1>4 DEF SchemaFollows
  <2> QED BY <2>1, <2>2 DEF changes
<1>5. CASE was.kind = is.kind
  <2>1. changes = identity \cup secret \cup descriptor \cup fields \cup secrets
    BY <1>2, <1>5
  <2>2. /\ Harmless(identity) <=> was.schemaId = is.schemaId
        /\ identity = {} => was.schemaId = is.schemaId
    <3>1. (was.schemaId # is.schemaId) \in BOOLEAN
      OBVIOUS
    <3> QED BY <3>1, WhenVerdict
  <2>3. /\ Harmless(secret) <=> (is.carriesSecretMaterial => was.carriesSecretMaterial)
        /\ secret = {} => was.carriesSecretMaterial = is.carriesSecretMaterial
    <3>1. /\ Harmless(secret)
               <=> (was.carriesSecretMaterial # is.carriesSecretMaterial
                      => Demand(is.carriesSecretMaterial) # Breaking)
          /\ secret = {} => ~(was.carriesSecretMaterial # is.carriesSecretMaterial)
      BY WhenVerdict
    <3> HIDE DEF secret
    <3> QED BY <1>1, <3>1, DemandVerdict
  <2>4. /\ Harmless(descriptor) <=> (described => typed)
        /\ descriptor = {} => (described => typed)
    BY WhenVerdict
  <2>5. /\ Harmless(secrets) <=> is.secretFields \subseteq was.secretFields
        /\ secrets = {} => was.secretFields = is.secretFields
    <3>1. Additive # Breaking
      BY DEF Additive, Breaking
    <3> QED BY <3>1, SetVerdict
  <2>6. /\ Harmless(fields) <=> \A f \in Fields(was) \cup Fields(is) : Harmless(field(f))
        /\ fields = {} => \A f \in Fields(was) \cup Fields(is) : field(f) = {}
    <3> HIDE DEF field
    <3> QED BY DEF Harmless
  <2>7. ASSUME NEW f
        PROVE  /\ Harmless(field(f)) <=> FieldAllowed(f, was, is, typed, oldTypes, newTypes)
               /\ field(f) = {} => FieldSame(ref, f, was, is, typed, oldTypes, newTypes)
    <3>1. typed \in BOOLEAN /\ was.kind \in {"request", "response"}
      BY <1>1
    <3> HIDE DEF was, is, typed, oldTypes, newTypes
    <3> QED BY <3>1, FieldVerdict
  <2>8. ASSUME described => typed, NEW f
        PROVE  Harmless(field(f)) <=> FieldFollows(ref, f, old, new)
    <3>1. CASE typed
      <4>1. /\ Described(old, ref, f) <=> f \in DOMAIN oldTypes
            /\ Described(new, ref, f) <=> f \in DOMAIN newTypes
            /\ oldTypes = old.runtimeSchemas[ref] /\ newTypes = new.runtimeSchemas[ref]
        BY <3>1 DEF Described
      <4> HIDE DEF oldTypes, newTypes, typed, field
      <4> QED BY <2>7, <3>1, <4>1 DEF FieldFollows, FieldAllowed
    <3>2. CASE ~typed
      <4>1. ~Described(old, ref, f)
        BY <1>3, <2>8, <3>2 DEF Described
      <4> HIDE DEF oldTypes, newTypes, typed, field
      <4> QED BY <2>7, <3>2, <4>1 DEF FieldFollows, FieldAllowed
    <3> QED BY <3>1, <3>2
  <2>9. ASSUME NEW f, f \notin Fields(was) \cup Fields(is)
        PROVE  FieldFollows(ref, f, old, new)
    BY <1>1, <2>9, PresenceOf DEF FieldFollows, PresenceFollows
  <2> HIDE DEF identity, secret, descriptor, fields, secrets
  <2>10. Harmless(changes) <=> SchemaFollows(ref, old, new)
    <3>1. Harmless(changes)
            <=> /\ Harmless(identity) /\ Harmless(secret) /\ Harmless(descriptor)
                /\ Harmless(fields) /\ Harmless(secrets)
      BY <2>1 DEF Harmless
    <3>2. CASE described => typed
      <4>1. Harmless(fields) <=> \A f : FieldFollows(ref, f, old, new)
        <5> HIDE DEF field, described, typed
        <5> QED BY <2>6, <2>8, <2>9, <3>2
      <4>2. ref \in DOMAIN old.runtimeSchemas => ref \in DOMAIN new.runtimeSchemas
        BY <1>3, <3>2
      <4> HIDE DEF field, described, typed
      <4> QED BY <1>5, <2>2, <2>3, <2>4, <2>5, <3>1, <3>2, <4>1, <4>2 DEF SchemaFollows
    <3>3. CASE ~(described => typed)
      <4>1. ~SchemaFollows(ref, old, new)
        BY <1>3, <3>3 DEF SchemaFollows
      <4> HIDE DEF described, typed
      <4> QED BY <2>4, <3>1, <3>3, <4>1
    <3> QED BY <3>2, <3>3
  <2>11. ASSUME changes = {}
         PROVE  /\ is = was
                /\ ref \in DOMAIN old.runtimeSchemas =>
                     /\ ref \in DOMAIN new.runtimeSchemas
                     /\ new.runtimeSchemas[ref] = old.runtimeSchemas[ref]
    <3>1. /\ identity = {} /\ secret = {} /\ descriptor = {}
          /\ fields = {} /\ secrets = {}
      BY <2>1, <2>11
    <3>2. \A f \in Fields(was) \cup Fields(is) : field(f) = {}
      BY <2>6, <3>1
    <3>3. \A f \in Fields(was) \cup Fields(is) : Presence(was, f) = Presence(is, f)
      <4> HIDE DEF field, was, is, typed, oldTypes, newTypes
      <4> QED BY <2>7, <3>2 DEF FieldSame
    <3>4. was.requiredFields = is.requiredFields /\ was.optionalFields = is.optionalFields
      <4>1. \A f : Presence(was, f) = Presence(is, f)
        BY <1>1, <3>3, PresenceOf
      <4> HIDE DEF was, is
      <4> QED BY <1>1, <4>1, PresenceOf
    <3>5. is = was
      <4> HIDE DEF was, is
      <4> QED BY <1>1, <1>5, <2>2, <2>3, <2>5, <3>1, <3>4 DEF IsSchema, HasFields
    <3>6. ASSUME ref \in DOMAIN old.runtimeSchemas
          PROVE  /\ ref \in DOMAIN new.runtimeSchemas
                 /\ new.runtimeSchemas[ref] = old.runtimeSchemas[ref]
      <4>1. typed
        BY <1>3, <2>4, <3>1, <3>6
      <4>2. ref \in DOMAIN new.runtimeSchemas
        BY <4>1
      <4>3. oldTypes = old.runtimeSchemas[ref] /\ newTypes = new.runtimeSchemas[ref]
        BY <4>1
      <4>4. DescribesFields(oldTypes, was) /\ DescribesFields(newTypes, was)
        BY <3>5, <3>6, <4>2, <4>3, SchemaOf
      <4>5. \A f \in Fields(was) :
              /\ f \in DOMAIN oldTypes <=> f \in DOMAIN newTypes
              /\ f \in DOMAIN oldTypes =>
                   TypeChanges(was.kind, <<ref, f>>, oldTypes[f], newTypes[f]) = {}
        <5> HIDE DEF field, was, is, typed, oldTypes, newTypes
        <5> QED BY <1>1, <2>7, <3>2, <4>1, PresenceOf DEF FieldSame
      <4> HIDE DEF was, oldTypes, newTypes
      <4>6. oldTypes = newTypes
        BY <1>1, <4>4, <4>5, SameDescriptors
      <4> QED BY <4>2, <4>3, <4>6
    <3> QED BY <3>5, <3>6
  <2> QED BY <2>10, <2>11 DEF changes
<1> QED BY <1>4, <1>5

LEMMA ReferencedAre ==
  ASSUME NEW s, NEW ref
  PROVE  ref \in Referenced(s)
           <=> \E id \in DOMAIN s.operations :
                 /\ ref # "none"
                 /\ \/ ref = s.operations[id].requestSchemaRef
                    \/ ref = s.operations[id].responseSchemaRef
BY DEF Referenced

\* readSchemaModel leaves no reference undefined, so that compareSchemas does not fail.
LEMMA ReferencesDefined ==
  ASSUME NEW s, WellFormed(s)
  PROVE  Referenced(s) \subseteq DOMAIN s.schemas
BY ReferencedAre DEF WellFormed, IsOperation, HasSchema

LEMMA OperationOf ==
  ASSUME NEW s, WellFormed(s), NEW id \in DOMAIN s.operations
  PROVE  /\ IsOperation(s.operations[id], s.schemas)
         /\ s.operations[id].idempotency \in DOMAIN Strictness
         /\ \A f \in Flags : s.operations[id][f] \in BOOLEAN
BY DEF WellFormed, IsOperation

\* compareOperations
LEMMA OperationsVerdict ==
  ASSUME NEW old, NEW new, WellFormed(old), WellFormed(new)
  PROVE  LET changes == OperationsChanges(old.operations, new.operations)
         IN  /\ Harmless(changes) <=>
                  \A id \in DOMAIN old.operations :
                    /\ id \in DOMAIN new.operations
                    /\ OperationFollows(old.operations[id], new.operations[id])
             /\ changes = {} => new.operations = old.operations
<1> DEFINE before == old.operations
           now == new.operations
           removed == {Change(Breaking, "operation.removed", id) :
                         id \in DOMAIN before \ DOMAIN now}
           added == {Change(Additive, "operation.added", id) :
                       id \in DOMAIN now \ DOMAIN before}
           changed(id) == OperationChanges(id, before[id], now[id])
           kept == UNION {changed(id) : id \in DOMAIN before \cap DOMAIN now}
           changes == OperationsChanges(before, now)
<1>1. changes = removed \cup added \cup kept
  BY DEF OperationsChanges
<1>2. /\ Harmless(removed) <=> DOMAIN before \subseteq DOMAIN now
      /\ removed = {} => DOMAIN before \subseteq DOMAIN now
  BY LevelOf DEF Harmless
<1>3. /\ Harmless(added)
      /\ added = {} => DOMAIN now \subseteq DOMAIN before
  <2>1. Additive # Breaking
    BY DEF Additive, Breaking
  <2> QED BY <2>1, LevelOf DEF Harmless
<1>4. ASSUME NEW id \in DOMAIN before \cap DOMAIN now
      PROVE  /\ Harmless(changed(id)) <=> OperationFollows(before[id], now[id])
             /\ changed(id) = {} => now[id] = before[id]
  <2>1. /\ IsOperation(before[id], old.schemas) /\ IsOperation(now[id], new.schemas)
        /\ before[id].idempotency \in DOMAIN Strictness
        /\ now[id].idempotency \in DOMAIN Strictness
        /\ \A f \in Flags : before[id][f] \in BOOLEAN /\ now[id][f] \in BOOLEAN
    BY <1>4, OperationOf
  <2>2. /\ Harmless(changed(id)) <=> OperationFollows(before[id], now[id])
        /\ changed(id) = {} =>
             /\ \A f \in Identity \cup Flags : before[id][f] = now[id][f]
             /\ before[id].idempotency = now[id].idempotency
             /\ before[id].successStatuses = now[id].successStatuses
             /\ before[id].errorCodes = now[id].errorCodes
    <3> HIDE DEF before, now
    <3> QED BY <2>1, OperationVerdict
  <2> DEFINE fields == Identity \cup Flags \cup {"idempotency", "successStatuses", "errorCodes"}
  <2>3. ASSUME changed(id) = {} PROVE \A f \in fields : before[id][f] = now[id][f]
    <3> HIDE DEF changed, before, now
    <3> QED BY <2>2, <2>3
  <2>4. /\ before[id] = [f \in fields |-> before[id][f]]
        /\ now[id] = [f \in fields |-> now[id][f]]
    <3>1. fields = {"method", "path", "successStatuses", "requestSchemaRef",
                    "responseSchemaRef", "responseBodyMode", "authRequired", "idempotency",
                    "requestIdRequired", "traceIdRequired", "errorCodes"}
      BY DEF Identity, Flags
    <3> QED BY <2>1, <3>1 DEF IsOperation, HasFields
  <2> HIDE DEF changed, before, now, fields
  <2> QED BY <2>2, <2>3, <2>4
<1>5. /\ Harmless(kept) <=> \A id \in DOMAIN before \cap DOMAIN now : Harmless(changed(id))
      /\ kept = {} => \A id \in DOMAIN before \cap DOMAIN now : changed(id) = {}
  <2> HIDE DEF changed
  <2> QED BY DEF Harmless
<1>6. /\ Harmless(changes) <=> Harmless(removed) /\ Harmless(added) /\ Harmless(kept)
      /\ changes = {} => removed = {} /\ added = {} /\ kept = {}
  <2> HIDE DEF removed, added, kept, changes
  <2> QED BY <1>1 DEF Harmless
<1>7. before = [id \in DOMAIN before |-> before[id]] /\ now = [id \in DOMAIN now |-> now[id]]
  BY DEF WellFormed, IsMap, HasFields
<1> HIDE DEF before, now, removed, added, kept, changed
<1>8. Harmless(changes) <=>
        \A id \in DOMAIN before : id \in DOMAIN now /\ OperationFollows(before[id], now[id])
  BY <1>2, <1>3, <1>4, <1>5, <1>6
<1>9. changes = {} => now = before
  BY <1>2, <1>3, <1>4, <1>5, <1>6, <1>7
<1> QED BY <1>8, <1>9 DEF before, now

\* compareSchemas
LEMMA SchemasVerdict ==
  ASSUME NEW old, NEW new, WellFormed(old), WellFormed(new)
  PROVE  LET changes == SchemasChanges(old, new)
             refs == Referenced(old) \cup Referenced(new)
         IN  /\ Harmless(changes) <=>
                  \A ref \in refs \cap DOMAIN old.schemas :
                    ref \in DOMAIN new.schemas /\ SchemaFollows(ref, old, new)
             /\ changes = {} =>
                  \A ref \in refs \cap DOMAIN old.schemas :
                    /\ new.schemas[ref] = old.schemas[ref]
                    /\ ref \in DOMAIN old.runtimeSchemas =>
                         /\ ref \in DOMAIN new.runtimeSchemas
                         /\ new.runtimeSchemas[ref] = old.runtimeSchemas[ref]
<1> DEFINE refs == Referenced(old) \cup Referenced(new)
           before == DOMAIN old.schemas
           now == DOMAIN new.schemas
           added == {Change(Additive, "schema.added", r) : r \in (refs \cap now) \ before}
           removed == {Change(Breaking, "schema.removed", r) : r \in (refs \cap before) \ now}
           changed(r) == SchemaChanges(r, old, new, DOMAIN old.runtimeSchemas # {},
                                       old.runtimeSchemas, new.runtimeSchemas)
           kept == UNION {changed(r) : r \in refs \cap before \cap now}
           changes == SchemasChanges(old, new)
           same(ref) == /\ new.schemas[ref] = old.schemas[ref]
                        /\ ref \in DOMAIN old.runtimeSchemas =>
                             /\ ref \in DOMAIN new.runtimeSchemas
                             /\ new.runtimeSchemas[ref] = old.runtimeSchemas[ref]
<1>1. changes = added \cup removed \cup kept
  BY DEF SchemasChanges
<1>2. /\ Harmless(removed) <=> refs \cap before \subseteq now
      /\ removed = {} => refs \cap before \subseteq now
  <2> HIDE DEF refs, before, now
  <2> QED BY LevelOf DEF Harmless
<1>3. Harmless(added)
  <2>1. Additive # Breaking
    BY DEF Additive, Breaking
  <2> QED BY <2>1, LevelOf DEF Harmless
<1>4. ASSUME NEW r \in refs \cap before \cap now
      PROVE  /\ Harmless(changed(r)) <=> SchemaFollows(r, old, new)
             /\ changed(r) = {} => same(r)
  <2>1. r \in DOMAIN old.schemas /\ r \in DOMAIN new.schemas
    BY <1>4
  <2> QED BY <2>1, SchemaVerdict
<1>5. /\ Harmless(kept) <=> \A r \in refs \cap before \cap now : Harmless(changed(r))
      /\ kept = {} => \A r \in refs \cap before \cap now : changed(r) = {}
  <2> HIDE DEF changed, refs, before, now
  <2> QED BY DEF Harmless
<1>6. /\ Harmless(changes) <=> Harmless(removed) /\ Harmless(added) /\ Harmless(kept)
      /\ changes = {} => removed = {} /\ added = {} /\ kept = {}
  <2> HIDE DEF removed, added, kept, changes
  <2> QED BY <1>1 DEF Harmless
<1> HIDE DEF refs, before, now, removed, added, kept, changed, same
<1>7. Harmless(changes) <=> \A r \in refs \cap before : r \in now /\ SchemaFollows(r, old, new)
  BY <1>2, <1>3, <1>4, <1>5, <1>6
<1>8. changes = {} => \A r \in refs \cap before : same(r)
  BY <1>2, <1>4, <1>5, <1>6
<1> QED BY <1>7, <1>8 DEF refs, before, now, same

\* What the gate's verdict decides.  The converse needs the schemas of the old surface
\* to be in use: one that becomes used later is compared with what it was.
THEOREM GateDecides ==
  ASSUME NEW old, NEW new, WellFormed(old), WellFormed(new)
  PROVE  /\ Classification(old, new) # Breaking => Follows(old, new)
         /\ AllReferenced(old) /\ Follows(old, new) => Classification(old, new) # Breaking
         /\ Classification(old, new) = "none" => SameInUse(old, new)
<1> DEFINE operations == OperationsChanges(old.operations, new.operations)
           schemas == SchemasChanges(old, new)
           refs == Referenced(old) \cup Referenced(new)
<1>1. Changes(old, new) = operations \cup schemas
  BY DEF Changes
<1>2. /\ Classification(old, new) # Breaking <=> Harmless(operations) /\ Harmless(schemas)
      /\ Classification(old, new) = "none" => operations = {} /\ schemas = {}
  <2> HIDE DEF operations, schemas
  <2>1. Harmless(Changes(old, new)) <=> Harmless(operations) /\ Harmless(schemas)
    BY <1>1 DEF Harmless
  <2> QED BY <1>1, <2>1, VerdictOf
<1>3. /\ Harmless(operations) <=>
           \A id \in DOMAIN old.operations :
             /\ id \in DOMAIN new.operations
             /\ OperationFollows(old.operations[id], new.operations[id])
      /\ operations = {} => new.operations = old.operations
  BY OperationsVerdict
<1>4. /\ Harmless(schemas) <=>
           \A ref \in refs \cap DOMAIN old.schemas :
             ref \in DOMAIN new.schemas /\ SchemaFollows(ref, old, new)
      /\ schemas = {} =>
           \A ref \in refs \cap DOMAIN old.schemas :
             /\ new.schemas[ref] = old.schemas[ref]
             /\ ref \in DOMAIN old.runtimeSchemas =>
                  /\ ref \in DOMAIN new.runtimeSchemas
                  /\ new.runtimeSchemas[ref] = old.runtimeSchemas[ref]
  BY SchemasVerdict
<1>5. /\ Referenced(old) \subseteq refs \cap DOMAIN old.schemas
      /\ AllReferenced(old) => refs \cap DOMAIN old.schemas = Referenced(old)
  BY ReferencesDefined DEF AllReferenced
<1> HIDE DEF operations, schemas, refs
<1>6. Harmless(operations) /\ Harmless(schemas) => Follows(old, new)
  BY <1>3, <1>4, <1>5 DEF Follows
<1>7. AllReferenced(old) /\ Follows(old, new) => Harmless(operations) /\ Harmless(schemas)
  BY <1>3, <1>4, <1>5 DEF Follows
<1>8. operations = {} /\ schemas = {} => SameInUse(old, new)
  BY <1>3, <1>4, <1>5 DEF SameInUse
<1> QED BY <1>2, <1>6, <1>7, <1>8

-----------------------------------------------------------------------------
(* To follow is transitive, and so is to be the same in use *)

LEMMA OperationsTransitive ==
  ASSUME NEW a, NEW b, NEW c, OperationFollows(a, b), OperationFollows(b, c),
         a.idempotency \in DOMAIN Strictness, b.idempotency \in DOMAIN Strictness,
         c.idempotency \in DOMAIN Strictness
  PROVE  OperationFollows(a, c)
<1>1. /\ Strictness[a.idempotency] \in 0..2 /\ Strictness[b.idempotency] \in 0..2
      /\ Strictness[c.idempotency] \in 0..2
  BY DEF Strictness
<1>2. Strictness[c.idempotency] <= Strictness[a.idempotency]
  <2>1. /\ Strictness[b.idempotency] <= Strictness[a.idempotency]
        /\ Strictness[c.idempotency] <= Strictness[b.idempotency]
    BY DEF OperationFollows
  <2> QED BY <1>1, <2>1
<1>3. /\ \A f \in Identity : a[f] = c[f]
      /\ \A f \in Flags : c[f] => a[f]
      /\ a.successStatuses \subseteq c.successStatuses
      /\ c.errorCodes \subseteq a.errorCodes
  BY DEF OperationFollows
<1> QED BY <1>2, <1>3 DEF OperationFollows

\* A presence that follows stays between the two it follows; a field that was there
\* can go away only from a schema that it is not in any more.
LEMMA PresenceTransitive ==
  ASSUME NEW kind \in {"request", "response"},
         NEW a \in {"required", "optional", "absent"},
         NEW b \in {"required", "optional", "absent"},
         NEW c \in {"required", "optional", "absent"},
         PresenceFollows(kind, a, b), PresenceFollows(kind, b, c)
  PROVE  PresenceFollows(kind, a, c) /\ (a # "absent" => b # "absent")
BY DEF PresenceFollows, PresenceBreaks

LEMMA TypesTransitive ==
  ASSUME NEW kind, NEW a, NEW b, NEW c, TypeFollows(kind, a, b), TypeFollows(kind, b, c)
  PROVE  TypeFollows(kind, a, c)
<1>1. CASE a = b
  BY <1>1
<1>2. CASE b = c
  BY <1>2
<1>3. CASE a # b /\ b # c
  BY <1>3 DEF TypeFollows
<1> QED BY <1>1, <1>2, <1>3

LEMMA SchemasTransitive ==
  ASSUME NEW a, NEW b, NEW c, NEW ref,
         IsSchema(a.schemas[ref]), IsSchema(b.schemas[ref]), IsSchema(c.schemas[ref]),
         SchemaFollows(ref, a, b), SchemaFollows(ref, b, c)
  PROVE  SchemaFollows(ref, a, c)
<1>1. ASSUME NEW f PROVE FieldFollows(ref, f, a, c)
  <2> DEFINE kind == a.schemas[ref].kind
             pa == Presence(a.schemas[ref], f)
             pb == Presence(b.schemas[ref], f)
             pc == Presence(c.schemas[ref], f)
             ta == a.runtimeSchemas[ref][f]
             tb == b.runtimeSchemas[ref][f]
             tc == c.runtimeSchemas[ref][f]
             da == Described(a, ref, f)
             db == Described(b, ref, f)
             dc == Described(c, ref, f)
  <2>1. FieldFollows(ref, f, a, b) /\ FieldFollows(ref, f, b, c) /\ b.schemas[ref].kind = kind
    BY DEF SchemaFollows
  <2>2. /\ PresenceFollows(kind, pa, pb) /\ PresenceFollows(kind, pb, pc)
        /\ da /\ pa # "absent" /\ pb # "absent" => db /\ TypeFollows(kind, ta, tb)
        /\ db /\ pb # "absent" /\ pc # "absent" => dc /\ TypeFollows(kind, tb, tc)
    BY <2>1 DEF FieldFollows
  <2>3. /\ kind \in {"request", "response"}
        /\ pa \in {"required", "optional", "absent"}
        /\ pb \in {"required", "optional", "absent"}
        /\ pc \in {"required", "optional", "absent"}
    BY PresenceOf DEF IsSchema
  <2>4. (FieldFollows(ref, f, a, c)
           <=> /\ PresenceFollows(kind, pa, pc)
               /\ da /\ pa # "absent" /\ pc # "absent" => dc /\ TypeFollows(kind, ta, tc))
    BY DEF FieldFollows
  <2> HIDE DEF kind, pa, pb, pc, ta, tb, tc, da, db, dc
  <2>5. PresenceFollows(kind, pa, pc) /\ (pa # "absent" => pb # "absent")
    BY <2>2, <2>3, PresenceTransitive
  <2>6. TypeFollows(kind, ta, tb) /\ TypeFollows(kind, tb, tc) => TypeFollows(kind, ta, tc)
    BY TypesTransitive
  <2> QED BY <2>2, <2>4, <2>5, <2>6
<1>2. /\ a.schemas[ref].kind = c.schemas[ref].kind
      /\ a.schemas[ref].schemaId = c.schemas[ref].schemaId
      /\ c.schemas[ref].carriesSecretMaterial => a.schemas[ref].carriesSecretMaterial
      /\ ref \in DOMAIN a.runtimeSchemas => ref \in DOMAIN c.runtimeSchemas
      /\ c.schemas[ref].secretFields \subseteq a.schemas[ref].secretFields
  BY DEF SchemaFollows
<1> QED BY <1>1, <1>2 DEF SchemaFollows

\* What follows uses every schema that its predecessor uses.
LEMMA ReferencedStay ==
  ASSUME NEW old, NEW new, Follows(old, new)
  PROVE  Referenced(old) \subseteq Referenced(new)
<1> SUFFICES ASSUME NEW ref \in Referenced(old) PROVE ref \in Referenced(new)
  OBVIOUS
<1>1. PICK id \in DOMAIN old.operations :
        /\ ref # "none"
        /\ \/ ref = old.operations[id].requestSchemaRef
           \/ ref = old.operations[id].responseSchemaRef
  BY ReferencedAre
<1>2. id \in DOMAIN new.operations /\ OperationFollows(old.operations[id], new.operations[id])
  BY DEF Follows
<1>3. /\ new.operations[id].requestSchemaRef = old.operations[id].requestSchemaRef
      /\ new.operations[id].responseSchemaRef = old.operations[id].responseSchemaRef
  BY <1>2 DEF OperationFollows, Identity
<1> QED BY <1>1, <1>2, <1>3, ReferencedAre

THEOREM FollowsIsTransitive ==
  ASSUME NEW a, NEW b, NEW c, WellFormed(a), WellFormed(b), WellFormed(c),
         Follows(a, b), Follows(b, c)
  PROVE  Follows(a, c)
<1>1. ASSUME NEW id \in DOMAIN a.operations
      PROVE  /\ id \in DOMAIN c.operations
             /\ OperationFollows(a.operations[id], c.operations[id])
  <2>1. /\ id \in DOMAIN b.operations /\ OperationFollows(a.operations[id], b.operations[id])
        /\ id \in DOMAIN c.operations /\ OperationFollows(b.operations[id], c.operations[id])
    BY DEF Follows
  <2>2. /\ a.operations[id].idempotency \in DOMAIN Strictness
        /\ b.operations[id].idempotency \in DOMAIN Strictness
        /\ c.operations[id].idempotency \in DOMAIN Strictness
    BY <2>1, OperationOf
  <2> QED BY <2>1, <2>2, OperationsTransitive
<1>2. ASSUME NEW ref \in Referenced(a)
      PROVE  ref \in DOMAIN c.schemas /\ SchemaFollows(ref, a, c)
  <2>1. /\ ref \in Referenced(b)
        /\ ref \in DOMAIN a.schemas /\ ref \in DOMAIN b.schemas /\ ref \in DOMAIN c.schemas
        /\ SchemaFollows(ref, a, b) /\ SchemaFollows(ref, b, c)
    BY ReferencedStay, ReferencesDefined DEF Follows
  <2>2. IsSchema(a.schemas[ref]) /\ IsSchema(b.schemas[ref]) /\ IsSchema(c.schemas[ref])
    BY <2>1, SchemaOf
  <2> QED BY <2>1, <2>2, SchemasTransitive
<1> QED BY <1>1, <1>2 DEF Follows

-----------------------------------------------------------------------------
(* What follows keeps the consumers of its predecessor working *)

\* Of two types with the same wrappers, the one with the narrower base has fewer values.
LEMMA ValuesMonotone ==
  ASSUME NEW was, NEW is, was.wrappers = is.wrappers, was.base = "enum", is.base = "enum",
         was.values \subseteq is.values
  PROVE  FieldValues(was) \subseteq FieldValues(is)
<1>1. BaseValues(was) \subseteq BaseValues(is)
  BY DEF BaseValues
<1> QED BY <1>1 DEF FieldValues

LEMMA TypeValues ==
  ASSUME NEW kind \in {"request", "response"}, NEW was, NEW is, TypeFollows(kind, was, is)
  PROVE  /\ kind = "request" => FieldValues(was) \subseteq FieldValues(is)
         /\ kind = "response" => FieldValues(is) \subseteq FieldValues(was)
<1>1. CASE was = is
  BY <1>1
<1>2. CASE was # is
  <2>1. /\ was.wrappers = is.wrappers /\ was.base = "enum" /\ is.base = "enum"
        /\ kind = "request" => was.values \subseteq is.values
        /\ kind = "response" => is.values \subseteq was.values
    BY <1>2 DEF TypeFollows
  <2> QED BY <2>1, ValuesMonotone
<1> QED BY <1>1, <1>2

\* Requests of the old surface are accepted by the new one, and what the new one
\* answers in the fields that the old one knows was possible before.
LEMMA ContentsFollow ==
  ASSUME NEW old, NEW new, NEW ref, NEW f,
         IsSchema(old.schemas[ref]), IsSchema(new.schemas[ref]), SchemaFollows(ref, old, new)
  PROVE  /\ old.schemas[ref].kind = "request" =>
              Contents(ref, f, old, new) \subseteq Contents(ref, f, new, old)
         /\ old.schemas[ref].kind = "response" /\ f \in Fields(old.schemas[ref]) =>
              Contents(ref, f, new, old) \subseteq Contents(ref, f, old, new)
<1> DEFINE kind == old.schemas[ref].kind
           was == Presence(old.schemas[ref], f)
           is == Presence(new.schemas[ref], f)
           both == Described(old, ref, f) /\ Described(new, ref, f)
           before == IF both THEN FieldValues(old.runtimeSchemas[ref][f])
                     ELSE {<<"undescribed">>}
           now == IF both THEN FieldValues(new.runtimeSchemas[ref][f])
                  ELSE {<<"undescribed">>}
<1>1. /\ kind \in {"request", "response"}
      /\ was \in {"required", "optional", "absent"} /\ is \in {"required", "optional", "absent"}
      /\ f \in Fields(old.schemas[ref]) <=> was # "absent"
  BY PresenceOf DEF IsSchema
<1>2. /\ PresenceFollows(kind, was, is)
      /\ both /\ was # "absent" /\ is # "absent" =>
           TypeFollows(kind, old.runtimeSchemas[ref][f], new.runtimeSchemas[ref][f])
  BY DEF SchemaFollows, FieldFollows
<1>3. was # "absent" /\ is # "absent" =>
        /\ kind = "request" => before \subseteq now
        /\ kind = "response" => now \subseteq before
  <2>1. CASE both
    <3> HIDE DEF kind, was, is
    <3> QED BY <1>1, <1>2, <2>1, TypeValues
  <2>2. CASE ~both
    BY <2>2
  <2> QED BY <2>1, <2>2
<1>4. /\ Contents(ref, f, old, new) = (IF was = "absent" THEN {} ELSE before)
                                        \cup (IF was = "required" THEN {} ELSE {Missing})
      /\ Contents(ref, f, new, old) = (IF is = "absent" THEN {} ELSE now)
                                        \cup (IF is = "required" THEN {} ELSE {Missing})
  BY DEF Contents
<1> HIDE DEF kind, was, is, both, before, now
<1>5. CASE kind = "request"
  <2>1. \/ was = is
        \/ is = "optional"
    BY <1>1, <1>2, <1>5 DEF PresenceFollows, PresenceBreaks
  <2> QED BY <1>1, <1>3, <1>4, <1>5, <2>1 DEF kind
<1>6. CASE kind = "response"
  <2>1. was # "absent" => is # "absent" /\ (was = "required" => is = "required")
    BY <1>1, <1>2, <1>6 DEF PresenceFollows, PresenceBreaks
  <2> QED BY <1>1, <1>3, <1>4, <1>6, <2>1 DEF kind
<1> QED BY <1>1, <1>5, <1>6

THEOREM ConsumersFollow ==
  ASSUME NEW old, NEW new, WellFormed(old), WellFormed(new), Follows(old, new)
  PROVE  ConsumerSurvives(old, new)
<1> SUFFICES ASSUME NEW id \in DOMAIN old.operations
             PROVE  id \in DOMAIN new.operations /\ CallSurvives(id, old, new)
  BY DEF ConsumerSurvives
<1> DEFINE was == old.operations[id]
           is == new.operations[id]
<1>1. id \in DOMAIN new.operations /\ OperationFollows(was, is)
  BY DEF Follows
<1>2. IsOperation(was, old.schemas)
  BY OperationOf
<1>3. /\ was.idempotency \in DOMAIN Strictness /\ is.idempotency \in DOMAIN Strictness
      /\ Strictness[is.idempotency] <= Strictness[was.idempotency]
  BY <1>1, OperationOf DEF OperationFollows
<1>4. /\ is.idempotency = "required_idempotency_key" => was.idempotency = is.idempotency
      /\ was.idempotency = "not_required" => is.idempotency = "not_required"
  <2> HIDE DEF was, is
  <2> QED BY <1>3 DEF Strictness
<1>5. ASSUME NEW ref \in Referenced(old), NEW f
      PROVE  /\ old.schemas[ref].kind = "request" =>
                  Contents(ref, f, old, new) \subseteq Contents(ref, f, new, old)
             /\ old.schemas[ref].kind = "response" /\ f \in Fields(old.schemas[ref]) =>
                  Contents(ref, f, new, old) \subseteq Contents(ref, f, old, new)
  <2>1. /\ ref \in DOMAIN old.schemas /\ ref \in DOMAIN new.schemas
        /\ SchemaFollows(ref, old, new)
    BY ReferencesDefined DEF Follows
  <2>2. IsSchema(old.schemas[ref]) /\ IsSchema(new.schemas[ref])
    BY <2>1, SchemaOf
  <2> QED BY <2>1, <2>2, ContentsFollow
<1>6. /\ was.requestSchemaRef \in Referenced(old)
      /\ old.schemas[was.requestSchemaRef].kind = "request"
      /\ was.responseSchemaRef # "none" =>
           /\ was.responseSchemaRef \in Referenced(old)
           /\ old.schemas[was.responseSchemaRef].kind = "response"
  BY <1>2, ReferencedAre DEF IsOperation, HasSchema
<1>7. /\ Within(was.requestSchemaRef, old, new,
                Fields(old.schemas[was.requestSchemaRef])
                  \cup Fields(new.schemas[was.requestSchemaRef]))
      /\ was.responseSchemaRef # "none" =>
           Within(was.responseSchemaRef, new, old, Fields(old.schemas[was.responseSchemaRef]))
  <2> HIDE DEF was
  <2> QED BY <1>5, <1>6 DEF Within
<1>8. /\ \A f \in Identity : was[f] = is[f]
      /\ \A f \in Flags : is[f] => was[f]
      /\ was.successStatuses \subseteq is.successStatuses
      /\ is.errorCodes \subseteq was.errorCodes
  BY <1>1 DEF OperationFollows
<1>9. CallSurvives(id, old, new)
        <=> /\ \A f \in Identity : was[f] = is[f]
            /\ \A f \in Flags : is[f] => was[f]
            /\ is.idempotency = "required_idempotency_key" => was.idempotency = is.idempotency
            /\ was.idempotency = "not_required" => is.idempotency = "not_required"
            /\ was.successStatuses \subseteq is.successStatuses
            /\ is.errorCodes \subseteq was.errorCodes
            /\ Within(was.requestSchemaRef, old, new,
                      Fields(old.schemas[was.requestSchemaRef])
                        \cup Fields(new.schemas[was.requestSchemaRef]))
            /\ was.responseSchemaRef # "none" =>
                 Within(was.responseSchemaRef, new, old,
                        Fields(old.schemas[was.responseSchemaRef]))
  BY DEF CallSurvives
<1> HIDE DEF was, is
<1> QED BY <1>1, <1>4, <1>7, <1>8, <1>9

LEMMA SameInUseTransitive ==
  ASSUME NEW a, NEW b, NEW c, SameInUse(a, b), SameInUse(b, c)
  PROVE  SameInUse(a, c)
<1>1. Referenced(a) = Referenced(b)
  BY DEF SameInUse, Referenced
<1>2. c.operations = a.operations
  BY DEF SameInUse
<1>3. ASSUME NEW ref \in Referenced(a)
      PROVE  /\ c.schemas[ref] = a.schemas[ref]
             /\ ref \in DOMAIN a.runtimeSchemas =>
                  /\ ref \in DOMAIN c.runtimeSchemas
                  /\ c.runtimeSchemas[ref] = a.runtimeSchemas[ref]
  BY <1>1 DEF SameInUse
<1> QED BY <1>2, <1>3 DEF SameInUse

-----------------------------------------------------------------------------
(* Chains of releases *)

Known == UNION Families

\* Each release of the chain follows all earlier ones, not its neighbour alone.
ChainInv ==
  /\ chain \in Seq(Known) /\ Len(chain) > 0
  /\ \A p \in Earlier : Follows(chain[p[1]], chain[p[2]])

LEMMA KnownAreWellFormed == \A s \in Known : WellFormed(s)
BY FamiliesOK DEF Known

LEMMA ChainInitInv == ChainInit => ChainInv
<1> SUFFICES ASSUME ChainInit PROVE ChainInv
  OBVIOUS
<1>1. PICK s \in Known : chain = <<s>>
  BY DEF ChainInit, Known
<1>2. chain \in Seq(Known) /\ Len(chain) = 1 /\ DOMAIN chain = {1}
  BY <1>1
<1>3. Earlier = {}
  BY <1>2 DEF Earlier
<1> QED BY <1>2, <1>3 DEF ChainInv

\* A release that the gate lets follow the last one follows all: to follow is
\* transitive.
LEMMA ChainNextInv == ASSUME ChainInv, [Follow]_chain PROVE ChainInv'
<1>1. CASE UNCHANGED chain
  BY <1>1 DEF ChainInv, Earlier
<1>2. CASE Follow
  <2> DEFINE n == Len(chain)
             last == chain[n]
  <2>1. PICK s \in Known : Classification(last, s) # Breaking /\ chain' = Append(chain, s)
    BY <1>2 DEF Follow, Known
  <2>2. /\ n \in Nat \ {0} /\ DOMAIN chain = 1..n /\ chain' \in Seq(Known)
        /\ Len(chain') = n + 1 /\ DOMAIN chain' = 1..n + 1 /\ chain'[n + 1] = s
        /\ \A i \in 1..n : chain'[i] = chain[i] /\ chain[i] \in Known
    BY <2>1 DEF ChainInv
  <2> HIDE DEF n
  <2>3. \A i \in 1..n : WellFormed(chain[i])
    BY <2>2, KnownAreWellFormed
  <2>4. WellFormed(s) /\ WellFormed(last)
    BY <2>2, <2>3, KnownAreWellFormed
  <2>5. Follows(last, s)
    BY <2>1, <2>4, GateDecides
  <2>6. ASSUME NEW i \in 1..n + 1, NEW j \in 1..n + 1, i < j
        PROVE  Follows(chain'[i], chain'[j])
    <3>1. CASE j # n + 1
      <4>1. i \in 1..n /\ j \in 1..n
        BY <2>2, <2>6, <3>1
      <4>2. <<i, j>> \in Earlier
        BY <2>2, <2>6, <4>1 DEF Earlier
      <4>3. Follows(chain[i], chain[j])
        BY <4>2 DEF ChainInv
      <4> QED BY <2>2, <4>1, <4>3
    <3>2. CASE j = n + 1 /\ i = n
      BY <2>2, <2>5, <3>2
    <3>3. CASE j = n + 1 /\ i # n
      <4>1. i \in 1..n /\ n \in 1..n /\ i < n
        BY <2>2, <2>6, <3>3
      <4>2. <<i, n>> \in Earlier
        BY <2>2, <4>1 DEF Earlier
      <4>3. Follows(chain[i], last)
        BY <4>2 DEF ChainInv
      <4>4. Follows(chain[i], s)
        BY <2>3, <2>4, <2>5, <4>1, <4>3, FollowsIsTransitive
      <4> QED BY <2>2, <3>3, <4>1, <4>4
    <3> QED BY <2>6, <3>1, <3>2, <3>3
  <2>7. \A p \in Earlier' : Follows(chain'[p[1]], chain'[p[2]])
    BY <2>2, <2>6 DEF Earlier
  <2> QED BY <2>2, <2>7 DEF ChainInv
<1> QED BY <1>1, <1>2

\* In a chain of any length, over any surfaces of the parser, each release follows all
\* earlier ones.
THEOREM ChainsFollow == ChainSpec => []ChainInv
BY ChainInitInv, ChainNextInv, PTL DEF ChainSpec

LEMMA PairsOfChain ==
  ASSUME ChainInv, NEW p \in Earlier
  PROVE  /\ WellFormed(chain[p[1]]) /\ WellFormed(chain[p[2]])
         /\ Follows(chain[p[1]], chain[p[2]])
<1>1. p[1] \in DOMAIN chain /\ p[2] \in DOMAIN chain
  BY DEF Earlier
<1>2. chain[p[1]] \in Known /\ chain[p[2]] \in Known
  BY <1>1 DEF ChainInv
<1> QED BY <1>2, KnownAreWellFormed DEF ChainInv

\* A consumer of any release still works against every later one of the chain.
THEOREM ConsumersKeepWorking == ChainSpec => []ConsumersSurvive
<1>1. ChainInv => ConsumersSurvive
  BY PairsOfChain, ConsumersFollow DEF ConsumersSurvive
<1> QED BY <1>1, ChainsFollow, PTL

\* Changes that do not break add up to one that does not break.
THEOREM NoBreaksCompose == ChainSpec => []NoBreakAddsUp
<1>1. ChainInv => NoBreakAddsUp
  BY PairsOfChain, GateDecides DEF NoBreakAddsUp
<1> QED BY <1>1, ChainsFollow, PTL

\* Where the comparison finds nothing, what operations use is the same.
THEOREM NoneIsSame == ChainSpec => []NoneMeansSame
<1>1. ChainInv => NoneMeansSame
  BY PairsOfChain, GateDecides DEF NoneMeansSame
<1> QED BY <1>1, ChainsFollow, PTL
=============================================================================
