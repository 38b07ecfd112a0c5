--------------------------- MODULE GenerationPlan ----------------------------
(***************************************************************************)
(* The dry-run generation plan: the SDK's own contracts                    *)
(* (client-sdk-contracts/validator.ts), what the API contracts repository  *)
(* hands over (sdk-generation-plan/api-input.ts) and the checks between    *)
(* the two (sdk-generation-plan/plan.ts).  A check that reports            *)
(* diagnostics is a predicate here: a plan is made if all of them hold.    *)
(*                                                                         *)
(* "docs" is the record of the five contracts; each of them is a record of *)
(* lists, as sets of entries, and of strings.                              *)
(***************************************************************************)
CONSTANTS
  Required,         \* contract to list to the entries that must be in it
  Exact,            \* contract to string to its only value
  Supported,        \* the languages with a planned package
  ApiSources,       \* the source contracts the SDK handles
  ApiForbidden,     \* values the API must forbid
  RuntimeMetadata,  \* client runtime metadata the API must require
  Boundary          \* ownership the API forbids to the SDK's name for it

Statuses == {"skeleton", "draft", "reviewed"}

HasRequired(docs) ==
  \A d \in DOMAIN Required : \A l \in DOMAIN Required[d] : Required[d][l] \subseteq docs[d][l]

HasExact(docs) == \A d \in DOMAIN Exact : \A s \in DOMAIN Exact[d] : docs[d][s] = Exact[d][s]

HasStatus(docs) == \A d \in {"generation", "libs", "auth", "upload"} : docs[d].status \in Statuses

OwnershipDisjoint(docs) == \A d \in {"auth", "upload"} : docs[d].owns \cap docs[d].mustNotOwn = {}

\* validateClientSdkContracts
ContractsOk(docs) ==
  HasRequired(docs) /\ HasExact(docs) /\ HasStatus(docs) /\ OwnershipDisjoint(docs)

-----------------------------------------------------------------------------
\* What the API contracts repository holds at a revision:
\*   input    the generation input, without the list of source contracts
\*   listed   that list, in its order
\*   routes   the routes of the catalog
\*   schemas  schema contracts to the schemas of their bundles
\*   rules    values forbidden by the catalog, route, error and webhook contracts
\*   script   whether package.json has the export script
Sources(api) == {api.listed[i] : i \in DOMAIN api.listed}

\* readRouteOperation: a route that lacks metadata is no operation.
Operations(routes) == {r \in routes : r.complete}

\* The references of an operation; a bodyless response has none.
RefsOf(op) == {op.request} \cup op.response

\* buildApiExportPlanHandoff throws when two operations have one id.
AmbiguousOperations(ops) == \E o, p \in ops : o # p /\ o.id = p.id

\* loadSchemaModels: a schema is known by its contract and its id; one that lacks
\* metadata is skipped.
Ref(schema) == <<schema.contract, schema.id>>
Models(schemas) == {s \in schemas : s.complete}

\* Reading a bundle throws when it repeats a reference.
AmbiguousSchemas(models, more) ==
  \E s \in more : \E t \in models \cup more : (t \in models \/ s # t) /\ Ref(s) = Ref(t)

\* The handoff of the API: what loadApiExportPlanHandoff keeps for the plan.  Outputs,
\* trace fields, docs metadata, mutation policy and the two dry-run flags are fixed in
\* buildApiExportPlanHandoff to what the plan asks for.
Handoff(api) ==
  LET ops == Operations(api.routes)
  IN  [script |-> api.script,
       runtime |-> api.input.runtime,
       forbidden |-> api.input.forbidden \cup api.rules,
       operations |-> ops,
       ids |-> {op.id : op \in ops}]

-----------------------------------------------------------------------------
\* validatePlanInputs: every target has a planned package and a libs export.
TargetsCovered(docs) == docs.generation.targets \subseteq Supported \cap docs.libs.targets

Shared == {"targets", "route", "error", "runtime", "webhook"}

SameEntries(docs, input) == \A m \in Shared : docs.generation[m] = input[m]

\* validateForbiddenOwnershipHandoff
OwnershipHandedOver(docs, ownership) ==
  /\ ownership = DOMAIN Boundary
  /\ \A o \in ownership : Boundary[o] \in docs.generation.mustNotOwn

ForbiddenHandedOver(docs, input) ==
  ApiForbidden \subseteq input.forbidden /\ input.forbidden \subseteq docs.generation.forbidden

\* validateApiGenerationInput
InputOk(docs, api) ==
  /\ api.input.status \in Statuses
  /\ docs.generation.targets \subseteq api.input.allowed
  /\ SameEntries(docs, api.input)
  /\ Sources(api) = ApiSources
  /\ OwnershipHandedOver(docs, api.input.ownership)
  /\ ForbiddenHandedOver(docs, api.input)

\* validateTypedFetchOperationMap: keys and route catalog ids match.
OperationMapOk(handoff) ==
  /\ handoff.operations # {}
  /\ handoff.ids = {op.id : op \in handoff.operations}

\* Mutant: what the other API contracts forbid is not compared.
HandoffWithoutRules(docs, handoff) ==
  /\ handoff.script
  /\ RuntimeMetadata \cup docs.generation.runtime \subseteq handoff.runtime
  /\ OperationMapOk(handoff)

\* validateApiExportPlanHandoff
HandoffOk(docs, handoff) ==
  /\ handoff.script
  /\ handoff.forbidden \subseteq docs.generation.forbidden
  /\ RuntimeMetadata \cup docs.generation.runtime \subseteq handoff.runtime
  /\ OperationMapOk(handoff)

\* buildSdkGenerationPlan, as runSdkGenerationPlanCli calls it
PlanOk(docs, api) ==
  /\ ContractsOk(docs)
  /\ TargetsCovered(docs)
  /\ InputOk(docs, api)
  /\ HandoffOk(docs, Handoff(api))

\* createPlanTarget, for each target of the plan
PlanTargets(docs) ==
  {[language |-> t,
    shared |-> [m \in Shared \ {"targets"} |-> docs.generation[m]],
    forbidden |-> docs.generation.forbidden \cup docs.libs.forbidden] :
   t \in docs.generation.targets \cap Supported}
=============================================================================
