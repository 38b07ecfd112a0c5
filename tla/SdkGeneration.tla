--------------------------- MODULE SdkGeneration -----------------------------
(***************************************************************************)
(* The generated sources of the SDK.  A developer runs the sync scripts    *)
(* over a checkout of the API contracts repository, file by file, while    *)
(* that checkout may move to another revision and the script may be killed *)
(* in the middle; CI runs the whole check of package.json on what is       *)
(* committed, over the revision that its workflow names.                   *)
(***************************************************************************)
EXTENDS ApiClient

CONSTANTS
  Api,        \* revisions to what the API contracts repository holds there
  Configs,    \* contents of contracts/typescript-sdk-models.yaml: references to the
              \* types of fields and, at most, one inline object model
  Documents,  \* contents of the SDK's own contracts
  Torn,       \* what is left of a file whose writing was interrupted
  Requests,   \* what callers of a client may pass
  Answers,    \* what may be answered to it
  MaxEdits    \* bound on what the developer does

VARIABLES
  checkout,   \* the revision that ../zdp-api-contracts is at
  work,       \* the SDK's working tree
  job,        \* the sync script that is running, with what it has read
  verdict,    \* of CI on the working tree as it is, committed
  edits

vars == <<checkout, work, job, verdict, edits>>

Revisions == DOMAIN Api
Workflows == {"ci", "release"}
Idle == [script |-> "none"]

-----------------------------------------------------------------------------
\* renderApiOperations: the two constants of api-operations.ts.
OperationsFile(ops, models) == [operations |-> ops, models |-> models]

\* selectOperationSchemaModels, validateSchemaFieldCoverage: the schemas that
\* operations use are those that are typed, are handed over, have the typed fields and
\* differ in their ids.
Selects(ops, models, config) ==
  LET refs == UNION {RefsOf(op) : op \in ops}
      used == {s \in models : Ref(s) \in refs}
  IN  /\ DOMAIN config = refs
      /\ refs = {Ref(s) : s \in used}
      /\ \A s \in used : /\ s.required \cap s.optional = {}
                         /\ s.required \cup s.optional = DOMAIN config[Ref(s)].types
      /\ \A s, t \in used : s # t => s.id # t.id

Used(models, config) == {s \in models : Ref(s) \in DOMAIN config}

\* The schemas with a field that is an inline object model.
Inlined(models, config) == {s \in Used(models, config) : config[Ref(s)].inline # {}}

\* The inline object models: their properties come from the bundles read for them, from
\* the schema with the id of the model.
InlineModels(models, config, bundles) ==
  UNION {{[name |-> n, owner |-> Ref(s), properties |-> t.properties] :
            n \in config[Ref(s)].inline, t \in {t \in bundles[s.contract] : t.id = s.id}} :
         s \in Inlined(models, config)}

\* Mutant: inline models are not compared with one another.
InlineOkApart(models, config, inline) ==
  /\ {m.owner : m \in inline} = {Ref(s) : s \in Inlined(models, config)}
  /\ \A m \in inline : \A s \in Used(models, config) : m.name # s.id

\* loadInlineObjectModels: each has an object to describe and a name of its own.
InlineOk(models, config, inline) ==
  /\ {m.owner : m \in inline} = {Ref(s) : s \in Inlined(models, config)}
  /\ \A m \in inline :
       /\ m.properties # "unsupported"
       /\ \A s \in Used(models, config) : m.name # s.id
       /\ \A n \in inline : m # n => m.name # n.name

\* renderModelsSource: api-models.ts
ModelsFile(models, config, inline) ==
  [types |-> {[name |-> s.id, ref |-> Ref(s), required |-> s.required, optional |-> s.optional,
               fields |-> config[Ref(s)].types, inline |-> config[Ref(s)].inline] :
              s \in Used(models, config)},
   inline |-> inline]

\* renderRuntimeSource: api-model-runtime.ts
RuntimeFile(models, config) ==
  [r \in DOMAIN config |->
     [types |-> config[r].types,
      required |-> UNION {s.required : s \in {s \in models : Ref(s) = r}}]]

-----------------------------------------------------------------------------
\* What the scripts read when nothing moves.
ListedModels(api) == UNION {Models(api.schemas[c]) : c \in Sources(api)}

Readable(api) ==
  /\ ~AmbiguousOperations(Operations(api.routes))
  /\ \A s, t \in ListedModels(api) : s # t => Ref(s) # Ref(t)
  /\ \A i, j \in DOMAIN api.listed :
       i # j /\ api.listed[i] = api.listed[j] => Models(api.schemas[api.listed[i]]) = {}

InlineOf(api, config) == InlineModels(ListedModels(api), config, api.schemas)

\* sync-api-operations.ts --check
OperationsInSync(files, api) ==
  files.operations = OperationsFile(Operations(api.routes), ListedModels(api))

\* sync-typescript-api-models.ts --check
ModelsInSync(files, api) ==
  LET models == ListedModels(api)
      inline == InlineOf(api, files.config)
  IN  /\ Selects(Operations(api.routes), models, files.config)
      /\ InlineOk(models, files.config, inline)
      /\ files.models = ModelsFile(models, files.config, inline)
      /\ files.runtime = RuntimeFile(models, files.config)

\* Tests import api-operations.ts and create a client.
Loads(file) ==
  /\ file # Torn
  /\ Defines(file.operations, file.models)
  /\ Installs(file.operations)

\* Mutant: only ci.yml is compared with the lock.
LockOfCi(files) == files.refs["ci"] = files.lock

\* check-api-contracts-lock.ts
LockHolds(files) == \A w \in Workflows : files.refs[w] = files.lock

\* The check script of package.json, as a workflow runs it: ci.yml on a commit,
\* release.yml on a tag.
CheckPasses(files, workflow) ==
  LET api == Api[files.refs[workflow]]
  IN  /\ Loads(files.operations)
      /\ ContractsOk(files.docs)
      /\ LockHolds(files)
      /\ Readable(api)
      /\ OperationsInSync(files, api)
      /\ ModelsInSync(files, api)
      /\ PlanOk(files.docs, api)

-----------------------------------------------------------------------------
\* A working tree that pins r and whose generated files are those of r.
Synced(r, config, docs) ==
  LET models == ListedModels(Api[r])
  IN  [lock |-> r, refs |-> [w \in Workflows |-> r], config |-> config, docs |-> docs,
       operations |-> OperationsFile(Operations(Api[r].routes), models),
       models |-> ModelsFile(models, config, InlineOf(Api[r], config)),
       runtime |-> RuntimeFile(models, config)]

\* A commit that CI has passed.
Init ==
  /\ \E r \in Revisions, config \in Configs, docs \in Documents :
       /\ checkout = r
       /\ work = Synced(r, config, docs)
       /\ CheckPasses(work, "ci")
  /\ job = Idle
  /\ verdict = "passed"
  /\ edits = 0

Counted == edits < MaxEdits /\ edits' = edits + 1

\* The API contracts checkout is moved to another revision, under a running script or not.
Move(r) ==
  /\ Counted
  /\ checkout # r /\ checkout' = r
  /\ UNCHANGED <<work, job, verdict>>

\* The developer edits the files that are not generated.
Edit(files) ==
  /\ Counted
  /\ work' = files
  /\ verdict' = "none"
  /\ UNCHANGED <<checkout, job>>

\* The lock and the two workflows each name a revision.
EditPins(r, lock, workflows) ==
  Edit([work EXCEPT !.lock = IF lock THEN r ELSE @,
                    !.refs = [w \in Workflows |-> IF w \in workflows THEN r ELSE @[w]]])
EditConfig(config) == Edit([work EXCEPT !.config = config])
EditDocuments(docs) == Edit([work EXCEPT !.docs = docs])

Start(script) ==
  /\ job = Idle
  /\ Counted
  /\ job' = [script |-> script, stage |-> "input"]
  /\ UNCHANGED <<checkout, work, verdict>>

At(script, stage) == job.script = script /\ job.stage = stage
Becomes(j) == job' = j /\ UNCHANGED <<checkout, work, verdict, edits>>
Throw == Becomes(Idle)

Scripts == {"operations", "models"}

\* loadApiSdkGenerationInput
ReadInput ==
  \E script \in Scripts :
    /\ At(script, "input")
    /\ Becomes([script |-> script, stage |-> "catalog", todo |-> Api[checkout].listed])

\* buildApiExportPlanHandoff: the catalog
ReadCatalog ==
  \E script \in Scripts :
    /\ At(script, "catalog")
    /\ LET ops == Operations(Api[checkout].routes)
       IN  IF AmbiguousOperations(ops)
           THEN Throw
           ELSE Becomes([script |-> script, stage |-> "bundles", todo |-> job.todo,
                         operations |-> ops, models |-> {}])

\* loadSchemaModels: one bundle
ReadBundle ==
  \E script \in Scripts :
    /\ At(script, "bundles") /\ job.todo # <<>>
    /\ LET more == Models(Api[checkout].schemas[Head(job.todo)])
       IN  IF AmbiguousSchemas(job.models, more)
           THEN Throw
           ELSE Becomes([job EXCEPT !.todo = Tail(@), !.models = @ \cup more])

\* The end of a sync script: only files that change are written.
WriteOrEnd(output) ==
  LET changed == {f \in DOMAIN output : work[f] # output[f]}
  IN  IF changed = {}
      THEN Throw
      ELSE Becomes([script |-> job.script, stage |-> "write", pending |-> changed,
                    output |-> output])

\* replaceConstInitializer: the old file must have both constants.
RenderOperations ==
  /\ At("operations", "bundles") /\ job.todo = <<>>
  /\ IF work.operations = Torn
     THEN Throw
     ELSE WriteOrEnd([operations |-> OperationsFile(job.operations, job.models)])

\* loadSchemaFieldTypes and selectOperationSchemaModels
SelectModels ==
  /\ At("models", "bundles") /\ job.todo = <<>>
  /\ IF Selects(job.operations, job.models, work.config)
     THEN Becomes([script |-> "models", stage |-> "inline", config |-> work.config,
                   models |-> Used(job.models, work.config), bundles |-> [c \in {} |-> {}]])
     ELSE Throw

Unread == {s.contract : s \in Inlined(job.models, job.config)} \ DOMAIN job.bundles

\* loadInlineObjectModels reads the bundle of a model again, once.
ReadInline ==
  /\ At("models", "inline")
  /\ \E c \in Unread :
       Becomes([job EXCEPT !.bundles = [d \in DOMAIN @ \cup {c} |->
                                          IF d = c THEN Api[checkout].schemas[c] ELSE @[d]]])

RenderModels ==
  /\ At("models", "inline") /\ Unread = {}
  /\ LET inline == InlineModels(job.models, job.config, job.bundles)
     IN  IF InlineOk(job.models, job.config, inline)
         THEN WriteOrEnd([models |-> ModelsFile(job.models, job.config, inline),
                          runtime |-> RuntimeFile(job.models, job.config)])
         ELSE Throw

\* Promise.all over writeFile: in any order.
Write ==
  /\ job # Idle /\ job.stage = "write"
  /\ \E f \in job.pending :
       /\ work' = [work EXCEPT ![f] = job.output[f]]
       /\ job' = IF job.pending = {f} THEN Idle ELSE [job EXCEPT !.pending = @ \ {f}]
  /\ verdict' = "none"
  /\ UNCHANGED <<checkout, edits>>

\* The script is killed; files it was writing may be cut short.
Kill ==
  /\ job # Idle
  /\ \E torn \in SUBSET IF job.stage = "write" THEN job.pending ELSE {} :
       /\ work' = [f \in DOMAIN work |-> IF f \in torn THEN Torn ELSE work[f]]
       /\ verdict' = IF torn = {} THEN verdict ELSE "none"
  /\ job' = Idle
  /\ UNCHANGED <<checkout, edits>>

\* The working tree is committed and CI checks it.
Commit ==
  /\ job = Idle /\ verdict = "none"
  /\ verdict' = IF CheckPasses(work, "ci") THEN "passed" ELSE "failed"
  /\ UNCHANGED <<checkout, work, job, edits>>

Next ==
  \/ \E r \in Revisions : Move(r)
  \/ \E r \in Revisions, lock \in BOOLEAN, ws \in SUBSET Workflows : EditPins(r, lock, ws)
  \/ \E config \in Configs : EditConfig(config)
  \/ \E docs \in Documents : EditDocuments(docs)
  \/ \E script \in Scripts : Start(script)
  \/ ReadInput \/ ReadCatalog \/ ReadBundle
  \/ RenderOperations \/ SelectModels \/ ReadInline \/ RenderModels
  \/ Write \/ Kill \/ Commit

Spec == Init /\ [][Next]_vars

-----------------------------------------------------------------------------
\* However the syncs that wrote them were torn, killed or left out: in a commit that CI
\* passed, each operation is one of the pinned revision, the types and the runtime
\* descriptor of its schemas have the fields that this revision declares, inline models
\* its properties, and the release workflow will pass the commit as well
\* (README.md:109: CI and release use the revision of contracts/api-contracts.lock.json).
GreenIsPinned ==
  verdict = "passed" =>
    LET api == Api[work.lock]
    IN  /\ CheckPasses(work, "release")
        /\ \A op \in work.operations.operations :
             /\ op \in api.routes
             /\ \A r \in RefsOf(op) :
                  \E c \in Sources(api) : \E s \in api.schemas[c] :
                    /\ Ref(s) = r
                    /\ s \in work.operations.models
                    /\ work.runtime[r].required = s.required
                    /\ \E t \in work.models.types :
                         t.ref = r /\ t.required = s.required /\ t.optional = s.optional
        /\ \A m \in work.models.inline :
             \E s \in api.schemas[m.owner[1]] :
               s.id = m.owner[2] /\ s.properties = m.properties

\* A model file on disk never declares two interfaces of one name, which TypeScript would
\* merge, even if its inline models were read from another revision than the rest
\* (schemaIds and modelNames of sync-typescript-api-models.ts).
NamesAreUnique ==
  work.models # Torn =>
    LET declared == {<<t.name, t.ref>> : t \in work.models.types}
                      \cup {<<m.name, m>> : m \in work.models.inline}
    IN  \A d, e \in declared : d[1] = e[1] => d = e

\* Where CI passed, the planned target of each language forbids what any contract of the
\* pinned revision forbids, owns nothing the API keeps from it, carries exactly the
\* metadata the API requires, and is allowed by the API and exported by the libs
\* (RUNBOOK.md: one API source and one set of metadata for all targets).
PlanKeepsLimits ==
  verdict = "passed" =>
    LET api == Api[work.lock]
    IN  /\ \A t \in PlanTargets(work.docs) :
             /\ api.input.forbidden \cup api.rules \subseteq t.forbidden
             /\ \A m \in DOMAIN t.shared : t.shared[m] = api.input[m]
             /\ t.language \in api.input.allowed \cap work.docs.libs.targets
        /\ \A o \in api.input.ownership :
             o \in DOMAIN Boundary /\ Boundary[o] \in work.docs.generation.mustNotOwn

-----------------------------------------------------------------------------
\* A request that op admits, by the pinned schema s and the types of its fields, and
\* that a URL can carry.
Admitted(op, s, types, request) ==
  /\ DOMAIN request \subseteq s.required \cup s.optional \cup op.params
  /\ s.required \cup op.params \subseteq DOMAIN request
  /\ \A f \in DOMAIN request \cap DOMAIN types : request[f] \in OfType[types[f]]
  /\ \A f \in op.params : request[f] = "text" /\ f \notin s.secret
  /\ op.method = "GET" =>
       \A f \in DOMAIN request \ op.params : request[f] # "object" /\ f \notin s.secret

\* In a commit that CI passed, whichever syncs wrote the files that the two checks of a
\* request read: an operation is alone under its names; a client sends every request that
\* the pinned revision admits, with every field in one place and as it was given, except
\* those a URL has no form for; and nothing it sends has a field that this revision does
\* not declare, lacks one that it requires, or has one of its secrets in the URL
\* (createZdpClient, src/typed-fetch/api-client.ts).
RequestsArrive ==
  verdict = "passed" =>
    \A op \in work.operations.operations, s \in ListedModels(Api[work.lock]), request \in Requests :
      Ref(s) = op.request =>
        LET sent == Sends(work, op, request)
            types == work.config[op.request].types
            dropped == {f \in DOMAIN request : op.method = "GET" /\ request[f] \in {"null", "none"}}
            carried(m) == InUrl(m) \cup InBody(m)
        IN  /\ Found(work.operations.operations, op.names) \subseteq {op}
            /\ \A m \in sent :
                 /\ s.required \ dropped \subseteq carried(m)
                 /\ carried(m) \subseteq s.required \cup s.optional \cup op.params
                 /\ s.secret \cap InUrl(m) = {}
                 /\ InUrl(m) \cap InBody(m) = {} /\ DOMAIN m.path \cap DOMAIN m.query = {}
                 /\ \A part \in {m.path, m.query} \cup m.body :
                      \A f \in DOMAIN part : part[f] = request[f]
            /\ Admitted(op, s, types, request) =>
                 \E m \in sent : DOMAIN request \ dropped = carried(m)

\* There, a call returns just the answers that have what the pinned revision requires,
\* each field of its type: none because of a field that was added to the API since.
AnswersAreTyped ==
  verdict = "passed" =>
    \A op \in work.operations.operations, answer \in Answers :
      Returns(work, op, answer) <=>
        /\ answer = {} <=> op.response = {}
        /\ \A r \in op.response, a \in answer, s \in ListedModels(Api[work.lock]) :
             Ref(s) = r =>
               /\ s.required \subseteq DOMAIN a
               /\ \A f \in DOMAIN a \cap (s.required \cup s.optional) :
                    a[f] \in OfType[work.config[r].types[f]]
=============================================================================
