------------------------ MODULE SdkGenerationProofs --------------------------
(***************************************************************************)
(* What CI's verdict says of the generated sources, and that no sync       *)
(* script ever writes an ambiguous model file, for all revisions, types    *)
(* and documents and for any number of edits.                              *)
(***************************************************************************)
EXTENDS SdkGeneration, TLAPS

\* The verdict of CI is about the working tree as it is.
VerdictHolds ==
  /\ work = [f \in DOMAIN work |-> work[f]]
  /\ verdict = "passed" => CheckPasses(work, "ci")

LEMMA VerdictInit == Init => VerdictHolds
BY DEF Init, VerdictHolds, Synced

LEMMA VerdictNext == VerdictHolds /\ [Next]_vars => VerdictHolds'
<1> SUFFICES ASSUME VerdictHolds, [Next]_vars PROVE VerdictHolds'
  OBVIOUS
<1> USE DEF VerdictHolds
<1>1. ASSUME UNCHANGED <<work, verdict>> PROVE VerdictHolds'
  BY <1>1
<1>2. ASSUME NEW files, Edit(files), files = [f \in DOMAIN files |-> files[f]]
      PROVE  VerdictHolds'
  BY <1>2 DEF Edit
<1>3. ASSUME NEW r, NEW lock, NEW ws, EditPins(r, lock, ws) PROVE VerdictHolds'
  BY <1>2, <1>3 DEF EditPins
<1>4. ASSUME NEW config, EditConfig(config) PROVE VerdictHolds'
  BY <1>2, <1>4 DEF EditConfig
<1>5. ASSUME NEW docs, EditDocuments(docs) PROVE VerdictHolds'
  BY <1>2, <1>5 DEF EditDocuments
<1>6. CASE Write
  BY <1>6 DEF Write
<1>7. CASE Kill
  <2>1. PICK torn \in SUBSET IF job.stage = "write" THEN job.pending ELSE {} :
          /\ work' = [f \in DOMAIN work |-> IF f \in torn THEN Torn ELSE work[f]]
          /\ verdict' = IF torn = {} THEN verdict ELSE "none"
    BY <1>7 DEF Kill
  <2>2. CASE torn = {}
    BY <2>1, <2>2
  <2>3. CASE torn # {}
    BY <2>1, <2>3
  <2> QED
    BY <2>2, <2>3
<1>8. CASE Commit
  BY <1>8 DEF Commit
<1>9. ASSUME NEW j, Becomes(j) PROVE VerdictHolds'
  BY <1>1, <1>9 DEF Becomes
<1>10. CASE UNCHANGED vars
  BY <1>1, <1>10 DEF vars
<1>11. CASE \E r \in Revisions : Move(r)
  BY <1>1, <1>11 DEF Move
<1>12. CASE \E script \in Scripts : Start(script)
  BY <1>1, <1>12 DEF Start
<1>13. CASE ReadInput \/ ReadCatalog \/ ReadBundle
  BY <1>9, <1>13 DEF ReadInput, ReadCatalog, ReadBundle, Throw
<1>14. CASE RenderOperations \/ SelectModels \/ ReadInline \/ RenderModels
  BY <1>9, <1>14 DEF RenderOperations, SelectModels, ReadInline, RenderModels, WriteOrEnd, Throw
<1> QED
  BY <1>3, <1>4, <1>5, <1>6, <1>7, <1>8, <1>10, <1>11, <1>12, <1>13, <1>14 DEF Next

LEMMA VerdictInvariant == Spec => []VerdictHolds
BY VerdictInit, VerdictNext, PTL DEF Spec

-----------------------------------------------------------------------------
\* A commit that CI passed pins one revision everywhere.
LEMMA OnePin ==
  ASSUME VerdictHolds, verdict = "passed"
  PROVE  /\ work.refs["ci"] = work.lock
         /\ work.refs["release"] = work.lock
BY DEF VerdictHolds, CheckPasses, LockHolds, Workflows

LEMMA PinnedSchema ==
  ASSUME NEW files, NEW api, Readable(api), OperationsInSync(files, api),
         ModelsInSync(files, api),
         NEW op \in files.operations.operations, NEW r \in RefsOf(op)
  PROVE  \E c \in Sources(api) : \E s \in api.schemas[c] :
           /\ Ref(s) = r
           /\ s \in files.operations.models
           /\ files.runtime[r].required = s.required
           /\ \E t \in files.models.types :
                t.ref = r /\ t.required = s.required /\ t.optional = s.optional
<1> DEFINE models == ListedModels(api)
           ops == Operations(api.routes)
           inline == InlineOf(api, files.config)
<1>1. /\ files.operations.operations = ops
      /\ files.operations.models = models
  BY DEF OperationsInSync, OperationsFile
<1>2. Selects(ops, models, files.config)
  BY DEF ModelsInSync
<1>3. r \in DOMAIN files.config /\ r \in {Ref(s) : s \in models}
  BY <1>1, <1>2 DEF Selects
<1>4. PICK s \in models : Ref(s) = r
  BY <1>3
<1>5. PICK c \in Sources(api) : s \in api.schemas[c]
  BY <1>4 DEF ListedModels, Models
<1>6. files.runtime[r].required = UNION {t.required : t \in {t \in models : Ref(t) = r}}
  BY <1>3 DEF ModelsInSync, RuntimeFile
<1>7. {t \in models : Ref(t) = r} = {s}
  BY <1>4 DEF Readable
<1>8. files.runtime[r].required = s.required
  BY <1>6, <1>7
<1>9. s \in Used(models, files.config)
  BY <1>3, <1>4 DEF Used
<1>10. files.models = ModelsFile(models, files.config, inline)
  BY DEF ModelsInSync
<1>11. \E t \in files.models.types :
          t.ref = r /\ t.required = s.required /\ t.optional = s.optional
  <2> DEFINE t == [name |-> s.id, ref |-> Ref(s), required |-> s.required,
                   optional |-> s.optional, fields |-> files.config[Ref(s)].types,
                   inline |-> files.config[Ref(s)].inline]
  <2>1. files.models.types =
          {[name |-> u.id, ref |-> Ref(u), required |-> u.required, optional |-> u.optional,
            fields |-> files.config[Ref(u)].types, inline |-> files.config[Ref(u)].inline] :
             u \in Used(models, files.config)}
    BY <1>10 DEF ModelsFile
  <2>2. t \in files.models.types
    BY <1>9, <2>1
  <2>3. t.ref = r /\ t.required = s.required /\ t.optional = s.optional
    BY <1>4
  <2> QED
    BY <2>2, <2>3
<1> QED
  BY <1>1, <1>4, <1>5, <1>8, <1>11

LEMMA PinnedInline ==
  ASSUME NEW files, NEW api, ModelsInSync(files, api), NEW m \in files.models.inline
  PROVE  \E s \in api.schemas[m.owner[1]] :
           s.id = m.owner[2] /\ s.properties = m.properties
<1>1. m \in InlineModels(ListedModels(api), files.config, api.schemas)
  BY DEF ModelsInSync, ModelsFile, InlineOf
<1>2. PICK s \in Inlined(ListedModels(api), files.config) :
        m \in {[name |-> n, owner |-> Ref(s), properties |-> t.properties] :
                 n \in files.config[Ref(s)].inline,
                 t \in {t \in api.schemas[s.contract] : t.id = s.id}}
  BY <1>1 DEF InlineModels
<1>3. PICK t \in api.schemas[s.contract] :
        t.id = s.id /\ m.owner = Ref(s) /\ m.properties = t.properties
  BY <1>2
<1> QED
  BY <1>3 DEF Ref

LEMMA VerdictIsPinned == VerdictHolds => GreenIsPinned
<1> SUFFICES ASSUME VerdictHolds, verdict = "passed"
             PROVE  GreenIsPinned
  BY DEF GreenIsPinned
<1> DEFINE api == Api[work.lock]
<1>1. CheckPasses(work, "ci")
  BY DEF VerdictHolds
<1>2. /\ Readable(api) /\ OperationsInSync(work, api) /\ ModelsInSync(work, api)
  BY <1>1, OnePin DEF CheckPasses
<1>3. CheckPasses(work, "release")
  BY <1>1, OnePin DEF CheckPasses
<1>4. \A op \in work.operations.operations : op \in api.routes
  BY <1>2 DEF OperationsInSync, OperationsFile, Operations
<1>5. \A op \in work.operations.operations : \A r \in RefsOf(op) :
        \E c \in Sources(api) : \E s \in api.schemas[c] :
          /\ Ref(s) = r
          /\ s \in work.operations.models
          /\ work.runtime[r].required = s.required
          /\ \E t \in work.models.types :
               t.ref = r /\ t.required = s.required /\ t.optional = s.optional
  BY <1>2, PinnedSchema
<1>6. \A m \in work.models.inline :
        \E s \in api.schemas[m.owner[1]] : s.id = m.owner[2] /\ s.properties = m.properties
  BY <1>2, PinnedInline
<1> QED
  BY <1>3, <1>4, <1>5, <1>6 DEF GreenIsPinned

\* CI's verdict is worth what it says, however the syncs were torn or killed: the
\* generated sources of a commit that it passed are those of the pinned revision.
THEOREM GreenPinned == Spec => []GreenIsPinned
BY VerdictInvariant, VerdictIsPinned, PTL

LEMMA VerdictKeepsLimits == VerdictHolds => PlanKeepsLimits
<1> SUFFICES ASSUME VerdictHolds, verdict = "passed"
             PROVE  PlanKeepsLimits
  BY DEF PlanKeepsLimits
<1> DEFINE api == Api[work.lock]
<1>1. PlanOk(work.docs, api)
  BY OnePin DEF VerdictHolds, CheckPasses
<1>2. /\ TargetsCovered(work.docs)
      /\ work.docs.generation.targets \subseteq api.input.allowed
      /\ SameEntries(work.docs, api.input)
      /\ OwnershipHandedOver(work.docs, api.input.ownership)
      /\ api.input.forbidden \cup api.rules \subseteq work.docs.generation.forbidden
  BY <1>1 DEF PlanOk, InputOk, HandoffOk, Handoff
<1>3. ASSUME NEW t \in PlanTargets(work.docs)
      PROVE  /\ api.input.forbidden \cup api.rules \subseteq t.forbidden
             /\ \A m \in DOMAIN t.shared : t.shared[m] = api.input[m]
             /\ t.language \in api.input.allowed \cap work.docs.libs.targets
  <2>1. PICK l \in work.docs.generation.targets \cap Supported :
          t = [language |-> l,
               shared |-> [m \in Shared \ {"targets"} |-> work.docs.generation[m]],
               forbidden |-> work.docs.generation.forbidden \cup work.docs.libs.forbidden]
    BY <1>3 DEF PlanTargets
  <2>2. api.input.forbidden \cup api.rules \subseteq t.forbidden
    BY <1>2, <2>1
  <2>3. \A m \in DOMAIN t.shared : t.shared[m] = api.input[m]
    BY <1>2, <2>1 DEF SameEntries
  <2>4. t.language \in api.input.allowed \cap work.docs.libs.targets
    BY <1>2, <2>1 DEF TargetsCovered
  <2> QED
    BY <2>2, <2>3, <2>4
<1>4. \A o \in api.input.ownership :
        o \in DOMAIN Boundary /\ Boundary[o] \in work.docs.generation.mustNotOwn
  BY <1>2 DEF OwnershipHandedOver
<1> QED
  BY <1>3, <1>4 DEF PlanKeepsLimits

\* A plan that CI accepted never falls behind what the pinned API contracts forbid,
\* require or allow.
THEOREM LimitsKept == Spec => []PlanKeepsLimits
BY VerdictInvariant, VerdictKeepsLimits, PTL

-----------------------------------------------------------------------------
\* What a client reads in files that are in sync.
LEMMA PinnedDescriptor ==
  ASSUME NEW files, NEW api, Readable(api), OperationsInSync(files, api),
         ModelsInSync(files, api),
         NEW op \in files.operations.operations, NEW s \in ListedModels(api),
         Ref(s) \in RefsOf(op)
  PROVE  /\ files.operations.models = ListedModels(api)
         /\ \A t \in ListedModels(api) : Ref(t) = Ref(s) => t = s
         /\ files.runtime[Ref(s)].types = files.config[Ref(s)].types
         /\ files.runtime[Ref(s)].required = s.required
         /\ DOMAIN files.config[Ref(s)].types = s.required \cup s.optional
<1> DEFINE models == ListedModels(api)
           ops == Operations(api.routes)
           r == Ref(s)
<1>1. /\ files.operations.operations = ops
      /\ files.operations.models = models
  BY DEF OperationsInSync, OperationsFile
<1>2. Selects(ops, models, files.config)
  BY DEF ModelsInSync
<1>3. r \in DOMAIN files.config
  BY <1>1, <1>2 DEF Selects
<1>4. \A t \in models : Ref(t) = r => t = s
  BY DEF Readable
<1>5. UNION {t.required : t \in {t \in models : Ref(t) = r}} = s.required
  <2>1. {t \in models : Ref(t) = r} = {s}
    BY <1>4
  <2> QED
    BY <2>1
<1>6. files.runtime[r].types = files.config[r].types /\ files.runtime[r].required = s.required
  <2>1. files.runtime[r] =
          [types |-> files.config[r].types,
           required |-> UNION {t.required : t \in {t \in models : Ref(t) = r}}]
    BY <1>3 DEF ModelsInSync, RuntimeFile
  <2> QED
    BY <2>1, <1>5
<1>7. DOMAIN files.config[r].types = s.required \cup s.optional
  BY <1>1, <1>2 DEF Selects
<1> QED
  BY <1>1, <1>4, <1>6, <1>7

\* What is in a part of a request is as it was given.
Agrees(part, given) == \A f \in DOMAIN part : part[f] = given[f]

\* How the parts of an encoded request divide the fields given.
LEMMA EncodedParts ==
  ASSUME NEW op, NEW given
  PROVE  /\ DOMAIN Encoded(op, given).path = op.params \cap DOMAIN given
         /\ Agrees(Encoded(op, given).path, given)
         /\ DOMAIN Encoded(op, given).query =
              IF op.method = "GET" THEN DOMAIN given \ op.params ELSE {}
         /\ Agrees(Encoded(op, given).query, given)
         /\ InBody(Encoded(op, given)) =
              IF op.method = "GET" THEN {} ELSE DOMAIN given \ op.params
         /\ \A b \in Encoded(op, given).body : Agrees(b, given)
<1> DEFINE payload == Part(given, DOMAIN given \ op.params)
<1>1. /\ DOMAIN payload = DOMAIN given \ op.params
      /\ Agrees(payload, given)
  BY DEF Part, Agrees
<1>2. /\ DOMAIN Part(given, op.params) = op.params \cap DOMAIN given
      /\ Agrees(Part(given, op.params), given)
  BY DEF Part, Agrees
<1>3. DOMAIN Nothing = {} /\ Agrees(Nothing, given)
  BY DEF Nothing, Agrees
<1> HIDE DEF payload
<1>4. Encoded(op, given) =
        [path |-> Part(given, op.params),
         query |-> IF op.method = "GET" THEN payload ELSE Nothing,
         body |-> IF op.method = "GET" \/ (op.method # "POST" /\ payload = Nothing)
                  THEN {} ELSE {payload}]
  BY DEF Encoded, payload
<1>5. InBody(Encoded(op, given)) = IF op.method = "GET" THEN {} ELSE DOMAIN payload
  <2>1. CASE op.method = "GET" \/ (op.method # "POST" /\ payload = Nothing)
    <3>1. Encoded(op, given).body = {}
      BY <1>4, <2>1
    <3> QED
      BY <1>3, <2>1, <3>1 DEF InBody
  <2>2. CASE ~(op.method = "GET" \/ (op.method # "POST" /\ payload = Nothing))
    <3>1. Encoded(op, given).body = {payload}
      BY <1>4, <2>2
    <3> QED
      BY <2>2, <3>1 DEF InBody
  <2> QED
    BY <2>1, <2>2
<1>6. \A b \in Encoded(op, given).body : b = payload
  BY <1>4
<1> QED
  BY <1>1, <1>2, <1>3, <1>4, <1>5, <1>6

\* What is sent for a request where the checks read one schema.
LEMMA PlacedParts ==
  ASSUME NEW op, NEW given
  PROVE  /\ Placed(Encoded(op, given)).path = Encoded(op, given).path
         /\ Placed(Encoded(op, given)).body = Encoded(op, given).body
         /\ DOMAIN Placed(Encoded(op, given)).query =
              {f \in DOMAIN Encoded(op, given).query : given[f] \notin {"null", "none"}}
         /\ Agrees(Placed(Encoded(op, given)).query, given)
         /\ InBody(Placed(Encoded(op, given))) = InBody(Encoded(op, given))
<1> DEFINE query == Encoded(op, given).query
<1>1. Agrees(query, given)
  BY EncodedParts
<1>2. /\ DOMAIN Traced(query) = {f \in DOMAIN query : query[f] \notin {"null", "none"}}
      /\ Agrees(Traced(query), query)
  BY DEF Traced, Part, Agrees
<1> HIDE DEF query
<1>3. /\ DOMAIN Traced(query) = {f \in DOMAIN query : given[f] \notin {"null", "none"}}
      /\ Agrees(Traced(query), given)
  BY <1>1, <1>2 DEF Agrees
<1> QED
  BY <1>3 DEF Placed, InBody, query

\* The schema and the types that a client reads for the requests of an operation.
Reads(files, op, s, types) ==
  /\ s \in files.operations.models
  /\ Ref(s) = op.request
  /\ \A t \in files.operations.models : Ref(t) = op.request => t = s
  /\ files.runtime[op.request].types = types
  /\ files.runtime[op.request].required = s.required
  /\ DOMAIN types = s.required \cup s.optional

\* The parts of RequestsArrive.
Dropped(op, request) ==
  {f \in DOMAIN request : op.method = "GET" /\ request[f] \in {"null", "none"}}

Faithful(m, s, op, request) ==
  /\ s.required \ Dropped(op, request) \subseteq InUrl(m) \cup InBody(m)
  /\ InUrl(m) \cup InBody(m) \subseteq s.required \cup s.optional \cup op.params
  /\ s.secret \cap InUrl(m) = {}
  /\ InUrl(m) \cap InBody(m) = {} /\ DOMAIN m.path \cap DOMAIN m.query = {}
  /\ \A part \in {m.path, m.query} \cup m.body :
       \A f \in DOMAIN part : part[f] = request[f]

Whole(m, op, request) == DOMAIN request \ Dropped(op, request) = InUrl(m) \cup InBody(m)

LEMMA CallArrives ==
  ASSUME NEW files, NEW op, NEW s, NEW types, Reads(files, op, s, types), NEW request,
         NEW m \in Sends(files, op, request)
  PROVE  Faithful(m, s, op, request)
<1> USE DEF Reads
<1> DEFINE dropped == Dropped(op, request)
<1> DEFINE given == Given(s, op, request)
           e == Encoded(op, given)
<1>1. /\ RequestOk(files.runtime[op.request], op, given)
      /\ EncodedOk(s, e)
      /\ m = Placed(e)
  BY DEF Sends
<1>2. given = request \/ DOMAIN given = {}
  BY DEF Given, Nothing
<1>3. DOMAIN given \subseteq s.required \cup s.optional \cup op.params
  BY <1>1 DEF RequestOk
<1>4. s.required \subseteq InUrl(e) \cup InBody(e) /\ s.secret \cap InUrl(e) = {}
  BY <1>1 DEF EncodedOk
<1> HIDE DEF given
<1>5. /\ m.path = e.path /\ m.body = e.body
      /\ DOMAIN m.query = {f \in DOMAIN e.query : given[f] \notin {"null", "none"}}
      /\ Agrees(m.query, given)
      /\ InBody(m) = InBody(e)
  BY <1>1, PlacedParts
<1>6. /\ DOMAIN e.path = op.params \cap DOMAIN given
      /\ Agrees(e.path, given)
      /\ DOMAIN e.query = IF op.method = "GET" THEN DOMAIN given \ op.params ELSE {}
      /\ InBody(e) = IF op.method = "GET" THEN {} ELSE DOMAIN given \ op.params
      /\ \A b \in e.body : Agrees(b, given)
  BY EncodedParts
<1>7. \A b \in e.body : DOMAIN b \subseteq InBody(e)
  BY DEF InBody
<1> HIDE DEF e
<1>8. s.required \ dropped \subseteq InUrl(m) \cup InBody(m)
  <2> SUFFICES ASSUME NEW f \in s.required, f \notin dropped
               PROVE  f \in InUrl(m) \cup InBody(m)
    OBVIOUS
  <2>1. CASE f \in InBody(e) \cup DOMAIN e.path
    BY <2>1, <1>5 DEF InUrl
  <2>2. CASE f \in DOMAIN e.query
    <3>1. op.method = "GET" /\ f \in DOMAIN given
      BY <2>2, <1>6
    <3>2. given = request
      BY <3>1, <1>2
    <3>3. given[f] \notin {"null", "none"}
      BY <3>1, <3>2 DEF Dropped
    <3> QED
      BY <2>2, <3>3, <1>5 DEF InUrl
  <2> QED
    BY <2>1, <2>2, <1>4 DEF InUrl
<1>9. InUrl(m) \cup InBody(m) \subseteq s.required \cup s.optional \cup op.params
  BY <1>3, <1>5, <1>6 DEF InUrl
<1>10. s.secret \cap InUrl(m) = {}
  BY <1>4, <1>5 DEF InUrl
<1>11. InUrl(m) \cap InBody(m) = {} /\ DOMAIN m.path \cap DOMAIN m.query = {}
  BY <1>5, <1>6 DEF InUrl
<1>12. ASSUME NEW part \in {m.path, m.query} \cup m.body, NEW f \in DOMAIN part
       PROVE  part[f] = request[f]
  <2>1. part[f] = given[f] /\ f \in DOMAIN given
    BY <1>12, <1>5, <1>6, <1>7 DEF Agrees
  <2> QED
    BY <2>1, <1>2
<1> QED
  BY <1>8, <1>9, <1>10, <1>11, <1>12 DEF Faithful

LEMMA AdmittedIsSent ==
  ASSUME NEW files, NEW op, NEW s, NEW types, Reads(files, op, s, types), NEW request,
         Admitted(op, s, types, request)
  PROVE  \E m \in Sends(files, op, request) : Whole(m, op, request)
<1> DEFINE dropped == Dropped(op, request)
           given == Given(s, op, request)
           e == Encoded(op, given)
           m == Placed(e)
<1>0. /\ DOMAIN e.path = op.params \cap DOMAIN given
      /\ Agrees(e.path, given)
      /\ DOMAIN e.query = IF op.method = "GET" THEN DOMAIN given \ op.params ELSE {}
      /\ InBody(e) = IF op.method = "GET" THEN {} ELSE DOMAIN given \ op.params
  <2> HIDE DEF given
  <2> QED
    BY EncodedParts
<1> USE DEF Reads, Admitted
<1>1. /\ DOMAIN given = DOMAIN request
      /\ \A f \in DOMAIN request : given[f] = request[f]
  BY DEF Given, Nothing
<1> HIDE DEF given
<1>2. RequestOk(files.runtime[op.request], op, given)
  BY <1>1 DEF RequestOk, FieldsOk
<1>3. Encodable(op, given)
  BY <1>1 DEF Encodable, Texts
<1>4. /\ DOMAIN e.path = op.params
      /\ Agrees(e.path, given)
      /\ DOMAIN e.query = IF op.method = "GET" THEN DOMAIN request \ op.params ELSE {}
      /\ InBody(e) = IF op.method = "GET" THEN {} ELSE DOMAIN request \ op.params
  <2> HIDE DEF e
  <2> QED
    BY <1>0, <1>1
<1> HIDE DEF e
<1>5. EncodedOk(s, e)
  BY <1>4 DEF EncodedOk, InUrl
<1>6. Routable(op, e)
  BY <1>1, <1>4 DEF Routable, Agrees
<1>7. m \in Sends(files, op, request)
  BY <1>2, <1>3, <1>5, <1>6 DEF Sends, e, given
<1>8. /\ m.path = e.path
      /\ DOMAIN m.query = {f \in DOMAIN e.query : given[f] \notin {"null", "none"}}
      /\ InBody(m) = InBody(e)
  BY PlacedParts DEF e
<1> HIDE DEF m
<1>9. InUrl(m) \cup InBody(m) = DOMAIN request \ dropped
  <2>1. CASE op.method = "GET"
    <3>1. \A f \in op.params : request[f] \notin {"null", "none"}
      OBVIOUS
    <3> QED
      BY <2>1, <3>1, <1>1, <1>4, <1>8 DEF InUrl, Dropped
  <2>2. CASE op.method # "GET"
    BY <2>2, <1>4, <1>8 DEF InUrl, Dropped
  <2> QED
    BY <2>1, <2>2
<1> QED
  BY <1>7, <1>9 DEF Whole

LEMMA VerdictRequests == VerdictHolds => RequestsArrive
<1> SUFFICES ASSUME VerdictHolds, verdict = "passed",
                    NEW op \in work.operations.operations,
                    NEW s \in ListedModels(Api[work.lock]), NEW request \in Requests,
                    Ref(s) = op.request
             PROVE  /\ Found(work.operations.operations, op.names) \subseteq {op}
                    /\ \A m \in Sends(work, op, request) : Faithful(m, s, op, request)
                    /\ Admitted(op, s, work.config[op.request].types, request) =>
                         \E m \in Sends(work, op, request) : Whole(m, op, request)
  BY Zenon DEF RequestsArrive, Faithful, Whole, Dropped
<1> DEFINE api == Api[work.lock]
           types == work.config[op.request].types
<1>1. CheckPasses(work, "ci")
  BY DEF VerdictHolds
<1>2. Readable(api) /\ OperationsInSync(work, api) /\ ModelsInSync(work, api)
  BY <1>1, OnePin DEF CheckPasses
<1>3. Reads(work, op, s, types)
  <2>1. Ref(s) \in RefsOf(op)
    BY DEF RefsOf
  <2> QED
    BY <1>2, <2>1, PinnedDescriptor DEF Reads
<1>4. Found(work.operations.operations, op.names) \subseteq {op}
  <2>1. Installs(work.operations.operations)
    BY <1>1 DEF CheckPasses, Loads
  <2> QED
    BY <2>1 DEF Found, Installs, Shadows
<1>5. \A m \in Sends(work, op, request) : Faithful(m, s, op, request)
  BY <1>3, CallArrives
<1>6. Admitted(op, s, types, request) =>
        \E m \in Sends(work, op, request) : Whole(m, op, request)
  BY <1>3, AdmittedIsSent
<1> QED
  BY <1>4, <1>5, <1>6

\* Whichever syncs wrote the files that the checks of a request read: the client of a
\* commit that CI passed sends what the pinned revision admits, and only that.
THEOREM CallsArrive == Spec => []RequestsArrive
BY VerdictInvariant, VerdictRequests, PTL

LEMMA VerdictAnswers == VerdictHolds => AnswersAreTyped
<1> SUFFICES ASSUME VerdictHolds, verdict = "passed",
                    NEW op \in work.operations.operations, NEW answer \in Answers
             PROVE  Returns(work, op, answer) <=>
                      /\ answer = {} <=> op.response = {}
                      /\ \A r \in op.response, a \in answer, s \in ListedModels(Api[work.lock]) :
                           Ref(s) = r =>
                             /\ s.required \subseteq DOMAIN a
                             /\ \A f \in DOMAIN a \cap (s.required \cup s.optional) :
                                  a[f] \in OfType[work.config[r].types[f]]
  BY DEF AnswersAreTyped
<1> DEFINE api == Api[work.lock]
<1>1. Readable(api) /\ OperationsInSync(work, api) /\ ModelsInSync(work, api)
  BY OnePin DEF VerdictHolds, CheckPasses
<1>2. \A r \in op.response : \E s \in ListedModels(api) : Ref(s) = r
  BY <1>1, PinnedSchema DEF RefsOf, OperationsInSync, OperationsFile
<1>3. ASSUME NEW s \in ListedModels(api), Ref(s) \in op.response
      PROVE  /\ work.operations.models = ListedModels(api)
             /\ work.runtime[Ref(s)].types = work.config[Ref(s)].types
             /\ work.runtime[Ref(s)].required = s.required
             /\ DOMAIN work.config[Ref(s)].types = s.required \cup s.optional
  BY <1>1, <1>3, PinnedDescriptor DEF RefsOf
<1>4. work.operations.models = ListedModels(api)
  BY <1>1 DEF OperationsInSync, OperationsFile
<1>5. ASSUME NEW s \in ListedModels(api), NEW a, Ref(s) \in op.response
      PROVE  FieldsOk(work.runtime[Ref(s)], a) <=>
               /\ s.required \subseteq DOMAIN a
               /\ \A f \in DOMAIN a \cap (s.required \cup s.optional) :
                    a[f] \in OfType[work.config[Ref(s)].types[f]]
  <2> DEFINE d == work.runtime[Ref(s)]
  <2>1. d.required = s.required /\ d.types = work.config[Ref(s)].types
    BY <1>3, <1>5
  <2>2. DOMAIN d.types = s.required \cup s.optional
    BY <1>3, <1>5, <2>1
  <2> HIDE DEF d
  <2>3. FieldsOk(d, a) <=>
          /\ s.required \subseteq DOMAIN a
          /\ \A f \in DOMAIN a \cap (s.required \cup s.optional) : a[f] \in OfType[d.types[f]]
    BY <2>1, <2>2 DEF FieldsOk
  <2> QED
    BY <2>1, <2>3 DEF d
<1>6. CASE op.response = {}
  BY <1>6 DEF Returns, AnswerOk
<1>7. CASE op.response # {} /\ answer = {}
  BY <1>7 DEF Returns, AnswerOk
<1>8. CASE op.response # {} /\ answer # {}
  <2>1. AnswerOk(op, work.operations.models, answer) <=>
          \A a \in answer, s \in ListedModels(api) :
            Ref(s) \in op.response => s.required \subseteq DOMAIN a
    BY <1>4, <1>8 DEF AnswerOk
  <2>2. (\A r \in op.response, a \in answer : FieldsOk(work.runtime[r], a)) <=>
          \A r \in op.response, a \in answer, s \in ListedModels(api) :
            Ref(s) = r => FieldsOk(work.runtime[r], a)
    BY <1>2
  <2>3. (\A r \in op.response, a \in answer, s \in ListedModels(api) :
           Ref(s) = r => FieldsOk(work.runtime[r], a)) <=>
          \A r \in op.response, a \in answer, s \in ListedModels(api) :
            Ref(s) = r =>
              /\ s.required \subseteq DOMAIN a
              /\ \A f \in DOMAIN a \cap (s.required \cup s.optional) :
                   a[f] \in OfType[work.config[r].types[f]]
    BY <1>5
  <2> QED
    BY <2>1, <2>2, <2>3, <1>8 DEF Returns
<1> QED
  BY <1>6, <1>7, <1>8

\* The client of such a commit returns an answer exactly if it is what that revision
\* promises.
THEOREM AnswersTyped == Spec => []AnswersAreTyped
BY VerdictInvariant, VerdictAnswers, PTL

-----------------------------------------------------------------------------
\* A model file that declares each name once.
Unambiguous(file) ==
  LET declared == {<<t.name, t.ref>> : t \in file.types} \cup {<<m.name, m>> : m \in file.inline}
  IN  \A d, e \in declared : d[1] = e[1] => d = e

DistinctIds(models) == \A s, t \in models : s # t => s.id # t.id

\* The model file of the working tree, the one a script is about to write, and the
\* schemas that a script goes on with after it has compared their ids.
NamesHold ==
  /\ work = [f \in DOMAIN work |-> work[f]] /\ "models" \in DOMAIN work
  /\ work.models # Torn => Unambiguous(work.models)
  /\ job # Idle => {"script", "stage"} \subseteq DOMAIN job
  /\ job # Idle /\ job.stage = "inline" => DistinctIds(job.models)
  /\ job # Idle /\ job.stage = "write" =>
       /\ job.pending \subseteq DOMAIN job.output
       /\ "models" \in DOMAIN job.output => Unambiguous(job.output.models)

\* What selectOperationSchemaModels and loadInlineObjectModels compare is enough.
LEMMA RenderedUnambiguous ==
  ASSUME NEW models, NEW config, NEW inline, DistinctIds(Used(models, config)),
         InlineOk(models, config, inline)
  PROVE  Unambiguous(ModelsFile(models, config, inline))
<1> DEFINE used == Used(models, config)
           file == ModelsFile(models, config, inline)
           types == {<<t.name, t.ref>> : t \in file.types}
           inlines == {<<m.name, m>> : m \in inline}
<1>1. \A d \in types : \E s \in used : d[1] = s.id /\ d = <<s.id, Ref(s)>>
  BY DEF ModelsFile
<1>2. \A d \in inlines : \E m \in inline : d[1] = m.name /\ d = <<m.name, m>>
  OBVIOUS
<1>3. \A d, e \in types : d[1] = e[1] => d = e
  BY <1>1 DEF DistinctIds
<1>4. \A d, e \in inlines : d[1] = e[1] => d = e
  BY <1>2 DEF InlineOk
<1>5. \A d \in types, e \in inlines : d[1] # e[1]
  BY <1>1, <1>2 DEF InlineOk
<1>6. file.inline = inline
  BY DEF ModelsFile
<1> QED
  BY <1>3, <1>4, <1>5, <1>6 DEF Unambiguous

LEMMA SelectedDistinct ==
  ASSUME NEW ops, NEW models, NEW config, Selects(ops, models, config)
  PROVE  DistinctIds(Used(models, config))
BY DEF Selects, Used, DistinctIds

LEMMA NamesInit == Init => NamesHold
<1> SUFFICES ASSUME Init PROVE NamesHold
  OBVIOUS
<1>1. PICK r \in Revisions, config \in Configs, docs \in Documents :
        work = Synced(r, config, docs) /\ CheckPasses(work, "ci")
  BY DEF Init
<1>2. work = [f \in DOMAIN work |-> work[f]] /\ "models" \in DOMAIN work
  BY <1>1 DEF Synced
<1>3. PICK api : ModelsInSync(work, api)
  BY <1>1 DEF CheckPasses
<1>4. Unambiguous(work.models)
  BY <1>3, SelectedDistinct, RenderedUnambiguous DEF ModelsInSync
<1>5. job = Idle
  BY DEF Init
<1> QED
  BY <1>2, <1>4, <1>5 DEF NamesHold

\* The steps that leave the working tree alone.
LEMMA NamesRender ==
  ASSUME NamesHold, RenderModels
  PROVE  NamesHold'
<1> DEFINE inline == InlineModels(job.models, job.config, job.bundles)
           output == [models |-> ModelsFile(job.models, job.config, inline),
                      runtime |-> RuntimeFile(job.models, job.config)]
           changed == {f \in DOMAIN output : work[f] # output[f]}
<1>1. UNCHANGED work
  BY DEF RenderModels, WriteOrEnd, Throw, Becomes
<1>2. CASE job' = Idle
  BY <1>1, <1>2 DEF NamesHold
<1>3. CASE job' # Idle
  <2>1. /\ InlineOk(job.models, job.config, inline)
        /\ job' = [script |-> job.script, stage |-> "write", pending |-> changed,
                   output |-> output]
    BY <1>3 DEF RenderModels, WriteOrEnd, Throw, Becomes
  <2>2. job # Idle /\ job.stage = "inline"
    BY DEF RenderModels, At, Idle
  <2>3. DistinctIds(Used(job.models, job.config))
    BY <2>2 DEF NamesHold, DistinctIds, Used
  <2>4. Unambiguous(output.models)
    BY <2>1, <2>3, RenderedUnambiguous
  <2> QED
    BY <1>1, <2>1, <2>4 DEF NamesHold
<1> QED
  BY <1>2, <1>3

LEMMA NamesNext == NamesHold /\ [Next]_vars => NamesHold'
<1> SUFFICES ASSUME NamesHold, [Next]_vars PROVE NamesHold'
  OBVIOUS
<1> USE DEF NamesHold
<1>1. ASSUME UNCHANGED <<work, job>> PROVE NamesHold'
  BY <1>1
<1>2. ASSUME UNCHANGED work, job' = Idle PROVE NamesHold'
  BY <1>2
<1>3. ASSUME UNCHANGED work, job' # Idle, job'.stage \notin {"inline", "write"},
             {"script", "stage"} \subseteq DOMAIN job'
      PROVE  NamesHold'
  BY <1>3
<1>4. CASE UNCHANGED vars
  BY <1>1, <1>4 DEF vars
<1>5. CASE \E r \in Revisions : Move(r)
  BY <1>1, <1>5 DEF Move
<1>6. ASSUME NEW r, NEW lock, NEW ws, EditPins(r, lock, ws) PROVE NamesHold'
  <2>1. /\ work' = [f \in DOMAIN work' |-> work'[f]] /\ "models" \in DOMAIN work'
        /\ UNCHANGED job
    BY <1>6 DEF EditPins, Edit
  <2>2. work'.models = work.models
    BY <1>6 DEF EditPins, Edit
  <2> QED
    BY <2>1, <2>2
<1>7. ASSUME NEW config, EditConfig(config) PROVE NamesHold'
  BY <1>7 DEF EditConfig, Edit
<1>8. ASSUME NEW docs, EditDocuments(docs) PROVE NamesHold'
  BY <1>8 DEF EditDocuments, Edit
<1>9. CASE \E script \in Scripts : Start(script)
  BY <1>3, <1>9 DEF Start, Idle
<1>10. CASE ReadInput
  BY <1>3, <1>10 DEF ReadInput, Becomes, Idle
<1>11. CASE ReadCatalog
  BY <1>2, <1>3, <1>11 DEF ReadCatalog, Becomes, Throw, Idle
<1>12. CASE ReadBundle
  <2>1. PICK script \in Scripts :
          /\ At(script, "bundles")
          /\ \/ Throw
             \/ \E more : Becomes([job EXCEPT !.todo = Tail(@), !.models = @ \cup more])
    BY <1>12 DEF ReadBundle
  <2>2. CASE Throw
    BY <1>2, <2>2 DEF Throw, Becomes
  <2>3. ASSUME NEW more, Becomes([job EXCEPT !.todo = Tail(@), !.models = @ \cup more])
        PROVE  NamesHold'
    <3>1. UNCHANGED work /\ job' = [job EXCEPT !.todo = Tail(@), !.models = @ \cup more]
      BY <2>3 DEF Becomes
    <3>2. At(script, "bundles") /\ script # "none"
      BY <2>1 DEF Scripts
    <3>3. job # Idle
      BY <3>2 DEF At, Idle
    <3>4. job'.stage = "bundles" /\ {"script", "stage"} \subseteq DOMAIN job'
      BY <3>1, <3>2, <3>3 DEF At
    <3> QED
      BY <1>2, <1>3, <3>1, <3>4
  <2> QED
    BY <2>1, <2>2, <2>3
<1>13. CASE RenderOperations
  BY <1>2, <1>13 DEF RenderOperations, WriteOrEnd, Becomes, Throw
<1>14. CASE SelectModels
  BY <1>2, <1>14, SelectedDistinct DEF SelectModels, Becomes, Throw
<1>15. CASE ReadInline
  BY <1>15 DEF ReadInline, Becomes, At, Idle
<1>16. CASE RenderModels
  BY <1>16, NamesRender
<1>17. CASE Write
  <2>1. PICK f \in job.pending :
          /\ work' = [work EXCEPT ![f] = job.output[f]]
          /\ job' = IF job.pending = {f} THEN Idle ELSE [job EXCEPT !.pending = @ \ {f}]
    BY <1>17 DEF Write
  <2>2. /\ job # Idle /\ job.stage = "write"
        /\ f \in DOMAIN job.output
    BY <1>17 DEF Write
  <2>3. work' = [g \in DOMAIN work' |-> work'[g]] /\ "models" \in DOMAIN work'
    BY <2>1
  <2>4. work'.models # Torn => Unambiguous(work'.models)
    <3>1. CASE f = "models"
      BY <2>1, <2>2, <3>1
    <3>2. CASE f # "models"
      BY <2>1, <3>2
    <3> QED
      BY <3>1, <3>2
  <2>5. CASE job' = Idle
    BY <2>3, <2>4, <2>5
  <2>6. CASE job' # Idle
    <3>1. job' = [job EXCEPT !.pending = @ \ {f}]
      BY <2>1, <2>6
    <3>2. job'.stage = "write" /\ job'.output = job.output /\ DOMAIN job' = DOMAIN job
      BY <2>2, <3>1
    <3>3. job'.pending \subseteq job.pending
      BY <3>1
    <3> QED
      BY <2>2, <2>3, <2>4, <3>2, <3>3
  <2> QED
    BY <2>5, <2>6
<1>18. CASE Kill
  <2>1. PICK torn : work' = [f \in DOMAIN work |-> IF f \in torn THEN Torn ELSE work[f]]
    BY <1>18 DEF Kill
  <2>2. job' = Idle
    BY <1>18 DEF Kill
  <2>3. work'.models # Torn => work'.models = work.models
    BY <2>1
  <2> QED
    BY <2>1, <2>2, <2>3
<1>19. CASE Commit
  BY <1>1, <1>19 DEF Commit
<1> QED
  BY <1>4, <1>5, <1>6, <1>7, <1>8, <1>9, <1>10, <1>11, <1>12, <1>13, <1>14, <1>15, <1>16,
     <1>17, <1>18, <1>19 DEF Next

\* Wherever in its reading the checkout moves and whenever it is killed, a sync script
\* never leaves a model file that declares a name twice.
THEOREM UniqueNames == Spec => []NamesAreUnique
<1>1. NamesHold => NamesAreUnique
  BY DEF NamesHold, NamesAreUnique, Unambiguous
<1> QED
  BY <1>1, NamesInit, NamesNext, PTL DEF Spec
=============================================================================
