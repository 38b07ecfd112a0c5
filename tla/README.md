# Verification of zdp-client-sdks

TLA+ models of the client runtimes in this repository and of the tooling that
generates, checks and releases it, the TLC runs that check them on small
instances, and TLAPS proofs of what holds for every instance.

Run a check with `tlc -workers 2 -config <run>.cfg <Module>` and a proof with
`tlapm <Module>.tla`, in this directory. `PROJECT.json` lists the runs with
their properties, the source lines every definition stands for, the mutants
that break each property, and the hazards the properties are aimed at.

## 1. The system

The repository is a TypeScript library and the tooling that checks and releases
it. What runs in an application:

| part | code | state it keeps | operations |
|---|---|---|---|
| typed-fetch runtime | `src/typed-fetch/client.ts`, `types.ts` | per call: attempt number, shared request init, merged abort signal, timeout, response body and its clone, the server's delay | `request` -> prepare, attempt, read, classify, wait, repeat |
| safe-call wrapper | `src/typed-fetch/safe-call.ts` | per call: the response last captured | `safeCall`, `capturingFetch` |
| error envelope | `src/typed-fetch/errors.ts` | none | parse an error body into a class |
| domain client, generated operations | `api-client.ts`, `generated-operations.ts`, and the generated tables | none (installed methods) | install methods by name; check a request, split it into path, query and body, call the runtime, check the answer |
| signed upload | `src/upload/client.ts`, `abortable.ts`, `errors.ts` | per upload: phase, attempt, authorization, merged signal, one timeout | checksum, authorize, transfer with retries, complete |
| upload transports | `src/upload/transports.ts` | per transfer: settled flag, listeners of an XMLHttpRequest | send, progress, load, error, abort |
| server coupon usage | `src/server-coupon-usage/client.ts`, models | per attempt: controller, timer, submitted flag, response | `capture`, `compensate` |

and what runs in development and release:

| part | code | nature |
|---|---|---|
| SDK generation plan | `src/sdk-generation-plan/` | contracts of two repositories in, diagnostics or a plan out |
| contract validator | `src/client-sdk-contracts/` | documents in, issues out |
| source synchronisation | `scripts/sync-*.ts`, `check-api-contracts-lock.ts` | reads a sibling checkout of the API contracts, rewrites generated sources; a lock that both workflows must name |
| semver gate | `scripts/sdk-semver/`, `scripts/release-helpers.ts` | two public surfaces in, required bump out |
| release workflow | `.github/workflows/release.yml`, `RUNBOOK.md`, `scripts/check-registry-release-state.ts`, `scripts/build-release-artifact.ts` | a history of commits, tags and publications; build, publish and verify jobs that may be cut off and run again, an artifact that expires, a registry that answers late, a GitHub Release |
| build and smoke scripts | the rest of `scripts/` | sequential file and process I/O |

### How the parts interact

An application calls the domain client, which validates and calls the
typed-fetch runtime, directly or through a safe call; a safe call builds a
client of its own around a fetch that captures responses. The runtime calls out
to four things it does not control: the access-token provider, the fetch
implementation, the response stream and the caller's `AbortSignal`. The upload
client calls the application (`createRequest`, `authorize`, `complete`,
`onProgress`), a transport and, through it, a storage provider. The coupon
client calls a credential callback and a fetch, and through it the Money
service. Nothing else is shared: calls meet only on the caller's signal, on the
event loop and at the remote side.

In development, the semver gate runs twice: CI runs it on a commit, with the
tags of that moment, and the release workflow runs it on a tag, with the tags
that are reachable from it when the workflow runs. Between the two lie commits,
other tags, and workflows that fail, wait or are run again.

The generated sources come from the API contracts repository, which a developer
has beside this one at some revision. Two scripts rewrite three generated files from it,
`contracts/typescript-sdk-models.yaml` says which fields are typed, and the
contracts under `contracts/` repeat what the API requires and forbids. The check
of `package.json`, which both workflows run over the revision they name, is what
holds all of it together. What the generated files say is what the domain client
lets through: the API's metadata, the field types and the two stages of checks in
the client meet in every call.

### What is hard

All three runtimes are hand-written state machines over promises: a pending
operation races an abort and a timer, and the loser still arrives, possibly
when a later attempt is in progress. Between a promise's resolution and the code
that awaits it lies a microtask in which another part of the program may abort.
Callbacks may throw, abort synchronously, or never return. The remote side may
have acted on a request whose answer was lost. None of this is reached by a
unit test with scripted answers; it is what the models enumerate. The
individual hazards, each at its line, are in `PROJECT.json`.

### What makes each part correct

- *typed-fetch runtime*: one init per call; repeats only where safe and only as
  often as configured; no body, listener or timer left behind; the outcome is
  what happened to the last attempt; a Retry-After beyond the cap is surfaced;
  an abort and the timeouts end every wait.
- *response bodies and delays*: a stream is given up, whichever of its two branches
  is read, refused or interrupted; no delay is longer than a timer can wait, nor a
  server's delay shortened by arithmetic.
- *domain client*: what the pinned API admits is sent, every field once, in its place
  and no secret in the URL; an answer that is returned has the types that the SDK
  declares.
- *safe call*: the metadata belong to the answer they are returned with.
- *signed upload*: replay only under a replay-safe authorization; finalise once
  and only what the provider stored; nothing started after a stop; progress
  belongs to the current step; one outcome, reached in bounded time.
- *coupon usage*: `confirmed` is proof, `not_submitted` is proof of the
  opposite, everything else is unknown; nothing is sent after a stop; a
  compensation needs a confirmed capture.
- *upload transports*: whoever settles a transfer first, the signal, a callback
  or the browser, nothing stays behind and no answer is lost.
- *semver gate*: a change that it lets pass without a breaking bump breaks no
  consumer, and changes that do not break add up to one that does not break.
- *release workflow*: a published version is compatible, as the numbers say, with those
  that its check knew of, whatever was tagged but not published; a version is published
  once and from one commit, a job that succeeds has done what it says, an incident is
  reported only if there is one, and running a workflow again can complete it, with three
  exceptions: an unfinished GitHub Release, which must be removed by hand first
  (`release.yml:287`); a version that was overtaken before it was published, which npm
  refuses; and a newer version tagged below its commit, which fails its check.
- *generation*: whatever was edited, synchronised, interrupted or forgotten, a
  commit that CI passes has the generated sources, the field types and the limits of
  one revision of the API contracts, the one that a release will be checked
  against.

## 2. Modules

| module | models | extends / instantiates |
|---|---|---|
| `TypedFetch` | `request` and everything it awaits, several calls on one event loop | - |
| `RetriedCall` | the abstract promise of a call: bounded tries, one outcome | - |
| `MCTypedFetch` | the requests of the TLC instances | `TypedFetch` |
| `TypedFetchProofs` | the inductive invariant, the safety theorems, and the steps of `RetriedCall` | `TypedFetch`, `TLAPS` |
| `ResponseBody` | the bytes of a response, its clone, and the delay before a retry | `TypedFetch` |
| `MCResponseBody` | chunks and delays of the TLC instance | `ResponseBody`, `MCTypedFetch` |
| `SafeCall`, `MCSafeCall` | the capturing fetch composed with the runtime | `TypedFetch` |
| `TypedFetchLayersProofs` | steps of both are steps of `TypedFetch`; streams and delays; whose metadata a safe call returns | `ResponseBody`, `SafeCall`, `TypedFetchProofs` |
| `SignedUpload` | one upload and the storage provider | instantiates `UploadPromise` |
| `SignedUploadProofs` | its inductive invariant, its safety properties, and the steps of `UploadPromise` | `SignedUpload`, `TLAPS` |
| `UploadPromise` | the abstract promise of an upload | - |
| `XhrTransfer` | XMLHttpRequest transfers that share a signal | - |
| `XhrTransferProofs` | its inductive invariant and properties | `XhrTransfer`, `TLAPS` |
| `CouponUsage` | attempts against one usage of the Money service | - |
| `CouponUsageProofs` | its inductive invariant and safety properties | `CouponUsage`, `TLAPS` |
| `SurfaceDiff` | the comparison of two public surfaces, the surfaces that the parser admits, and what a consumer needs | - |
| `SurfaceChain` | releases that follow one another without a breaking change | `SurfaceDiff` |
| `SurfaceChainProofs` | what a verdict means, for all surfaces; chains of any length | `SurfaceChain`, `TLAPS` |
| `SdkReleases` | commits, tags, the gate at both its places, publications, each of them one step | `SurfaceDiff` |
| `ReleaseWorkflow` | the jobs of `release.yml`, npm, GitHub Releases, publications by hand | `SdkReleases` |
| `ReleaseWorkflowProofs` | a published version is compatible with the releases that its check rests on; the jobs do what `SdkReleases` allows and tell the truth | `ReleaseWorkflow`, `SurfaceChainProofs` |
| `GenerationPlan` | the contract validator, the API handoff and the checks of the plan, as predicates | - |
| `ApiClient` | one call through the generated client, as operators over the generated files | `GenerationPlan` |
| `SdkGeneration` | checkout, working tree, running sync script, CI | `ApiClient` |
| `MCSdkGeneration` | the revisions, contracts, requests and answers of the TLC instance | `SdkGeneration` |
| `SdkGenerationProofs` | what a passed check says of the files and of calls, and that model files are unambiguous | `SdkGeneration`, `TLAPS` |
| `MCSurfaces`, `MCSurfaceChain`, `MCReleaseWorkflow` | surfaces, versions and tarballs of the TLC instances | `SurfaceChain`, `ReleaseWorkflow` |

### Steps and the event loop

In the modules of the runtimes an action is what JavaScript runs between two awaits. A promise
that is pending is a *waiting* phase; when it has resolved and the code after
its `await` is queued as a microtask the phase is another one, because the
application may abort in between from a microtask of its own. Timers, sockets
and callbacks complete in macrotasks, so their actions need a quiescent state
in which nothing is queued. Time itself is abstracted: an armed timer may fire
in any quiescent state. A step consists of the whole handler, its `catch` and
`finally` included.

### `TypedFetch`

| variable | code |
|---|---|
| `phase`, `attempt` | the await `performFetchWithRetry`/`performFetchAttempt` stands at, and its `attempt` |
| `timer`, `listeners` | `setTimeout` of the attempt; `mergeAbortSignals` and `waitForRetry` listeners on the caller's signal |
| `prepared`, `builds`, `token` | `preparedInit`, calls of `createRequestInit`, the access token it waits for |
| `queued`, `sends`, `exchange` | the microtask that calls fetch, the calls, and the fate of each attempt's response body |
| `status`, `demand`, `pause`, `result` | class of the response status; its Retry-After against `maxRetryAfterMs`; which delay is waited; error class or outcome |

A request is described by what the retry policy looks at: method, idempotency
policy, key source, authentication, attempt limit, and whether the synchronous
validation before the first attempt fails. Three points that surprise:

- fetch is started in a microtask after the last look at the signal, so an
  aborted call may still start the fetch already queued, with an aborted signal;
  `NothingScheduledAfterAbort` is about scheduling for that reason;
- the wait between attempts is not under any timeout (`types.ts:133` describes
  `timeoutMs` as per attempt);
- an injected fetch may ignore its signal. `FetchIgnoresAbort` says whether
  late answers are considered; the code defends against them (`client.ts:438`).

### `ResponseBody`

| variable | code |
|---|---|
| `main`, `copy` | the body of the attempt's response, and of the clone in which `retry_after_seconds` is looked for |
| `reader`, `received` | the read of `readResponseTextWithinLimit` that is waited for, and the bytes it has |
| `demanded`, `wait` | Retry-After as the server asked for it and as `client.ts` converts it; the argument of `waitForRetry` |

A body and its clone are two branches of one stream, which stops only when both are
read to the end or cancelled (`SourceReleased`); a branch with a reader refuses `cancel`. In `TypedFetch`
reading a body is one waiting phase; here it ends chunk by chunk, at the limit, with
an error, or because an abort or the timeout rejects the read. Each step is a step of
`TypedFetch` or leaves its variables alone, so what is shown of `TypedFetch` holds
with bodies and delays too. A body may declare a length
above the limit and is then cancelled unread, whatever it holds; which text is JSON, and which JSON is an envelope, is a choice of
`TypedFetch`. Bytes and milliseconds are small numbers, and constants of the code
such as the timer's range are parameters.

### `SafeCall`

Each step is a `TypedFetch` step together with what `capturingFetch` stores in
it and what `safeCall` returns when the call settles in it.

### `SignedUpload`

`phase`, `attempt`, `listener` and `timer` are as above, for one upload. The
application's `onProgress` runs inside steps, so actions carry a *reaction*: it
returns, aborts the signal, or throws. `stored` is the provider's side: a
transfer that is pending may be stored at any time, also when its answer is
never delivered. `report` is the progress event of the last step. One step, after the
checksum, reports twice with no look at the signal in between, so it is two actions
with nothing else between them (`announced`): if the callback aborts at the end of
`hashing`, `authorizing` is still reported and authorize() still called, and only its
answer is not waited for. `ReportsAreCurrent` names this one exception. A transport is
assumed to report progress only while its transfer is pending, which the fetch
transport does because it reports only before and after its one await, and the
XMLHttpRequest transport by `ReportsWhilePending` of `XhrTransfer`. Outcomes `aborted` and `timeout` do not say that nothing was
stored or completed, and no property claims it.

### `CouponUsage`

Several `capture` and `compensate` attempts for one usage; each sends at most one
request. `money` is the usage at the service, which handles a request at any time
after it was sent, also of an attempt that has returned. `saved` is the
product's durable receipt, without which `compensate` refuses to start.

### `XhrTransfer`

`transferWithXhr` awaits nothing: a step is an event of the browser or a call of
the application together with every handler it sets off. `onSignal` and `onXhr`
are the registered listeners, `outcome` is the promise, `xhr` the request as the
browser has it. A callback that aborts the signal runs the abort handlers of the
other transfers within the same step. The initial report happens after the
listener on the signal is registered and before `send`, so it can settle the
transfer it reports.

### `SurfaceDiff` and `SurfaceChain`

A surface is what the generated files declare: operations, schemas with their
required, optional and secret fields, and for each described field a type, a
sequence of wrappers (`nullable`, `array`) around a named type or an enum.
`Changes` is `diffGeneratedPublicSurface` and `Classification` its verdict.
`ConsumerSurvives` does not use them: it says what an existing consumer needs, in
terms of the messages each schema admits (`Contents`), and is what the verdict is
checked against; `SameInUse` says what "none" should mean. `WellFormed` says which
surfaces there are: the checks of the parser, references that `readSchemaModel` finds
with the right kind, and descriptors of fields that the schema has, as the sync script
writes them. Surfaces of other shapes make the code throw.

### `SdkReleases`

| variable | code |
|---|---|
| `main` | the commits of main: package version, generated surface, whether migration notes cover it, verdict of CI and what it rests on (`line`) |
| `tags` | version tags and the commits they are on; never moved or deleted (`RUNBOOK.md:49`) |
| `checked` | the last verdict of the workflow's own check of each tag and what it rests on |
| `published` | the versions that the workflow has put on npm |

`Baseline` is `findBaselineRef`, `GatePasses` is `evaluateSemverGate`, `Check` the
command line that both workflows run. A commit may be tagged at any time after its CI, as
`release.yml:42` and the runbook let a maintainer do, so a tag may appear below commits
that are tagged or checked already. Which releases a verdict rests on is kept beside it:
`Lineage` is the baseline, those that its own commit came after when CI checked it, and
so on (`line`). The properties of compatibility are about a published version and that
line, since nothing compares it with versions that were tagged below it later.

`CheckTag` is the check of the build job, with the tags of that moment; it may be repeated,
and a failed one takes the earlier verdict back. `Publish` may come at any time after a
check that has passed. npm 11.16.0, which the workflow pins, publishes no version lower
than the highest there is unless it is given a `--tag`; `Publish` has that guard, and takes what
npm reads for it to be current.

Assumed: stable versions; a tag named after the version of its commit, which the release
workflow verifies; a linear main; checkouts without local changes; and that notes either
cover a content or not.

### `ReleaseWorkflow`

| variable | code |
|---|---|
| `run` | the workflow run in progress, its tag, and the step it is at |
| `artifact` | the tarball that a tag's build job has uploaded, until its retention ends |
| `passed` | the last job of a tag's workflow that has succeeded: failed jobs are run again from there |
| `npm`, `release` | what the registry holds for a version, and the GitHub Release of a tag |

`Start` runs the build job of a pushed tag, or of an old one again: its check is `CheckTag`,
and if that fails so does the run, without an artifact. `Resume` runs failed jobs again,
with the artifact and on the verdict of an earlier attempt. The concurrency group makes runs take turns, but commits, tags, expiry and publications by
hand (`Outsiders`) come between any two steps. `Answers` is what three `npm view` calls may say:
each answers from the contents of the registry or from before a publication. Any
step may fail, and the upload and the creation of the Release may take effect in a job that is
cut off. `Tarballs` says which bytes packing a version's commit may yield, more than one
where a build is not reproducible; that the artifact is packed from the tagged commit is
assumed. `Upload` succeeds only for a version above all that npm has, those published by hand
included. Every publication is the `Publish` of `SdkReleases` (`ImplementsReleases`): of a
version whose last check has passed, although the job may be run long after that.
`RerunCompletes` says what a further run finds for a version that is published: a check that
passes, and bytes that can be those of npm and of the Release, but for the exceptions named
above (an overtaken version is not published, so it is not about those).

### `GenerationPlan`, `ApiClient` and `SdkGeneration`

| variable | code |
|---|---|
| `checkout` | the revision that `../zdp-api-contracts` is at; a function `Api` says what the repository holds at each |
| `work` | the working tree: lock, the `ref` of both workflows, the contracts, `typescript-sdk-models.yaml`, and the generated `api-operations.ts`, `api-models.ts`, `api-model-runtime.ts` |
| `job` | the sync script that runs, the stage it is at and what it has read |
| `verdict` | what CI said of `work` as it is, committed |

A check that reports diagnostics is a predicate of `GenerationPlan`. A contract is
a record of sets and strings; the lists that the validator demands are the
parameters `Required` and `Exact`. Operations and schemas carry what the scripts
look at: identity, references, kind, fields, and whether the metadata is complete.
What `buildApiExportPlanHandoff` fixes in its own text (outputs, trace fields, docs
metadata, mutation policy, the dry-run flags) satisfies the plan's checks of
it by itself and is left out.

A sync script is read by read what its code awaits: the input, the catalog, one
bundle after the other, then, for schemas with inline object models, the bundle
once more. `Move` may come between any two, `Kill` at any time, with any of the files being written cut short (`Torn`). A
developer edits the lock, the workflows, the field types and the contracts in any
order. CI checks a fixed checkout of the revision that `ci.yml` names, so
`CheckPasses` is one step. Among the tests CI runs are those that create a client: `Loads` is the validation
that `createOperationDefinition` and `installOperationMethod` do when it is created. A
cut-short `api-operations.ts` is not healed by
running the script again, which looks for the constants in the old file
(`replaceConstInitializer`); the model leaves it torn, as the code does.

`ApiClient` follows one call through `api-client.ts`, `generated-operations.ts` and
`buildUrl`. A request is a function from the fields a caller gives to kinds of
values, those that a check or an encoding tells apart: a text, an empty one, a dot segment, null, lists, an
object. A step that throws is a predicate, and `Sends` is the request that reaches the
runtime, if none does. `RequestsArrive` compares it with what the pinned revision admits
(`Admitted`), which is written from the API's metadata and the field types alone;
`AnswersAreTyped` does so for answers. Field types are `text`, nullable text,
lists and objects; the comparison of nested JSON values is left out, and a parameter
is a whole segment of a path.

Assumed: a bundle repeats an id only among schemas with complete metadata; the developer does not
edit generated files by hand and runs one script at a time. Two simplifications:
a schema has at most one inline model, and inline bundles are read in any order.
Left out of the check are the compiler, the tests other than the creation of a
client, the coupon models and the semver gate, which is in
`SdkReleases`.

## 3. Runs

Every passing run checks its property list on the complete state space of its
instance; every property has a mutant, a small plausible change of the modelled
code under which TLC finds that property violated.

| run | instance | question |
|---|---|---|
| `typed_fetch_one` | `ResponseBody`: one call, every request policy, up to 3 attempts, late answers, bodies chunk by chunk, server delays (484,118 states) | retries, outcomes, clean-up of streams, delays; settling by timers alone, and by an abort without timers; refinement of `RetriedCall` |
| `typed_fetch_retry_after` | one call, 2 attempts | *violated*: is a server's delay always kept |
| `safe_call_isolated` | two concurrent reads on one signal, 2 attempts, fetch honours its signal (95,306) | metadata of the right response |
| `safe_call_late_response` | one read, fetch may ignore its signal | *violated*: metadata of the right response, with a late answer |
| `signed_upload` | one upload, 3 transfers, every reaction (6,546) | replay, completion, clean-up, outcomes; settling by the one timeout, and by an abort without it; refinement of `UploadPromise` |
| `xhr_transfer` | two transfers on one signal, callbacks that throw and abort (337) | does anything stay behind or keep going, is an answer lost |
| `coupon_usage` | two captures, one compensation (33,148) | what each result proves, clean-up, settling |
| `coupon_usage_late` | one capture | *violated*: is every late body cancelled |
| `surface_chain` | three releases out of families of surfaces (10,619) | do consumers survive, do verdicts compose, does "none" mean none |
| `sdk_releases` | `ReleaseWorkflow`: 3 commits, 3 versions, 2 surfaces, tagged in any order; two tarballs for one version, which is also published by hand (722,120) | compatibility of what is published, truth of what the jobs report, completion by re-runs, refinement of `SdkReleases` |
| `sdk_releases_resumed` | the same | *violated*: has a version the bump over the one published before it |
| `sdk_generation` | five revisions, three sets of field types, five sets of contracts, four edits; some 200 requests, 8 answers (711,935) | does a passed commit hang together, do calls arrive and answers have their types, are model files unambiguous |

**Bounds.** Three attempts give a first, a middle and a last one, which is all
the code distinguishes (`attempt = 1`, `attempt < maxAttempts`, otherwise).
A limit of two bytes with chunks of one and two gives bodies within, at and above
the limit; the timer's range of five, between two and three seconds of two, gives
delays within and beyond it, a cap at it, and dates in the past, and backoff
reaches its ceiling on the second attempt. Calls do not read each other's state; they meet at the shared signal and through
quiescence, for which two calls are enough. Two captures give an abandoned
request that arrives during a later attempt; a compensation of its own is needed
to overtake it. Two transfers are enough for one to abort the other from a
callback, which is all they do to each other. The families of `surface_chain`
vary one concern each (an operation, a request or response schema, schema
attributes, descriptors, references), since the comparison treats them one by one;
three releases are what composition needs. Three commits allow a baseline, a
release that is tagged but not published, or tagged late, and a later one; a minor and a
patch version, and a surface with one operation more, are what the two properties of
compatibility distinguish (the other rule of 0.x is part of the theorems, which are about
all versions, and not of this run); one of three versions with other bytes from a second
build, and with somebody else's, is what the jobs can confuse. The revisions of `sdk_generation` are a plain one, one that
moves a field and makes a path parameter secret, one that lacks a route's metadata
and forbids more, one that gives two operations one name, and one that every
script throws on; the requests have each field and leave it out, with every kind of value, and one
that no schema has; two operations with schemas in two bundles are enough for a
torn read of either; four edits are a move, two starts and a pin, or any other mixture. `MaxCommits`, `Length`
and `MaxEdits` are the only bounds that the code does not have itself. No state
constraint and no symmetry is used.

**Fairness.** `FairSpec` of the fetch and upload modules assumes weak fairness of
queued microtasks only. `CallsSettle` and `UploadSettles` have two parts each: if due timers
fire (`TimersFire`), everything settles, and what was aborted settles without any
timer. Attempts of the coupon client end by their timer, which `FairSpec` of
`CouponUsage` includes. Nothing is assumed of token providers, fetch, streams,
transports, callbacks or the caller, so the liveness results hold when any of
them hangs. Deadlock is checked in every run of these three runtimes; a system
in which everything has settled takes the explicit `Quiet` step, so a waiting
state nobody can leave would be reported. It is not checked in `xhr_transfer`,
which may stop when all transfers are settled, and in the `surface_chain`,
`sdk_releases` and `sdk_generation` runs, which stop at their bound.

**Findings.** The four violated runs are disagreements between the code and what
the repository says of it; `PROJECT.json` quotes the lines.

1. A late answer of a fetch that ignores its signal replaces the response a safe
   call has captured: metadata of one answer, data of another.
2. A timeout while a retryable answer is discarded or decoded makes the runtime
   forget the Retry-After it has read.
3. In the coupon client an abort in the microtask between the answer and its
   hand-over leaves the body uncancelled.
4. A publish job that is run again relies on the verdict of its build job, which may be
   older than the version published before: with 1.0.0 as the baseline of a commit for
   1.1.1, the earlier commit of 1.1.0, with a new operation, is tagged and published
   while the publish job of 1.1.1 has failed; run again, it publishes a patch that
   lacks the operation.

Read while modelling, and not run: the verify job's error for another gitHead or
integrity cannot occur, since a version of npm never changes and the publish job lets
only its own pass (`NoFalseAlarm`). An operation whose first name is `raw`, `call` or `safeCall` would be hidden
by the client's own members (`Found` in `ApiClient`). A required field of a GET whose value is null
or an empty list would leave no trace in the URL (`Traced`); every field of the
GETs in the present tables is a text. An upload whose answer is lost is reported as
failed "before the provider accepted the file" (`upload/client.ts:594`), which the
client cannot know. `README.md:177` says the plan compares the operation map with the
operation ids of the route catalog, but `buildApiExportPlanHandoff` takes both from
the same map, after `readRouteOperation` has dropped the routes that lack metadata, so this comparison cannot fail
(`OperationMapOk` holds of every nonempty `Handoff`). `RUNBOOK.md` calls the comparison of
forbidden values bidirectional, but values that only the SDK forbids are
accepted. The command line never passes `apiSchemaModels`, so
`validateApiSchemaModelHandoff` does not run.

Three limits of the semver gate are assumptions of the models rather than
findings:

- a schema that no operation uses is part of the generated surface and is not
  compared, so it may change under the verdict "none" (`AllReferenced` in
  `SurfaceChain`);
- a version that is tagged below a commit after that was checked is compared with
  nothing above it: `CaretHolds` and `PatchKeepsSurface` are about what a check knew of,
  and finding 4 shows what may be published next to it;
- the baseline is the newest reachable tag, also if it was never published, so a
  version may be compared with another one than the one published before it. The
  results of `SdkReleases` hold in spite of this.

## 4. Proofs

`TypedFetchProofs` proves `Spec => []IInv` for every set of calls, every set of
requests that satisfies `ConstantsOK`, and every maximum of attempts, and from
it each safety and action property of `typed_fetch_one` about `TypedFetch`, that an abort reaches
every call, that a Retry-After beyond the cap surfaces at once, and that a settled
call stays as it is.
`ConstantsOK` says only that the signalled calls are calls and that no request
asks for more attempts than the maximum.

The properties are not inductive by themselves: that a retry-safe call gives up
only on its last attempt depends on why a retryable response is being decoded
(`Exhausted`), that its outcome is true on what happened to the attempt that
decided it (`Evidence`), and both on where in the attempt the call is
(`Progress`, `Causes`). `IInv` is `TypeOK` and, for every call, the conjunction
`Local` of eleven such parts. An action changes one call only, apart from the
abort, so there is one lemma per action that shows `Local` of that call, and one
frame lemma for all others.

It also proves `Spec => KeepsPromise`: initial states and steps of
`TypedFetch` map to initial states and steps, or stutters, of `RetriedCall`, so
that a caller may think of a call as a bounded number of tries with one outcome.

Last come the safety facts that `CallsSettle` rests on. `StepsAdvance` measures a call by attempt and phase, its
token, its sends and its exchanges: no step decreases a measure of any call, and every step but
the one abort increases one. `CallsCannotHang` bounds the measures and shows that a call that has
not settled has a continuation queued or a timer of its own running. Both need `Underway`,
which `IInv` does not say: no exchange exists before its fetch, and the attempt's timeout is armed
as long as the attempt awaits something. That a due timer fires is fairness and left to TLC.

`TypedFetchLayersProofs` shows that `ResponseBody` implements `TypedFetch`
(`BodyImplements`), so that every theorem above holds of it. What it
adds, `BodyInv`, says when a branch may be open or locked, namely only in a phase that still
ends it (`InHand`), and that a delay of the server that is obeyed is within the cap and
therefore exact (`Obeyed`): a conversion that leaves the timer's range ends above every cap. `LimitsOK`
is what `resolveRetryPolicy` and `validateMaxResponseBodyBytes` let through.
`SafeCall` implements `TypedFetch` as well (`SafeCallsAreCalls`), and with a Fetch that
observes its signal the metadata of a safe call are those of the attempt its result comes
from. The invariant `SafeInv` compares what `capturingFetch` holds with what the runtime was
told last: until a call settles, a response it was told of is held (`Held`), and nothing
is held of an attempt that it was not told of (`Told`). The hypothesis is
needed: without it `safe_call_late_response` has a counterexample.

`SignedUploadProofs` proves every safety property of `signed_upload` and that
each step is one of `UploadPromise` or a stutter, for any number of transfers and any
behaviour of callbacks. A completed upload is stored because each phase says what
became of the current attempt (`Current`), a failed one tells the truth because the
cause that is carried to the end was established where it arose (`Evidence`), and
an upload that may not be replayed has one attempt because a delay is waited only if
it may (`Replays`).

`CouponUsageProofs` proves every safety property of `coupon_usage` for any number of
captures and compensations. A confirmed result is proof because a receipt is given only
for what was carried out, and money never goes back, whatever requests of abandoned
attempts still arrive (`Answered`); a compensation finds the usage settled because it began with a saved
receipt (`Funded`), and a saved receipt is one of those (`SavedIsSettled`);
`not_submitted` is certain because a request exists exactly from the phase that sends it
on (`Sent`).

`XhrTransferProofs` proves all properties of `xhr_transfer`, and that nothing is
sent after an abort, for any number of transfers. The invariant ties the three places a transfer is known at together:
it listens, and has a request in the browser, exactly while its promise is
pending.

`SurfaceChainProofs` is about the comparison itself, for all surfaces that are
`WellFormed`. `Follows` restates as one relation what
`compareOperations`, `compareSchemas` and their helpers let pass, without levels, codes and
case distinctions; one lemma for each comparison shows that it reports no breaking change exactly
if its part of the relation holds, and nothing at all only if both sides are the same
(`SetVerdict`, `OperationVerdict`, `TypeVerdict`, `FieldVerdict`, `SchemaVerdict`), and
`GateDecides` puts them together. The comparison itself does not compose: a schema that
is not in use may change unnoticed and then be used. To follow does, because it speaks of
the schemas in use only and what follows uses all of them too (`FollowsIsTransitive`), and
what follows keeps the consumers of its predecessor working (`ConsumersFollow`). The three
properties of `surface_chain` are then proved for chains of any length, with the
invariant that each release follows all earlier ones (`ChainInv`).

`ReleaseWorkflowProofs` proves of `SdkReleases` that caret ranges and patch releases are
compatible with what their check rests on, for any versions, any number of commits and
tags in any order, and any well-formed surfaces. The published versions alone give no inductive
invariant, because a version may be compared with a tag that was never
published, nor do the tags, because any of them may have been pushed between two others
later. `IInv` therefore speaks of lines: a commit comes after its line and may follow
each release in it (`LinesOK`), a tag those it was last checked after, and the
highest of them was its baseline (`ChecksOK`). A passed check finds that no tag below is
newer, so its baseline is the highest; what that came after is older, a version between
two of a caret range is in that range (`Between`), and to follow is transitive
(`LineageFollows`).

It also proves the properties of the jobs for any
versions, tarballs and outsiders, and `ImplementsReleases`, so that what was shown of
`SdkReleases` holds of the jobs. `WInv` says of each version what registry, Release,
artifact and the last successful job have to do with each other (`VersionOK`), and of the run what
its next step relies on (`RunOK`): what a job has seen in the registry stays true,
because entries never change and only the upload makes one with the bytes of an
artifact; and a job that may be resumed, or is under way, belongs to a tag whose last
check has passed (`Cleared`), because a workflow that starts anew forgets both. That a
published version passes its check again, if no newer one was tagged below it, is
`PassesAgain`: the highest of what it was checked after is still its baseline.

`SdkGenerationProofs` proves the five properties of `sdk_generation` for any
revisions, field types, contracts, requests, answers and number of edits. That a passed verdict is about the working tree as it is
(`VerdictHolds`) is inductive, and the rest follows from the check itself: the
lock ties both workflows to one revision (`OnePin`), and the two comparisons of the generated files with
what would be rendered now say for each operation where its fields come from
(`PinnedSchema`, `PinnedInline`). That a call arrives then needs no more induction: descriptor and schema of an operation come from the same
revision (`PinnedDescriptor`), so the checks of the facade and of the generated operation agree on
what is admitted, and encoding takes each field to one place (`EncodedParts`,
`PlacedParts`). Unambiguous model files need an invariant that follows the
script (`NamesHold`): ids compared in one stage must still be distinct when inline
models are added in a later one, from another revision perhaps, and what was
rendered is what is written.

`InitIsShared` of `TypedFetchProofs`, that token, headers and body are made once per
call, is proved and not repeated by a run.

Checked by TLC only: liveness, because the prover has no rule for fairness and
`ENABLED`, and the four runs that expect a violation.

## 5. Not modelled, and the plan

In order of importance:

1. The error envelope: which bodies become which class of error.
2. What is left of the generation: the parser of the contracts and the
   synchronisation of the coupon models.
3. A proof that the files `SdkGeneration` renders are `WellFormed` surfaces, which
   `SurfaceChain` and `SdkReleases` require of theirs.

Left out for good: the text of types in the generated models; wording of
errors; the build and smoke scripts, which are sequential file and process
I/O; the options and the printing of the gate, the plan and the validator.
