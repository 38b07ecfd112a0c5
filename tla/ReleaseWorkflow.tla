--------------------------- MODULE ReleaseWorkflow ---------------------------
(***************************************************************************)
(* What .github/workflows/release.yml does between a version tag and a     *)
(* published package: its jobs build, publish and verify, each of which    *)
(* may fail, be cut off, or be run again later with the artifact of an     *)
(* earlier attempt; the npm registry, whose answers may be older than its  *)
(* contents; and the GitHub Release.  Commits, tags and the gate are those *)
(* of SdkReleases, whose CheckTag and Publish are what a run amounts to.   *)
(*                                                                         *)
(* Workflow runs share one concurrency group, so one is in progress at a   *)
(* time.  Time is abstracted: the registry settles at any time after a     *)
(* publication, and an artifact expires at any time between two runs.      *)
(***************************************************************************)
EXTENDS SdkReleases

CONSTANTS
  Tarballs,    \* the bytes that packing the commit of a version may yield
  Outsiders    \* versions somebody may publish or release past the workflow

ASSUME NamesAreNoTarballs ==
  \A v \in Versions : Tarballs[v] \cap {"absent", "foreign", "unfinished"} = {}

VARIABLES
  run,        \* the workflow run in progress: its tag and the step it is at
  artifact,   \* the artifact of each tag's workflow, kept for a day
  passed,     \* the last job of each tag's workflow that has succeeded
  npm,        \* what the registry holds for each version: gitHead and tarball
  release     \* the GitHub Release of each tag

jobs == <<run, artifact, passed>>
remote == <<npm, release>>
wvars == <<vars, jobs, remote>>

AllTarballs == UNION {Tarballs[v] : v \in Versions}
NoRun == [at |-> "idle"]
Unpublished == [head |-> "absent", tarball |-> "absent"]

\* What npm publish makes of a tarball: package.json in it names the tagged commit.
Package(t) == [head |-> "tagged", tarball |-> t]

\* Published by hand, from the tagged commit or from another one: other bytes.
Foreign == {[head |-> h, tarball |-> "foreign"] : h \in {"tagged", "other"}}

At(step) == run.at = step
Goto(step) == run' = [run EXCEPT !.at = step]
Bytes == artifact[run.tag]

WInit ==
  /\ Init
  /\ run = NoRun
  /\ artifact = [v \in Versions |-> "absent"]
  /\ \E w \in published : \E t \in Tarballs[w] :
       /\ npm = [v \in Versions |-> IF v = w THEN Package(t) ELSE Unpublished]
       /\ release = [v \in Versions |-> IF v = w THEN t ELSE "absent"]
       /\ passed = [v \in Versions |-> IF v = w THEN "verify" ELSE "none"]

-----------------------------------------------------------------------------
(* Starting a workflow, and its build job *)

\* Mutant: a run whose check fails leaves the artifact of the run before to be resumed.
StartForgetful(v) ==
  /\ At("idle")
  /\ v \in DOMAIN tags
  /\ CheckTag(v) \/ (v \in published /\ UNCHANGED vars)
  /\ IF CheckCommit(tags[v])
     THEN /\ run' = [tag |-> v, at |-> "build"]
          /\ passed' = [passed EXCEPT ![v] = "none"]
          /\ artifact' = [artifact EXCEPT ![v] = "absent"]
     ELSE UNCHANGED jobs
  /\ UNCHANGED remote

\* The workflow of a pushed tag starts, or all of its jobs are run again, whatever came of
\* them before.  The build job fails, or goes on, as the check of its commit does.
Start(v) ==
  /\ At("idle")
  /\ v \in DOMAIN tags
  /\ CheckTag(v) \/ (v \in published /\ UNCHANGED vars)
  /\ run' = IF CheckCommit(tags[v]) THEN [tag |-> v, at |-> "build"] ELSE NoRun
  /\ passed' = [passed EXCEPT ![v] = "none"]
  /\ artifact' = [artifact EXCEPT ![v] = "absent"]
  /\ UNCHANGED remote

\* buildArtifact packs the commit, the consumer smoke passes, the artifact is uploaded.
Build(t) ==
  /\ At("build") /\ t \in Tarballs[run.tag]
  /\ artifact' = [artifact EXCEPT ![run.tag] = t]
  /\ passed' = [passed EXCEPT ![run.tag] = "build"]
  /\ Goto("publish")
  /\ UNCHANGED <<vars, remote>>

\* The failed jobs of a workflow are run again, with the artifact it has.
Resume(v) ==
  /\ At("idle")
  /\ artifact[v] # "absent"
  /\ \/ passed[v] = "build" /\ run' = [tag |-> v, at |-> "publish"]
     \/ passed[v] = "publish" /\ run' = [tag |-> v, at |-> "verify"]
  /\ UNCHANGED <<vars, artifact, passed, remote>>

\* The retention of an artifact ends; a run of failed jobs then fails at its download.
Expire(v) ==
  /\ At("idle")
  /\ artifact[v] # "absent" /\ passed[v] # "verify"
  /\ artifact' = [artifact EXCEPT ![v] = "absent"]
  /\ UNCHANGED <<vars, run, passed, remote>>

-----------------------------------------------------------------------------
(* The registry *)

Nothing == [version |-> FALSE, head |-> "absent", tarball |-> "absent"]

\* What three npm view calls for one version may say: each answers from the registry's
\* contents or, until it has settled, from the time before the publication.
Answers(v) ==
  IF npm[v] = Unpublished THEN {Nothing}
  ELSE [version : BOOLEAN, head : {"absent", npm[v].head}, tarball : {"absent", npm[v].tarball}]

\* The version is ours: tagged commit and the bytes of this artifact.
Ours(a) == a.version /\ a.head = "tagged" /\ a.tarball = Bytes

\* Mutant: an answer that is not there yet counts as another one.
ConflictsIfAbsent(a) == a.version /\ ~Ours(a)

\* What the verify job reports as an error: the version is there, and something of it
\* that is known differs.
Conflicts(a) ==
  a.version /\ (a.head \notin {"absent", "tagged"} \/ a.tarball \notin {"absent", Bytes})

-----------------------------------------------------------------------------
(* The publish job *)

Done(job, next) == passed' = [passed EXCEPT ![run.tag] = job] /\ Goto(next)

\* npm view says E404: the version is to be published.
NotPublished ==
  /\ At("publish")
  /\ \E a \in Answers(run.tag) : ~a.version
  /\ Goto("upload")
  /\ UNCHANGED <<vars, artifact, passed, remote>>

\* The version is there with our gitHead and our bytes: an earlier attempt published it.
AlreadyPublished ==
  /\ At("publish")
  /\ \E a \in Answers(run.tag) : Ours(a)
  /\ Done("publish", "verify")
  /\ UNCHANGED <<vars, artifact, remote>>

\* npm publish takes effect; the job may be cut off before it knows.  The registry
\* refuses a version that it has, and npm one that is lower than the highest it has.
Upload(known) ==
  /\ At("upload")
  /\ npm[run.tag] = Unpublished
  /\ \A w \in Versions : npm[w] # Unpublished => ~Older(run.tag, w)
  /\ npm' = [npm EXCEPT ![run.tag] = Package(Bytes)]
  /\ published' = published \cup {run.tag}
  /\ \/ known /\ Done("publish", "verify")
     \/ ~known /\ run' = NoRun /\ UNCHANGED passed
  /\ UNCHANGED <<main, tags, checked, artifact, release>>

-----------------------------------------------------------------------------
(* The verify job *)

\* One of the up to twelve polls of the registry finds the version, all of it ours.
\* Before, nothing changes; after twelve, or at an answer that Conflicts, the job fails.
Verified ==
  /\ At("verify")
  /\ \E a \in Answers(run.tag) : Ours(a)
  /\ Goto("smoke")
  /\ UNCHANGED <<vars, artifact, passed, remote>>

\* The published package installs, and its provenance names the workflow, the tagged commit
\* and the integrity that the registry states: nothing published elsewhere has one.
Smoke ==
  /\ At("smoke")
  /\ npm[run.tag] \notin Foreign
  /\ Goto("release")
  /\ UNCHANGED <<vars, artifact, passed, remote>>

Succeed ==
  /\ passed' = [passed EXCEPT ![run.tag] = "verify"]
  /\ run' = NoRun

\* Mutant: the Release is created before the package is published.
CreateReleaseEarly ==
  /\ At("publish")
  /\ release[run.tag] = "absent"
  /\ release' = [release EXCEPT ![run.tag] = Bytes]
  /\ UNCHANGED <<vars, jobs, npm>>

\* There is no GitHub Release, and it is created.
CreateRelease ==
  /\ At("release")
  /\ release[run.tag] = "absent"
  /\ release' = [release EXCEPT ![run.tag] = Bytes]
  /\ Succeed
  /\ UNCHANGED <<vars, artifact, npm>>

\* The job is cut off while it creates the Release: a draft, or assets are missing.
CreateUnfinished ==
  /\ At("release")
  /\ release[run.tag] = "absent"
  /\ release' = [release EXCEPT ![run.tag] = "unfinished"]
  /\ run' = NoRun
  /\ UNCHANGED <<vars, artifact, passed, npm>>

\* Mutant: a Release that exists is good.
AnyRelease ==
  /\ At("release")
  /\ release[run.tag] # "absent"
  /\ Succeed
  /\ UNCHANGED <<vars, artifact, remote>>

\* There is one, final, and its assets are ours.
SameRelease ==
  /\ At("release")
  /\ release[run.tag] = Bytes
  /\ Succeed
  /\ UNCHANGED <<vars, artifact, remote>>

-----------------------------------------------------------------------------
\* A step fails, finds what it must not go on with, or is cut off.
Fail ==
  /\ ~At("idle")
  /\ run' = NoRun
  /\ UNCHANGED <<vars, artifact, passed, remote>>

\* Somebody publishes a version, or makes a Release, by hand.
PublishElsewhere(v) ==
  /\ v \in Outsiders /\ npm[v] = Unpublished
  /\ \E p \in Foreign : npm' = [npm EXCEPT ![v] = p]
  /\ UNCHANGED <<vars, jobs, release>>

ReleaseElsewhere(v) ==
  /\ v \in Outsiders /\ release[v] = "absent"
  /\ release' = [release EXCEPT ![v] = "unfinished"]
  /\ UNCHANGED <<vars, jobs, npm>>

History ==
  /\ \/ \E content \in Content : Commit(content)
     \/ \E i \in DOMAIN main : PushTag(i)
  /\ UNCHANGED <<jobs, remote>>

Job ==
  \/ \E t \in AllTarballs : Build(t)
  \/ NotPublished \/ AlreadyPublished \/ \E known \in BOOLEAN : Upload(known)
  \/ Verified \/ Smoke
  \/ CreateRelease \/ CreateUnfinished \/ SameRelease

Outside(v) == PublishElsewhere(v) \/ ReleaseElsewhere(v)

WNext ==
  \/ History
  \/ Job \/ Fail
  \/ \E v \in Versions : Start(v) \/ Resume(v) \/ Expire(v) \/ Outside(v)

WSpec == WInit /\ [][WNext]_wvars

-----------------------------------------------------------------------------
Steps == {"build", "publish", "upload", "verify", "smoke", "release"}

WTypeOK ==
  /\ run \in {NoRun} \cup [tag : DOMAIN tags, at : Steps]
  /\ artifact \in [Versions -> AllTarballs \cup {"absent"}]
  /\ passed \in [Versions -> {"none", "build", "publish", "verify"}]
  /\ npm \in [Versions -> {Unpublished} \cup Foreign \cup {Package(t) : t \in AllTarballs}]
  /\ release \in [Versions -> AllTarballs \cup {"absent", "unfinished"}]

\* A publish job succeeds only if the registry has what the gate let through, built from
\* the tagged commit, and a verify job only if the GitHub Release has those bytes too:
\* whatever was lost, run again, rebuilt, answered late or made by hand.
NoFalseSuccess ==
  \A v \in Versions :
    /\ passed[v] \in {"publish", "verify"} =>
         v \in published /\ \E t \in Tarballs[v] : npm[v] = Package(t)
    /\ passed[v] = "verify" => npm[v] = Package(release[v])

\* A verify job reports another gitHead or integrity (RUNBOOK.md: an incident) neither
\* because answers are late nor because a publish job was cut off, run again, rebuilt or
\* forestalled by somebody else: none of what the registry may say then conflicts.
NoFalseAlarm ==
  At("verify") => \A a \in Answers(run.tag) : ~Conflicts(a)

\* No tag below the commit of v is newer than the releases that v was checked after.
NoneTaggedSince(v) ==
  \A w \in TagsUpTo(tags[v]) \ {v} : \E b \in checked[v] : ~Older(b, w)

\* RUNBOOK.md:49-52: a version that is on npm can be completed by running its workflow
\* again, whatever was rebuilt, cut off or tagged since: its check passes, unless a newer
\* version has been tagged below its commit, and what packing that commit can yield is
\* what npm has and, unless there is no Release or an unfinished one, which must be
\* removed by hand, what the Release has.
RerunCompletes ==
  \A v \in published :
    /\ tags[v] > 1 /\ NoneTaggedSince(v) => CheckCommit(tags[v])
    /\ release[v] # "unfinished" =>
         \E t \in Tarballs[v] : npm[v] = Package(t) /\ release[v] \in {t, "absent"}

\* Every publication is one that SdkReleases allows: once, in the order of the versions,
\* and of a tag whose last check has passed, although the job that ran it may be long over.
ImplementsReleases == Spec
=============================================================================
