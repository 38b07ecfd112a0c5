---------------------------- MODULE SdkReleases ------------------------------
(***************************************************************************)
(* Releases of the SDK: commits on main, version tags, the compatibility   *)
(* gate of scripts/sdk-semver, which CI runs on a commit and the release   *)
(* workflow runs again on a tag, and the npm registry.                     *)
(*                                                                         *)
(* A commit carries what the gate reads: the package version, the          *)
(* generated surface (by name) and whether it has migration notes from     *)
(* the versions before.  Versions are stable and tags are named after the  *)
(* version of their commit, as the release workflow demands.               *)
(***************************************************************************)
EXTENDS SurfaceDiff

CONSTANTS
  Surfaces,       \* names to public surfaces
  Versions,       \* package versions, <<major, minor, patch>>
  MaxCommits      \* bound on the length of main

\* They are what extractGeneratedPublicSurface makes of generated sources.
ASSUME SurfacesOK == \A name \in DOMAIN Surfaces : WellFormed(Surfaces[name])

ASSUME VersionsAreTriples == Versions \subseteq Nat \X Nat \X Nat

VARIABLES
  main,        \* the commits of main, oldest first, and the verdict of CI on each
  tags,        \* version tags: versions to indices of main
  checked,     \* the releases that each tag was last checked after; none if it failed
  published    \* the versions that the workflow has put on npm

vars == <<main, tags, checked, published>>

Names == DOMAIN Surfaces
Content == [version : Versions, surface : Names, noted : BOOLEAN]

\* What a version tag names: the version and the surface of its commit.
Tagged(v) == main[tags[v]]

-----------------------------------------------------------------------------
\* compareExactSemver < 0, for stable versions
Older(v, w) ==
  \E i \in 1..3 : v[i] < w[i] /\ \A j \in 1..i - 1 : v[j] = w[j]

\* The verdict of the comparison for each pair of surfaces.
Compatibility == [p \in Names \X Names |-> Classification(Surfaces[p[1]], Surfaces[p[2]])]

\* Whether consumers survive, and whether everything in use is the same, for each pair.
Survives == [p \in Names \X Names |-> ConsumerSurvives(Surfaces[p[1]], Surfaces[p[2]])]
Same == [p \in Names \X Names |-> SameInUse(Surfaces[p[1]], Surfaces[p[2]])]

\* Mutant: a patch is enough for an additive change.
BumpedPatch(level, v, w) ==
  /\ level = Breaking /\ v[1] = 0 => w[1] > v[1] \/ w[2] > v[2]
  /\ level = Breaking /\ v[1] > 0 => w[1] > v[1]

\* requiredVersionBump and the two checks of evaluateSemverGate: version w has the
\* bump over v that the level requires.
Bumped(level, v, w) ==
  /\ level = Additive \/ (level = Breaking /\ v[1] = 0)
       => w[1] > v[1] \/ (w[1] = v[1] /\ w[2] > v[2])
  /\ level = Breaking /\ v[1] > 0 => w[1] > v[1]

\* evaluateSemverGate: the content may follow the baseline.
GatePasses(baseline, content) ==
  LET level == Compatibility[<<baseline.surface, content.surface>>]
  IN  /\ ~Older(content.version, baseline.version)
      /\ level # "none" => Older(baseline.version, content.version)
      /\ Bumped(level, baseline.version, content.version)
      /\ level = Breaking => content.noted

\* The highest of some versions: at most one.
Highest(versions) == {v \in versions : \A w \in versions : ~Older(v, w)}

\* Those that findBaselineRef considers.  "reachable" are the tags of HEAD and its
\* ancestors, "here" those whose commit is HEAD unless files of the surface differ from
\* HEAD.
Candidates(content, reachable, here) ==
  {v \in reachable : ~Older(content.version, v)} \ ({content.version} \cap here)

\* Mutant: the oldest reachable release is the baseline.
BaselineOldest(content, reachable, here) ==
  {v \in reachable : \A w \in reachable : ~Older(w, v)}

\* findBaselineRef: the highest candidate, if there is one.
Baseline(content, reachable, here) == Highest(Candidates(content, reachable, here))

\* runSdkSemverCli: no reachable release is newer, there is a baseline and the gate
\* lets the content follow it.
Check(content, reachable, here) ==
  /\ \A v \in reachable : ~Older(content.version, v)
  /\ \E v \in Baseline(content, reachable, here) : GatePasses(Tagged(v), content)

TagsUpTo(i) == {v \in DOMAIN tags : tags[v] <= i}
TagsAt(i) == {v \in DOMAIN tags : tags[v] = i}

\* The check of a clean checkout of the commit i.
CheckCommit(i) == Check(main[i], TagsUpTo(i), TagsAt(i))

\* The latest of some tagged versions, and those that its commit came after when CI
\* checked it: what a commit with these tags below it should be compatible with.
Lineage(versions) == UNION {{v} \cup Tagged(v).line : v \in Highest(versions)}

-----------------------------------------------------------------------------
\* The first public release has been made (with --allow-initial-release).
Init ==
  \E v \in Versions, s \in Names :
    /\ main = <<[version |-> v, surface |-> s, noted |-> FALSE, ci |-> TRUE, line |-> {}]>>
    /\ tags = [w \in {v} |-> 1]
    /\ checked = [w \in Versions |-> {}]
    /\ published = {v}

\* A commit reaches main; CI checks it with the tags of that moment.
Commit(content) ==
  /\ Len(main) < MaxCommits
  /\ LET ci == Check(content, DOMAIN tags, {})
     IN  main' = Append(main, [version |-> content.version, surface |-> content.surface,
                               noted |-> content.noted, ci |-> ci,
                               line |-> IF ci THEN Lineage(DOMAIN tags) ELSE {}])
  /\ UNCHANGED <<tags, checked, published>>

\* RUNBOOK.md: a commit of main is tagged after its CI has passed, whether or not main
\* has gone on (release.yml accepts every commit that main contains).
Taggable == {i \in DOMAIN main : main[i].ci}

\* A maintainer pushes the tag of a commit's version; tags are never moved.
PushTag(i) ==
  /\ i \in Taggable
  /\ main[i].version \notin DOMAIN tags
  /\ tags' = [v \in DOMAIN tags \cup {main[i].version} |->
                IF v \in DOMAIN tags THEN tags[v] ELSE i]
  /\ UNCHANGED <<main, checked, published>>

\* The workflow of a tag, which may start late or again, checks its commit with the tags
\* of that moment.  What a published version has passed is not forgotten.
CheckTag(v) ==
  /\ v \notin published
  /\ checked' = [checked EXCEPT ![v] =
                   IF CheckCommit(tags[v]) THEN Lineage(TagsUpTo(tags[v]) \ {v}) ELSE {}]
  /\ UNCHANGED <<main, tags, published>>

\* The workflow publishes a version whose check has passed, at any time after that.  The
\* pinned npm refuses to publish a version lower than the highest there is.
Publish(v) ==
  /\ v \notin published
  /\ checked[v] # {}
  /\ \A w \in published : ~Older(v, w)
  /\ published' = published \cup {v}
  /\ UNCHANGED <<main, tags, checked>>

Next ==
  \/ \E content \in Content : Commit(content)
  \/ \E i \in DOMAIN main : PushTag(i)
  \/ \E v \in DOMAIN tags : CheckTag(v) \/ Publish(v)

Spec == Init /\ [][Next]_vars

-----------------------------------------------------------------------------
Commits == [version : Versions, surface : Names, noted : BOOLEAN, ci : BOOLEAN,
            line : SUBSET Versions]

TypeOK ==
  /\ main \in Seq(Commits)
  /\ tags \in [DOMAIN tags -> DOMAIN main] /\ DOMAIN tags \subseteq Versions
  /\ \A v \in DOMAIN tags : Tagged(v).version = v
  /\ checked \in [Versions -> SUBSET DOMAIN tags]
  /\ published \subseteq DOMAIN tags

\* w is in the caret range of v (what ^v installs).
InRange(v, w) == Older(v, w) /\ v[1] = w[1] /\ (v[1] = 0 => v[2] = w[2])

\* A published version and one that it was checked after, directly or because the check of
\* its predecessors was: a consumer of the older one still works with the newer one if its
\* caret range has it (requiredVersionBump), although each check compares two neighbours
\* only, some of which were never published, and tags were pushed in between.
CaretHolds ==
  \A w \in published : \A v \in checked[w] :
    InRange(v, w) => Survives[<<Tagged(v).surface, Tagged(w).surface>>]

\* If they differ in their patch number only, they differ in nothing that operations use
\* (docs/contracts/sdk-semver.md:33: an additive change needs a minor version).
PatchKeepsSurface ==
  \A w \in published : \A v \in checked[w] :
    v[1] = w[1] /\ v[2] = w[2] => Same[<<Tagged(v).surface, Tagged(w).surface>>]

\* docs/contracts/sdk-semver.md:3 and :33: the surface is compared with the version that was
\* published before, and an additive or breaking difference needs the bump of the table.  So
\* a published version has it over the one published below it, if that is behind it on main,
\* although a tag may be pushed there between the check and the publication.
BumpedOverPrevious ==
  \A v, w \in published :
    /\ Older(v, w) /\ tags[v] < tags[w]
    /\ \A u \in published : ~(Older(v, u) /\ Older(u, w))
    => Bumped(Compatibility[<<Tagged(v).surface, Tagged(w).surface>>], v, w)
=============================================================================
