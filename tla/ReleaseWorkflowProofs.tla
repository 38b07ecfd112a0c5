------------------------ MODULE ReleaseWorkflowProofs ------------------------
(***************************************************************************)
(* Releases.  A published version is compatible, as their numbers say,     *)
(* with all those that it was checked after, in whatever order commits     *)
(* were tagged, tags were checked and versions were published.  A check    *)
(* compares a commit with the newest release that it reaches, and that     *)
(* release came after others when CI checked it: the newest of them, and   *)
(* so on.  The surfaces of this line of releases follow one another as     *)
(* their numbers say, numbers do not fall along it, and to follow is       *)
(* transitive.  That nothing else is known of the tags below a commit,     *)
(* some of which may have been pushed later, is why the invariant is about *)
(* lines and not about all tags.                                           *)
(*                                                                         *)
(* Jobs.  Whatever is lost, run again, rebuilt, answered late or made by   *)
(* hand, the jobs of the release workflow publish only what SdkReleases    *)
(* allows, succeed only if registry and Release have the bytes of the      *)
(* tagged commit, report a mismatch only if there is one, and a published  *)
(* version can be completed by running its workflow again, with the        *)
(* exceptions that RerunCompletes names: nobody but the upload makes a     *)
(* registry entry with the bytes of an artifact, so a job that sees such   *)
(* an entry knows that the workflow published it; entries never change;    *)
(* and what a run in progress or a job to be resumed relies on, the last   *)
(* check of its tag, is forgotten only when the workflow starts anew.      *)
(***************************************************************************)
EXTENDS ReleaseWorkflow, SurfaceChainProofs

-----------------------------------------------------------------------------
(* Releases: commits, tags, the gate and the registry *)

Triple == Nat \X Nat \X Nat
Surface(v) == Surfaces[Tagged(v).surface]
SameMinor(v, w) == v[1] = w[1] /\ v[2] = w[2]

\* A newer content that may follow u in its range, and is the same in its minor version.
Compatible(u, content) ==
  /\ Older(u, content.version)
  /\ InRange(u, content.version) => Follows(Surface(u), Surfaces[content.surface])
  /\ SameMinor(u, content.version) => SameInUse(Surface(u), Surfaces[content.surface])

\* The commit i comes after these versions, and its content may follow each of them.
ComesAfter(i, versions) ==
  \A u \in versions : u \in DOMAIN tags /\ tags[u] < i /\ Compatible(u, main[i])

\* A commit that has the tag of its version, or may get it, comes after its line.
LinesOK ==
  \A i \in DOMAIN main :
    (main[i].version \in DOMAIN tags => tags[main[i].version] = i)
      => ComesAfter(i, main[i].line)

\* What a tag was last checked after: the highest of it was the baseline.
CheckOK(v) ==
  /\ v \in DOMAIN tags
  /\ ComesAfter(tags[v], checked[v])
  /\ \E b \in checked[v] : /\ GatePasses(Tagged(b), Tagged(v))
                           /\ \A u \in checked[v] : ~Older(b, u)

ChecksOK == \A v \in Versions : checked[v] # {} => CheckOK(v)

\* Only the first release was published without a check.
PublishedChecked == \A v \in published : tags[v] > 1 => checked[v] # {}

IInv == TypeOK /\ LinesOK /\ ChecksOK /\ PublishedChecked

-----------------------------------------------------------------------------
-----------------------------------------------------------------------------
\* Older is the lexicographic order.
LEMMA OlderDef ==
  ASSUME NEW v \in Triple, NEW w \in Triple
  PROVE  Older(v, w) <=> \/ v[1] < w[1]
                         \/ v[1] = w[1] /\ v[2] < w[2]
                         \/ v[1] = w[1] /\ v[2] = w[2] /\ v[3] < w[3]
<1>1. 1..3 = {1, 2, 3} /\ 1..0 = {} /\ 1..1 = {1} /\ 1..2 = {1, 2}
  OBVIOUS
<1>2. /\ v[1] \in Nat /\ v[2] \in Nat /\ v[3] \in Nat
      /\ w[1] \in Nat /\ w[2] \in Nat /\ w[3] \in Nat
  BY DEF Triple
<1>3. 1 - 1 = 0 /\ 2 - 1 = 1 /\ 3 - 1 = 2
  OBVIOUS
<1>4. Older(v, w) <=> \/ v[1] < w[1] /\ \A j \in 1..0 : v[j] = w[j]
                      \/ v[2] < w[2] /\ \A j \in 1..1 : v[j] = w[j]
                      \/ v[3] < w[3] /\ \A j \in 1..2 : v[j] = w[j]
  BY <1>1, <1>3 DEF Older
<1> QED BY <1>1, <1>2, <1>4

\* It is total and transitive.
LEMMA OlderOrder ==
  ASSUME NEW u \in Triple, NEW v \in Triple, NEW w \in Triple
  PROVE  /\ ~Older(v, v)
         /\ Older(u, v) /\ Older(v, w) => Older(u, w)
         /\ v # w => Older(v, w) \/ Older(w, v)
<1>1. /\ u[1] \in Nat /\ u[2] \in Nat /\ u[3] \in Nat
      /\ v[1] \in Nat /\ v[2] \in Nat /\ v[3] \in Nat
      /\ w[1] \in Nat /\ w[2] \in Nat /\ w[3] \in Nat
  BY DEF Triple
<1>2. ~Older(v, v) /\ (Older(u, v) /\ Older(v, w) => Older(u, w))
  BY <1>1, OlderDef
<1>3. v # w => v[1] # w[1] \/ v[2] # w[2] \/ v[3] # w[3]
  BY DEF Triple
<1>4. v # w => Older(v, w) \/ Older(w, v)
  BY <1>1, <1>3, OlderDef
<1> QED BY <1>2, <1>4

\* A version between two of one caret range, or minor version, is in it.
LEMMA Between ==
  ASSUME NEW u \in Triple, NEW v \in Triple, NEW w \in Triple,
         Older(u, v), Older(v, w)
  PROVE  /\ InRange(u, w) => InRange(u, v) /\ InRange(v, w)
         /\ SameMinor(u, w) => SameMinor(u, v) /\ SameMinor(v, w)
<1>1. /\ u[1] \in Nat /\ u[2] \in Nat /\ u[3] \in Nat
      /\ v[1] \in Nat /\ v[2] \in Nat /\ v[3] \in Nat
      /\ w[1] \in Nat /\ w[2] \in Nat /\ w[3] \in Nat
  BY DEF Triple
<1> QED BY <1>1, OlderDef DEF InRange, SameMinor

\* What the gate says of a baseline and a content that it lets follow.
LEMMA GateMeans ==
  ASSUME NEW b, NEW c, b.version \in Triple, c.version \in Triple,
         b.surface \in Names, c.surface \in Names, GatePasses(b, c)
  PROVE  /\ ~Older(c.version, b.version)
         /\ InRange(b.version, c.version) =>
              Follows(Surfaces[b.surface], Surfaces[c.surface])
         /\ SameMinor(b.version, c.version) =>
              SameInUse(Surfaces[b.surface], Surfaces[c.surface])
<1> DEFINE level == Compatibility[<<b.surface, c.surface>>]
<1>1. level = Classification(Surfaces[b.surface], Surfaces[c.surface])
  BY DEF Compatibility
<1>2. level \in {"none", Additive, Breaking}
  BY <1>1, VerdictOf
<1>3. /\ level # Breaking => Follows(Surfaces[b.surface], Surfaces[c.surface])
      /\ level = "none" => SameInUse(Surfaces[b.surface], Surfaces[c.surface])
  <2>1. WellFormed(Surfaces[b.surface]) /\ WellFormed(Surfaces[c.surface])
    BY SurfacesOK DEF Names
  <2> QED BY <1>1, <2>1, GateDecides
<1>4. /\ ~Older(c.version, b.version)
      /\ Bumped(level, b.version, c.version)
  BY DEF GatePasses
<1>5. /\ b.version[1] \in Nat /\ b.version[2] \in Nat
      /\ c.version[1] \in Nat /\ c.version[2] \in Nat
  BY DEF Triple
<1> HIDE DEF level
<1>6. InRange(b.version, c.version) => level # Breaking
  BY <1>2, <1>4, <1>5 DEF InRange, Bumped, Additive, Breaking
<1>7. SameMinor(b.version, c.version) => level = "none"
  BY <1>2, <1>4, <1>5 DEF SameMinor, Bumped, Additive, Breaking
<1> QED BY <1>3, <1>4, <1>6, <1>7

-----------------------------------------------------------------------------
(* What the invariant says of the state, in the form the steps need it *)

\* The elements of a typed sequence have its type.
LEMMA SequenceTypes ==
  ASSUME NEW S, NEW s \in Seq(S)
  PROVE  Len(s) \in Nat /\ DOMAIN s = 1..Len(s) /\ \A i \in DOMAIN s : s[i] \in S
OBVIOUS

\* Tags are versions of commits, and those are triples and names.
LEMMA Types ==
  ASSUME TypeOK
  PROVE  /\ Len(main) \in Nat /\ DOMAIN main = 1..Len(main)
         /\ \A i \in DOMAIN main :
              /\ main[i].version \in Triple /\ main[i].version \in Versions
              /\ main[i].surface \in Names
         /\ \A v \in DOMAIN tags :
              /\ v \in Triple /\ v \in Versions
              /\ tags[v] \in DOMAIN main /\ tags[v] \in Nat
              /\ Tagged(v).version = v /\ Tagged(v).surface \in Names
              /\ WellFormed(Surface(v))
<1>1. Versions \subseteq Triple
  BY VersionsAreTriples DEF Triple
<1>2. /\ Len(main) \in Nat /\ DOMAIN main = 1..Len(main)
      /\ \A i \in DOMAIN main : main[i] \in Commits
  BY SequenceTypes DEF TypeOK
<1>3. \A i \in DOMAIN main : main[i].version \in Versions /\ main[i].surface \in Names
  BY <1>2 DEF Commits
<1>4. \A v \in DOMAIN tags :
        v \in Versions /\ tags[v] \in DOMAIN main /\ Tagged(v).version = v
  BY DEF TypeOK
<1>5. \A v \in DOMAIN tags : tags[v] \in Nat
  BY <1>2, <1>4
<1>6. \A v \in DOMAIN tags : Tagged(v).surface \in Names /\ WellFormed(Surface(v))
  BY <1>3, <1>4, SurfacesOK DEF Tagged, Surface, Names
<1> QED BY <1>1, <1>2, <1>3, <1>4, <1>5, <1>6

\* The verdict does not depend on what a commit carries besides its content.
LEMMA GateContent ==
  ASSUME NEW b, NEW c, NEW d, GatePasses(b, c),
         c.version = d.version, c.surface = d.surface, c.noted = d.noted
  PROVE  GatePasses(b, d)
BY DEF GatePasses

-----------------------------------------------------------------------------
(* What a check says *)

\* There is at most one highest version, and all others are older.
LEMMA HighestIs ==
  ASSUME NEW R, R \subseteq Triple, NEW b \in Highest(R)
  PROVE  /\ b \in R
         /\ \A u \in R : u = b \/ Older(u, b)
         /\ Highest(R) = {b}
<1>1. b \in R /\ \A u \in R : ~Older(b, u)
  BY DEF Highest
<1>2. \A u \in R : u = b \/ Older(u, b)
  BY <1>1, OlderOrder
<1>3. Highest(R) = {b}
  BY <1>1, <1>2, OlderOrder DEF Highest
<1> QED BY <1>1, <1>2, <1>3

\* So the lineage of some tags is the highest of them and its line.
LEMMA LineageIs ==
  ASSUME NEW R, R \subseteq Triple, NEW b \in Highest(R)
  PROVE  Lineage(R) = {b} \cup Tagged(b).line
BY HighestIs DEF Lineage

\* If a content may follow the highest of some tags, it may follow their whole lineage.
LEMMA LineageFollows ==
  ASSUME IInv, NEW R, R \subseteq DOMAIN tags, NEW b \in Highest(R), NEW c,
         c.version \in Triple, c.version \notin R, c.surface \in Names,
         GatePasses(Tagged(b), c)
  PROVE  /\ b \in Lineage(R)
         /\ \A u \in Lineage(R) : /\ u \in DOMAIN tags /\ tags[u] <= tags[b]
                                  /\ ~Older(b, u)
                                  /\ Compatible(u, c)
<1>1. R \subseteq Triple
  BY Types DEF IInv
<1>2. b \in R /\ b \in DOMAIN tags /\ Lineage(R) = {b} \cup Tagged(b).line
  BY <1>1, HighestIs, LineageIs
<1>3. /\ b \in Triple /\ tags[b] \in DOMAIN main /\ tags[b] \in Nat
      /\ Tagged(b).version = b /\ Tagged(b).surface \in Names
      /\ \A u \in DOMAIN tags : u \in Triple /\ tags[u] \in Nat /\ WellFormed(Surface(u))
  BY <1>2, Types DEF IInv
<1>4. /\ Older(b, c.version)
      /\ InRange(b, c.version) => Follows(Surface(b), Surfaces[c.surface])
      /\ SameMinor(b, c.version) => SameInUse(Surface(b), Surfaces[c.surface])
  <2>1. b # c.version
    BY <1>2
  <2>2. /\ ~Older(c.version, b)
        /\ InRange(b, c.version) => Follows(Surface(b), Surfaces[c.surface])
        /\ SameMinor(b, c.version) => SameInUse(Surface(b), Surfaces[c.surface])
    BY <1>3, GateMeans DEF Surface
  <2> QED BY <1>3, <2>1, <2>2, OlderOrder
<1>5. ASSUME NEW u \in Tagged(b).line
      PROVE  /\ u \in DOMAIN tags /\ tags[u] <= tags[b] /\ ~Older(b, u)
             /\ Compatible(u, c)
  <2> DEFINE new == Surfaces[c.surface]
  <2>1. u \in DOMAIN tags /\ tags[u] < tags[b] /\ Compatible(u, Tagged(b))
    BY <1>2, <1>3 DEF IInv, LinesOK, ComesAfter, Tagged
  <2>2. /\ Older(u, b)
        /\ InRange(u, b) => Follows(Surface(u), Surface(b))
        /\ SameMinor(u, b) => SameInUse(Surface(u), Surface(b))
    BY <1>3, <2>1 DEF Compatible, Surface
  <2>3. Older(u, c.version) /\ ~Older(b, u) /\ tags[u] <= tags[b]
    BY <1>3, <1>4, <2>1, <2>2, OlderOrder
  <2>4. /\ InRange(u, c.version) => InRange(u, b) /\ InRange(b, c.version)
        /\ SameMinor(u, c.version) => SameMinor(u, b) /\ SameMinor(b, c.version)
    BY <1>3, <1>4, <2>1, <2>2, Between
  <2>5. WellFormed(Surface(u)) /\ WellFormed(Surface(b)) /\ WellFormed(new)
    BY <1>2, <1>3, <2>1, SurfacesOK DEF Names
  <2> HIDE DEF new
  <2>6. Follows(Surface(u), Surface(b)) /\ Follows(Surface(b), new) => Follows(Surface(u), new)
    BY <2>5, FollowsIsTransitive
  <2>7. SameInUse(Surface(u), Surface(b)) /\ SameInUse(Surface(b), new)
          => SameInUse(Surface(u), new)
    BY SameInUseTransitive
  <2> QED BY <1>4, <2>1, <2>2, <2>3, <2>4, <2>6, <2>7 DEF Compatible, new
<1>6. ~Older(b, b) /\ tags[b] <= tags[b] /\ Compatible(b, c)
  BY <1>3, <1>4, OlderOrder DEF Compatible
<1> QED BY <1>2, <1>5, <1>6

\* A passed check of a tag: its lineage without the tag itself.
LEMMA PassedTag ==
  ASSUME IInv, NEW v \in DOMAIN tags, CheckCommit(tags[v])
  PROVE  LET before == Lineage(TagsUpTo(tags[v]) \ {v})
         IN  /\ ComesAfter(tags[v], before)
             /\ \E b \in before : /\ GatePasses(Tagged(b), Tagged(v))
                                  /\ \A u \in before : ~Older(b, u)
<1> DEFINE i == tags[v]
           R == TagsUpTo(i) \ {v}
<1>1. /\ v \in Triple /\ i \in Nat /\ Tagged(v).version = v /\ Tagged(v).surface \in Names
      /\ Tagged(v) = main[i]
      /\ \A u \in DOMAIN tags : tags[u] \in Nat /\ Tagged(u).version = u
  BY Types DEF IInv, Tagged
<1>2. /\ R \subseteq DOMAIN tags /\ v \notin R
      /\ \A u \in R : tags[u] <= i
  BY DEF TagsUpTo
<1>3. Baseline(main[i], TagsUpTo(i), TagsAt(i)) = Highest(R)
  <2>1. \A u \in TagsUpTo(i) : ~Older(v, u)
    BY <1>1 DEF CheckCommit, Check
  <2>2. v \in TagsAt(i)
    BY DEF TagsAt
  <2> QED BY <1>1, <2>1, <2>2 DEF Baseline, Candidates
<1>4. PICK b \in Highest(R) : GatePasses(Tagged(b), Tagged(v))
  BY <1>1, <1>3 DEF CheckCommit, Check
<1> HIDE DEF R
<1>5. /\ b \in Lineage(R)
      /\ \A u \in Lineage(R) : /\ u \in DOMAIN tags /\ tags[u] <= tags[b]
                               /\ ~Older(b, u)
                               /\ Compatible(u, Tagged(v))
  BY <1>1, <1>2, <1>4, LineageFollows
<1>6. tags[b] < i
  <2>1. b \in R
    BY <1>4 DEF Highest
  <2>2. b # v /\ b \in DOMAIN tags /\ tags[b] <= i
    BY <1>2, <2>1
  <2>3. tags[b] # i
    BY <1>1, <2>2 DEF Tagged
  <2> QED BY <1>1, <2>2, <2>3
<1>7. \A u \in Lineage(R) : tags[u] < i
  BY <1>1, <1>5, <1>6
<1>8. ComesAfter(i, Lineage(R))
  BY <1>1, <1>5, <1>7 DEF ComesAfter
<1> QED BY <1>4, <1>5, <1>8 DEF R

-----------------------------------------------------------------------------
LEMMA InitInv == Init => IInv
<1> SUFFICES ASSUME Init PROVE IInv
  OBVIOUS
<1>1. PICK v \in Versions, s \in Names :
        /\ main = <<[version |-> v, surface |-> s, noted |-> FALSE, ci |-> TRUE, line |-> {}]>>
        /\ tags = [w \in {v} |-> 1]
        /\ checked = [w \in Versions |-> {}]
        /\ published = {v}
  BY DEF Init
<1>2. /\ DOMAIN main = {1} /\ Len(main) = 1 /\ DOMAIN tags = {v} /\ tags[v] = 1
      /\ main[1] = [version |-> v, surface |-> s, noted |-> FALSE, ci |-> TRUE, line |-> {}]
  BY <1>1
<1>3. TypeOK
  BY <1>1, <1>2 DEF TypeOK, Tagged, Commits
<1>4. LinesOK
  BY <1>2 DEF LinesOK, ComesAfter
<1>5. ChecksOK /\ PublishedChecked
  BY <1>1, <1>2 DEF ChecksOK, PublishedChecked
<1> QED BY <1>3, <1>4, <1>5 DEF IInv

-----------------------------------------------------------------------------
\* What is known of commits and checks stays true while commits and tags are added only.
LEMMA KnownStays ==
  ASSUME IInv, \A i \in DOMAIN main : i \in DOMAIN main' /\ main'[i] = main[i],
         \A v \in DOMAIN tags : v \in DOMAIN tags' /\ tags'[v] = tags[v]
  PROVE  /\ \A v \in DOMAIN tags : Tagged(v)' = Tagged(v)
         /\ \A i \in DOMAIN main : \A versions :
              ComesAfter(i, versions) => ComesAfter(i, versions)'
         /\ \A v \in Versions : checked'[v] = checked[v] /\ CheckOK(v) => CheckOK(v)'
<1>1. \A v \in DOMAIN tags : tags[v] \in DOMAIN main
  BY Types DEF IInv
<1>2. \A v \in DOMAIN tags : Tagged(v)' = Tagged(v) /\ Surface(v)' = Surface(v)
  BY <1>1 DEF Tagged, Surface
<1>3. ASSUME NEW i \in DOMAIN main, NEW versions, ComesAfter(i, versions)
      PROVE  ComesAfter(i, versions)'
  BY <1>2, <1>3 DEF ComesAfter, Compatible
<1>4. ASSUME NEW v \in Versions, checked'[v] = checked[v], CheckOK(v)
      PROVE  CheckOK(v)'
  <2>1. v \in DOMAIN tags /\ ComesAfter(tags[v], checked[v])
    BY <1>4 DEF CheckOK
  <2>2. v \in DOMAIN tags' /\ tags'[v] = tags[v] /\ ComesAfter(tags[v], checked[v])'
    <3>1. ASSUME NEW i \in DOMAIN main, NEW versions, i = tags[v], versions = checked[v]
          PROVE  ComesAfter(tags[v], checked[v])'
      <4>1. ComesAfter(i, versions)'
        BY <1>3, <2>1, <3>1
      <4>2. i = tags'[v] /\ versions = checked'[v]
        BY <1>4, <2>1, <3>1
      <4> QED BY <4>1, <4>2 DEF ComesAfter
    <3> QED BY <1>1, <2>1, <3>1
  <2>3. PICK b \in checked[v] : /\ GatePasses(Tagged(b), Tagged(v))
                                /\ \A u \in checked[v] : ~Older(b, u)
    BY <1>4 DEF CheckOK
  <2>4. b \in DOMAIN tags
    BY <2>1, <2>3 DEF ComesAfter
  <2>5. Tagged(b)' = Tagged(b) /\ Tagged(v)' = Tagged(v)
    BY <1>2, <2>1, <2>4
  <2> QED BY <1>4, <2>2, <2>3, <2>5 DEF CheckOK, GatePasses
<1> QED BY <1>2, <1>3, <1>4

\* A commit keeps the invariant: its CI has just been run with all tags.
LEMMA CommitInv ==
  ASSUME IInv, NEW content \in Content, Commit(content)
  PROVE  IInv'
<1> DEFINE n == Len(main) + 1
           ci == Check(content, DOMAIN tags, {})
<1> PICK commit :
      commit = [version |-> content.version, surface |-> content.surface,
                noted |-> content.noted, ci |-> ci,
                line |-> IF ci THEN Lineage(DOMAIN tags) ELSE {}]
  OBVIOUS
<1>1. /\ main' = Append(main, commit)
      /\ tags' = tags /\ checked' = checked /\ published' = published
  BY DEF Commit
<1>2. /\ Len(main) \in Nat /\ DOMAIN main = 1..Len(main)
      /\ \A v \in DOMAIN tags : tags[v] \in DOMAIN main /\ v \in Triple
      /\ content.version \in Versions /\ content.version \in Triple
      /\ content.surface \in Names /\ content.noted \in BOOLEAN
  BY Types, VersionsAreTriples DEF IInv, Content, Triple
<1>3. ci \in BOOLEAN
  BY DEF Check
<1> HIDE DEF ci
<1>4. commit.line \subseteq Versions
  <2>1. \A v \in Highest(DOMAIN tags) : v \in Versions /\ Tagged(v).line \subseteq Versions
    <3>1. \A v \in DOMAIN tags : v \in Versions /\ tags[v] \in DOMAIN main
      BY Types DEF IInv
    <3>2. \A i \in DOMAIN main : main[i].line \subseteq Versions
      <4>1. \A i \in DOMAIN main : main[i] \in Commits
        BY SequenceTypes DEF IInv, TypeOK
      <4> QED BY <4>1 DEF Commits
    <3> QED BY <3>1, <3>2 DEF Highest, Tagged
  <2> QED BY <2>1 DEF Lineage
<1>5. commit \in Commits
  BY <1>2, <1>3, <1>4 DEF Commits
<1>6. /\ commit.version = content.version /\ commit.surface = content.surface
      /\ commit.noted = content.noted
      /\ commit.line = IF ci THEN Lineage(DOMAIN tags) ELSE {}
  OBVIOUS
<1>7. /\ DOMAIN main' = 1..n /\ main'[n] = commit /\ n \notin DOMAIN main
      /\ \A i \in DOMAIN main : i \in DOMAIN main' /\ main'[i] = main[i]
  BY <1>1, <1>2, <1>5 DEF IInv, TypeOK
<1>8. /\ \A v \in DOMAIN tags : Tagged(v)' = Tagged(v)
      /\ \A i \in DOMAIN main : \A versions :
           ComesAfter(i, versions) => ComesAfter(i, versions)'
      /\ \A v \in Versions : CheckOK(v) => CheckOK(v)'
  BY <1>1, <1>7, KnownStays
<1>9. TypeOK'
  <2>1. main' \in Seq(Commits)
    BY <1>1, <1>5 DEF IInv, TypeOK
  <2>2. tags' \in [DOMAIN tags' -> DOMAIN main'] /\ DOMAIN tags' \subseteq Versions
    BY <1>1, <1>2, <1>7 DEF IInv, TypeOK
  <2>3. \A v \in DOMAIN tags' : Tagged(v)'.version = v
    BY <1>1, <1>8 DEF IInv, TypeOK
  <2>4. checked' \in [Versions -> SUBSET DOMAIN tags'] /\ published' \subseteq DOMAIN tags'
    BY <1>1 DEF IInv, TypeOK
  <2> QED BY <2>1, <2>2, <2>3, <2>4 DEF TypeOK
<1>10. LinesOK'
  <2> SUFFICES ASSUME NEW i \in 1..n,
                      main'[i].version \in DOMAIN tags => tags[main'[i].version] = i
               PROVE  ComesAfter(i, main[i].line)'
    BY <1>1, <1>7 DEF LinesOK
  <2>1. CASE i = n
    <3>1. content.version \notin DOMAIN tags
      BY <1>2, <1>6, <1>7, <2>1
    <3>2. \A u \in commit.line : u \in DOMAIN tags /\ Compatible(u, commit)
      <4>1. CASE ~ci
        BY <1>6, <4>1
      <4>2. CASE ci
        <5>1. Candidates(content, DOMAIN tags, {}) = DOMAIN tags
          BY <4>2 DEF ci, Check, Candidates
        <5>2. PICK b \in Highest(DOMAIN tags) : GatePasses(Tagged(b), content)
          BY <4>2, <5>1 DEF ci, Check, Baseline
        <5>3. GatePasses(Tagged(b), commit)
          BY <1>6, <5>2, GateContent
        <5> QED BY <1>2, <1>6, <3>1, <4>2, <5>3, LineageFollows
      <4> QED BY <4>1, <4>2
    <3>3. \A u \in commit.line :
            /\ u \in DOMAIN tags' /\ tags'[u] < n
            /\ Compatible(u, commit)'
      BY <1>1, <1>2, <1>8, <3>2 DEF Compatible, Surface
    <3> QED BY <1>7, <2>1, <3>3 DEF ComesAfter, Compatible
  <2>2. CASE i # n
    <3>1. i \in DOMAIN main /\ main'[i] = main[i]
      BY <1>2, <1>7, <2>2
    <3>2. ComesAfter(i, main[i].line)
      BY <3>1 DEF IInv, LinesOK
    <3> QED BY <1>8, <3>1, <3>2 DEF ComesAfter
  <2> QED BY <2>1, <2>2
<1>11. ChecksOK' /\ PublishedChecked'
  BY <1>1, <1>8 DEF IInv, ChecksOK, PublishedChecked
<1> QED BY <1>9, <1>10, <1>11 DEF IInv

\* A tag keeps the invariant, whichever commit it is put on: nothing was checked with it.
LEMMA PushTagInv ==
  ASSUME IInv, NEW i \in DOMAIN main, PushTag(i)
  PROVE  IInv'
<1> PICK t : t = main[i].version
  OBVIOUS
<1>1. /\ t \notin DOMAIN tags
      /\ main' = main /\ checked' = checked /\ published' = published
      /\ tags' = [v \in DOMAIN tags \cup {t} |-> IF v \in DOMAIN tags THEN tags[v] ELSE i]
  BY DEF PushTag
<1>2. /\ DOMAIN tags' = DOMAIN tags \cup {t} /\ tags'[t] = i
      /\ \A v \in DOMAIN tags : tags'[v] = tags[v]
  BY <1>1
<1>3. /\ \A v \in DOMAIN tags : Tagged(v)' = Tagged(v)
      /\ \A j \in DOMAIN main : \A versions :
           ComesAfter(j, versions) => ComesAfter(j, versions)'
      /\ \A v \in Versions : CheckOK(v) => CheckOK(v)'
  BY <1>1, <1>2, KnownStays
<1>4. TypeOK'
  <2>1. t \in Versions
    BY Types DEF IInv
  <2>2. tags' \in [DOMAIN tags' -> DOMAIN main'] /\ DOMAIN tags' \subseteq Versions
    BY <1>1, <1>2, <2>1 DEF IInv, TypeOK
  <2>3. \A v \in DOMAIN tags' : Tagged(v)'.version = v
    BY <1>1, <1>2, <1>3 DEF IInv, TypeOK, Tagged
  <2>4. checked' \in [Versions -> SUBSET DOMAIN tags'] /\ published' \subseteq DOMAIN tags'
    BY <1>1, <1>2 DEF IInv, TypeOK
  <2>5. main' \in Seq(Commits)
    BY <1>1 DEF IInv, TypeOK
  <2> QED BY <2>2, <2>3, <2>4, <2>5 DEF TypeOK
<1>5. LinesOK'
  <2> SUFFICES ASSUME NEW j \in DOMAIN main,
                      main[j].version \in DOMAIN tags' => tags'[main[j].version] = j
               PROVE  ComesAfter(j, main[j].line)'
    BY <1>1 DEF LinesOK
  <2>1. main[j].version \in DOMAIN tags => tags[main[j].version] = j
    BY <1>2
  <2>2. ComesAfter(j, main[j].line)
    BY <2>1 DEF IInv, LinesOK
  <2> QED BY <1>1, <1>3, <2>2 DEF ComesAfter
<1>6. ChecksOK' /\ PublishedChecked'
  BY <1>1, <1>2, <1>3 DEF IInv, TypeOK, ChecksOK, PublishedChecked
<1> QED BY <1>4, <1>5, <1>6 DEF IInv

\* The check of a tag keeps it: the verdict is new, or there is none.
LEMMA CheckTagInv ==
  ASSUME IInv, NEW v \in DOMAIN tags, CheckTag(v)
  PROVE  IInv'
<1> DEFINE before == Lineage(TagsUpTo(tags[v]) \ {v})
           verdict == IF CheckCommit(tags[v]) THEN before ELSE {}
<1>1. /\ v \notin published /\ v \in Versions
      /\ main' = main /\ tags' = tags /\ published' = published
      /\ checked' = [checked EXCEPT ![v] = verdict]
  BY Types DEF CheckTag, IInv
<1>2. verdict # {} => /\ ComesAfter(tags[v], verdict)
                      /\ \E b \in verdict : /\ GatePasses(Tagged(b), Tagged(v))
                                            /\ \A u \in verdict : ~Older(b, u)
  BY PassedTag
<1>3. verdict \subseteq DOMAIN tags
  BY <1>2 DEF ComesAfter
<1> HIDE DEF verdict
<1>4. /\ checked'[v] = verdict
      /\ \A w \in Versions : w # v => checked'[w] = checked[w]
  BY <1>1 DEF IInv, TypeOK
<1>5. TypeOK'
  BY <1>1, <1>3 DEF IInv, TypeOK, Tagged
<1>6. /\ \A i \in DOMAIN main : \A versions :
           ComesAfter(i, versions) => ComesAfter(i, versions)'
      /\ \A w \in Versions : checked'[w] = checked[w] /\ CheckOK(w) => CheckOK(w)'
      /\ \A w \in DOMAIN tags : Tagged(w)' = Tagged(w)
  BY <1>1, KnownStays
<1>7. LinesOK'
  <2> SUFFICES ASSUME NEW j \in DOMAIN main,
                      main[j].version \in DOMAIN tags => tags[main[j].version] = j
               PROVE  ComesAfter(j, main[j].line)'
    BY <1>1 DEF LinesOK
  <2>1. ComesAfter(j, main[j].line)
    BY DEF IInv, LinesOK
  <2> QED BY <1>1, <1>6, <2>1 DEF ComesAfter
<1>8. ASSUME verdict # {} PROVE CheckOK(v)'
  <2>1. PICK b \in verdict : /\ GatePasses(Tagged(b), Tagged(v))
                             /\ \A u \in verdict : ~Older(b, u)
    BY <1>2, <1>8
  <2>2. Tagged(b)' = Tagged(b) /\ Tagged(v)' = Tagged(v)
    BY <1>3, <1>6, <2>1
  <2>3. ComesAfter(tags[v], checked[v])'
    <3>1. ASSUME NEW u \in verdict
          PROVE  u \in DOMAIN tags /\ tags[u] < tags[v] /\ Compatible(u, main[tags[v]])
      BY <1>2, <1>8 DEF ComesAfter
    <3>2. ASSUME NEW u \in DOMAIN tags PROVE Surface(u)' = Surface(u)
      BY <1>6 DEF Surface
    <3> QED BY <1>1, <1>4, <3>1, <3>2 DEF ComesAfter, Compatible
  <2> QED BY <1>1, <1>4, <2>1, <2>2, <2>3 DEF CheckOK, GatePasses
<1>9. ChecksOK'
  BY <1>4, <1>6, <1>8 DEF IInv, ChecksOK
<1>10. PublishedChecked'
  BY <1>1, <1>4 DEF IInv, TypeOK, PublishedChecked
<1> QED BY <1>5, <1>7, <1>9, <1>10 DEF IInv

\* A publication touches neither commits nor tags, and follows a check.
LEMMA PublishInv ==
  ASSUME IInv, NEW v \in DOMAIN tags, Publish(v)
  PROVE  IInv'
<1>1. /\ main' = main /\ tags' = tags /\ checked' = checked
      /\ published' = published \cup {v} /\ checked[v] # {}
  BY DEF Publish
<1>2. TypeOK'
  BY <1>1 DEF IInv, TypeOK, Tagged
<1>3. LinesOK' /\ ChecksOK'
  BY <1>1 DEF IInv, LinesOK, ChecksOK, CheckOK, ComesAfter, Compatible, GatePasses, Tagged, Surface
<1>4. PublishedChecked'
  BY <1>1 DEF IInv, PublishedChecked
<1> QED BY <1>2, <1>3, <1>4 DEF IInv

\* The invariant under a step that changes nothing.
LEMMA StutterInv == IInv /\ UNCHANGED vars => IInv'
BY DEF vars, IInv, TypeOK, LinesOK, ChecksOK, CheckOK, ComesAfter, Compatible, GatePasses,
       PublishedChecked, Tagged, Surface

-----------------------------------------------------------------------------
\* Every step keeps the invariant.
LEMMA NextInv == ASSUME IInv, [Next]_vars PROVE IInv'
<1>1. CASE \E content \in Content : Commit(content)
  BY <1>1, CommitInv
<1>2. CASE \E i \in DOMAIN main : PushTag(i)
  BY <1>2, PushTagInv
<1>3. CASE \E v \in DOMAIN tags : CheckTag(v) \/ Publish(v)
  BY <1>3, CheckTagInv, PublishInv
<1>4. CASE UNCHANGED vars
  BY <1>4, StutterInv
<1> QED BY <1>1, <1>2, <1>3, <1>4 DEF Next

\* The invariant, for every set of surfaces, every set of versions and any number of
\* commits, tags, checks and publications, in any order.
THEOREM Invariance == Spec => []IInv
<1>1. IInv /\ [Next]_vars => IInv'
  BY NextInv
<1> QED BY <1>1, InitInv, PTL DEF Spec

\* The types of the state (commits with versions and surfaces, tags named after the
\* versions of their commits, only tagged versions published).
THEOREM TypesOK == Spec => []TypeOK
<1>1. IInv => TypeOK
  BY DEF IInv
<1> QED BY <1>1, Invariance, PTL

\* What a published version was checked after.
LEMMA PublishedFollows ==
  ASSUME IInv, NEW w \in published, NEW v \in checked[w]
  PROVE  /\ Tagged(v).surface \in Names /\ Tagged(w).surface \in Names
         /\ WellFormed(Surface(v)) /\ WellFormed(Surface(w))
         /\ InRange(v, w) => Follows(Surface(v), Surface(w))
         /\ SameMinor(v, w) => SameInUse(Surface(v), Surface(w))
<1>1. w \in DOMAIN tags /\ w \in Versions
  BY DEF IInv, TypeOK
<1>2. v \in DOMAIN tags /\ Compatible(v, Tagged(w))
  BY <1>1 DEF IInv, ChecksOK, CheckOK, ComesAfter, Tagged
<1> QED BY <1>1, <1>2, Types DEF IInv, Compatible, Surface

\* Whatever was tagged, checked and published in whatever order, a consumer of a published
\* version works with those of its caret range that were checked after it.
THEOREM CaretRanges == Spec => []CaretHolds
<1>1. IInv => CaretHolds
  <2> SUFFICES ASSUME IInv, NEW w \in published, NEW v \in checked[w], InRange(v, w)
               PROVE  Survives[<<Tagged(v).surface, Tagged(w).surface>>]
    BY DEF CaretHolds
  <2>1. ConsumerSurvives(Surface(v), Surface(w))
    BY PublishedFollows, ConsumersFollow
  <2> QED BY <2>1, PublishedFollows DEF Survives, Surface
<1> QED BY <1>1, Invariance, PTL

\* A published version is the same in all that operations use as those of its minor
\* version that it was checked after.
THEOREM PatchesKeepSurface == Spec => []PatchKeepsSurface
<1>1. IInv => PatchKeepsSurface
  <2> SUFFICES ASSUME IInv, NEW w \in published, NEW v \in checked[w], SameMinor(v, w)
               PROVE  Same[<<Tagged(v).surface, Tagged(w).surface>>]
    BY DEF PatchKeepsSurface, SameMinor
  <2>1. SameInUse(Surface(v), Surface(w))
    BY PublishedFollows
  <2> QED BY <2>1, PublishedFollows DEF Same, Surface
<1> QED BY <1>1, Invariance, PTL

\* A tag that has passed its check passes it again, unless a newer version has been
\* tagged below its commit: what it was checked after still has the highest.
LEMMA PassesAgain ==
  ASSUME IInv, NEW v \in Versions, checked[v] # {}, NoneTaggedSince(v)
  PROVE  CheckCommit(tags[v])
<1> DEFINE i == tags[v]
           R == TagsUpTo(i) \ {v}
<1>1. v \in DOMAIN tags /\ ComesAfter(i, checked[v])
  BY DEF IInv, ChecksOK, CheckOK
<1>2. PICK b \in checked[v] : /\ GatePasses(Tagged(b), Tagged(v))
                              /\ \A u \in checked[v] : ~Older(b, u)
  BY DEF IInv, ChecksOK, CheckOK
<1>3. /\ \A u \in DOMAIN tags : u \in Triple /\ tags[u] \in Nat
      /\ Tagged(v).version = v /\ Tagged(v) = main[i]
  BY <1>1, Types DEF IInv, Tagged
<1>4. \A u \in checked[v] : u \in DOMAIN tags /\ tags[u] < i /\ Older(u, v)
  BY <1>1, <1>3 DEF ComesAfter, Compatible
<1>5. b \in R
  BY <1>1, <1>2, <1>3, <1>4 DEF TagsUpTo
<1>6. \A w \in R : ~Older(b, w) /\ Older(w, v)
  <2> SUFFICES ASSUME NEW w \in R PROVE ~Older(b, w) /\ Older(w, v)
    OBVIOUS
  <2>1. w \in DOMAIN tags
    BY DEF TagsUpTo
  <2>2. PICK u \in checked[v] : ~Older(u, w)
    BY DEF NoneTaggedSince
  <2>3. u \in Triple /\ w \in Triple /\ b \in Triple /\ v \in Triple
    BY <1>1, <1>2, <1>3, <1>4, <2>1
  <2>4. (w = u \/ Older(w, u)) /\ (u = b \/ Older(u, b)) /\ Older(u, v)
    BY <1>2, <1>4, <2>2, <2>3, OlderOrder
  <2>5. Older(w, v) /\ (w = b \/ Older(w, b))
    BY <2>3, <2>4, OlderOrder
  <2> QED BY <2>3, <2>5, OlderOrder
<1>7. \A w \in TagsUpTo(i) : ~Older(v, w)
  <2>1. \A w \in TagsUpTo(i) : w \in R \/ w = v
    OBVIOUS
  <2>2. \A w \in TagsUpTo(i) : w \in Triple
    BY <1>3 DEF TagsUpTo
  <2> QED BY <1>1, <1>3, <1>6, <2>1, <2>2, OlderOrder
<1>8. Candidates(main[i], TagsUpTo(i), TagsAt(i)) = R
  <2>1. v \in TagsAt(i)
    BY <1>1 DEF TagsAt
  <2> QED BY <1>3, <1>7, <2>1 DEF Candidates
<1>9. b \in Baseline(main[i], TagsUpTo(i), TagsAt(i))
  BY <1>5, <1>6, <1>8 DEF Baseline, Highest
<1> QED BY <1>2, <1>3, <1>7, <1>9 DEF CheckCommit, Check

-----------------------------------------------------------------------------
(* The jobs of the workflow *)

Unmade == {"absent", "unfinished"}

\* The version has passed its check, or did before it was published.
Cleared(v) == v \in published \/ checked[v] # {}

\* What is known of a version, whatever runs.
VersionOK(v) ==
  /\ artifact[v] \in Tarballs[v] \cup {"absent"}
  /\ v \in published => \E t \in Tarballs[v] : npm[v] = Package(t) /\ release[v] \in {t} \cup Unmade
  /\ v \notin published => npm[v] \in {Unpublished} \cup Foreign /\ release[v] \in Unmade
  /\ passed[v] # "none" => v \in DOMAIN tags /\ Cleared(v)
  /\ passed[v] \in {"publish", "verify"} => v \in published
  /\ passed[v] = "verify" => npm[v] = Package(release[v])
  /\ passed[v] = "publish" /\ artifact[v] # "absent" => npm[v] = Package(artifact[v])

\* What the step of a run relies on.
RunOK ==
  /\ ~At("idle") => run.tag \in DOMAIN tags /\ Cleared(run.tag)
  /\ run.at \in {"publish", "upload", "verify", "smoke", "release"} => Bytes # "absent"
  /\ run.at \in {"verify", "smoke", "release"} => run.tag \in published
  /\ run.at \in {"verify", "smoke", "release"} => npm[run.tag] = Package(Bytes)

WInv ==
  /\ WTypeOK
  /\ RunOK
  /\ \A v \in Versions : VersionOK(v)

-----------------------------------------------------------------------------
\* Entries of the registry differ as their commits and bytes do.
LEMMA Entries ==
  /\ \A t, u : Package(t) = Package(u) => t = u
  /\ \A t : Package(t) # Unpublished
  /\ \A v \in Versions : \A t \in Tarballs[v] : Package(t) \notin Foreign /\ t \notin Unmade
<1>1. /\ \A t, u : Package(t) = Package(u) => t = u
      /\ \A t : Package(t) # Unpublished
  BY DEF Package, Unpublished
<1>2. \A v \in Versions : \A t \in Tarballs[v] : t \notin {"absent", "foreign", "unfinished"}
  BY NamesAreNoTarballs
<1>3. \A v \in Versions : \A t \in Tarballs[v] : Package(t) \notin Foreign
  BY <1>2 DEF Package, Foreign
<1> QED BY <1>1, <1>2, <1>3 DEF Unmade

LEMMA WInitInv == WInit => WInv
<1> SUFFICES ASSUME WInit PROVE WInv
  OBVIOUS
<1>0. PICK w \in published : \E t \in Tarballs[w] :
        /\ npm = [v \in Versions |-> IF v = w THEN Package(t) ELSE Unpublished]
        /\ release = [v \in Versions |-> IF v = w THEN t ELSE "absent"]
        /\ passed = [v \in Versions |-> IF v = w THEN "verify" ELSE "none"]
  BY DEF WInit
<1>1. PICK t \in Tarballs[w] :
        /\ npm = [v \in Versions |-> IF v = w THEN Package(t) ELSE Unpublished]
        /\ release = [v \in Versions |-> IF v = w THEN t ELSE "absent"]
        /\ passed = [v \in Versions |-> IF v = w THEN "verify" ELSE "none"]
  BY <1>0
<1>2. run = NoRun /\ artifact = [v \in Versions |-> "absent"]
  BY DEF WInit
<1>3. published = {w} /\ w \in Versions /\ DOMAIN tags = {w}
  BY DEF WInit, Init
<1>4. t \in AllTarballs
  BY <1>3 DEF AllTarballs
<1>5. WTypeOK
  BY <1>1, <1>2, <1>4 DEF WTypeOK
<1>6. RunOK
  BY <1>2 DEF RunOK, NoRun, At
<1>7. \A v \in Versions : VersionOK(v)
  BY <1>1, <1>2, <1>3 DEF VersionOK, Cleared, Unmade
<1> QED BY <1>5, <1>6, <1>7 DEF WInv

-----------------------------------------------------------------------------
(* The steps.  Most leave the history alone, and change at most one version. *)

\* What a run knows of its version while it is going on.
LEMMA RunKnows ==
  ASSUME IInv, WInv, ~At("idle")
  PROVE  /\ run.tag \in DOMAIN tags /\ run.tag \in Versions /\ Cleared(run.tag)
         /\ run = [tag |-> run.tag, at |-> run.at] /\ run.at \in Steps
<1>1. run \in [tag : DOMAIN tags, at : Steps]
  BY DEF WInv, WTypeOK, At, NoRun
<1>2. DOMAIN tags \subseteq Versions /\ Cleared(run.tag)
  BY DEF IInv, TypeOK, WInv, RunOK
<1> QED BY <1>1, <1>2

\* A registry entry that looks like ours in an answer is ours.
LEMMA OursIsOurs ==
  ASSUME IInv, WInv, ~At("idle"), Bytes # "absent", NEW a \in Answers(run.tag), Ours(a)
  PROVE  npm[run.tag] = Package(Bytes) /\ run.tag \in published
<1> DEFINE v == run.tag
<1>1. v \in Versions /\ Bytes \in Tarballs[v]
  BY RunKnows DEF WInv, VersionOK, Bytes
<1>2. npm[v] # Unpublished
  BY DEF Answers, Ours, Nothing
<1>3. a.head \in {"absent", npm[v].head} /\ a.tarball \in {"absent", npm[v].tarball}
  BY <1>2 DEF Answers
<1>4. npm[v].head = "tagged" /\ npm[v].tarball = Bytes
  BY <1>3 DEF Ours
<1>5. npm[v] \notin Foreign
  BY <1>1, <1>4, NamesAreNoTarballs DEF Foreign
<1>6. v \in published
  BY <1>1, <1>2, <1>5 DEF WInv, VersionOK
<1>7. PICK t \in Tarballs[v] : npm[v] = Package(t)
  BY <1>1, <1>6 DEF WInv, VersionOK
<1> QED BY <1>4, <1>6, <1>7 DEF Package

\* Commits and tags: no run, no artifact, no check and nothing remote is touched.
LEMMA HistoryStep ==
  ASSUME IInv, WInv, History
  PROVE  [Next]_vars /\ WInv'
<1>1. [Next]_vars
  BY DEF History, Next
<1>2. /\ UNCHANGED <<checked, published, run, artifact, passed, npm, release>>
      /\ DOMAIN tags \subseteq DOMAIN tags'
  BY DEF History, jobs, remote, Commit, PushTag
<1>3. WTypeOK'
  BY <1>2 DEF WInv, WTypeOK
<1>4. RunOK'
  BY <1>2 DEF WInv, RunOK, Cleared, At, Bytes
<1>5. \A v \in Versions : VersionOK(v)'
  BY <1>2 DEF WInv, VersionOK, Cleared
<1> QED BY <1>1, <1>3, <1>4, <1>5 DEF WInv

\* Steps that change the run alone.
LEMMA RunStep ==
  ASSUME IInv, WInv, UNCHANGED <<vars, artifact, passed, npm, release>>,
         run' \in {NoRun} \cup [tag : DOMAIN tags, at : Steps], RunOK'
  PROVE  WInv'
<1>1. UNCHANGED <<tags, checked, published>>
  BY DEF vars
<1>2. WTypeOK'
  BY <1>1 DEF WInv, WTypeOK
<1>3. \A v \in Versions : VersionOK(v)'
  BY <1>1 DEF WInv, VersionOK, Cleared
<1> QED BY <1>2, <1>3 DEF WInv

LEMMA RunsOnly ==
  ASSUME IInv, WInv,
         \/ \E v \in Versions : Resume(v)
         \/ NotPublished \/ Verified \/ Smoke \/ Fail
  PROVE  WInv'
<1>1. UNCHANGED <<vars, artifact, passed, npm, release>>
  BY DEF Resume, NotPublished, Verified, Smoke, Fail, remote
<1>2. /\ published' = published /\ tags' = tags
      /\ \A v : Cleared(v)' <=> Cleared(v)
  BY <1>1 DEF vars, Cleared
<1> DEFINE Runs == run' \in {NoRun} \cup [tag : DOMAIN tags, at : Steps]
<1>3. ASSUME NEW v \in Versions, Resume(v)
      PROVE  Runs /\ RunOK'
  <2>1. passed[v] \in {"build", "publish"} /\ artifact[v] # "absent"
    BY <1>3 DEF Resume
  <2>2. /\ v \in DOMAIN tags /\ Cleared(v)
        /\ passed[v] = "publish" => v \in published /\ npm[v] = Package(artifact[v])
    BY <2>1 DEF WInv, VersionOK
  <2> QED BY <1>1, <1>2, <1>3, <2>1, <2>2
          DEF Resume, RunOK, Steps, At, Bytes, Package
<1>4. ASSUME Fail PROVE Runs /\ RunOK'
  BY <1>4 DEF Fail, NoRun, RunOK, At
<1>5. ASSUME NEW step \in Steps, ~At("idle"), Goto(step)
      PROVE  Runs /\ run' = [tag |-> run.tag, at |-> step] /\ Bytes' = Bytes
  BY <1>1, <1>5, RunKnows DEF Goto, Bytes
<1>6. ASSUME NotPublished PROVE Runs /\ RunOK'
  <2>1. run.at = "publish" /\ Goto("upload")
    BY <1>6 DEF NotPublished, At
  <2>2. Bytes # "absent"
    BY <2>1 DEF WInv, RunOK
  <2> QED BY <1>2, <1>5, <2>1, <2>2, RunKnows DEF RunOK, Steps, At
<1>7. ASSUME Verified PROVE Runs /\ RunOK'
  <2>1. run.at = "verify" /\ Goto("smoke") /\ \E a \in Answers(run.tag) : Ours(a)
    BY <1>7 DEF Verified, At
  <2>2. Bytes # "absent"
    BY <2>1 DEF WInv, RunOK
  <2>3. npm[run.tag] = Package(Bytes) /\ run.tag \in published
    BY <2>1, <2>2, OursIsOurs DEF At
  <2>4. npm' = npm
    BY <1>1
  <2> QED BY <1>2, <1>5, <2>1, <2>2, <2>3, <2>4, RunKnows
          DEF RunOK, Steps, At, Package
<1>8. ASSUME Smoke PROVE Runs /\ RunOK'
  <2>1. run.at = "smoke" /\ Goto("release")
    BY <1>8 DEF Smoke, At
  <2>2. Bytes # "absent" /\ run.tag \in published /\ npm[run.tag] = Package(Bytes)
    BY <2>1 DEF WInv, RunOK
  <2>3. npm' = npm
    BY <1>1
  <2> QED BY <1>2, <1>5, <2>1, <2>2, <2>3, RunKnows
          DEF RunOK, Steps, At, Package
<1>9. Runs /\ RunOK'
  BY <1>3, <1>4, <1>6, <1>7, <1>8
<1> QED BY <1>1, <1>9, RunStep

\* A workflow that starts forgets what its tag has passed, and goes on if the check passes.
LEMMA StartStep ==
  ASSUME IInv, WInv, NEW v \in Versions, Start(v)
  PROVE  [Next]_vars /\ WInv'
<1>1. /\ v \in DOMAIN tags
      /\ CheckTag(v) \/ (v \in published /\ UNCHANGED vars)
      /\ run' = IF CheckCommit(tags[v]) THEN [tag |-> v, at |-> "build"] ELSE NoRun
      /\ passed' = [passed EXCEPT ![v] = "none"]
      /\ artifact' = [artifact EXCEPT ![v] = "absent"]
      /\ npm' = npm /\ release' = release
  BY DEF Start, remote
<1>2. [Next]_vars
  BY <1>1 DEF Next
<1>3. tags' = tags /\ published' = published
  BY <1>1 DEF CheckTag, vars
<1>4. \A w \in Versions : w # v => checked'[w] = checked[w]
  BY <1>1 DEF CheckTag, vars, IInv, TypeOK
<1>5. CheckCommit(tags[v]) => Cleared(v)'
  <2>1. CASE CheckTag(v) /\ CheckCommit(tags[v])
    <3>1. checked'[v] = Lineage(TagsUpTo(tags[v]) \ {v})
      BY <2>1 DEF CheckTag, IInv, TypeOK
    <3> QED BY <1>1, <2>1, <3>1, PassedTag DEF Cleared
  <2>2. CASE v \in published
    BY <1>3, <2>2 DEF Cleared
  <2> QED BY <1>1, <2>1, <2>2
<1>6. WTypeOK'
  BY <1>1, <1>3 DEF WInv, WTypeOK, Steps, NoRun
<1>7. RunOK'
  <2>1. CASE run' = NoRun
    BY <2>1 DEF RunOK, NoRun, At
  <2>2. CASE CheckCommit(tags[v]) /\ run' = [tag |-> v, at |-> "build"]
    BY <1>1, <1>3, <1>5, <2>2 DEF RunOK, Cleared, At
  <2> QED BY <1>1, <2>1, <2>2
<1>8. \A w \in Versions : VersionOK(w)'
  BY <1>1, <1>3, <1>4 DEF WInv, WTypeOK, VersionOK, Cleared
<1> QED BY <1>2, <1>6, <1>7, <1>8 DEF WInv

LEMMA ExpireStep ==
  ASSUME IInv, WInv, NEW v \in Versions, Expire(v)
  PROVE  WInv'
<1>1. /\ UNCHANGED <<main, tags, checked, published, run, passed, npm, release>>
      /\ At("idle") /\ artifact' = [artifact EXCEPT ![v] = "absent"]
  BY DEF Expire, vars, remote
<1>2. WTypeOK'
  BY <1>1 DEF WInv, WTypeOK
<1>3. RunOK'
  BY <1>1 DEF RunOK, At
<1>4. \A w \in Versions : VersionOK(w)'
  BY <1>1 DEF WInv, WTypeOK, VersionOK, Cleared
<1> QED BY <1>1, <1>2, <1>3, <1>4 DEF WInv

LEMMA BuildStep ==
  ASSUME IInv, WInv, NEW t \in AllTarballs, Build(t)
  PROVE  WInv'
<1> DEFINE v == run.tag
<1>1. /\ UNCHANGED <<main, tags, checked, published, npm, release>>
      /\ run.at = "build" /\ t \in Tarballs[v]
      /\ run' = [run EXCEPT !.at = "publish"]
      /\ passed' = [passed EXCEPT ![v] = "build"]
      /\ artifact' = [artifact EXCEPT ![v] = t]
  BY DEF Build, vars, remote, At, Goto
<1>2. /\ v \in DOMAIN tags /\ v \in Versions /\ Cleared(v)
      /\ run' = [tag |-> v, at |-> "publish"]
  BY <1>1, RunKnows DEF At
<1>3. t # "absent"
  BY <1>1, <1>2, NamesAreNoTarballs
<1>4. WTypeOK'
  BY <1>1, <1>2 DEF WInv, WTypeOK, Steps
<1>5. RunOK'
  <2>1. artifact'[v] = t
    BY <1>1, <1>2 DEF WInv, WTypeOK
  <2> QED BY <1>2, <1>3, <2>1, <1>1 DEF RunOK, Cleared, At, Bytes
<1>6. \A w \in Versions : VersionOK(w)'
  BY <1>1, <1>2 DEF WInv, WTypeOK, VersionOK, Cleared
<1> QED BY <1>4, <1>5, <1>6 DEF WInv

LEMMA AlreadyPublishedStep ==
  ASSUME IInv, WInv, AlreadyPublished
  PROVE  WInv'
<1> DEFINE v == run.tag
<1>1. /\ UNCHANGED <<main, tags, checked, published, artifact, npm, release>>
      /\ run.at = "publish"
      /\ run' = [run EXCEPT !.at = "verify"]
      /\ passed' = [passed EXCEPT ![v] = "publish"]
      /\ \E a \in Answers(v) : Ours(a)
  BY DEF AlreadyPublished, vars, remote, At, Goto, Done
<1>2. v \in DOMAIN tags /\ v \in Versions /\ run' = [tag |-> v, at |-> "verify"]
  BY <1>1, RunKnows DEF At
<1>3. Bytes # "absent"
  BY <1>1 DEF WInv, RunOK
<1>4. v \in published /\ npm[v] = Package(Bytes)
  BY <1>1, <1>3, OursIsOurs DEF At
<1>5. WTypeOK'
  BY <1>1, <1>2 DEF WInv, WTypeOK, Steps
<1>6. RunOK'
  BY <1>1, <1>2, <1>3, <1>4 DEF RunOK, Cleared, At, Bytes
<1>7. \A w \in Versions : VersionOK(w)'
  <2> SUFFICES ASSUME NEW w \in Versions PROVE VersionOK(w)'
    OBVIOUS
  <2>1. CASE w # v
    BY <1>1, <2>1 DEF WInv, WTypeOK, VersionOK, Cleared
  <2>2. CASE w = v
    BY <1>1, <1>2, <1>4, <2>2 DEF WInv, WTypeOK, VersionOK, Cleared, Bytes, Package
  <2> QED BY <2>1, <2>2
<1> QED BY <1>1, <1>5, <1>6, <1>7 DEF WInv

\* The Release of a run is created, or found to be the same, or left unfinished.
LEMMA ReleaseStep ==
  ASSUME IInv, WInv, CreateRelease \/ CreateUnfinished \/ SameRelease
  PROVE  WInv'
<1> DEFINE v == run.tag
<1>1. /\ UNCHANGED <<main, tags, checked, published, artifact, npm>>
      /\ run.at = "release" /\ run' = NoRun
      /\ \/ /\ release' = [release EXCEPT ![v] = Bytes]
            /\ passed' = [passed EXCEPT ![v] = "verify"]
         \/ /\ release[v] = "absent" /\ release' = [release EXCEPT ![v] = "unfinished"]
            /\ passed' = passed
  <2>1. v \in Versions /\ run.at = "release"
    BY RunKnows DEF CreateRelease, CreateUnfinished, SameRelease, At
  <2>2. SameRelease => release = [release EXCEPT ![v] = Bytes]
    BY <2>1 DEF SameRelease, WInv, WTypeOK
  <2> QED BY <2>1, <2>2
          DEF CreateRelease, CreateUnfinished, SameRelease, Succeed, vars, remote
<1>2. v \in DOMAIN tags /\ v \in Versions
  BY <1>1, RunKnows DEF At
<1>3. /\ npm[v] = Package(Bytes) /\ v \in published /\ Bytes \in Tarballs[v]
  BY <1>1, <1>2 DEF WInv, RunOK, VersionOK, Cleared, Bytes
<1>4. \E t \in Tarballs[v] : npm[v] = Package(t) /\ release[v] \in {t} \cup Unmade
  BY <1>2, <1>3 DEF WInv, VersionOK, Cleared
<1>5. release[v] \in {Bytes} \cup Unmade
  BY <1>3, <1>4, Entries
<1>6. passed[v] = "verify" => release[v] = Bytes
  BY <1>2, <1>3, Entries DEF WInv, VersionOK, Cleared
<1>7. Bytes \notin Unmade
  BY <1>2, <1>3, Entries
<1>8. WTypeOK'
  <2>1. Bytes \in AllTarballs
    BY <1>2, <1>3 DEF AllTarballs
  <2> QED BY <1>1, <1>2, <2>1 DEF WInv, WTypeOK
<1>9. RunOK'
  BY <1>1 DEF RunOK, NoRun, At
<1>10. \A w \in Versions : VersionOK(w)'
  <2> SUFFICES ASSUME NEW w \in Versions PROVE VersionOK(w)'
    OBVIOUS
  <2>1. CASE w # v
    <3>1. release'[w] = release[w] /\ passed'[w] = passed[w]
      BY <1>1, <1>2, <2>1 DEF WInv, WTypeOK
    <3> QED BY <1>1, <3>1 DEF WInv, VersionOK, Cleared
  <2>2. CASE w = v
    <3>1. \/ release'[v] = Bytes /\ passed'[v] = "verify"
          \/ release'[v] = "unfinished" /\ passed'[v] = passed[v] /\ passed[v] # "verify"
      BY <1>1, <1>2, <1>6, <1>7 DEF WInv, WTypeOK, Unmade
    <3>2. npm'[v] = Package(Bytes) /\ v \in published' /\ artifact'[v] = Bytes /\ v \in DOMAIN tags'
      BY <1>1, <1>2, <1>3 DEF Bytes
    <3> QED BY <1>3, <2>2, <3>1, <3>2 DEF VersionOK, Cleared, Unmade
  <2> QED BY <2>1, <2>2
<1> QED BY <1>1, <1>8, <1>9, <1>10 DEF WInv

LEMMA OutsideStep ==
  ASSUME IInv, WInv, NEW v \in Versions, Outside(v)
  PROVE  WInv'
<1>1. /\ UNCHANGED <<main, tags, checked, published, run, artifact, passed>>
      /\ \/ /\ npm[v] = Unpublished /\ release' = release
            /\ \E p \in Foreign : npm' = [npm EXCEPT ![v] = p]
         \/ /\ release[v] = "absent" /\ npm' = npm
            /\ release' = [release EXCEPT ![v] = "unfinished"]
  BY DEF Outside, PublishElsewhere, ReleaseElsewhere, vars, jobs
<1>2. v \in published => npm[v] # Unpublished
  BY Entries DEF WInv, VersionOK, Cleared
<1>3. WTypeOK'
  BY <1>1 DEF WInv, WTypeOK
<1>4. \A w \in published : w \in Versions => npm'[w] = npm[w]
  BY <1>1, <1>2 DEF WInv, WTypeOK
<1>5. RunOK'
  <2>1. CASE At("idle")
    BY <1>1, <2>1 DEF RunOK, At
  <2>2. CASE ~At("idle")
    <3>1. run.tag \in Versions
      BY <2>2, RunKnows
    <3> QED BY <1>1, <1>4, <2>2, <3>1 DEF WInv, RunOK, Cleared, At, Bytes
  <2> QED BY <2>1, <2>2
<1>6. \A w \in Versions : VersionOK(w)'
  <2> SUFFICES ASSUME NEW w \in Versions PROVE VersionOK(w)'
    OBVIOUS
  <2>1. CASE w # v
    <3>1. release'[w] = release[w] /\ npm'[w] = npm[w]
      BY <1>1, <2>1 DEF WInv, WTypeOK
    <3> QED BY <1>1, <3>1 DEF WInv, VersionOK, Cleared
  <2>2. CASE w = v
    <3>1. passed[v] = "verify" => release[v] # "absent"
      BY Entries DEF WInv, VersionOK, Cleared, Unmade
    <3> QED BY <1>1, <1>2, <1>4, <2>2, <3>1 DEF WInv, WTypeOK, VersionOK, Cleared, Unmade
  <2> QED BY <2>1, <2>2
<1> QED BY <1>1, <1>3, <1>5, <1>6 DEF WInv

\* A run may publish its version at any later time: it has passed the last check of its
\* tag, it is not on npm, and npm has the published versions, so that none is higher.
LEMMA UploadStep ==
  ASSUME IInv, WInv, NEW known \in BOOLEAN, Upload(known)
  PROVE  [Next]_vars /\ WInv'
<1> DEFINE v == run.tag
<1>1. /\ UNCHANGED <<main, tags, checked, artifact, release>>
      /\ run.at = "upload" /\ npm[v] = Unpublished
      /\ \A w \in Versions : npm[w] # Unpublished => ~Older(v, w)
      /\ npm' = [npm EXCEPT ![v] = Package(Bytes)]
      /\ published' = published \cup {v}
      /\ \/ /\ passed' = [passed EXCEPT ![v] = "publish"]
            /\ run' = [run EXCEPT !.at = "verify"]
         \/ passed' = passed /\ run' = NoRun
  BY DEF Upload, At, Goto, Done
<1>2. v \in DOMAIN tags /\ v \in Versions /\ run = [tag |-> v, at |-> "upload"]
  BY <1>1, RunKnows DEF At
<1>3. Bytes # "absent" /\ Bytes \in Tarballs[v]
  BY <1>1, <1>2 DEF WInv, RunOK, VersionOK, Cleared, Bytes
<1>4. v \notin published
  BY <1>1, <1>2, Entries DEF WInv, VersionOK, Cleared
<1>5. Publish(v)
  <2>1. checked[v] # {}
    BY <1>1, <1>4 DEF WInv, RunOK, Cleared, At
  <2>2. \A w \in published : w \in Versions /\ npm[w] # Unpublished
    BY Entries DEF IInv, TypeOK, WInv, VersionOK, Cleared
  <2> QED BY <1>1, <1>4, <2>1, <2>2 DEF Publish
<1>6. published' = published \cup {v}
  BY <1>1
<1>7. WTypeOK'
  <2>1. Bytes \in AllTarballs
    BY <1>2, <1>3 DEF AllTarballs
  <2> QED BY <1>1, <1>2, <2>1 DEF WInv, WTypeOK, Steps
<1>9. RunOK'
  <2>1. npm'[v] = Package(Bytes)
    BY <1>1, <1>2 DEF WInv, WTypeOK
  <2> QED BY <1>1, <1>2, <1>3, <1>6, <2>1 DEF RunOK, NoRun, Cleared, At, Bytes
<1>10. \A w \in Versions : VersionOK(w)'
  <2> SUFFICES ASSUME NEW w \in Versions PROVE VersionOK(w)'
    OBVIOUS
  <2>1. CASE w # v
    <3>1. npm'[w] = npm[w] /\ passed'[w] = passed[w] /\ (w \in published' <=> w \in published)
      BY <1>1, <1>2, <1>6, <2>1 DEF WInv, WTypeOK
    <3> QED BY <1>1, <3>1 DEF WInv, VersionOK, Cleared
  <2>2. CASE w = v
    <3>1. /\ npm'[v] = Package(Bytes) /\ v \in published' /\ v \in DOMAIN tags'
          /\ artifact'[v] = Bytes /\ release'[v] \in Unmade
      BY <1>1, <1>2, <1>4, <1>6 DEF WInv, WTypeOK, VersionOK, Cleared, Bytes
    <3>2. passed'[v] # "verify"
      BY <1>1, <1>2, <1>4 DEF WInv, WTypeOK, VersionOK, Cleared
    <3>3. npm'[v] = Package(artifact'[v])
      BY <3>1
    <3>4. artifact'[v] \in Tarballs[v]
      BY <1>3, <3>1
    <3> HIDE DEF v
    <3> QED BY <1>3, <2>2, <3>1, <3>2, <3>3, <3>4 DEF VersionOK, Cleared
  <2> QED BY <2>1, <2>2
<1> QED BY <1>2, <1>5, <1>7, <1>9, <1>10 DEF Next, WInv

-----------------------------------------------------------------------------
\* Every step of the workflow is a step of SdkReleases or leaves it alone.
LEMMA WNextInv ==
  ASSUME IInv, WInv, [WNext]_wvars
  PROVE  [Next]_vars /\ WInv'
<1>1. CASE History
  BY <1>1, HistoryStep
<1>2. ASSUME NEW v \in Versions, Start(v) \/ Expire(v) \/ Outside(v)
      PROVE  [Next]_vars /\ WInv'
  BY <1>2, StartStep, ExpireStep, OutsideStep
     DEF Expire, Outside, PublishElsewhere, ReleaseElsewhere
<1>3. ASSUME \/ \E v \in Versions : Resume(v)
             \/ NotPublished \/ Verified \/ Smoke \/ Fail
      PROVE  UNCHANGED vars /\ WInv'
  <2>1. UNCHANGED vars
    BY <1>3 DEF Resume, NotPublished, Verified, Smoke, Fail
  <2> QED BY <1>3, <2>1, RunsOnly
<1>4. ASSUME NEW t \in AllTarballs, Build(t)
      PROVE  UNCHANGED vars /\ WInv'
  BY <1>4, BuildStep DEF Build
<1>5. CASE AlreadyPublished
  BY <1>5, AlreadyPublishedStep DEF AlreadyPublished
<1>6. ASSUME CreateRelease \/ CreateUnfinished \/ SameRelease
      PROVE  UNCHANGED vars /\ WInv'
  BY <1>6, ReleaseStep DEF CreateRelease, CreateUnfinished, SameRelease
<1>7. CASE \E known \in BOOLEAN : Upload(known)
  BY <1>7, UploadStep
<1>8. CASE UNCHANGED wvars
  <2>1. UNCHANGED <<vars, run, artifact, passed, npm, release>>
    BY <1>8 DEF wvars, jobs, remote
  <2>2. run' \in {NoRun} \cup [tag : DOMAIN tags, at : Steps]
    BY <2>1 DEF WInv, WTypeOK
  <2>3. RunOK'
    BY <2>1 DEF WInv, RunOK, Cleared, At, Bytes, vars
  <2> QED BY <2>1, <2>2, <2>3, RunStep
<1> QED BY <1>1, <1>2, <1>3, <1>4, <1>5, <1>6, <1>7, <1>8 DEF WNext, Job

\* The invariant of the workflow and of the releases under it.
THEOREM WorkflowInvariance == WSpec => [](IInv /\ WInv)
<1>1. WInit => IInv /\ WInv
  BY InitInv, WInitInv DEF WInit
<1>2. IInv /\ WInv /\ [WNext]_wvars => (IInv /\ WInv)'
  BY WNextInv, NextInv
<1> QED BY <1>1, <1>2, PTL DEF WSpec

\* The jobs of the workflow, with whatever goes wrong, publish only what SdkReleases
\* lets them, for every set of versions, tarballs and outsiders.
THEOREM WorkflowImplements == WSpec => ImplementsReleases
<1>1. WInit => Init
  BY DEF WInit
<1>2. IInv /\ WInv /\ [WNext]_wvars => [Next]_vars
  BY WNextInv
<1> QED BY <1>1, <1>2, WorkflowInvariance, PTL DEF WSpec, ImplementsReleases, Spec

\* No job of the workflow succeeds unless registry and Release have the bytes of the
\* tagged commit.
THEOREM SuccessIsTrue == WSpec => []NoFalseSuccess
<1>1. WInv => NoFalseSuccess
  BY DEF WInv, VersionOK, NoFalseSuccess
<1> QED BY <1>1, WorkflowInvariance, PTL

\* Whatever is late, cut off or run again, the verify job does not see another gitHead or
\* integrity than those of its artifact.
THEOREM AlarmsAreReal == WSpec => []NoFalseAlarm
<1>1. WInv => NoFalseAlarm
  BY DEF WInv, RunOK, NoFalseAlarm, At, Answers, Nothing, Conflicts, Package
<1> QED BY <1>1, WorkflowInvariance, PTL

\* What was published can be completed by running the workflow of its tag again, with the
\* exceptions that the property names.
THEOREM RerunsComplete == WSpec => []RerunCompletes
<1>1. IInv /\ WInv => RerunCompletes
  <2> SUFFICES ASSUME IInv, WInv, NEW v \in published
               PROVE  /\ tags[v] > 1 /\ NoneTaggedSince(v) => CheckCommit(tags[v])
                      /\ release[v] # "unfinished" =>
                           \E t \in Tarballs[v] :
                             npm[v] = Package(t) /\ release[v] \in {t, "absent"}
    BY DEF RerunCompletes
  <2>1. v \in Versions /\ (tags[v] > 1 => checked[v] # {})
    BY DEF IInv, TypeOK, PublishedChecked
  <2>2. tags[v] > 1 /\ NoneTaggedSince(v) => CheckCommit(tags[v])
    BY <2>1, PassesAgain
  <2> QED BY <2>1, <2>2 DEF WInv, VersionOK, Unmade
<1> QED BY <1>1, WorkflowInvariance, PTL
=============================================================================
