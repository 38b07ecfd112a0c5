---------------------------- MODULE SurfaceChain -----------------------------
(***************************************************************************)
(* Surfaces that follow one another without a change that SurfaceDiff      *)
(* calls breaking, as the releases of one major version do.                *)
(***************************************************************************)
EXTENDS SurfaceDiff

CONSTANTS
  Families,   \* sets of surfaces that may follow one another
  Length      \* how many releases are looked at

\* They are what extractGeneratedPublicSurface makes of generated sources.
ASSUME FamiliesOK == \A family \in Families : \A s \in family : WellFormed(s)

VARIABLE chain   \* the surfaces released so far, oldest first

ChainInit == \E family \in Families : \E s \in family : chain = <<s>>

\* The next release is no breaking change of the last one.
Follow ==
  /\ Len(chain) < Length
  /\ \E family \in Families : \E s \in family :
       /\ chain[Len(chain)] \in family
       /\ Classification(chain[Len(chain)], s) # Breaking
       /\ chain' = Append(chain, s)

ChainSpec == ChainInit /\ [][Follow]_chain

Earlier == {p \in (DOMAIN chain) \X (DOMAIN chain) : p[1] < p[2]}

-----------------------------------------------------------------------------
\* Every schema is the request or the response of some operation.
AllReferenced(surface) == DOMAIN surface.schemas = Referenced(surface)

\* A consumer of any release still works against every later one of the chain: its
\* requests are accepted and it handles all answers (the rules of
\* docs/contracts/sdk-semver.md, which are stated for neighbours only).
ConsumersSurvive ==
  \A p \in Earlier : ConsumerSurvives(chain[p[1]], chain[p[2]])

\* Changes that do not break add up to one that does not break, so the verdict does
\* not depend on which release of the chain is the baseline.  A schema that no
\* operation of the first release uses may change unnoticed and be used later.
NoBreakAddsUp ==
  \A p \in Earlier :
    AllReferenced(chain[p[1]]) => Classification(chain[p[1]], chain[p[2]]) # Breaking

\* If compareOperations and compareSchemas find nothing, what operations use is the
\* same, so that no version bump is needed: each attribute of an operation, schema or
\* type in use is compared.
NoneMeansSame ==
  \A p \in Earlier :
    Classification(chain[p[1]], chain[p[2]]) = "none" => SameInUse(chain[p[1]], chain[p[2]])
=============================================================================
