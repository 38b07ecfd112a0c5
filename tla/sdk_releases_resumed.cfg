SPECIFICATION WSpec
CONSTANTS
  Surfaces <- MCSurfaceNames
  Versions <- MCVersions
  MaxCommits = 3
  Tarballs <- MCTarballs
  Outsiders <- MCOutsiders
INVARIANTS
  BumpedOverPrevious
CHECK_DEADLOCK FALSE
