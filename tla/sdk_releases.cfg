SPECIFICATION WSpec
CONSTANTS
  Surfaces <- MCSurfaceNames
  Versions <- MCVersions
  MaxCommits = 3
  Tarballs <- MCTarballs
  Outsiders <- MCOutsiders
INVARIANTS
  CaretHolds
  PatchKeepsSurface
  NoFalseSuccess
  NoFalseAlarm
  RerunCompletes
PROPERTIES
  ImplementsReleases
CHECK_DEADLOCK FALSE
