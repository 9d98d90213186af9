\* One upload, two calls of Finalize, one sweep, either store, with and without
\* a scanner, a body at a time that may be clean, unclean or too long.
CONSTANTS
  i1 = i1  c1 = c1  c2 = c2  s1 = s1
  NoObject = NoObject
  Ids = {i1}
  Calls = {c1, c2}
  Sweepers = {s1}
  Bodies <- MCBodies
  Types = {"png", "html"}
  Accepted = {"png"}
  Claims <- MCClaims
  Backends = {"local", "s3"}
  Scanners = {TRUE, FALSE}
  MaxUploadBytes = 3
  PresignedLifetime = 0
  StagingLifetime = 1
  SweepBatch = 1
  MaxTime = 2
  MaxInFlight = 1
SYMMETRY CallSymmetry
SPECIFICATION Spec
CHECK_DEADLOCK FALSE
INVARIANTS AvailableHasObject ServedIsVerified QuarantineIsEmptied AnswerStands
