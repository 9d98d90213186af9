\* Three attempts, one pair, two requests: the whole life of a record.
CONSTANTS
  a1 = a1  a2 = a2  a3 = a3  k1 = k1  k2 = k2  f1 = f1  f2 = f2  l1 = l1
  Attempts = {a1, a2, a3}
  Keys = {k1}
  Fingerprints = {f1, f2}
  Locks = {l1}
  LockKey <- OneLock
  Retention = 1
  Skew = 0
  SweepLimit = 1
  MaxTime = 2
SPECIFICATION Spec
SYMMETRY AttemptSymmetry
CHECK_DEADLOCK FALSE
INVARIANTS AnswersAreHonest NeverWaitsForADuplicate
PROPERTY KeepsPromise
