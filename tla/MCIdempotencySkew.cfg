\* Two attempts on two pairs that share a lock number, with clocks that
\* disagree and a retention longer than their disagreement.
CONSTANTS
  a1 = a1  a2 = a2  a3 = a3  k1 = k1  k2 = k2  f1 = f1  f2 = f2  l1 = l1
  Attempts = {a1, a2}
  Keys = {k1, k2}
  Fingerprints = {f1}
  Locks = {l1}
  LockKey <- OneLock
  Retention = 3
  Skew = 1
  SweepLimit = 1
  MaxTime = 2
SPECIFICATION FairSpec
CHECK_DEADLOCK FALSE
INVARIANTS AtMostOncePerRetention
PROPERTY LockIsReleased
