\* Every mode, one request, and the periods of the defaults in proportion.
CONSTANTS
  r1 = r1
  Requests = {r1}
  DrainPeriods = {0}
  ShutdownTimeout = 6
  WorkerDrain = 4
SPECIFICATION FairSpec
CHECK_DEADLOCK FALSE
INVARIANT NilMeansFinished
