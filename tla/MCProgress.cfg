\* One request, and the periods in the order of the defaults (5, 30 and 20
\* seconds); what the other two scenes are given is in the module.
CONSTANTS
  r1 = r1
  NoObject = NoObject
  Requests = {r1}
  DrainPeriods = {0, 1}
  ShutdownTimeout = 4
  WorkerDrain = 2
SPECIFICATION ProgressSpec
CHECK_DEADLOCK FALSE
INVARIANTS DrainBeforeClose DrainedAtExit ShutdownTellsTheTruth FailureIsReported
PROPERTIES SignalMeansExit FailureMeansExit ShutdownEnds Fresh AbandonedIsSwept
