\* Two requests of one account, one of which changes its password.
CONSTANTS
  r1 = r1  r2 = r2  k1 = k1
  None = None
  Requests = {r1, r2}
  Sids = {1, 2, 3, 4}
  Chals = {k1}
  Passwords = {"p0", "p1"}
  Recovery = {"c1"}
  Idle = 2
  Absolute = 2
  TouchInterval = 1
  Window = 1
  LongWindow = 1
  ChallengeLifetime = 1
  MaxChallengeAttempts = 2
  Skew = 0
  MaxTime = 1
  MaxRequests = 3
  MaxFaults = 1
  Equipment = {"scope"}
  Editors = {"ann", "ben"}
  Objects = {"u1", "u2"}
  Nothing = None
  Ids = {1, 2, 3}
  Names = {4, 5, 7}
  Runes <- Characters
  Bytes <- Characters
  lower <- SqlLower
  ToLower <- GoLower
  WithSeparator = {5}
  Starts = {1, 2}
  Half = 2
  Orgs = {"lab", "shop"}
  Clients = {"reader"}
  Listings <- Filters
  Sizes = {1, 2}
  Keys = {"old", "new"}
  TTL = 1
  MaxRetired = 8
  Policy <- ReportPolicy
  Nil = None
  Horizon = 1
  MaxWrites = 2
  Checks = {"database", "queue"}
  Probers = {"lb", "operator"}
SYMMETRY Interchangeable
SPECIFICATION ServingSpec
CHECK_DEADLOCK FALSE
INVARIANT PasswordIsTheChosenOne
