SPECIFICATION Spec
CONSTANTS
  q1 = q1
  q2 = q2
  w1 = w1
  i1 = i1
  i2 = i2
  alice = alice
  bob = bob
  orgA = orgA
  orgB = orgB
  scope = scope
  Requests = {q1, q2}
  Workers = {w1}
  Ids = {i1, i2}
  Users = {alice, bob}
  Orgs = {orgA, orgB}
  Resources = {scope}
  RolesOf <- MCRolesOf
  Members <- MCMembers
  OrgOf <- MCOrgOf
  Windows <- MCWindows
  MinWindow = 1
  MaxWindow = 1
  ReminderLeadTime = 0
  Nothing = Nothing
  MaxTime = 2
  MaxFaults = 1
INVARIANTS
  NoDoubleBooking
  AuditTellsTheStory
  EveryBookingHasItsCheck
  NoShowIsUncollected
  AnswersAreTrue
PROPERTY BookingIsClosed
CHECK_DEADLOCK FALSE
