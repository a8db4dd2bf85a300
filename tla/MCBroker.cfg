SPECIFICATION FairSpec
CONSTANTS
  alice = alice
  bob = bob
  a1 = a1
  a2 = a2
  b1 = b1
  m1 = m1
  m2 = m2
  Users = {alice, bob}
  Clients = {a1, a2, b1}
  Owner <- MCOwner
  Workers = {w1}
  Messages = {m1, m2}
  To <- MCTo
  Buffer = 1
  None = None
CHECK_DEADLOCK FALSE
INVARIANTS
  Registry
  OwnAlertsOnce
PROPERTY NoneMissed
PROPERTIES
  BroadcastEnds
  HungUpLeaves
