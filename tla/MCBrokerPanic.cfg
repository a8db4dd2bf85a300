SPECIFICATION Spec
CONSTANTS
  alice = alice
  bob = bob
  a1 = a1
  a2 = a2
  b1 = b1
  m1 = m1
  m2 = m2
  Users = {alice, bob}
  Clients = {a1, a2}
  Owner <- MCOwner
  Workers = {w1}
  Messages = {m1}
  To <- MCTo
  Buffer = 1
  None = None
CHECK_DEADLOCK FALSE
INVARIANT BroadcastSurvivesDisconnect
