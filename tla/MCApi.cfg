SPECIFICATION Spec
CONSTANTS
  Users = {u1, u2}
  Passwords = {p1, p2}
  Providers = {openai}
  Secrets = {k1}
  Strategies = {s1}
  Alerts = {a1, a2}
  Requests = {r1, r2, r3}
  Offered = {"register", "login", "me", "putKey", "deleteKey", "keys", "create", "delete", "toggle", "list", "read", "alerts"}
  None = None
SYMMETRY Symmetry
INVARIANTS TypeOK OneRegistration
PROPERTIES LifecycleSpec OwnerOnly AlertsAttached
CHECK_DEADLOCK FALSE
