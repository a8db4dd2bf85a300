SPECIFICATION Spec
CONSTANTS
  Users = {u1}
  Passwords = {p1}
  Providers = {}
  Secrets = {}
  Strategies = {s1}
  Alerts = {}
  Requests = {r1, r2}
  Offered = {"toggle"}
  None = None
PROPERTY TogglesFlip
CHECK_DEADLOCK FALSE
