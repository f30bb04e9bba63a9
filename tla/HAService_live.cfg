SPECIFICATION FairSpec
CONSTANTS
  p = p
  q = q
  b = b
  c1 = c1
  c2 = c2
  Primary = p
  Secondary = q
  Backups = {}
  Mode = "load-balancing"
  Options = {"sync-leases", "send-lease-updates"}
  AutoFailover <- Both
  PauseAlways = {}
  PauseOnce = {}
  Clients = {c1}
  Owner <- Balanced
  MaxUnacked = 0
  Faults = {"crash"}
  Admin = {}
  MaxCrashes = 1
  MaxStray = 1
  MaxQueue = 1
INVARIANTS DisabledIsTemporary HeartbeatGoesOn
PROPERTIES EventuallyNormal ServiceComesBack EventuallyServed
