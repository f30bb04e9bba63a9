SPECIFICATION Spec
CONSTANTS
  p = p
  q = q
  b = b
  c1 = c1
  c2 = c2
  Primary = p
  Secondary = q
  Backups = {}
  Mode = "load-balancing"
  Options = {"sync-leases"}
  AutoFailover <- Both
  PauseAlways = {}
  PauseOnce = {}
  Clients = {c1}
  Owner <- Balanced
  MaxUnacked = 0
  Faults = {"loss", "crash"}
  Admin = {}
  MaxCrashes = 1
  MaxStray = 0
  MaxQueue = 1
INVARIANTS OneServerPerClient ReadyMeansFetched NormalMeansFetched
