SPECIFICATION Spec
CONSTANTS
  p = p
  q = q
  b = b
  c1 = c1
  c2 = c2
  Primary = p
  Secondary = q
  Backups = {}
  Mode = "hot-standby"
  Options = {"sync-leases", "send-lease-updates"}
  AutoFailover <- Both
  PauseAlways = {}
  PauseOnce = {}
  Clients = {c1}
  Owner <- AllToPrimary
  MaxUnacked = 0
  Faults = {}
  Admin = {"ha-sync"}
  MaxCrashes = 0
  MaxStray = 0
  MaxQueue = 1
INVARIANTS NoServiceBeforeReady OneSyncAtATime
