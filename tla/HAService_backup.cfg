SPECIFICATION Spec
CONSTANTS
  p = p
  q = q
  b = b
  c1 = c1
  c2 = c2
  Primary = p
  Secondary = q
  Backups = {b}
  Mode = "hot-standby"
  Options = {"sync-leases", "send-lease-updates"}
  AutoFailover <- Both
  PauseAlways = {}
  PauseOnce = {}
  Clients = {c1, c2}
  Owner <- AllToPrimary
  MaxUnacked = 1
  Faults = {"skew"}
  Admin = {}
  MaxCrashes = 0
  MaxStray = 0
  MaxQueue = 2
PROPERTIES TerminatedForGood
