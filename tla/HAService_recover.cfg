SPECIFICATION FairSpec
CONSTANTS
  p = p
  q = q
  b = b
  c1 = c1
  c2 = c2
  Primary = p
  Secondary = q
  Backups = {}
  Mode = "hot-standby"
  Options = {}
  AutoFailover <- Both
  PauseAlways = {}
  PauseOnce = {"ready"}
  Clients = {}
  Owner <- AllToPrimary
  MaxUnacked = 0
  Faults = {"loss", "recover"}
  Admin = {"ha-continue"}
  MaxCrashes = 0
  MaxStray = 0
  MaxQueue = 1
PROPERTIES EventuallyNormal
