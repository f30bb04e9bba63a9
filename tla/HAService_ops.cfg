SPECIFICATION Spec
CONSTANTS
  p = p
  q = q
  b = b
  c1 = c1
  c2 = c2
  Primary = p
  Secondary = q
  Backups = {}
  Mode = "load-balancing"
  Options = {}
  AutoFailover <- Both
  PauseAlways = {"load-balancing"}
  PauseOnce = {"ready"}
  Clients = {}
  Owner <- Balanced
  MaxUnacked = 0
  Faults = {}
  Admin = {"ha-continue", "ha-scopes", "dhcp-disable", "dhcp-disable-untimed", "dhcp-enable"}
  MaxCrashes = 0
  MaxStray = 0
  MaxQueue = 1
INVARIANTS HeartbeatGoesOn
