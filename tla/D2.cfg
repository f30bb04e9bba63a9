SPECIFICATION Spec
CONSTANTS
  Names = {"n1"}
  Addrs = {"a1", "a2"}
  Addrs6 = {}
  Clients = {"c1", "c2"}
  FwdServers = 1
  RevServers = 1
  MaxTries = 1
  Requests <- TwoClients
  MaxRequests = 3
  MaxQueueSize = 2
  MaxTransactions = 2
  RestartPercent = 80
  Directions = {"fwd", "rev"}
  FwdZone = {"n1"}
  RevZone = {"a1", "a2"}
  Signals = {"reload", "term"}
  MaxSignals = 1
  Faults = {"receive", "invalid", "bind", "send", "refused"}
  MaxLate = 1
INVARIANTS TypeOK ForwardDoneIsThere LastRequestWins
PROPERTY NamesKeepTheirOwner
CHECK_DEADLOCK FALSE
