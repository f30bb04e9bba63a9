SPECIFICATION DdnsSpec
CONSTANTS
  Names = {"n1"}
  Addrs = {"a1"}
  Addrs6 = {}
  Clients = {"c1"}
  FwdServers = 1
  RevServers = 1
  MaxTries = 2
  Requests <- LeaseLife
  MaxRequests = 2
  MaxQueueSize = 1
  MaxTransactions = 1
  RestartPercent = 80
  Directions = {"fwd", "rev"}
  FwdZone = {"n1"}
  RevZone = {"a1"}
  Signals = {"reload", "term"}
  MaxSignals = 1
  Faults = {}
  MaxLate = 0
  Configs <- SmallQueues
  MaxConfigs = 1
  SendFaults = {"send", "open"}
INVARIANTS StateTellsListening SentOnceInOrder SenderKeepsGoing DnsFollowsServer
PROPERTY   TransactionsEnd
CHECK_DEADLOCK FALSE
