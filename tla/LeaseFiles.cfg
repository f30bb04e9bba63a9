SPECIFICATION FairSpec
CONSTANTS
  a1 = a1
  a2 = a2
  l1 = l1
  l2 = l2
  p1 = p1
  p2 = p2
  Addrs = {a1, a2}
  Leases = {l1}
  Procs = {p1}
  Faults = {"crash", "io"}
  MaxFaults = 2
PROPERTIES Implements CopyIsCleaned
CHECK_DEADLOCK FALSE
