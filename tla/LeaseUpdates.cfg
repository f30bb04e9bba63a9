SPECIFICATION ServerSpec
CONSTANTS
  UintRange = 4
  Millis = 1
  Periods = {1, 2}
  q1 = q1
  q2 = q2
  p = p
  b = b
  Queries = {q1, q2}
  Partner = p
  Backups = {b}
  HaStates = {"hot-standby", "partner-down"}
  Kinds = {"renewal", "release"}
  Request <- AllUpdates
  Persistent <- AllUpdates
  Parts = 2
  Faults <- PartnerFaults
INVARIANTS PendingIsOutstanding ParkedIsPending FailedIsDropped AnsweredIsApplied CompletionsAreCurrent TransactionsGoOn 
SYMMETRY Symmetry
CHECK_DEADLOCK FALSE
