CONSTANTS
  Session = {s1, s2}
  Free = Free
  Unused = Unused
  o1 = o1
  o2 = o2
  r1 = r1
  r2 = r2
  Order = {o1}
  Paid <- OnePaid
  Amount = {2}
  Request = {r1}
  Entitled <- OneOrder
  Covered <- OneOrder
  TicketKey = {tk1}
  RefundKey = {k1, k2}
SYMMETRY SessionSymmetry
SPECIFICATION Spec
INVARIANTS
  RefundCapacity
  CapacityInv
  DecidedOnce
  OperationAuditComplete
  ClosedOnceWithCause
PROPERTIES
  TerminalIsFinal
  DraftsRespectOrder
  ImplementsLedger
