CONSTANTS
  Thread = {t1, t2}
  Decider = {t1, t2}
  Free = Free
  Unused = Unused
  o1 = o1
  o2 = o2
  r1 = r1
  Order = {o1}
  Paid <- OnePaid
  Amount = {2}
  Request = {r1}
  Covered <- AllCovered
  TicketKey = {tk1}
  RefundKey = {k1}
SYMMETRY ThreadSymmetry
SPECIFICATION Spec
INVARIANTS
  RefundCapacity
  TicketHistoryLegal
