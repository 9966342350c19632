CONSTANTS
  Thread = {t1, t2}
  Decider = {t1}
  Free = Free
  Unused = Unused
  o1 = o1
  o2 = o2
  r1 = r1
  Order = {o1, o2}
  Paid <- TwoPaid
  Amount = {1}
  Request = {r1}
  Covered <- AllCovered
  TicketKey = {tk1, tk2}
  RefundKey = {tk1, k1}
SYMMETRY OrderSymmetry
SPECIFICATION Spec
INVARIANTS
  BooksMatchOperations
  AuditIsPath
  OneObjectPerKey
  RetriesAgree
  SomeThreadCanMove
PROPERTIES
  ImplementsLedger
