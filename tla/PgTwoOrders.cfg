CONSTANTS
  Session = {s1, s2}
  Free = Free
  Unused = Unused
  o1 = o1
  o2 = o2
  r1 = r1
  r2 = r2
  Order = {o1, o2}
  Paid <- TwoPaid
  Amount = {1}
  Request = {r1, r2}
  Entitled <- TwoOwners
  Covered <- TwoCovered
  TicketKey = {tk1}
  RefundKey = {k1}
SPECIFICATION FairSpec
INVARIANTS
  OneRowPerKey
  RetriesAgree
PROPERTY CommandsEnd
