CONSTANTS
  Pair <- Pairs
  Decimal <- Decimals
  Request = {q}
  NoRequest = NoRequest
  Nobody = Nobody
SPECIFICATION KeySpec
INVARIANTS
  FailsClosed
