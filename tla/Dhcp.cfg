SPECIFICATION FairSpec
CONSTANTS
  Macs = {m1, m2}
  Start = 100
  End = 101
  Elsewhere = {7}
  Returning = {m1}
  MaxXid = 2
  MaxRestarts = 1
INVARIANTS TypeOK PoolConsistent NoDuplicateAddress OfferIsHonoured
PROPERTIES Sticky EveryClientServed
CHECK_DEADLOCK FALSE
