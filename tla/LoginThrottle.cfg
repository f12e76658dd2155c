SPECIFICATION FairSpec
CONSTANTS
  Users = {u1, u2}
  Addresses = {home}
  Threads = {w1, w2}
  Limit = 2
  Window = 2
INVARIANTS TypeOK WindowBound WaitIsReal
PROPERTIES LocksEnd
