SPECIFICATION FairSpec
CONSTANTS
  Tokens = {t1}
  Requests = {r1, r2}
  TTL = 2
  MaxTime = 6
INVARIANTS ExpiryFollowsUse LogoutEnds
PROPERTIES KeepsSessions LogoutTakes
