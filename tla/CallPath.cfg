\* One person in two browsers, reading and submitting again and again; the clock runs past the
\* renewal of a token and the end of a window.
SPECIFICATION FairSpec
CONSTANTS
  u1 = u1  r1 = r1  r2 = r2
  Users = {u1}
  Requests = {r1, r2}
  Requester <- TwoBrowsers
  Limit = 2
  Window = 2
  CallTimeout = 1
  RefreshMargin = 2
  Lifetime = 3
  Skew = 1
  Calls = 2
  MaxTime = 4
INVARIANTS
  TypeOK
  Paced
  CallsCarryLiveTokens
  RenewedOnce
PROPERTIES
  RefusedAtLimit
  AccessImplemented
  RequestsEnd
CHECK_DEADLOCK FALSE
