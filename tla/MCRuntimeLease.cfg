SPECIFICATION FairSpec
CONSTANTS
  Workers = {w1, w2}
  NoWorker = NoWorker
  TTL = 2
  MaxTime = 4
  RenewMayRaise = TRUE
INVARIANTS TypeOK MutationUnderOwnLease
PROPERTIES TakeoverOnlyOfEndedLease FencedSpec LostLeaderStops AcquireAnswered
CHECK_DEADLOCK FALSE
