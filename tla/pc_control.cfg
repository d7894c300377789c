SPECIFICATION FairSpec
CONSTANTS
  Updates = {u1, u2}
  Nobody = Nobody
INVARIANTS
  DownIsTold
  AuditIsTrue
  SentIsWhole
PROPERTIES
  EveryCommandAnswered
CHECK_DEADLOCK FALSE
