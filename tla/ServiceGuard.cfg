SPECIFICATION FairSpec
CONSTANTS
  Callers = {c1, c2}
  FailureThreshold = 2
  SuccessThreshold = 2
  Timeout = 1
  MaxAttempts = 2
INVARIANTS
  TypeOK
  OpenAdmitsNoMore
  EffectsBounded
PROPERTIES
  OpensOnStreak
  ClosesOnSuccesses
  Recovers
