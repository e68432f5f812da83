\* Three tasks, one to own the refresh lock and two in its queue, and every login.
CONSTANTS
  t1 = t1
  t2 = t2
  t3 = t3
  Nobody = Nobody
  Tasks = {t1, t2, t3}
  CredSets <- SomeCredSets
  StaticExps = {2}
  Lifetimes = {2}
  Buffer = 1
  Logins <- SplitLogins
  MaxTime = 2
SPECIFICATION FairSpec
INVARIANTS
  TypeOK
  ExpiryMatchesToken
  RefreshTokenProvenance
  LockDiscipline
  SingleFlight
  FetchOnlyOverStale
PROPERTIES
  ReturnedTokenFresh
  GetTokenEnds
