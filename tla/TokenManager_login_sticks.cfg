\* A login while a credential fetch is in flight.
CONSTANTS
  t1 = t1
  t2 = t2
  t3 = t3
  Nobody = Nobody
  Tasks = {t1, t2}
  CredSets <- OnlyEmail
  StaticExps = {0}
  Lifetimes = {3}
  Buffer = 1
  Logins <- OnlySiwe
  MaxTime = 2
SPECIFICATION Spec
PROPERTIES
  LoginSticks
