SPECIFICATION FairSpec
CONSTANTS
  r1 = r1
  s1 = s1
  s2 = s2
  t1 = t1
  t2 = t2
  Call = {r1, s1, s2}
  Registrar = {r1}
  Title = {t1, t2}
  Demo = Demo
  Nobody = Nobody
INVARIANTS
  TypeOK
  OutcomeIsTrue
  DuplicateIsTruthful
  CookieNamesAccount
  DemoOpensAccount
  SeedTitlesOnce
PROPERTIES
  TakesEffectAtOnce
  EverySettles
CHECK_DEADLOCK FALSE
