\* The proxy, its memory and a reader; processes may be killed.  One killed with
\* the semaphore taken leaves the others waiting for ever: no deadlock check.
SPECIFICATION Spec
CONSTANTS
  Readers = {r1}
  Objects = {o1, o2}
  None = None
  Forecast <- MCForecast
  MaxKills = 1
INVARIANTS
  ProxyTypeOK
  LevelIsHonest
  LostServerIsPublished
  TakenIsHeld
PROPERTIES
  ReadsAreCurrent
  BanIsKept
CHECK_DEADLOCK FALSE
