CONSTANTS
  TIME_MIN = 2
  TIME_SEC = 0
  SEC_RELOAD = 2
  t1 = t1
  t2 = t2
  empty = empty
  Texts <- MC_Texts1
  Empty <- empty
SPECIFICATION Spec
INVARIANTS
  TypeOK
  CountdownInRange
  TimeShownInRange
PROPERTIES
  ActiveEndsAsleep
  CountdownRefined
