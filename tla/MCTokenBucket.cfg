SPECIFICATION FairBucketSpec
CONSTANTS
  t1 = t1
  t2 = t2
  t3 = t3
  Tasks = {t1, t2, t3}
  Impatient = {t3}
  Returning = {t2, t3}
  Unit = 3
  Rate = 2
  Burst = 7
  LastTick = 6
INVARIANTS
  BucketTypeOK
  RateBound
PROPERTIES
  SleepersServed
