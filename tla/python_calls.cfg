CONSTANTS
  Calls = {t1, t2}
  NoCall = NoCall
SPECIFICATION Spec
\* A thread may be parked for good, see ThreadsReturn.
CHECK_DEADLOCK FALSE
INVARIANTS
  NothingLeft
  
  ProfiledResult
PROPERTY
  ThreadsReturn
