\* Writers, the logging thread and the destructor on one small buffer.
CONSTANTS
  w1 = w1
  w2 = w2
  LogThread = LogThread
  Main = Main
  NoOne = NoOne
  Writers <- MCWriters
  Kinds <- MCKinds
  MAX_MESSAGES = 3
  MAX_BUFFER_SIZE = 5
  LOGMSG_SIZE = 2
  SLEEPS_TO_FLUSH = 2
  AllocationFails = TRUE
SPECIFICATION Spec
INVARIANTS Framing PrintedAsWritten DestructorDrains
