\* Two messages, so that the temporal properties can be checked.
CONSTANTS
  w1 = w1
  w2 = w2
  LogThread = LogThread
  Main = Main
  NoOne = NoOne
  Writers <- MCWriters
  Kinds <- MCKinds
  MAX_MESSAGES = 2
  MAX_BUFFER_SIZE = 5
  LOGMSG_SIZE = 2
  SLEEPS_TO_FLUSH = 2
  AllocationFails = TRUE
SPECIFICATION Spec
PROPERTIES Delivered FlushedEventually
