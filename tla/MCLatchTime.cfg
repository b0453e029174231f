\* How long a timed attempt waits.
CONSTANTS
  w1 = w1
  w2 = w2
  o1 = o1
  o2 = o2
  Waiters <- MCWaiters
  Openers <- MCOpeners
  Timeouts <- MCTimeouts
  NOW = 10
  MAX_CLOCK = 12
SPECIFICATION Spec
INVARIANT TimesOutInTime
