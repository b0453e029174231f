\* What stop() promises about a thread that is not running.
CONSTANTS
  s1 = s1
  s2 = s2
  Owner = Owner
  Stoppers <- MCStoppers
  MAX_STARTS = 2
SPECIFICATION ThreadSpec
PROPERTY StoppedStaysStopped
