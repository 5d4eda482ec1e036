SPECIFICATION FairSpec
CONSTANTS
  t1 = t1
  t2 = t2
  k1 = k1
  k2 = k2
  Timers <- TwoTimers
  Sockets <- TwoSockets
PROPERTIES
  FiresUnlessStopped
  MainComesBack
CHECK_DEADLOCK FALSE
