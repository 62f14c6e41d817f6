SPECIFICATION Spec
CONSTANTS
  timer_loop_time = 3
  USEC_PER_SEC = 7
  MaxWork = 9
  MaxPackets = 2
  MaxHandling = 1
  MaxTime = 24
INVARIANT TypeOK
INVARIANT LoopsTakeTheirTime
PROPERTY LoopLength
