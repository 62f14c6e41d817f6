SPECIFICATION Spec
CONSTANTS
  w = w
  UP = UP
  LCTRL = LCTRL
  RCTRL = RCTRL
  F2 = F2
  Key <- FireKey
  ev2funcid <- FireEv2funcid
  MAX_NUM_FUNCS = 4
  LOCAL_FUNCS = {3}
  SINGLE_FUNCS = {2}
  FUNCID_QUIT = 3
  updateInterval = 2
  INT_VALUES = 2
  USHORT_VALUES = 2
  MaxPresses = 3
INVARIANT NoPressLost
