\* One client beside an AI client, firing; ids fall back to -1.  Fair main loops.
SPECIFICATION SystemSpec
CONSTANTS
  NULL = NULL
  AI = AI
  MAX_PACKET_SIZE = 168
  UCHAR_VALUES = 6
  MAX_CLIENT_ID = 3
  MIN_MISSILE_ID = 3
  MAX_MISSILE_ID = 5
  lowestMissileID = 3
  MAX_NUM_PLAYERS = 2
  NUM_MISSILES = 2
  PlayerRef = {p1, p2}
  Addr = {a1}
  EventLists <- MCEventLists
  NumAICs = 1
  AI_ACCEL = 0
  maxUnresploop = 0
  maxPingWaitloopTime = 1
  checkCliStatusEverySecs = 1
  UninitLong <- MCUninitLong
  INT_MAX = 3
  SocketBuffer = 2
INVARIANTS
  SystemTypeOK ObjectsFiledRight
PROPERTY EnteredClientPlays
