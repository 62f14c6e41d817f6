\* A fresh ClientInfo: what lastresp holds before the client is first heard.
SPECIFICATION Spec
CONSTANTS
  NULL = NULL
  AI = AI
  MAX_PACKET_SIZE = 142
  UCHAR_VALUES = 8
  MAX_CLIENT_ID = 2
  MIN_MISSILE_ID = 2
  MAX_MISSILE_ID = 3
  NUM_MISSILES = 0
  PlayerRef = {p1, p2}
  Addr = {a1}
  EventLists <- NoMissiles
  NumAICs = 1
  AI_ACCEL = 0
  maxUnresploop = 1
  maxPingWaitloopTime = 2
  checkCliStatusEverySecs = 2
  UninitLong <- MCZero
  INT_MAX = 6
PROPERTY
  EveryKickAfterPing
