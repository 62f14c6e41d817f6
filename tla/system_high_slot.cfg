\* The client takes two ids for players, the server three.
SPECIFICATION SystemSpec
CONSTANTS
  NULL = NULL
  AI = AI
  MAX_PACKET_SIZE = 168
  UCHAR_VALUES = 6
  MAX_CLIENT_ID = 3
  MIN_MISSILE_ID = 3
  MAX_MISSILE_ID = 3
  lowestMissileID = 3
  MAX_NUM_PLAYERS = 2
  NUM_MISSILES = 0
  PlayerRef = {p1, p2, p3}
  Addr = {a1, a2}
  EventLists <- NoEvents
  NumAICs = 1
  AI_ACCEL = 0
  maxUnresploop = 0
  maxPingWaitloopTime = 1
  checkCliStatusEverySecs = 1
  UninitLong <- MCUninitLong
  INT_MAX = 2
  SocketBuffer = 2
INVARIANT ClientNeverAborts
