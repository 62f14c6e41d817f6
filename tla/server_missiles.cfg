\* One AI client, up to two humans, four missile slots (some of them taken by
\* garbage), three missiles per player and room for seven objects in a packet.
SPECIFICATION Spec
CONSTANTS
  NULL = NULL
  AI = AI
  MAX_PACKET_SIZE = 194
  UCHAR_VALUES = 8
  MAX_CLIENT_ID = 3
  MIN_MISSILE_ID = 4
  MAX_MISSILE_ID = 8
  NUM_MISSILES = 3
  PlayerRef = {p1, p2, p3}
  Addr = {a1, a2}
  EventLists <- MCEventLists
  NumAICs = 1
  AI_ACCEL = 0
  maxUnresploop = 1
  maxPingWaitloopTime = 1
  checkCliStatusEverySecs = 1
  UninitLong <- MCZero
  INT_MAX = 4
SYMMETRY MCSymmetry
INVARIANTS
  TypeOK NoBadPlayer WireIdsUnique
PROPERTIES
  OnlySenderPays
