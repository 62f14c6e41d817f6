\* Three slots for one AI client and three addresses: the table fills up.
SPECIFICATION Spec
CONSTANTS
  NULL = NULL
  AI = AI
  MAX_PACKET_SIZE = 142
  UCHAR_VALUES = 8
  MAX_CLIENT_ID = 3
  MIN_MISSILE_ID = 3
  MAX_MISSILE_ID = 4
  NUM_MISSILES = 0
  PlayerRef = {p1, p2, p3, p4}
  Addr = {a1, a2, a3}
  EventLists <- NoMissiles
  NumAICs = 1
  AI_ACCEL = 1
  maxUnresploop = 1
  maxPingWaitloopTime = 2
  checkCliStatusEverySecs = 2
  UninitLong <- MCUninitLong
  INT_MAX = 10
SYMMETRY MCSymmetry
INVARIANTS
  TablesAgree ListedOnce AIClientsStay OneSlotPerAddress
  UpdateListsMembers WelcomeNamesOwnSlot SilentClientsDropped
PROPERTIES
  KickOnlyAfterPing
  ImplementsRoster
