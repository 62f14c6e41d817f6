------------------------------ MODULE Protocol ------------------------------
(***************************************************************************)
(* The wire format shared by server and client (src/src/protocol.h): the   *)
(* sizes that decide whether an update fits its buffer, the one-byte       *)
(* object id, and the datagrams as records.  Version and magic checks are  *)
(* kept as the alternative "a datagram that fails them is ignored".        *)
(***************************************************************************)
EXTENDS Integers

CONSTANTS
  Addr,             \* addresses (IP and port) datagrams come from
  MAX_PACKET_SIZE,  \* 1500: every send and receive buffer
  UCHAR_VALUES      \* 256: values of updateObj.updateFieldID

ASSUME ProtocolAssumption ==
  /\ MAX_PACKET_SIZE \in Nat
  /\ UCHAR_VALUES \in Nat \ {0}

HeaderSize == 8             \* sizeof(struct protocolHeader)
CountSize  == 4             \* srvUpdatePacket.num_updtobjs
ObjectSize == 2 + 6 * 4     \* size, id, then loc[3], pitch, yaw, roll

UpdateLen(count) == HeaderSize + CountSize + ObjectSize * count

WholeInt(n) == n                \* variant: not cut to a byte
UChar(n) == n % UCHAR_VALUES    \* (unsigned char) of an int id

(***************************************************************************)
(* Server to client.                                                       *)
(***************************************************************************)
UnsetID(a, id) ==               \* variant: generated_id not written
  [type |-> "JOINEDGAME", dst |-> a, generated_id |-> 0]
JoinedGame(a, id) ==
  [type |-> "JOINEDGAME", dst |-> a, generated_id |-> id]
PingReq(a) ==
  [type |-> "PINGREQ", dst |-> a]
\* The object list of an update holds the players first, then the missiles.
ObjUpdtList(a, ps, ms) ==
  [type |-> "OBJUPDTLIST", dst |-> a, players |-> ps, missiles |-> ms]
=============================================================================
