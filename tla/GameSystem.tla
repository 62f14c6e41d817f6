----------------------------- MODULE GameSystem -----------------------------
(***************************************************************************)
(* The server and its clients on one machine, as they are built: every     *)
(* client connects to 127.0.0.1 (Game::initGame).  Over the loopback the   *)
(* kernel keeps each socket's datagrams in order and drops those that find *)
(* the receiver's buffer full; a datagram for a port nobody has opened     *)
(* comes back to its sender as an error.  The kernel is modelled from the  *)
(* socket calls of both programs.                                          *)
(***************************************************************************)
EXTENDS GameServer, GameClient

CONSTANT SocketBuffer     \* bound: datagrams a socket's receive buffer holds

ASSUME SystemAssumption == SocketBuffer \in Nat \ {0}

(* The client divides the ids at 16, the server at 32, but no missile has  *)
(* an id the client takes for a player's, and no player one that the       *)
(* client's Missile accepts.                                               *)
ASSUME IdRangesAssumption ==
  /\ MAX_NUM_PLAYERS <= MIN_MISSILE_ID /\ MAX_NUM_PLAYERS < UCHAR_VALUES
  /\ MAX_CLIENT_ID <= lowestMissileID

VARIABLES
  toServer,               \* receive buffer of the server's socket
  toClient,               \* receive buffer of each client's socket
  asked                   \* history: loop in which a client last took an update
                          \* or a ping while there was room for an answer

netVars == <<toServer, toClient>>
systemVars == <<vars, clientVars, netVars, asked>>

SystemInit ==
  /\ Init /\ ClientInit
  /\ toServer = <<>> /\ toClient = [a \in Addr |-> <<>>]
  /\ asked = [a \in Addr |-> -1]

-----------------------------------------------------------------------------
(* The kernel                                                              *)

Refused(a) == [type |-> "REFUSED", dst |-> a]

(* One datagram at most goes to each receiver in one step.                 *)
Accept(buffer, ms) ==
  IF Len(buffer) < SocketBuffer THEN buffer \o SetToSeq(ms) ELSE buffer

ToClients ==
  toClient' = [a \in Addr |->
    IF Alive(a) THEN Accept(toClient[a], {m \in out' : m.dst = a}) ELSE <<>>]

(* Until bind has succeeded the port is not open.                          *)
PortOpen == phase # "init" /\ (NumAICs > 0 => aiModule # NULL)

ToServer(a, rest) ==
  IF sent' # {} /\ ~PortOpen
  THEN /\ toClient' = [toClient EXCEPT ![a] = Accept(rest, {Refused(a)})]
       /\ UNCHANGED toServer
  ELSE /\ toClient' = [toClient EXCEPT ![a] = IF clientPhase'[a] \in {"quit", "failed", "aborted"}
                                              THEN <<>> ELSE rest]
       /\ toServer' = Accept(toServer, sent')

-----------------------------------------------------------------------------

ServerHandles(m) ==
  \/ m.type = "JOINGAME" /\ RecvJoin(m.src)
  \/ m.type = "PINGRESP" /\ RecvPingResp(m.src)
  \/ m.type = "EVENTLIST" /\ RecvEventList(m.src, m.fnlist)
  \/ m.type # "JOINGAME" /\ Unknown(m.src) /\ RecvIgnored

(* select answers 0 only if nothing has arrived; it may fail at any time.  *)
ServerStep ==
  /\ fault = "none"
  /\ \/ /\ toServer # <<>>
        /\ ServerHandles(Head(toServer))
        /\ toServer' = Tail(toServer)
     \/ /\ Loop
        /\ phase = "recv" /\ phase' = "check" => toServer = <<>>
        /\ UNCHANGED toServer
  /\ ToClients
  /\ UNCHANGED <<clientVars, asked>>

Asks(m) == m.type \in {"OBJUPDTLIST", "PINGREQ"}

(* What main of client a does next: join, or the next datagram.            *)
ClientHandles(a) ==
  \/ StartClient(a) /\ ToServer(a, <<>>) /\ UNCHANGED asked
  \/ /\ toClient[a] # <<>>
     /\ Handshake(a, Head(toClient[a])) \/ HandlePacket(a, Head(toClient[a]))
     /\ ToServer(a, Tail(toClient[a]))
     /\ asked' = IF Asks(Head(toClient[a])) /\ Len(toServer) < SocketBuffer
                 THEN [asked EXCEPT ![a] = curloopnum] ELSE asked

ClientStep(a) ==
  /\ \/ ClientHandles(a)
     \/ QuitClient(a) /\ ToServer(a, <<>>) /\ UNCHANGED asked
     \/ \E fs \in EventLists :
          SendEventList(a, fs) /\ ToServer(a, toClient[a]) /\ UNCHANGED asked
  /\ UNCHANGED vars

(* Without the server, all that is left may be clients that wait for it.   *)
ServerGone == fault # "none" /\ UNCHANGED systemVars

SystemNext == ServerStep \/ (\E a \in Addr : ClientStep(a)) \/ ServerGone

(* The server's loop and each client's main loop run on; nobody has to     *)
(* start, to quit or to press a key.                                       *)
SystemFairness ==
  /\ WF_systemVars(ServerStep)
  /\ \A a \in Addr : WF_systemVars(clientPhase[a] # "start" /\ ClientHandles(a) /\ UNCHANGED vars)

SystemSpec == SystemInit /\ [][SystemNext]_systemVars /\ SystemFairness

-----------------------------------------------------------------------------
(* Properties                                                              *)

ClientDatagram ==
  [type : {"JOINGAME", "PINGRESP"}, src : Addr]
    \cup [type : {"EVENTLIST"}, src : Addr, fnlist : EventLists]

MissileByte == {UChar(i) : i \in MissileID \cup {-1}}

ServerDatagram ==
  [type : {"JOINEDGAME"}, dst : Addr, generated_id : ClientID]
    \cup [type : {"PINGREQ", "REFUSED"}, dst : Addr]
    \cup [type : {"OBJUPDTLIST"}, dst : Addr, players : Seq(ClientID), missiles : Seq(MissileByte)]

SystemTypeOK ==
  /\ clientPhase \in [Addr -> ClientPhases]
  /\ localPlayerID \in [Addr -> ClientID \cup {-1}]
  /\ clientPlayers \in [Addr -> SUBSET (0 .. UCHAR_VALUES - 1)]
  /\ clientMissiles \in [Addr -> SUBSET (0 .. UCHAR_VALUES - 1)]
  /\ sent \subseteq ClientDatagram
  /\ toServer \in Seq(ClientDatagram) /\ Len(toServer) <= SocketBuffer
  /\ toClient \in [Addr -> Seq(ServerDatagram)]
  /\ \A a \in Addr : Len(toClient[a]) <= SocketBuffer
  /\ asked \in [Addr -> {-1} \cup 0 .. INT_MAX]

Playing(a) == clientPhase[a] = "playing"

(* A client that plays steers the slot the server keeps for its address,   *)
(* if the server still keeps one: whatever it sends moves its own player.  *)
PlaysOwnSlot ==
  \A a \in Addr, c \in ClientID :
    Playing(a) /\ IsHuman(c) /\ cliinfo[c].addr = a => localPlayerID[a] = c

(* The handshake reads one datagram and quits if it is not the welcome:    *)
(* no update or ping gets in front of it.                                  *)
HandshakeMeetsWelcome ==
  \A a \in Addr :
    clientPhase[a] = "handshake" /\ toClient[a] # <<>> =>
      Head(toClient[a]).type \in {"JOINEDGAME", "REFUSED"}

InFlight(a, c) ==
  \/ \E k \in DOMAIN toServer : toServer[k].src = a
  \/ phase = "events" /\ cid = c

(* A player who presses no key stays in the game: not only pings but every *)
(* update a client takes is answered, and unless the answer is under way,  *)
(* the server has heard the client since.                                  *)
UpdatesKeepAlive ==
  \A a \in Addr, c \in ClientID :
    Playing(a) /\ IsHuman(c) /\ cliinfo[c].addr = a /\ ~InFlight(a, c)
      => asked[a] = -1 \/ cliinfo[c].lastresp >= asked[a]

(* No client shows a player as a missile or a missile as a player,         *)
(* although the two programs divide the ids at different places.           *)
ObjectsFiledRight ==
  \A a \in Addr :
    /\ clientPlayers[a] \subseteq ClientID
    /\ clientMissiles[a] \subseteq MissileByte

(* assert(id >= 32): no update makes a client create a missile with the id *)
(* of a player.                                                            *)
ClientNeverAborts == \A a \in Addr : clientPhase[a] # "aborted"

(* Once the server has entered a client, the client gets to play, unless   *)
(* the user gives up: its handshake neither fails nor waits for ever.      *)
EnteredClientPlays ==
  \A a \in Addr :
    clientPhase[a] = "handshake" /\ ~Unknown(a) ~> clientPhase[a] \in {"playing", "quit"}
=============================================================================
