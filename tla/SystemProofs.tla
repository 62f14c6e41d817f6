---------------------------- MODULE SystemProofs ----------------------------
(***************************************************************************)
(* Proofs about GameSystem, for every number of clients, every size of the *)
(* buffers and every value of the other constants.                         *)
(***************************************************************************)
EXTENDS GameSystem, RosterProofs, FiniteSetTheorems

(* What no server without an AI module gets to: its first tick faults.     *)
LoopHasAI == phase \in {"recv", "events", "check"} /\ fault = "none" => aiModule # NULL

(* Whoever is in the game, or was told so, has found the port open.        *)
PortFound ==
  \A a \in Addr :
    \/ ~Unknown(a)
    \/ Playing(a)
    \/ \E k \in DOMAIN toClient[a] : toClient[a][k].type # "REFUSED"
    => PortOpen

From(a, k) == k \in DOMAIN toServer /\ toServer[k].src = a
JoinAt(a, k) == From(a, k) /\ toServer[k].type = "JOINGAME"

(* A join that is waiting to be read is the first and only datagram of an  *)
(* address the server does not know, and nothing has been sent to it.      *)
JoinsOnce ==
  \A a \in Addr : \A k \in DOMAIN toServer :
    JoinAt(a, k) =>
      /\ clientPhase[a] \notin {"start", "playing"}
      /\ Unknown(a) /\ toClient[a] = <<>>
      /\ \A j \in DOMAIN toServer : From(a, j) => j = k

(* Before it has joined, nobody has heard of a client.                     *)
Newcomers ==
  \A a \in Addr :
    /\ clientPhase[a] = "start" => Unknown(a) /\ \A k \in DOMAIN toServer : ~From(a, k)
    /\ clientPhase[a] \in {"start", "handshake"} => asked[a] = -1
    /\ clientPhase[a] \in {"handshake", "playing"} \/ toClient[a] = <<>>

(* A client that waits for its welcome has it in front, if the server has  *)
(* entered it.                                                             *)
WelcomeFirst ==
  \A a \in Addr :
    clientPhase[a] = "handshake" /\ ~Unknown(a) =>
      toClient[a] # <<>> /\ Head(toClient[a]).type = "JOINEDGAME"

(* A welcome under way names the only slot its receiver may have.          *)
WelcomesHold ==
  \A a \in Addr : \A k \in DOMAIN toClient[a] :
    toClient[a][k].type = "JOINEDGAME" =>
      \A c \in ClientID : Matches(a, c) => c = toClient[a][k].generated_id

SlotsHold ==
  \A a \in Addr, c \in ClientID : Playing(a) /\ Matches(a, c) => localPlayerID[a] = c

AskedBefore == \A a \in Addr : asked[a] <= curloopnum

SInv ==
  /\ SystemTypeOK
  /\ LoopHasAI /\ PortFound
  /\ JoinsOnce /\ Newcomers /\ WelcomeFirst /\ WelcomesHold /\ SlotsHold
  /\ HandshakeMeetsWelcome
  /\ AskedBefore /\ UpdatesKeepAlive
  /\ ObjectsFiledRight

-----------------------------------------------------------------------------
(* The kernel                                                              *)

LEMMA AcceptNone ==
  ASSUME NEW S, NEW b \in Seq(S)
  PROVE  Accept(b, {}) = b
<1>1. Cardinality({}) = 0
  BY FS_EmptySet
<1>2. SetToSeq({}) = <<>>
  <2>1. SetToSeq({}) = CHOOSE f \in [1 .. 0 -> {}] : IsInjective(f)
    BY <1>1 DEF SetToSeq
  <2>2. \A f \in [1 .. 0 -> {}] : f = <<>>
    OBVIOUS
  <2>3. <<>> \in [1 .. 0 -> {}] /\ IsInjective(<<>>)
    BY DEF IsInjective
  <2> QED BY <2>1, <2>2, <2>3
<1>3. b \o <<>> = b
  BY ConcatEmptySeq
<1> QED BY <1>2, <1>3 DEF Accept

LEMMA AcceptOne ==
  ASSUME NEW S, NEW b \in Seq(S), NEW m
  PROVE  Accept(b, {m}) = IF Len(b) < SocketBuffer THEN Append(b, m) ELSE b
<1>1. Cardinality({m}) = 1
  BY FS_Singleton
<1>2. SetToSeq({m}) = <<m>>
  <2>1. SetToSeq({m}) = CHOOSE f \in [1 .. 1 -> {m}] : IsInjective(f)
    BY <1>1 DEF SetToSeq
  <2>2. \A f \in [1 .. 1 -> {m}] : f = <<m>>
    OBVIOUS
  <2>3. <<m>> \in [1 .. 1 -> {m}] /\ IsInjective(<<m>>)
    BY DEF IsInjective
  <2> QED BY <2>1, <2>2, <2>3
<1>3. b \o <<m>> = Append(b, m)
  OBVIOUS
<1> QED BY <1>2, <1>3 DEF Accept

-----------------------------------------------------------------------------
(* The server in the system                                                *)

(* Whatever the server reads from its socket, GameServer allows it to      *)
(* receive; the clients touch nothing of its state.                        *)
LEMMA SystemStepIsServerStep ==
  ASSUME toServer \in Seq(ClientDatagram), [SystemNext]_systemVars
  PROVE  [Next]_vars
<1>1. CASE ServerStep
  <2>1. ASSUME toServer # <<>>, ServerHandles(Head(toServer)) PROVE Next
    <3>1. Head(toServer) \in ClientDatagram
      BY <2>1, HeadTailProperties
    <3>2. /\ Head(toServer).src \in Addr
          /\ Head(toServer).type = "EVENTLIST" => Head(toServer).fnlist \in EventLists
      BY <3>1 DEF ClientDatagram
    <3> QED BY <2>1, <3>2 DEF ServerHandles, Next, Receive
  <2> QED BY <1>1, <2>1 DEF ServerStep, Next
<1>2. CASE \E a \in Addr : ClientStep(a)
  BY <1>2 DEF ClientStep
<1>3. CASE UNCHANGED systemVars
  BY <1>3 DEF systemVars
<1> QED BY <1>1, <1>2, <1>3 DEF SystemNext, ServerGone

(* Only human clients are found by an address.                             *)
LEMMA MatchesHuman ==
  ASSUME IInv, NEW a \in Addr, NEW c \in ClientID
  PROVE  Matches(a, c) <=> IsHuman(c) /\ cliinfo[c].addr = a
BY ConstantFacts DEF IInv, TypeOK, ClientInfo, AIAddresses, Matches, IsHuman

(* What a step of the server sends: at most one datagram to each address,  *)
(* all to addresses that have a slot, and a welcome with its number.       *)
LEMMA ServerSends ==
  ASSUME IInv, QuietPhases, IInv', Loop \/ Receive
  PROVE  /\ \A m \in out' : m \in ServerDatagram /\ m.type # "REFUSED" /\ ~Unknown(m.dst)'
         /\ \A m, n \in out' : m.dst = n.dst => m = n
         /\ \A m \in out' : m.type = "JOINEDGAME" => Matches(m.dst, m.generated_id)'
<1> DEFINE P == /\ \A m \in out' : m \in ServerDatagram /\ m.type # "REFUSED" /\ ~Unknown(m.dst)'
                /\ \A m, n \in out' : m.dst = n.dst => m = n
                /\ \A m \in out' : m.type = "JOINEDGAME" => Matches(m.dst, m.generated_id)'
<1>1. CASE out' = {}
  BY <1>1
<1>2. CASE Tick /\ out' = BroadcastUpdates
  <2>1. cliinfo' = cliinfo
    BY <1>2 DEF Tick
  <2>2. ASSUME NEW m \in out'
        PROVE  \E c \in ClientID : /\ m = ObjUpdtList(cliinfo[c].addr, PlayerIds, MissileIds)
                                   /\ IsHuman(c)
                                   /\ m.dst = cliinfo[c].addr /\ m.type = "OBJUPDTLIST"
    BY <1>2 DEF BroadcastUpdates, ObjUpdtList
  <2>3. PlayerIds \in Seq(ClientID) /\ MissileIds \in Seq(MissileByte)
    <3>1. sentObjList \in Seq(PlayerRef) /\ moveObjList \in Seq(MissileID \cup {-1})
      BY DEF IInv, TypeOK, EngineTypeOK
    <3>2. \A k \in DOMAIN PlayerIds : PlayerIds[k] \in ClientID
      BY PlayerIdsExact DEF Range
    <3>3. DOMAIN PlayerIds = 1 .. Len(sentObjList) /\ DOMAIN MissileIds = 1 .. Len(moveObjList)
      BY <3>1, LenProperties DEF PlayerIds, MissileIds
    <3>4. \A k \in DOMAIN MissileIds : MissileIds[k] \in MissileByte
      BY <3>1, <3>3 DEF MissileIds, MissileByte
    <3>5. Len(sentObjList) \in Nat /\ Len(moveObjList) \in Nat
      BY <3>1
    <3>6. PlayerIds = [k \in 1 .. Len(sentObjList) |-> PlayerIds[k]]
          /\ MissileIds = [k \in 1 .. Len(moveObjList) |-> MissileIds[k]]
      BY <3>3 DEF PlayerIds, MissileIds
    <3> QED BY <3>2, <3>3, <3>4, <3>5, <3>6, SeqDef
  <2>4. ASSUME NEW m \in out' PROVE m \in ServerDatagram /\ ~Unknown(m.dst)'
    <3>1. PICK c \in ClientID : m = ObjUpdtList(cliinfo[c].addr, PlayerIds, MissileIds) /\ IsHuman(c)
      BY <2>2
    <3>2. cliinfo[c].addr \in Addr
      BY <3>1 DEF IsHuman, IInv, TypeOK, ClientInfo, AIAddresses
    <3>3. m \in ServerDatagram
      BY <2>3, <3>1, <3>2 DEF ServerDatagram, ObjUpdtList
    <3> QED BY <2>1, <3>1, <3>3 DEF ObjUpdtList, Unknown, Matches, IsHuman
  <2>5. ASSUME NEW m \in out', NEW n \in out', m.dst = n.dst PROVE m = n
    BY <2>2, <2>5
  <2> QED BY <2>2, <2>4, <2>5
<1>3. ASSUME NEW a \in Addr, RecvJoin(a) PROVE P
  <2>1. ASSUME NEW c \in ClientID, out' = {JoinedGame(a, c)}, Matches(a, c)' PROVE P
    <3>1. JoinedGame(a, c) \in ServerDatagram
      BY DEF JoinedGame, ServerDatagram
    <3>2. ~Unknown(a)'
      BY <2>1 DEF Unknown
    <3> QED BY <2>1, <3>1, <3>2 DEF JoinedGame
  <2>2. CASE Unknown(a) /\ JoinNew(a)
    <3>1. ASSUME NEW c \in ClientID, NEW garbage \in UninitLong,
                 cliinfo' = [cliinfo EXCEPT
                   ![c] = [aiClient |-> FALSE, addr |-> a, lastresp |-> garbage]],
                 out' = {JoinedGame(a, c)}
          PROVE  P
      <4> DEFINE ci == [aiClient |-> FALSE, addr |-> a, lastresp |-> garbage]
      <4>1. ci \in ClientInfo /\ ci.addr = a
        BY ServerAssumption DEF ClientInfo
      <4>2. cliinfo'[c] = ci
        BY <3>1 DEF IInv, TypeOK
      <4> HIDE DEF ci
      <4>3. Matches(a, c)'
        BY <4>1, <4>2, ConstantFacts DEF Matches
      <4> QED BY <2>1, <3>1, <4>3
    <3> QED BY <1>1, <2>2, <3>1 DEF JoinNew
  <2>3. ASSUME NEW c \in ClientID, LookupClientID(a, c), out' = {JoinedGame(a, c)},
               cliinfo' = cliinfo
        PROVE  P
    BY <2>1, <2>3 DEF LookupClientID, Matches
  <2> QED BY <1>3, <2>2, <2>3 DEF RecvJoin
<1>4. CASE CheckClient /\ IsSilent(scan) /\ DispatchPing(scan)
  <2>1. out' = {PingReq(cliinfo[scan].addr)} /\ cliinfo' = cliinfo /\ IsHuman(scan)
    BY <1>4 DEF DispatchPing, IsSilent
  <2>2. scan \in ClientID
    <3>1. scan \in Nat
      BY DEF IInv, TypeOK
    <3>2. scan < MAX_CLIENT_ID
      BY <1>4 DEF CheckClient
    <3> QED BY <3>1, <3>2, ConstantFacts DEF ClientID
  <2>3. PICK a \in Addr : a = cliinfo[scan].addr
    BY <2>1, <2>2 DEF IsHuman, IInv, TypeOK, ClientInfo, AIAddresses
  <2>4. ~Unknown(a)'
    BY <2>1, <2>2, <2>3 DEF Unknown, Matches, IsHuman
  <2>5. PingReq(a) \in ServerDatagram /\ PingReq(a).type = "PINGREQ" /\ PingReq(a).dst = a
    BY DEF PingReq, ServerDatagram
  <2>6. \A m \in out' : m = PingReq(a)
    BY <2>1, <2>3
  <2> QED BY <2>4, <2>5, <2>6
<1>5. CASE AiClientJoin \/ HandleNextEvent \/ EventListDone \/ BindOk \/ BindFails \/ AiClientsJoined
  BY <1>1, <1>5
  DEF AiClientJoin, HandleNextEvent, EventListDone, BindOk, BindFails, AiClientsJoined,
      QuietPhases, Running
<1>6. CASE Receive
  BY <1>1, <1>3, <1>6 DEF Receive, RecvEventList, RecvPingResp, RecvIgnored
<1>7. CASE SelectTimeout \/ SelectFails \/ EndLoop
  BY <1>1, <1>7 DEF SelectTimeout, SelectFails, EndLoop
<1>8. CASE CheckClient
  BY <1>1, <1>4, <1>8 DEF CheckClient, KickClient
<1>9. CASE Tick
  BY <1>1, <1>2, <1>9 DEF Tick
<1> QED BY <1>5, <1>6, <1>7, <1>8, <1>9 DEF Loop

(* The loop enters nobody it could hear of, and ends what is under way     *)
(* from a client by noting when.                                           *)
LEMMA LoopTable ==
  ASSUME IInv, IInv', Loop, NEW a \in Addr, NEW c \in ClientID, Matches(a, c)'
  PROVE  /\ Matches(a, c)
         /\ cliinfo'[c].lastresp \in {cliinfo[c].lastresp, curloopnum}
         /\ phase = "events" /\ cid = c =>
              (phase' = "events" /\ cid' = c) \/ cliinfo'[c].lastresp = curloopnum
<1> USE ConstantFacts
<1> DEFINE P == /\ Matches(a, c)
                /\ cliinfo'[c].lastresp \in {cliinfo[c].lastresp, curloopnum}
                /\ phase = "events" /\ cid = c =>
                     (phase' = "events" /\ cid' = c) \/ cliinfo'[c].lastresp = curloopnum
<1>1. cliinfo \in [ClientID -> ClientInfo \cup {NULL}] /\ cid \in ClientID
  BY DEF IInv, TypeOK
<1>2. cliinfo'[c] # NULL /\ cliinfo'[c].addr = a
  BY DEF Matches
<1>3. ASSUME cliinfo' = cliinfo, phase = "events" => phase' = "events" /\ cid' = cid
      PROVE  P
  BY <1>2, <1>3 DEF Matches
<1>4. CASE BindOk \/ BindFails \/ AiClientsJoined \/ Tick \/ SelectTimeout \/ SelectFails \/ EndLoop
  <2>1. cliinfo' = cliinfo /\ phase # "events"
    BY <1>4 DEF BindOk, BindFails, AiClientsJoined, Tick, SelectTimeout, SelectFails, EndLoop, Running
  <2> QED BY <1>3, <2>1
<1>5. CASE HandleNextEvent
  BY <1>3, <1>5 DEF HandleNextEvent
<1>6. CASE AiClientJoin
  <2>1. phase = "aijoin"
    BY <1>6 DEF AiClientJoin, Running
  <2>2. ASSUME NEW d \in ClientID, cliinfo' = [cliinfo EXCEPT ![d] = NewAIClient] PROVE P
    <3>1. c # d
      BY <1>1, <1>2, <2>2 DEF NewAIClient
    <3>2. cliinfo'[c] = cliinfo[c]
      BY <1>1, <2>2, <3>1
    <3> QED BY <1>2, <2>1, <3>2 DEF Matches
  <2> QED BY <1>3, <1>6, <2>1, <2>2 DEF AiClientJoin
<1>7. CASE EventListDone
  <2>1. cliinfo' = [cliinfo EXCEPT ![cid].lastresp = curloopnum] /\ phase = "events"
    BY <1>7 DEF EventListDone, Heard, Running
  <2>2. IsHuman(cid)
    BY <2>1 DEF IInv, SenderPlays
  <2>3. CASE c = cid
    <3>1. cliinfo[c] \in ClientInfo
      BY <1>1, <2>2, <2>3 DEF IsHuman
    <3>2. cliinfo'[c] = [cliinfo[c] EXCEPT !.lastresp = curloopnum]
      BY <1>1, <2>1, <2>3
    <3>3. cliinfo'[c].lastresp = curloopnum /\ cliinfo'[c].addr = cliinfo[c].addr
      BY <3>1, <3>2 DEF ClientInfo
    <3> QED BY <1>2, <2>2, <2>3, <3>3 DEF Matches, IsHuman
  <2>4. CASE c # cid
    <3>1. cliinfo'[c] = cliinfo[c]
      BY <1>1, <2>1, <2>4
    <3> QED BY <1>2, <2>4, <3>1 DEF Matches
  <2> QED BY <2>3, <2>4
<1>8. CASE CheckClient
  <2>1. phase = "check"
    BY <1>8 DEF CheckClient, Running
  <2>2. CASE cliinfo' = [cliinfo EXCEPT ![scan] = NULL]
    <3>1. c # scan
      BY <1>1, <1>2, <2>2
    <3>2. cliinfo'[c] = cliinfo[c]
      BY <1>1, <2>2, <3>1
    <3> QED BY <1>2, <2>1, <3>2 DEF Matches
  <2> QED BY <1>3, <1>8, <2>1, <2>2 DEF CheckClient, KickClient, DispatchPing
<1> QED BY <1>4, <1>5, <1>6, <1>7, <1>8 DEF Loop

(* A datagram enters its sender, if it is a join, and nobody else.         *)
LEMMA ReceiveTable ==
  ASSUME IInv, IInv', NEW m \in ClientDatagram, ServerHandles(m),
         NEW a \in Addr, NEW c \in ClientID, Matches(a, c)'
  PROVE  /\ ~Matches(a, c) =>
              m.type = "JOINGAME" /\ m.src = a /\ Unknown(a) /\ out' = {JoinedGame(a, c)}
         /\ Matches(a, c) => cliinfo'[c].lastresp \in {cliinfo[c].lastresp, curloopnum}
         /\ m.src = a /\ m.type = "PINGRESP" => cliinfo'[c].lastresp = curloopnum
         /\ m.src = a /\ m.type = "EVENTLIST" => phase' = "events" /\ cid' = c
<1> USE ConstantFacts
<1> DEFINE P == /\ ~Matches(a, c) =>
                     m.type = "JOINGAME" /\ m.src = a /\ Unknown(a) /\ out' = {JoinedGame(a, c)}
                /\ Matches(a, c) => cliinfo'[c].lastresp \in {cliinfo[c].lastresp, curloopnum}
                /\ m.src = a /\ m.type = "PINGRESP" => cliinfo'[c].lastresp = curloopnum
                /\ m.src = a /\ m.type = "EVENTLIST" => phase' = "events" /\ cid' = c
<1>1. cliinfo \in [ClientID -> ClientInfo \cup {NULL}]
  BY DEF IInv, TypeOK
<1>2. cliinfo'[c] # NULL /\ cliinfo'[c].addr = a
  BY DEF Matches
<1>3. ASSUME NEW d \in ClientID, Matches(a, c), Matches(a, d) PROVE c = d
  <2>1. IsHuman(c) /\ IsHuman(d) /\ cliinfo[c].addr = a /\ cliinfo[d].addr = a
    BY <1>3, MatchesHuman
  <2> QED BY <2>1 DEF IInv, OneSlotPerAddress
<1>4. CASE m.type = "JOINGAME" /\ RecvJoin(m.src)
  <2>1. CASE cliinfo' = cliinfo
    BY <1>2, <1>4, <2>1 DEF Matches
  <2>2. ASSUME NEW d \in ClientID, NEW garbage \in UninitLong, Unknown(m.src), GetFreeClientID(d),
               cliinfo' = [cliinfo EXCEPT
                 ![d] = [aiClient |-> FALSE, addr |-> m.src, lastresp |-> garbage]],
               out' = {JoinedGame(m.src, d)}
        PROVE  P
    <3>1. CASE c = d
      <4>1. cliinfo'[c] = [aiClient |-> FALSE, addr |-> m.src, lastresp |-> garbage]
        BY <1>1, <2>2, <3>1
      <4>2. m.src = a
        BY <1>2, <4>1
      <4>3. ~Matches(a, c)
        BY <2>2, <3>1 DEF GetFreeClientID, Matches
      <4> QED BY <1>4, <2>2, <3>1, <4>2, <4>3
    <3>2. CASE c # d
      <4>1. cliinfo'[c] = cliinfo[c]
        BY <1>1, <2>2, <3>2
      <4> QED BY <1>2, <1>4, <4>1 DEF Matches
    <3> QED BY <3>1, <3>2
  <2> QED BY <1>4, <2>1, <2>2 DEF RecvJoin, JoinNew
<1>5. CASE m.type = "PINGRESP" /\ RecvPingResp(m.src)
  <2>1. PICK d \in ClientID : /\ LookupClientID(m.src, d)
                              /\ cliinfo' = [cliinfo EXCEPT ![d].lastresp = curloopnum]
    BY <1>5 DEF RecvPingResp, Heard
  <2>2. cliinfo[d] \in ClientInfo /\ Matches(m.src, d) /\ cliinfo[d].addr = m.src
    BY <1>1, <2>1 DEF LookupClientID, Matches
  <2>3. CASE c = d
    <3>1. cliinfo'[c] = [cliinfo[c] EXCEPT !.lastresp = curloopnum]
      BY <1>1, <2>1, <2>3
    <3>2. cliinfo'[c].lastresp = curloopnum /\ cliinfo'[c].addr = cliinfo[c].addr
      BY <2>2, <2>3, <3>1 DEF ClientInfo
    <3> QED BY <1>2, <1>5, <2>2, <2>3, <3>2 DEF Matches
  <2>4. CASE c # d
    <3>1. cliinfo'[c] = cliinfo[c]
      BY <1>1, <2>1, <2>4
    <3>2. Matches(a, c)
      BY <1>2, <3>1 DEF Matches
    <3>3. m.src # a
      BY <1>3, <2>2, <2>4, <3>2
    <3> QED BY <3>1, <3>2, <3>3
  <2> QED BY <2>3, <2>4
<1>6. CASE m.type = "EVENTLIST" /\ RecvEventList(m.src, m.fnlist)
  <2>1. PICK d \in ClientID : LookupClientID(m.src, d) /\ cid' = d
    BY <1>6 DEF RecvEventList
  <2>2. cliinfo' = cliinfo /\ phase' = "events"
    BY <1>6 DEF RecvEventList
  <2>3. Matches(a, c)
    BY <1>2, <2>2 DEF Matches
  <2>4. m.src = a => c = d
    BY <1>3, <2>1, <2>3 DEF LookupClientID
  <2> QED BY <1>6, <2>1, <2>2, <2>3, <2>4
<1>7. CASE m.type # "JOINGAME" /\ Unknown(m.src) /\ RecvIgnored
  <2>1. cliinfo' = cliinfo
    BY <1>7 DEF RecvIgnored
  <2>2. Matches(a, c)
    BY <1>2, <2>1 DEF Matches
  <2> QED BY <1>7, <2>1, <2>2 DEF Unknown
<1> QED BY <1>4, <1>5, <1>6, <1>7 DEF ServerHandles

(* The AI module stays, and so does the port once it is open; loops are    *)
(* counted up.                                                             *)
LEMMA LoopGoesOn ==
  ASSUME IInv, IInv', Loop \/ Receive
  PROVE  /\ LoopHasAI => LoopHasAI'
         /\ PortOpen => PortOpen'
         /\ phase = "recv" /\ aiModule # NULL => PortOpen'
         /\ curloopnum \in Int /\ curloopnum' \in Int /\ curloopnum <= curloopnum'
<1> USE ConstantFacts
<1>1. /\ aiModule \in AIClients \cup {NULL} /\ aiModule' \in AIClients \cup {NULL}
      /\ curloopnum \in 0 .. INT_MAX /\ curloopnum' \in 0 .. INT_MAX /\ INT_MAX \in Nat
  BY ServerAssumption DEF IInv, TypeOK
<1>2. CASE Receive
  <2>1. UNCHANGED <<aiModule, curloopnum>> /\ phase = "recv" /\ phase' \in {"recv", "events"}
        /\ fault = "none"
    BY <1>2 DEF Receive, RecvEventList, RecvPingResp, RecvJoin, RecvIgnored, Running, loopVars
  <2> QED BY <1>1, <2>1 DEF LoopHasAI, PortOpen
<1>3. CASE Tick
  <2>1. phase = "tick" /\ phase' = "recv" /\ curloopnum' = curloopnum /\ fault' = TickFault
        /\ aiModule' = IF fault' = "none" THEN RunAI ELSE aiModule
    BY <1>3 DEF Tick, Running
  <2>2. aiModule # NULL => aiModule' # NULL
    <3>1. aiModule # NULL => RunAI \in AIClients
      BY AIGoesOn DEF IInv
    <3> QED BY <2>1, <3>1
  <2>3. fault' = "none" => aiModule # NULL
    BY <2>1 DEF TickFault
  <2> QED BY <1>1, <2>1, <2>2, <2>3 DEF LoopHasAI, PortOpen
<1>4. CASE BindOk \/ BindFails
  <2>1. phase = "init" /\ phase' \in {"aijoin", "tick"} /\ curloopnum' = curloopnum
    BY <1>4 DEF BindOk, BindFails, Running
  <2> QED BY <1>1, <2>1 DEF LoopHasAI, PortOpen
<1>5. CASE AiClientJoin
  <2>1. phase = "aijoin" /\ phase' = "aijoin" /\ curloopnum' = curloopnum
    BY <1>5 DEF AiClientJoin, Running
  <2>2. aiModule' # NULL
    BY <2>1 DEF IInv, AIModuleReady
  <2> QED BY <1>1, <2>1, <2>2 DEF LoopHasAI, PortOpen
<1>6. CASE EndLoop
  <2>1. phase = "check" /\ phase' = "tick" /\ aiModule' = aiModule
        /\ curloopnum' \in {curloopnum, curloopnum + 1}
    BY <1>6 DEF EndLoop, Running
  <2> QED BY <1>1, <2>1 DEF LoopHasAI, PortOpen
<1>7. CASE AiClientsJoined \/ SelectFails
  <2>1. phase' = "tick" /\ phase # "init" /\ UNCHANGED <<aiModule, curloopnum>>
    BY <1>7 DEF AiClientsJoined, SelectFails, Running
  <2> QED BY <1>1, <2>1 DEF LoopHasAI, PortOpen
<1>8. CASE HandleNextEvent \/ EventListDone \/ SelectTimeout \/ CheckClient
  <2>1. /\ phase \in {"recv", "events", "check"} /\ fault = "none"
        /\ phase' \in {"recv", "events", "check"} /\ UNCHANGED <<aiModule, curloopnum>>
    BY <1>8 DEF HandleNextEvent, EventListDone, SelectTimeout, CheckClient, Running
  <2> QED BY <1>1, <2>1 DEF LoopHasAI, PortOpen
<1> QED BY <1>2, <1>3, <1>4, <1>5, <1>6, <1>7, <1>8 DEF Loop

-----------------------------------------------------------------------------
(* What a step of the server does to the system                            *)

CInv == IInv /\ QuietPhases /\ SInv

(* A client that has ended reads nothing; for another, what it is sent     *)
(* comes last in its buffer, if there is room.                             *)
LEMMA Delivers ==
  ASSUME SystemTypeOK, ToClients, \A m, n \in out' : m.dst = n.dst => m = n, NEW a \in Addr
  PROVE  /\ ~Alive(a) => toClient'[a] = <<>>
         /\ Alive(a) =>
              \/ toClient'[a] = toClient[a]
              \/ \E m \in out' : /\ m.dst = a /\ Len(toClient[a]) < SocketBuffer
                                 /\ toClient'[a] = Append(toClient[a], m)
         /\ \A m \in out' : Alive(a) /\ m.dst = a /\ Len(toClient[a]) < SocketBuffer =>
              toClient'[a] = Append(toClient[a], m)
<1> DEFINE ms == {m \in out' : m.dst = a}
<1>1. toClient[a] \in Seq(ServerDatagram)
  BY DEF SystemTypeOK
<1>2. toClient'[a] = IF Alive(a) THEN Accept(toClient[a], ms) ELSE <<>>
  BY DEF ToClients
<1>3. CASE ms = {}
  <2>1. Accept(toClient[a], ms) = toClient[a]
    BY <1>1, <1>3, AcceptNone
  <2> QED BY <1>2, <1>3, <2>1
<1>4. ASSUME NEW m \in ms PROVE ms = {m}
  OBVIOUS
<1>5. ASSUME NEW m \in ms
      PROVE  Accept(toClient[a], ms) =
               IF Len(toClient[a]) < SocketBuffer THEN Append(toClient[a], m) ELSE toClient[a]
  BY <1>1, <1>4, <1>5, AcceptOne
<1>6. CASE ms # {}
  <2>1. PICK m \in ms : TRUE
    BY <1>6
  <2> HIDE DEF ms
  <2>2. m \in out' /\ m.dst = a
    BY <2>1 DEF ms
  <2>3. \A n \in out' : n.dst = a => n \in ms
    BY DEF ms
  <2> QED BY <1>2, <1>5, <2>1, <2>2, <2>3
<1> QED BY <1>3, <1>6

(* The server's buffer keeps its datagrams in order; at most its head goes. *)
LEMMA QueueMoves ==
  ASSUME SystemTypeOK, ServerStep
  PROVE  /\ toServer' \in Seq(ClientDatagram) /\ Len(toServer') <= SocketBuffer
         /\ \/ toServer' = toServer
            \/ /\ toServer # <<>> /\ 1 \in DOMAIN toServer /\ toServer[1] = Head(toServer)
               /\ Head(toServer) \in ClientDatagram
               /\ \A k \in DOMAIN toServer' :
                    k \in Nat /\ k + 1 \in DOMAIN toServer /\ k + 1 # 1
                    /\ toServer'[k] = toServer[k + 1]
               /\ \A k \in DOMAIN toServer :
                    k = 1 \/ (k - 1 \in DOMAIN toServer' /\ toServer'[k - 1] = toServer[k])
<1>1. toServer \in Seq(ClientDatagram) /\ Len(toServer) <= SocketBuffer /\ SocketBuffer \in Nat
  BY SystemAssumption DEF SystemTypeOK
<1>2. CASE toServer' = toServer
  BY <1>1, <1>2
<1>3. CASE toServer # <<>> /\ toServer' = Tail(toServer)
  BY <1>1, <1>3
<1> QED BY <1>2, <1>3 DEF ServerStep

(* A client is entered by its join, in the step that sends it its welcome; *)
(* what is under way from it stays so or has been noted.                   *)
LEMMA TableMoves ==
  ASSUME CInv, IInv', ServerStep, NEW a \in Addr, NEW c \in ClientID, Matches(a, c)'
  PROVE  /\ ~Matches(a, c) =>
              /\ Unknown(a) /\ JoinAt(a, 1) /\ out' = {JoinedGame(a, c)}
              /\ phase = "recv" /\ fault = "none"
              /\ toServer # <<>> /\ toServer' = Tail(toServer)
         /\ Matches(a, c) =>
              /\ cliinfo'[c].lastresp \in {cliinfo[c].lastresp, curloopnum}
              /\ InFlight(a, c) /\ ~JoinAt(a, 1) =>
                   InFlight(a, c)' \/ cliinfo'[c].lastresp = curloopnum
<1>1. SystemTypeOK
  BY DEF CInv, SInv
<1>2. CASE Loop /\ UNCHANGED toServer
  <2>1. /\ Matches(a, c) /\ cliinfo'[c].lastresp \in {cliinfo[c].lastresp, curloopnum}
        /\ phase = "events" /\ cid = c =>
             (phase' = "events" /\ cid' = c) \/ cliinfo'[c].lastresp = curloopnum
    BY <1>2, LoopTable DEF CInv
  <2> QED BY <1>2, <2>1 DEF InFlight
<1>3. CASE toServer # <<>> /\ ServerHandles(Head(toServer)) /\ toServer' = Tail(toServer)
  <2> DEFINE m == Head(toServer)
  <2>1. m \in ClientDatagram /\ 1 \in DOMAIN toServer /\ toServer[1] = m
    BY <1>1, <1>3 DEF SystemTypeOK
  <2>2. \A k \in DOMAIN toServer :
          k = 1 \/ (k - 1 \in DOMAIN toServer' /\ toServer'[k - 1] = toServer[k])
    BY <1>1, <1>3 DEF SystemTypeOK
  <2>3. phase = "recv" /\ fault = "none"
    BY <1>3 DEF ServerHandles, RecvJoin, RecvPingResp, RecvEventList, RecvIgnored, Running
  <2>4. m.type \in {"JOINGAME", "PINGRESP", "EVENTLIST"}
    BY <2>1 DEF ClientDatagram
  <2> HIDE DEF m
  <2>5. /\ ~Matches(a, c) =>
             m.type = "JOINGAME" /\ m.src = a /\ Unknown(a) /\ out' = {JoinedGame(a, c)}
        /\ Matches(a, c) => cliinfo'[c].lastresp \in {cliinfo[c].lastresp, curloopnum}
        /\ m.src = a /\ m.type = "PINGRESP" => cliinfo'[c].lastresp = curloopnum
        /\ m.src = a /\ m.type = "EVENTLIST" => phase' = "events" /\ cid' = c
    <3>1. ServerHandles(m)
      BY <1>3 DEF m
    <3> QED BY <2>1, <3>1, ReceiveTable DEF CInv
  <2>6. ASSUME InFlight(a, c), ~JoinAt(a, 1)
        PROVE  InFlight(a, c)' \/ cliinfo'[c].lastresp = curloopnum
    <3>1. PICK k \in DOMAIN toServer : toServer[k].src = a
      BY <2>3, <2>6 DEF InFlight
    <3>2. CASE k = 1
      <4>1. m.src = a /\ m.type # "JOINGAME"
        BY <2>1, <2>6, <3>1, <3>2 DEF JoinAt, From
      <4> QED BY <2>4, <2>5, <4>1 DEF InFlight
    <3>3. CASE k # 1
      BY <2>2, <3>1, <3>3 DEF InFlight
    <3> QED BY <3>2, <3>3
  <2> QED BY <1>3, <2>1, <2>3, <2>5, <2>6 DEF JoinAt, From
<1> QED BY <1>2, <1>3 DEF ServerStep

LEMMA ServerStepKeeps ==
  ASSUME CInv, IInv', ServerStep
  PROVE  SInv'
<1> USE DEF CInv, SInv
<1>1. /\ UNCHANGED clientVars /\ asked' = asked /\ ToClients
      /\ \A a \in Addr : /\ clientPhase'[a] = clientPhase[a]
                         /\ Alive(a)' = Alive(a) /\ Playing(a)' = Playing(a)
                         /\ localPlayerID'[a] = localPlayerID[a] /\ asked'[a] = asked[a]
  BY DEF ServerStep, clientVars, objectVars, Alive, Playing
<1>2. Loop \/ Receive
  <2>1. ASSUME toServer # <<>>, ServerHandles(Head(toServer)) PROVE Receive
    <3>1. Head(toServer) \in ClientDatagram
      BY <2>1 DEF SystemTypeOK
    <3>2. /\ Head(toServer).src \in Addr
          /\ Head(toServer).type = "EVENTLIST" => Head(toServer).fnlist \in EventLists
      BY <3>1 DEF ClientDatagram
    <3> QED BY <2>1, <3>2 DEF ServerHandles, Receive
  <2> QED BY <2>1 DEF ServerStep
<1>3. /\ \A m \in out' : m \in ServerDatagram /\ m.type # "REFUSED" /\ ~Unknown(m.dst)'
      /\ \A m, n \in out' : m.dst = n.dst => m = n
      /\ \A m \in out' : m.type = "JOINEDGAME" => Matches(m.dst, m.generated_id)'
  BY <1>2, ServerSends
<1>4. /\ LoopHasAI' /\ (PortOpen => PortOpen')
      /\ (phase = "recv" /\ aiModule # NULL => PortOpen')
      /\ curloopnum \in Int /\ curloopnum' \in Int /\ curloopnum <= curloopnum'
  BY <1>2, LoopGoesOn
<1>5. ASSUME NEW a \in Addr
      PROVE  /\ toClient[a] \in Seq(ServerDatagram) /\ Len(toClient[a]) <= SocketBuffer
             /\ ~Alive(a) => toClient'[a] = <<>>
             /\ Alive(a) =>
                  \/ toClient'[a] = toClient[a]
                  \/ \E m \in out' : /\ m.dst = a /\ Len(toClient[a]) < SocketBuffer
                                     /\ toClient'[a] = Append(toClient[a], m)
             /\ \A m \in out' : Alive(a) /\ m.dst = a /\ Len(toClient[a]) < SocketBuffer =>
                  toClient'[a] = Append(toClient[a], m)
  BY <1>1, <1>3, Delivers DEF SystemTypeOK
<1>6. ASSUME NEW a \in Addr, Unknown(a)' PROVE toClient'[a] \in {toClient[a], <<>>}
  BY <1>3, <1>5, <1>6
<1>7. ASSUME NEW a \in Addr, NEW c \in ClientID, Matches(a, c)', ~Matches(a, c)
      PROVE  /\ Unknown(a) /\ out' = {JoinedGame(a, c)} /\ phase = "recv" /\ fault = "none"
             /\ clientPhase[a] \notin {"start", "playing"} /\ toClient[a] = <<>>
             /\ \A k \in DOMAIN toServer' : ~From(a, k)'
  <2>1. /\ Unknown(a) /\ JoinAt(a, 1) /\ out' = {JoinedGame(a, c)}
        /\ phase = "recv" /\ fault = "none"
        /\ toServer # <<>> /\ toServer' = Tail(toServer)
    BY <1>7, TableMoves
  <2>2. 1 \in DOMAIN toServer
    BY <2>1 DEF JoinAt, From
  <2>3. \A k \in DOMAIN toServer : From(a, k) => k = 1
    BY <2>1, <2>2 DEF JoinsOnce
  <2>4. \A k \in DOMAIN toServer' :
          k \in Nat /\ k + 1 \in DOMAIN toServer /\ k + 1 # 1 /\ toServer'[k] = toServer[k + 1]
    BY <2>1 DEF SystemTypeOK
  <2> QED BY <2>1, <2>2, <2>3, <2>4 DEF JoinsOnce, From
<1>8. SystemTypeOK'
  <2>1. toServer' \in Seq(ClientDatagram) /\ Len(toServer') <= SocketBuffer
    BY QueueMoves
  <2>2. ASSUME NEW a \in Addr
        PROVE  toClient'[a] \in Seq(ServerDatagram) /\ Len(toClient'[a]) <= SocketBuffer
    <3>1. CASE toClient'[a] = toClient[a]
      BY <1>5, <3>1
    <3>2. CASE toClient'[a] = <<>>
      BY <3>2, SystemAssumption
    <3>3. ASSUME NEW m \in out', Len(toClient[a]) < SocketBuffer,
                 toClient'[a] = Append(toClient[a], m)
          PROVE  toClient'[a] \in Seq(ServerDatagram) /\ Len(toClient'[a]) <= SocketBuffer
      <4>1. m \in ServerDatagram /\ SocketBuffer \in Nat
        BY <1>3, SystemAssumption
      <4> QED BY <1>5, <3>3, <4>1
    <3> QED BY <1>5, <3>1, <3>2, <3>3
  <2>3. toClient' = [a \in Addr |-> toClient'[a]]
    BY <1>1 DEF ToClients
  <2>4. toClient' \in [Addr -> Seq(ServerDatagram)]
    BY <2>2, <2>3
  <2> QED BY <1>1, <2>1, <2>2, <2>4 DEF SystemTypeOK, clientVars, objectVars
<1>9. PortFound'
  <2> SUFFICES ASSUME NEW a \in Addr,
                      \/ ~Unknown(a)'
                      \/ Playing(a)'
                      \/ \E k \in DOMAIN toClient'[a] : toClient'[a][k].type # "REFUSED"
               PROVE  PortOpen'
    BY DEF PortFound
  <2>1. CASE ~Unknown(a)'
    <3>1. PICK c \in ClientID : Matches(a, c)'
      BY <2>1 DEF Unknown
    <3>2. CASE Matches(a, c)
      BY <1>4, <3>2 DEF PortFound, Unknown
    <3>3. CASE ~Matches(a, c)
      BY <1>4, <1>7, <3>1, <3>3 DEF LoopHasAI
    <3> QED BY <3>2, <3>3
  <2>2. CASE Playing(a)'
    BY <1>1, <1>4, <2>2 DEF PortFound
  <2>3. CASE Unknown(a)' /\ \E k \in DOMAIN toClient'[a] : toClient'[a][k].type # "REFUSED"
    <3>1. toClient'[a] = toClient[a]
      BY <1>6, <2>3
    <3> QED BY <1>4, <2>3, <3>1 DEF PortFound
  <2> QED BY <2>1, <2>2, <2>3
<1>10. JoinsOnce'
  <2> SUFFICES ASSUME NEW a \in Addr, NEW k \in DOMAIN toServer', JoinAt(a, k)'
               PROVE  /\ clientPhase'[a] \notin {"start", "playing"}
                      /\ Unknown(a)' /\ toClient'[a] = <<>>
                      /\ \A j \in DOMAIN toServer' : From(a, j)' => j = k
    BY DEF JoinsOnce, Alive
  <2>1. /\ \E h \in DOMAIN toServer : JoinAt(a, h)
        /\ \A j \in DOMAIN toServer' : From(a, j)' => j = k
    <3>1. CASE toServer' = toServer
      BY <3>1 DEF JoinsOnce, JoinAt, From
    <3>2. CASE \A j \in DOMAIN toServer' :
                 j \in Nat /\ j + 1 \in DOMAIN toServer /\ toServer'[j] = toServer[j + 1]
      <4>1. k \in Nat /\ JoinAt(a, k + 1) /\ k + 1 \in DOMAIN toServer
        BY <3>2 DEF JoinAt, From
      <4>2. \A j \in DOMAIN toServer' : From(a, j)' => From(a, j + 1) /\ j \in Nat /\ j + 1 \in DOMAIN toServer
        BY <3>2 DEF From
      <4>3. \A j \in DOMAIN toServer : From(a, j) => j = k + 1
        BY <4>1 DEF JoinsOnce
      <4>4. \A j \in DOMAIN toServer' : From(a, j)' => j \in Nat /\ j + 1 = k + 1
        BY <4>2, <4>3
      <4> QED BY <4>1, <4>4
    <3> QED BY <3>1, <3>2, QueueMoves
  <2>2. clientPhase[a] \notin {"start", "playing"} /\ Unknown(a) /\ toClient[a] = <<>>
    BY <2>1 DEF JoinsOnce
  <2>3. Unknown(a)'
    BY <1>7, <2>2 DEF Unknown, JoinAt
  <2> QED BY <1>1, <1>6, <2>1, <2>2, <2>3
<1>11. Newcomers'
  <2> SUFFICES ASSUME NEW a \in Addr
               PROVE  /\ clientPhase'[a] = "start" =>
                           Unknown(a)' /\ \A k \in DOMAIN toServer' : ~From(a, k)'
                      /\ clientPhase'[a] \in {"start", "handshake"} => asked'[a] = -1
                      /\ clientPhase'[a] \in {"handshake", "playing"} \/ toClient'[a] = <<>>
    BY DEF Newcomers
  <2>1. ASSUME clientPhase[a] = "start"
        PROVE  Unknown(a)' /\ \A k \in DOMAIN toServer' : ~From(a, k)'
    <3>1. Unknown(a) /\ \A k \in DOMAIN toServer : ~From(a, k)
      BY <2>1 DEF Newcomers
    <3>2. \A k \in DOMAIN toServer' : ~From(a, k)'
      BY <3>1, QueueMoves DEF From
    <3> QED BY <1>7, <2>1, <3>1, <3>2 DEF Unknown
  <2>2. clientPhase[a] \in {"handshake", "playing"} \/ toClient'[a] = <<>>
    BY <1>5, <1>6, <2>1 DEF Newcomers, Alive
  <2> QED BY <1>1, <2>1, <2>2 DEF Newcomers
<1>12. WelcomeFirst'
  <2> SUFFICES ASSUME NEW a \in Addr, clientPhase[a] = "handshake", ~Unknown(a)'
               PROVE  toClient'[a] # <<>> /\ Head(toClient'[a]).type = "JOINEDGAME"
    BY <1>1 DEF WelcomeFirst
  <2>1. CASE ~Unknown(a)
    <3>1. toClient[a] # <<>> /\ Head(toClient[a]).type = "JOINEDGAME" /\ Alive(a)
      BY <2>1 DEF WelcomeFirst, Alive
    <3>2. toClient[a] \in Seq(ServerDatagram)
      BY <1>5
    <3>3. ASSUME NEW m
          PROVE  Append(toClient[a], m) # <<>> /\ Head(Append(toClient[a], m)) = Head(toClient[a])
      BY <3>1, <3>2
    <3> QED BY <1>5, <3>1, <3>3
  <2>2. CASE Unknown(a)
    <3>1. PICK c \in ClientID : Matches(a, c)'
      BY DEF Unknown
    <3>2. toClient[a] = <<>> /\ out' = {JoinedGame(a, c)}
      BY <1>7, <2>2, <3>1 DEF Unknown
    <3>3. JoinedGame(a, c).dst = a /\ JoinedGame(a, c).type = "JOINEDGAME"
      BY DEF JoinedGame
    <3>4. toClient'[a] = Append(<<>>, JoinedGame(a, c))
      BY <1>5, <3>2, <3>3, SystemAssumption DEF Alive
    <3> QED BY <3>3, <3>4
  <2> QED BY <2>1, <2>2
<1>13. WelcomesHold'
  <2> SUFFICES ASSUME NEW a \in Addr, NEW k \in DOMAIN toClient'[a],
                      toClient'[a][k].type = "JOINEDGAME",
                      NEW c \in ClientID, Matches(a, c)'
               PROVE  c = toClient'[a][k].generated_id
    BY DEF WelcomesHold, Matches
  <2>1. CASE k \in DOMAIN toClient[a] /\ toClient'[a][k] = toClient[a][k]
    <3>1. Matches(a, c)
      BY <1>7, <2>1
    <3> QED BY <2>1, <3>1 DEF WelcomesHold
  <2>2. ASSUME NEW m \in out', m.dst = a, toClient'[a][k] = m
        PROVE  c = toClient'[a][k].generated_id
    <3>1. m.type = "JOINEDGAME" /\ m \in ServerDatagram
      BY <1>3, <2>2
    <3>2. m.generated_id \in ClientID /\ Matches(a, m.generated_id)'
      BY <1>3, <2>2, <3>1 DEF ServerDatagram
    <3>3. \A d \in ClientID : Matches(a, d)' => IsHuman(d)' /\ cliinfo'[d].addr = a
      BY ConstantFacts DEF IInv, TypeOK, ClientInfo, AIAddresses, Matches, IsHuman
    <3>4. IsHuman(c)' /\ IsHuman(m.generated_id)'
      BY <3>2, <3>3
    <3> QED BY <2>2, <3>2, <3>3 DEF IInv, OneSlotPerAddress, IsHuman
  <2>3. ASSUME NEW m \in out', m.dst = a, toClient'[a] = Append(toClient[a], m)
        PROVE  \/ k \in DOMAIN toClient[a] /\ toClient'[a][k] = toClient[a][k]
               \/ toClient'[a][k] = m
    BY <1>5, <2>3
  <2>4. toClient'[a] # <<>>
    OBVIOUS
  <2> QED BY <1>5, <2>1, <2>2, <2>3, <2>4
<1>14. SlotsHold'
  <2> SUFFICES ASSUME NEW a \in Addr, NEW c \in ClientID, Playing(a), Matches(a, c)'
               PROVE  localPlayerID[a] = c
    BY <1>1 DEF SlotsHold
  <2>1. Matches(a, c)
    BY <1>7 DEF Playing
  <2> QED BY <2>1 DEF SlotsHold
<1>15. HandshakeMeetsWelcome'
  <2> SUFFICES ASSUME NEW a \in Addr, clientPhase[a] = "handshake", toClient'[a] # <<>>
               PROVE  Head(toClient'[a]).type \in {"JOINEDGAME", "REFUSED"}
    BY <1>1 DEF HandshakeMeetsWelcome
  <2>1. CASE Unknown(a)'
    BY <1>6, <2>1 DEF HandshakeMeetsWelcome
  <2>2. CASE ~Unknown(a)'
    BY <1>1, <1>12, <2>2 DEF WelcomeFirst
  <2> QED BY <2>1, <2>2
<1>16. AskedBefore'
  <2>1. \A a \in Addr : asked[a] \in Int
    BY DEF SystemTypeOK
  <2> QED BY <1>1, <1>4, <2>1 DEF AskedBefore
<1>17. UpdatesKeepAlive'
  <2> SUFFICES ASSUME NEW a \in Addr, NEW c \in ClientID,
                      Playing(a), Matches(a, c)', ~InFlight(a, c)', asked[a] # -1
               PROVE  cliinfo'[c].lastresp >= asked[a]
    BY <1>1 DEF UpdatesKeepAlive, IsHuman, Matches, InFlight
  <2>1. Matches(a, c)
    BY <1>7 DEF Playing
  <2>2. ~JoinAt(a, 1)
    BY DEF JoinsOnce, JoinAt, From, Playing
  <2>3. IsHuman(c) /\ cliinfo[c].addr = a
    BY <2>1, MatchesHuman
  <2>4. cliinfo'[c].lastresp = curloopnum \/
          (~InFlight(a, c) /\ cliinfo'[c].lastresp = cliinfo[c].lastresp)
    BY <2>1, <2>2, TableMoves
  <2>5. asked[a] <= curloopnum /\ asked[a] \in Int
    BY DEF AskedBefore, SystemTypeOK
  <2> QED BY <1>4, <2>3, <2>4, <2>5 DEF UpdatesKeepAlive
<1>18. ObjectsFiledRight'
  BY <1>1 DEF ObjectsFiledRight, clientVars, objectVars
<1> QED
  BY <1>4, <1>8, <1>9, <1>10, <1>11, <1>12, <1>13, <1>14, <1>15, <1>16, <1>17, <1>18

-----------------------------------------------------------------------------
(* What a step of a client does to the system                              *)

Ended(p) == p \in {"quit", "failed", "aborted"}

LEMMA SendsNothing ==
  ASSUME SystemTypeOK, NEW a \in Addr, NEW rest \in Seq(ServerDatagram), Len(rest) <= SocketBuffer,
         ToServer(a, rest), sent' = {}
  PROVE  /\ toServer' = toServer
         /\ toClient' = [toClient EXCEPT ![a] = toClient'[a]]
         /\ toClient'[a] = IF Ended(clientPhase'[a]) THEN <<>> ELSE rest
         /\ toClient'[a] \in Seq(ServerDatagram) /\ Len(toClient'[a]) <= SocketBuffer
<1> DEFINE box == IF Ended(clientPhase'[a]) THEN <<>> ELSE rest
<1>1. toClient' = [toClient EXCEPT ![a] = box] /\ toServer' = Accept(toServer, {})
  BY DEF ToServer, Ended
<1>2. toServer' = toServer
  BY <1>1, AcceptNone DEF SystemTypeOK
<1>3. box \in Seq(ServerDatagram) /\ Len(box) <= SocketBuffer
  BY SystemAssumption
<1> HIDE DEF box
<1>4. toClient'[a] = box
  BY <1>1 DEF SystemTypeOK
<1> QED BY <1>1, <1>2, <1>3, <1>4 DEF box

LEMMA SendsOne ==
  ASSUME SystemTypeOK, NEW a \in Addr, NEW rest \in Seq(ServerDatagram), Len(rest) <= SocketBuffer,
         ToServer(a, rest), NEW m \in ClientDatagram, sent' = {m}, ~Ended(clientPhase'[a])
  PROVE  /\ toClient' = [toClient EXCEPT ![a] = toClient'[a]]
         /\ toClient'[a] \in Seq(ServerDatagram) /\ Len(toClient'[a]) <= SocketBuffer
         /\ ~PortOpen =>
              /\ toServer' = toServer
              /\ toClient'[a] = IF Len(rest) < SocketBuffer THEN Append(rest, Refused(a)) ELSE rest
         /\ PortOpen =>
              /\ toServer' = IF Len(toServer) < SocketBuffer THEN Append(toServer, m) ELSE toServer
              /\ toClient'[a] = rest
<1>1. toServer \in Seq(ClientDatagram) /\ toClient \in [Addr -> Seq(ServerDatagram)]
      /\ SocketBuffer \in Nat
  BY SystemAssumption DEF SystemTypeOK
<1>2. CASE ~PortOpen
  <2> DEFINE box == IF Len(rest) < SocketBuffer THEN Append(rest, Refused(a)) ELSE rest
  <2>1. Refused(a) \in ServerDatagram
    BY DEF Refused, ServerDatagram
  <2>2. box \in Seq(ServerDatagram) /\ Len(box) <= SocketBuffer
    BY <1>1, <2>1
  <2>3. Accept(rest, {Refused(a)}) = box
    BY AcceptOne
  <2> HIDE DEF box
  <2>4. toClient' = [toClient EXCEPT ![a] = box] /\ toServer' = toServer
    BY <1>2, <2>3 DEF ToServer
  <2>5. toClient'[a] = box
    BY <1>1, <2>4
  <2> QED BY <1>2, <2>2, <2>4, <2>5 DEF box
<1>3. CASE PortOpen
  <2>1. toClient' = [toClient EXCEPT ![a] = rest] /\ toServer' = Accept(toServer, {m})
    BY <1>3 DEF ToServer, Ended
  <2>2. toClient'[a] = rest
    BY <1>1, <2>1
  <2> QED BY <1>1, <1>3, <2>1, <2>2, AcceptOne
<1> QED BY <1>2, <1>3

(* The objects of an update are filed where they belong, or the client     *)
(* stops: a missile's byte is never a player's to the client, and a byte   *)
(* that is a player's to the server alone is refused.                      *)
LEMMA FiledRight ==
  ASSUME CInv, NEW a \in Addr, NEW m \in ServerDatagram, m.type = "OBJUPDTLIST",
         UpdateObjects(a, Range(m.players) \cup Range(m.missiles)), Playing(a)
  PROVE  /\ \/ clientPhase' = [clientPhase EXCEPT ![a] = "aborted"] /\ sent' = {}
            \/ clientPhase' = clientPhase /\ sent' = {PingResp(a)}
         /\ localPlayerID' = localPlayerID
         /\ clientPlayers' = [clientPlayers EXCEPT ![a] = clientPlayers'[a]]
         /\ clientMissiles' = [clientMissiles EXCEPT ![a] = clientMissiles'[a]]
         /\ clientPlayers'[a] \subseteq ClientID /\ clientMissiles'[a] \subseteq MissileByte
<1> DEFINE ids == Range(m.players) \cup Range(m.missiles)
<1>1. /\ clientPlayers[a] \subseteq ClientID /\ clientMissiles[a] \subseteq MissileByte
      /\ DOMAIN clientPlayers = Addr /\ DOMAIN clientMissiles = Addr
      /\ clientPlayers = [b \in Addr |-> clientPlayers[b]]
      /\ clientMissiles = [b \in Addr |-> clientMissiles[b]]
  BY DEF CInv, SInv, ObjectsFiledRight, SystemTypeOK
<1>2. m.players \in Seq(ClientID) /\ m.missiles \in Seq(MissileByte)
  BY DEF ServerDatagram
<1>3. ids \subseteq ClientID \cup MissileByte
  BY <1>2 DEF Range
<1> HIDE DEF ids
<1>4. CASE RefusesMissile(a, ids)
  <2>1. clientPhase' = [clientPhase EXCEPT ![a] = "aborted"] /\ sent' = {} /\ UNCHANGED objectVars
    BY <1>4 DEF UpdateObjects, Enter, ids
  <2> QED BY <1>1, <2>1 DEF objectVars
<1>5. CASE ~RefusesMissile(a, ids)
  <2>1. /\ clientPlayers' = [clientPlayers EXCEPT ![a] = @ \cup {id \in ids : IsPlayer(id)}]
        /\ clientMissiles' = [clientMissiles EXCEPT ![a] = @ \cup {id \in ids : ~IsPlayer(id)}]
        /\ sent' = {PingResp(a)} /\ UNCHANGED <<clientPhase, localPlayerID>>
    BY <1>5 DEF UpdateObjects, AnswerUpdate, ids
  <2>2. ASSUME NEW b \in MissileByte PROVE ~IsPlayer(b)
    <3>1. PICK i \in MissileID \cup {-1} : b = i % UCHAR_VALUES
      BY DEF MissileByte, UChar
    <3>2. /\ UCHAR_VALUES \in Nat \ {0} /\ MAX_NUM_PLAYERS \in Nat
          /\ MIN_MISSILE_ID \in Nat /\ MAX_MISSILE_ID \in Nat /\ MAX_MISSILE_ID <= UCHAR_VALUES
          /\ MAX_NUM_PLAYERS <= MIN_MISSILE_ID /\ MAX_NUM_PLAYERS < UCHAR_VALUES
      BY ProtocolAssumption, EngineAssumption, ClientAssumption, IdRangesAssumption
    <3>3. CASE i \in MissileID
      <4>1. i \in Nat /\ i < UCHAR_VALUES /\ MAX_NUM_PLAYERS <= i
        BY <3>2, <3>3 DEF MissileID
      <4>2. b = i
        BY <3>1, <3>2, <4>1
      <4> QED BY <3>2, <4>1, <4>2 DEF IsPlayer
    <3>4. CASE i = -1
      <4>1. b = UCHAR_VALUES - 1
        BY <3>1, <3>2, <3>4
      <4> QED BY <3>2, <4>1 DEF IsPlayer
    <3> QED BY <3>3, <3>4
  <2>3. ASSUME NEW id \in ids, ~IsPlayer(id), id \notin MissileByte PROVE FALSE
    <3>1. id \in ClientID /\ id \notin clientMissiles[a]
      BY <1>1, <1>3, <2>3
    <3>2. ~(id < lowestMissileID)
      BY <1>5, <2>3, <3>1 DEF RefusesMissile
    <3> QED BY <3>1, <3>2, ConstantFacts, IdRangesAssumption, ClientAssumption DEF ClientID
  <2>4. /\ {id \in ids : IsPlayer(id)} \subseteq ClientID
        /\ {id \in ids : ~IsPlayer(id)} \subseteq MissileByte
    BY <1>3, <2>2, <2>3
  <2> QED BY <1>1, <2>1, <2>4
<1> QED BY <1>4, <1>5

(* A step of client a changes nothing of another client's.                 *)
Alone(a) ==
  /\ clientPhase' = [clientPhase EXCEPT ![a] = clientPhase'[a]]
  /\ localPlayerID' = [localPlayerID EXCEPT ![a] = localPlayerID'[a]]
  /\ clientPlayers' = [clientPlayers EXCEPT ![a] = clientPlayers'[a]]
  /\ clientMissiles' = [clientMissiles EXCEPT ![a] = clientMissiles'[a]]
  /\ toClient' = [toClient EXCEPT ![a] = toClient'[a]]
  /\ asked' = [asked EXCEPT ![a] = asked'[a]]

(* The four things a step can mean for the life of a client.               *)
Starts(a) ==
  /\ clientPhase[a] = "start" /\ clientPhase'[a] = "handshake"
  /\ \/ toClient'[a] = <<>>
     \/ toClient'[a] = <<Refused(a)>> /\ toServer' = toServer
  /\ asked'[a] = asked[a]
Enters(a) ==
  /\ clientPhase[a] = "handshake" /\ clientPhase'[a] = "playing"
  /\ toClient[a] # <<>> /\ Head(toClient[a]).type = "JOINEDGAME"
  /\ localPlayerID'[a] = Head(toClient[a]).generated_id
  /\ toClient'[a] = Tail(toClient[a])
  /\ toServer' = toServer /\ asked'[a] = asked[a]
Ends(a) ==
  /\ Ended(clientPhase'[a])
  /\ toClient'[a] = <<>> /\ toServer' = toServer
Plays(a) ==
  /\ Playing(a) /\ clientPhase'[a] = "playing"
  /\ localPlayerID'[a] = localPlayerID[a]
  /\ \/ toClient'[a] = toClient[a]
     \/ toClient[a] # <<>> /\ toClient'[a] = Tail(toClient[a])
  /\ asked'[a] = asked[a] \/ \E k \in DOMAIN toServer' : From(a, k)'

Sends(a) ==
  \/ toServer' = toServer
  \/ \E m \in ClientDatagram :
       /\ m.src = a /\ (m.type = "JOINGAME" => clientPhase[a] = "start")
       /\ Len(toServer) < SocketBuffer /\ toServer' = Append(toServer, m)

Moves(a) ==
  /\ Alone(a) /\ Sends(a) /\ (Starts(a) \/ Enters(a) \/ Ends(a) \/ Plays(a))
  /\ clientPhase'[a] \in ClientPhases /\ localPlayerID'[a] \in ClientID \cup {-1}
  /\ clientPlayers'[a] \subseteq ClientID /\ clientMissiles'[a] \subseteq MissileByte
  /\ sent' \subseteq ClientDatagram
  /\ toClient'[a] \in Seq(ServerDatagram) /\ Len(toClient'[a]) <= SocketBuffer
  /\ asked'[a] \in {asked[a], curloopnum}

LEMMA ClientMoves ==
  ASSUME CInv, NEW a \in Addr, ClientStep(a)
  PROVE  Moves(a)
<1>1. /\ clientPhase \in [Addr -> ClientPhases] /\ localPlayerID \in [Addr -> ClientID \cup {-1}]
      /\ clientPlayers \in [Addr -> SUBSET (0 .. UCHAR_VALUES - 1)]
      /\ clientMissiles \in [Addr -> SUBSET (0 .. UCHAR_VALUES - 1)]
      /\ toServer \in Seq(ClientDatagram)
      /\ toClient \in [Addr -> Seq(ServerDatagram)] /\ Len(toClient[a]) <= SocketBuffer
      /\ asked \in [Addr -> {-1} \cup 0 .. INT_MAX]
      /\ SocketBuffer \in Nat \ {0}
      /\ SystemTypeOK
  BY SystemAssumption DEF CInv, SInv, SystemTypeOK
<1>2. clientPlayers[a] \subseteq ClientID /\ clientMissiles[a] \subseteq MissileByte
  BY DEF CInv, SInv, ObjectsFiledRight
<1>3. Playing(a) => PortOpen
  BY DEF CInv, SInv, PortFound
<1>4. ASSUME StartClient(a), ToServer(a, <<>>), asked' = asked PROVE Moves(a)
  <2>1. /\ clientPhase[a] = "start" /\ clientPhase' = [clientPhase EXCEPT ![a] = "handshake"]
        /\ sent' = {JoinGame(a)} /\ UNCHANGED objectVars
    BY <1>4 DEF StartClient, Enter
  <2>2. JoinGame(a) \in ClientDatagram /\ JoinGame(a).src = a
    BY DEF JoinGame, ClientDatagram
  <2>3. clientPhase'[a] = "handshake" /\ ~Ended(clientPhase'[a])
    BY <1>1, <2>1 DEF Ended
  <2>4. /\ <<>> \in Seq(ServerDatagram) /\ Len(<<>>) <= SocketBuffer /\ Len(<<>>) < SocketBuffer
        /\ Append(<<>>, Refused(a)) = <<Refused(a)>>
    BY <1>1
  <2>5. /\ toClient' = [toClient EXCEPT ![a] = toClient'[a]]
        /\ toClient'[a] \in Seq(ServerDatagram) /\ Len(toClient'[a]) <= SocketBuffer
        /\ ~PortOpen =>
             /\ toServer' = toServer
             /\ toClient'[a] = IF Len(<<>>) < SocketBuffer THEN Append(<<>>, Refused(a)) ELSE <<>>
        /\ PortOpen =>
             /\ toServer' = IF Len(toServer) < SocketBuffer
                            THEN Append(toServer, JoinGame(a)) ELSE toServer
             /\ toClient'[a] = <<>>
    BY <1>1, <1>4, <2>1, <2>2, <2>3, <2>4, SendsOne
  <2>6. Sends(a)
    BY <2>1, <2>2, <2>5 DEF Sends
  <2>7. toClient'[a] = <<>> \/ (toClient'[a] = <<Refused(a)>> /\ toServer' = toServer)
    BY <2>4, <2>5
  <2> QED BY <1>1, <1>2, <1>4, <2>1, <2>2, <2>3, <2>5, <2>6, <2>7
          DEF Moves, Alone, Starts, objectVars, ClientPhases
<1>5. ASSUME toClient[a] # <<>>, Handshake(a, Head(toClient[a])),
             ToServer(a, Tail(toClient[a])),
             asked' = IF Asks(Head(toClient[a])) /\ Len(toServer) < SocketBuffer
                      THEN [asked EXCEPT ![a] = curloopnum] ELSE asked
      PROVE  Moves(a)
  <2> DEFINE m == Head(toClient[a])
  <2>1. /\ m \in ServerDatagram /\ Tail(toClient[a]) \in Seq(ServerDatagram)
        /\ Len(Tail(toClient[a])) <= SocketBuffer
    BY <1>1, <1>5
  <2>2. clientPhase[a] = "handshake" /\ sent' = {} /\ m.type \in {"JOINEDGAME", "REFUSED"}
    BY <1>5 DEF Handshake, CInv, SInv, HandshakeMeetsWelcome
  <2>3. asked' = asked
    BY <1>5, <2>2 DEF Asks
  <2>4. /\ toServer' = toServer
        /\ toClient' = [toClient EXCEPT ![a] = toClient'[a]]
        /\ toClient'[a] = IF Ended(clientPhase'[a]) THEN <<>> ELSE Tail(toClient[a])
        /\ toClient'[a] \in Seq(ServerDatagram) /\ Len(toClient'[a]) <= SocketBuffer
    BY <1>1, <1>5, <2>1, <2>2, SendsNothing
  <2>5. CASE m.type = "JOINEDGAME" /\ Enter(a, "playing") /\ PlaceLocalPlayer(a, m.generated_id)
    <3>1. m.generated_id \in ClientID
      BY <2>1, <2>5 DEF ServerDatagram
    <3>2. /\ clientPhase' = [clientPhase EXCEPT ![a] = "playing"]
          /\ localPlayerID' = [localPlayerID EXCEPT ![a] = m.generated_id]
          /\ clientPlayers' = [clientPlayers EXCEPT ![a] = @ \cup {m.generated_id}]
          /\ clientMissiles' = clientMissiles
      BY <2>5 DEF Enter, PlaceLocalPlayer
    <3> HIDE DEF m
    <3>3. /\ clientPhase'[a] = "playing" /\ localPlayerID'[a] = m.generated_id
          /\ clientPlayers'[a] = clientPlayers[a] \cup {m.generated_id}
          /\ ~Ended(clientPhase'[a])
      BY <1>1, <3>2 DEF Ended
    <3>4. Enters(a)
      BY <1>5, <2>2, <2>3, <2>4, <2>5, <3>3 DEF Enters, m
    <3>5. Alone(a)
      BY <1>1, <2>3, <2>4, <3>2, <3>3 DEF Alone
    <3> QED BY <1>1, <1>2, <2>2, <2>3, <2>4, <3>1, <3>2, <3>3, <3>4, <3>5
            DEF Moves, Sends, ClientPhases
  <2>6. CASE Enter(a, "failed") /\ UNCHANGED objectVars
    <3>1. clientPhase' = [clientPhase EXCEPT ![a] = "failed"] /\ clientPhase'[a] = "failed"
      BY <1>1, <2>6 DEF Enter
    <3>2. Ends(a)
      BY <2>4, <3>1 DEF Ends, Ended
    <3>3. Alone(a)
      BY <1>1, <2>3, <2>4, <2>6, <3>1 DEF Alone, objectVars
    <3> QED BY <1>1, <1>2, <2>2, <2>3, <2>4, <2>6, <3>1, <3>2, <3>3
            DEF Moves, Sends, ClientPhases, objectVars
  <2> QED BY <1>5, <2>5, <2>6 DEF Handshake
<1>6. ASSUME toClient[a] # <<>>, HandlePacket(a, Head(toClient[a])),
             ToServer(a, Tail(toClient[a])),
             asked' = IF Asks(Head(toClient[a])) /\ Len(toServer) < SocketBuffer
                      THEN [asked EXCEPT ![a] = curloopnum] ELSE asked
      PROVE  Moves(a)
  <2> DEFINE m == Head(toClient[a])
  <2>1. /\ m \in ServerDatagram /\ Tail(toClient[a]) \in Seq(ServerDatagram)
        /\ Len(Tail(toClient[a])) <= SocketBuffer
    BY <1>1, <1>6
  <2>2. Playing(a) /\ PortOpen
    BY <1>3, <1>6 DEF HandlePacket, Playing
  <2> HIDE DEF m
  <2>3. /\ asked' = [asked EXCEPT ![a] = asked'[a]] /\ asked'[a] \in {asked[a], curloopnum}
        /\ ~(Asks(m) /\ Len(toServer) < SocketBuffer) => asked'[a] = asked[a]
    BY <1>1, <1>6 DEF m
  <2>4. /\ \/ /\ clientPhase' = [clientPhase EXCEPT ![a] = "aborted"] /\ sent' = {}
           \/ /\ clientPhase' = clientPhase
              /\ sent' = IF Asks(m) THEN {PingResp(a)} ELSE {}
        /\ localPlayerID' = localPlayerID
        /\ clientPlayers' = [clientPlayers EXCEPT ![a] = clientPlayers'[a]]
        /\ clientMissiles' = [clientMissiles EXCEPT ![a] = clientMissiles'[a]]
        /\ clientPlayers'[a] \subseteq ClientID /\ clientMissiles'[a] \subseteq MissileByte
    <3>1. CASE m.type = "OBJUPDTLIST"
      <4>1. UpdateObjects(a, Range(m.players) \cup Range(m.missiles))
        BY <1>6, <3>1 DEF HandlePacket, m
      <4>2. Asks(m)
        BY <3>1 DEF Asks
      <4> QED BY <2>1, <2>2, <3>1, <4>1, <4>2, FiledRight
    <3>2. CASE m.type # "OBJUPDTLIST"
      <4>1. /\ UNCHANGED <<clientPhase, objectVars>>
            /\ sent' = IF m.type = "PINGREQ" THEN {PingResp(a)} ELSE {}
        BY <1>6, <3>2 DEF HandlePacket, m
      <4> QED BY <1>1, <1>2, <3>2, <4>1 DEF Asks, objectVars
    <3> QED BY <3>1, <3>2
  <2>5. CASE sent' = {}
    <3>1. /\ toServer' = toServer
          /\ toClient' = [toClient EXCEPT ![a] = toClient'[a]]
          /\ toClient'[a] = IF Ended(clientPhase'[a]) THEN <<>> ELSE Tail(toClient[a])
          /\ toClient'[a] \in Seq(ServerDatagram) /\ Len(toClient'[a]) <= SocketBuffer
      BY <1>1, <1>6, <2>1, <2>5, SendsNothing
    <3>2. CASE clientPhase' = [clientPhase EXCEPT ![a] = "aborted"]
      <4>1. clientPhase'[a] = "aborted" /\ Ends(a)
        BY <1>1, <3>1, <3>2 DEF Ends, Ended
      <4>2. Alone(a)
        BY <1>1, <2>3, <2>4, <3>1, <3>2, <4>1 DEF Alone
      <4> QED BY <1>1, <2>3, <2>4, <2>5, <3>1, <4>1, <4>2 DEF Moves, Sends, ClientPhases
    <3>3. CASE clientPhase' = clientPhase /\ ~Asks(m)
      <4>1. clientPhase'[a] = "playing" /\ toClient'[a] = Tail(toClient[a]) /\ asked'[a] = asked[a]
        BY <2>2, <2>3, <3>1, <3>3 DEF Ended, Playing
      <4>2. Alone(a)
        BY <1>1, <2>3, <2>4, <3>1, <3>3 DEF Alone
      <4>3. Plays(a)
        BY <1>6, <2>2, <2>4, <4>1 DEF Plays
      <4> QED BY <1>1, <2>3, <2>4, <2>5, <3>1, <4>1, <4>2, <4>3 DEF Moves, Sends, ClientPhases
    <3> QED BY <2>4, <2>5, <3>2, <3>3
  <2>6. CASE sent' = {PingResp(a)}
    <3>1. PingResp(a) \in ClientDatagram /\ PingResp(a).src = a /\ PingResp(a).type = "PINGRESP"
      BY DEF PingResp, ClientDatagram
    <3>2. clientPhase' = clientPhase /\ clientPhase'[a] = "playing" /\ ~Ended(clientPhase'[a])
      BY <2>2, <2>4, <2>6 DEF Playing, Ended
    <3>3. /\ toClient' = [toClient EXCEPT ![a] = toClient'[a]]
          /\ toClient'[a] \in Seq(ServerDatagram) /\ Len(toClient'[a]) <= SocketBuffer
          /\ toServer' = IF Len(toServer) < SocketBuffer
                         THEN Append(toServer, PingResp(a)) ELSE toServer
          /\ toClient'[a] = Tail(toClient[a])
      BY <1>1, <1>6, <2>1, <2>2, <2>6, <3>1, <3>2, SendsOne
    <3>4. Sends(a)
      BY <3>1, <3>3 DEF Sends
    <3>5. asked'[a] = asked[a] \/ \E k \in DOMAIN toServer' : From(a, k)'
      <4>1. CASE Len(toServer) < SocketBuffer
        <5>1. toServer' = Append(toServer, PingResp(a))
          BY <3>3, <4>1
        <5>2. Len(toServer) + 1 \in DOMAIN toServer' /\ toServer'[Len(toServer) + 1] = PingResp(a)
          BY <1>1, <5>1
        <5> QED BY <3>1, <5>2 DEF From
      <4> QED BY <2>3, <4>1
    <3>6. Plays(a)
      BY <1>6, <2>2, <2>4, <3>2, <3>3, <3>5 DEF Plays
    <3>7. Alone(a)
      BY <1>1, <2>3, <2>4, <3>2, <3>3 DEF Alone
    <3> QED BY <1>1, <2>3, <2>4, <2>6, <3>1, <3>2, <3>3, <3>4, <3>6, <3>7 DEF Moves, ClientPhases
  <2> QED BY <2>4, <2>5, <2>6
<1>7. ASSUME QuitClient(a), ToServer(a, <<>>), asked' = asked PROVE Moves(a)
  <2>1. /\ clientPhase' = [clientPhase EXCEPT ![a] = "quit"] /\ clientPhase'[a] = "quit"
        /\ sent' = {} /\ UNCHANGED objectVars
    BY <1>1, <1>7 DEF QuitClient, Enter
  <2>2. <<>> \in Seq(ServerDatagram) /\ Len(<<>>) <= SocketBuffer
    BY <1>1
  <2>3. /\ toServer' = toServer
        /\ toClient' = [toClient EXCEPT ![a] = toClient'[a]]
        /\ toClient'[a] = <<>>
        /\ toClient'[a] \in Seq(ServerDatagram) /\ Len(toClient'[a]) <= SocketBuffer
    BY <1>1, <1>7, <2>1, <2>2, SendsNothing
  <2>4. Ends(a)
    BY <2>1, <2>3 DEF Ends, Ended
  <2>5. Alone(a)
    BY <1>1, <1>7, <2>1, <2>3 DEF Alone, objectVars
  <2> QED BY <1>1, <1>2, <1>7, <2>1, <2>3, <2>4, <2>5 DEF Moves, Sends, ClientPhases, objectVars
<1>8. ASSUME NEW fs \in EventLists, SendEventList(a, fs), ToServer(a, toClient[a]), asked' = asked
      PROVE  Moves(a)
  <2>1. Playing(a) /\ PortOpen /\ sent' = {EventList(a, fs)} /\ UNCHANGED <<clientPhase, objectVars>>
    BY <1>3, <1>8 DEF SendEventList, Playing
  <2>2. /\ EventList(a, fs) \in ClientDatagram
        /\ EventList(a, fs).src = a /\ EventList(a, fs).type = "EVENTLIST"
    BY DEF EventList, ClientDatagram
  <2>3. clientPhase'[a] = "playing" /\ ~Ended(clientPhase'[a])
    BY <2>1 DEF Playing, Ended
  <2>4. /\ toClient' = [toClient EXCEPT ![a] = toClient'[a]]
        /\ toClient'[a] \in Seq(ServerDatagram) /\ Len(toClient'[a]) <= SocketBuffer
        /\ toServer' = IF Len(toServer) < SocketBuffer
                       THEN Append(toServer, EventList(a, fs)) ELSE toServer
        /\ toClient'[a] = toClient[a]
    BY <1>1, <1>8, <2>1, <2>2, <2>3, SendsOne
  <2>5. Sends(a)
    BY <2>2, <2>4 DEF Sends
  <2>6. Plays(a)
    BY <1>8, <2>1, <2>3, <2>4 DEF Plays, objectVars
  <2>7. Alone(a)
    BY <1>1, <1>8, <2>1, <2>4 DEF Alone, objectVars
  <2> QED BY <1>1, <1>2, <1>8, <2>1, <2>2, <2>3, <2>4, <2>5, <2>6, <2>7
          DEF Moves, ClientPhases, objectVars
<1> QED BY <1>4, <1>5, <1>6, <1>7, <1>8 DEF ClientStep, ClientHandles

(* What is in the server's buffer stays; what is added is the client's.    *)
LEMMA QueueGrows ==
  ASSUME SystemTypeOK, NEW a \in Addr, Moves(a)
  PROVE  /\ toServer' \in Seq(ClientDatagram) /\ Len(toServer') <= SocketBuffer
         /\ \A k \in DOMAIN toServer : k \in DOMAIN toServer' /\ toServer'[k] = toServer[k]
         /\ \/ toServer' = toServer
            \/ \E n \in DOMAIN toServer' :
                 /\ n \notin DOMAIN toServer /\ toServer'[n].src = a
                 /\ toServer'[n].type = "JOINGAME" => clientPhase[a] = "start"
                 /\ \A k \in DOMAIN toServer' : k = n \/ k \in DOMAIN toServer
<1>1. toServer \in Seq(ClientDatagram) /\ Len(toServer) <= SocketBuffer /\ SocketBuffer \in Nat
  BY SystemAssumption DEF SystemTypeOK
<1>2. CASE toServer' = toServer
  BY <1>1, <1>2
<1>3. ASSUME NEW m \in ClientDatagram, m.src = a, m.type = "JOINGAME" => clientPhase[a] = "start",
             Len(toServer) < SocketBuffer, toServer' = Append(toServer, m)
      PROVE  /\ toServer' \in Seq(ClientDatagram) /\ Len(toServer') <= SocketBuffer
             /\ \A k \in DOMAIN toServer : k \in DOMAIN toServer' /\ toServer'[k] = toServer[k]
             /\ \E n \in DOMAIN toServer' :
                  /\ n \notin DOMAIN toServer /\ toServer'[n].src = a
                  /\ toServer'[n].type = "JOINGAME" => clientPhase[a] = "start"
                  /\ \A k \in DOMAIN toServer' : k = n \/ k \in DOMAIN toServer
  <2> DEFINE n == Len(toServer) + 1
  <2>1. /\ toServer' \in Seq(ClientDatagram) /\ Len(toServer') = n
        /\ \A k \in DOMAIN toServer : k \in DOMAIN toServer' /\ toServer'[k] = toServer[k]
        /\ n \in DOMAIN toServer' /\ n \notin DOMAIN toServer /\ toServer'[n] = m
        /\ \A k \in DOMAIN toServer' : k = n \/ k \in DOMAIN toServer
    BY <1>1, <1>3
  <2>2. Len(toServer') <= SocketBuffer
    BY <1>1, <1>3, <2>1
  <2> HIDE DEF n
  <2> QED BY <1>3, <2>1, <2>2
<1> QED BY <1>2, <1>3 DEF Moves, Sends

(* A client takes its datagrams from the front.                            *)
LEMMA BufferMoves ==
  ASSUME SystemTypeOK, NEW a \in Addr, Enters(a) \/ Plays(a),
         NEW k \in DOMAIN toClient'[a]
  PROVE  \E j \in DOMAIN toClient[a] : toClient'[a][k] = toClient[a][j]
<1>1. toClient[a] \in Seq(ServerDatagram)
  BY DEF SystemTypeOK
<1>2. CASE toClient'[a] = toClient[a]
  BY <1>2
<1>3. CASE toClient[a] # <<>> /\ toClient'[a] = Tail(toClient[a])
  <2>1. k + 1 \in DOMAIN toClient[a] /\ toClient'[a][k] = toClient[a][k + 1]
    BY <1>1, <1>3
  <2> QED BY <2>1
<1> QED BY <1>2, <1>3 DEF Enters, Plays

LEMMA ClientStepKeeps ==
  ASSUME CInv, NEW a \in Addr, ClientStep(a)
  PROVE  SInv'
<1> USE DEF CInv, SInv
<1>1. Moves(a)
  BY ClientMoves
<1>2. /\ cliinfo' = cliinfo /\ phase' = phase /\ cid' = cid /\ aiModule' = aiModule
      /\ fault' = fault /\ curloopnum' = curloopnum
      /\ \A b \in Addr, c \in ClientID :
           Matches(b, c)' = Matches(b, c) /\ IsHuman(c)' = IsHuman(c)
      /\ \A b \in Addr : Unknown(b)' = Unknown(b)
      /\ PortOpen' = PortOpen
  BY DEF ClientStep, vars, loopVars, Matches, IsHuman, Unknown, PortOpen
<1>3. /\ clientPhase \in [Addr -> ClientPhases] /\ localPlayerID \in [Addr -> ClientID \cup {-1}]
      /\ clientPlayers \in [Addr -> SUBSET (0 .. UCHAR_VALUES - 1)]
      /\ clientMissiles \in [Addr -> SUBSET (0 .. UCHAR_VALUES - 1)]
      /\ toClient \in [Addr -> Seq(ServerDatagram)]
      /\ asked \in [Addr -> {-1} \cup 0 .. INT_MAX]
      /\ \A b \in Addr : Len(toClient[b]) <= SocketBuffer
  BY DEF SystemTypeOK
<1>4. ASSUME NEW b \in Addr, b # a
      PROVE  /\ clientPhase'[b] = clientPhase[b] /\ localPlayerID'[b] = localPlayerID[b]
             /\ clientPlayers'[b] = clientPlayers[b] /\ clientMissiles'[b] = clientMissiles[b]
             /\ toClient'[b] = toClient[b] /\ asked'[b] = asked[b]
  BY <1>1, <1>3, <1>4 DEF Moves, Alone
<1>5. Starts(a) \/ Enters(a) \/ Ends(a) \/ Plays(a)
  BY <1>1 DEF Moves
<1>6. /\ toServer' \in Seq(ClientDatagram) /\ Len(toServer') <= SocketBuffer
      /\ \A k \in DOMAIN toServer : k \in DOMAIN toServer' /\ toServer'[k] = toServer[k]
      /\ \/ toServer' = toServer
         \/ \E n \in DOMAIN toServer' :
              /\ n \notin DOMAIN toServer /\ toServer'[n].src = a
              /\ toServer'[n].type = "JOINGAME" => clientPhase[a] = "start"
              /\ \A k \in DOMAIN toServer' : k = n \/ k \in DOMAIN toServer
  BY <1>1, QueueGrows
<1>7. /\ clientPlayers'[a] \subseteq ClientID /\ clientMissiles'[a] \subseteq MissileByte
      /\ asked'[a] \in {asked[a], curloopnum}
  BY <1>1 DEF Moves
<1>8. ClientID \cup MissileByte \subseteq 0 .. UCHAR_VALUES - 1
  <2>1. /\ UCHAR_VALUES \in Nat \ {0} /\ MAX_CLIENT_ID \in Nat /\ MIN_MISSILE_ID \in Nat
        /\ MAX_MISSILE_ID \in Nat
        /\ MAX_CLIENT_ID <= MIN_MISSILE_ID /\ MIN_MISSILE_ID <= MAX_MISSILE_ID
        /\ MAX_MISSILE_ID <= UCHAR_VALUES
    BY ProtocolAssumption, EngineAssumption
  <2>2. \A i \in Int : i % UCHAR_VALUES \in 0 .. UCHAR_VALUES - 1
    BY <2>1
  <2>3. MissileID \subseteq Int
    BY DEF MissileID
  <2> QED BY <2>1, <2>2, <2>3 DEF ClientID, MissileByte, UChar
<1>9. SystemTypeOK'
  <2>1. /\ clientPhase' \in [Addr -> ClientPhases] /\ localPlayerID' \in [Addr -> ClientID \cup {-1}]
        /\ toClient' \in [Addr -> Seq(ServerDatagram)]
    BY <1>1, <1>3 DEF Moves, Alone
  <2>2. /\ clientPlayers' \in [Addr -> SUBSET (0 .. UCHAR_VALUES - 1)]
        /\ clientMissiles' \in [Addr -> SUBSET (0 .. UCHAR_VALUES - 1)]
    <3>1. /\ clientPlayers'[a] \in SUBSET (0 .. UCHAR_VALUES - 1)
          /\ clientMissiles'[a] \in SUBSET (0 .. UCHAR_VALUES - 1)
      BY <1>7, <1>8
    <3> QED BY <1>1, <1>3, <3>1 DEF Moves, Alone
  <2>3. asked' \in [Addr -> {-1} \cup 0 .. INT_MAX]
    <3>1. curloopnum \in 0 .. INT_MAX
      BY DEF IInv, TypeOK
    <3>2. asked'[a] \in {-1} \cup 0 .. INT_MAX
      BY <1>3, <1>7, <3>1
    <3> QED BY <1>1, <1>3, <3>2 DEF Moves, Alone
  <2>4. \A b \in Addr : Len(toClient'[b]) <= SocketBuffer
    BY <1>1, <1>3, <1>4 DEF Moves
  <2> QED BY <1>1, <1>6, <2>1, <2>2, <2>3, <2>4 DEF SystemTypeOK, Moves
<1>10. LoopHasAI'
  BY <1>2 DEF LoopHasAI
<1>11. PortFound'
  <2> SUFFICES ASSUME NEW b \in Addr,
                      \/ ~Unknown(b)'
                      \/ Playing(b)'
                      \/ \E k \in DOMAIN toClient'[b] : toClient'[b][k].type # "REFUSED"
               PROVE  PortOpen
    BY <1>2 DEF PortFound
  <2>1. CASE b # a
    BY <1>2, <1>4, <2>1 DEF PortFound, Playing
  <2>2. CASE b = a /\ Starts(a)
    <3>1. Unknown(a)
      BY <2>2 DEF Starts, Newcomers
    <3>2. \A k \in DOMAIN toClient'[a] : toClient'[a][k].type = "REFUSED"
      BY <2>2 DEF Starts, Refused
    <3> QED BY <1>2, <2>2, <3>1, <3>2 DEF Starts, Playing
  <2>3. CASE b = a /\ Enters(a)
    <3>1. 1 \in DOMAIN toClient[a] /\ toClient[a][1].type = "JOINEDGAME"
      BY <1>3, <2>3 DEF Enters
    <3> QED BY <3>1 DEF PortFound
  <2>4. CASE b = a /\ Ends(a)
    BY <1>2, <2>4 DEF Ends, Ended, Playing, PortFound
  <2>5. CASE b = a /\ Plays(a)
    BY <2>5 DEF Plays, PortFound
  <2> QED BY <1>5, <2>1, <2>2, <2>3, <2>4, <2>5
<1>12. JoinsOnce'
  <2> SUFFICES ASSUME NEW b \in Addr, NEW k \in DOMAIN toServer', JoinAt(b, k)'
               PROVE  /\ clientPhase'[b] \notin {"start", "playing"}
                      /\ Unknown(b) /\ toClient'[b] = <<>>
                      /\ \A j \in DOMAIN toServer' : From(b, j)' => j = k
    BY <1>2 DEF JoinsOnce
  <2>1. CASE k \in DOMAIN toServer
    <3>1. JoinAt(b, k)
      BY <1>6, <2>1 DEF JoinAt, From
    <3>2. /\ clientPhase[b] \notin {"start", "playing"} /\ Unknown(b) /\ toClient[b] = <<>>
          /\ \A j \in DOMAIN toServer : From(b, j) => j = k
      BY <2>1, <3>1 DEF JoinsOnce
    <3>3. CASE b # a
      BY <1>4, <1>6, <3>2, <3>3 DEF From
    <3>4. CASE b = a
      <4>1. Ends(a)
        BY <1>5, <3>2, <3>4 DEF Starts, Enters, Plays, Playing
      <4> QED BY <3>2, <3>4, <4>1 DEF Ends, Ended, From
    <3> QED BY <3>3, <3>4
  <2>2. CASE k \notin DOMAIN toServer
    <3>1. /\ toServer' # toServer /\ b = a /\ clientPhase[a] = "start"
          /\ \A j \in DOMAIN toServer' : j = k \/ j \in DOMAIN toServer
      BY <1>6, <2>2 DEF JoinAt, From
    <3>2. Starts(a)
      BY <1>5, <3>1 DEF Enters, Ends, Plays, Playing
    <3>3. Unknown(a) /\ \A j \in DOMAIN toServer : ~From(a, j)
      BY <3>1 DEF Newcomers
    <3> QED BY <1>6, <3>1, <3>2, <3>3 DEF Starts, From
  <2> QED BY <2>1, <2>2
<1>13. Newcomers'
  <2> SUFFICES ASSUME NEW b \in Addr
               PROVE  /\ clientPhase'[b] = "start" =>
                           Unknown(b) /\ \A k \in DOMAIN toServer' : ~From(b, k)'
                      /\ clientPhase'[b] \in {"start", "handshake"} => asked'[b] = -1
                      /\ clientPhase'[b] \in {"handshake", "playing"} \/ toClient'[b] = <<>>
    BY <1>2 DEF Newcomers
  <2>1. CASE b # a
    BY <1>4, <1>6, <2>1 DEF Newcomers, From
  <2>2. CASE b = a
    BY <1>5, <2>2 DEF Newcomers, Starts, Enters, Ends, Ended, Plays
  <2> QED BY <2>1, <2>2
<1>14. WelcomeFirst'
  <2> SUFFICES ASSUME NEW b \in Addr, clientPhase'[b] = "handshake", ~Unknown(b)
               PROVE  toClient'[b] # <<>> /\ Head(toClient'[b]).type = "JOINEDGAME"
    BY <1>2 DEF WelcomeFirst
  <2>1. b # a
    BY <1>5 DEF Newcomers, Starts, Enters, Ends, Ended, Plays
  <2> QED BY <1>4, <2>1 DEF WelcomeFirst
<1>15. WelcomesHold'
  <2> SUFFICES ASSUME NEW b \in Addr, NEW k \in DOMAIN toClient'[b],
                      toClient'[b][k].type = "JOINEDGAME", NEW c \in ClientID, Matches(b, c)
               PROVE  c = toClient'[b][k].generated_id
    BY <1>2 DEF WelcomesHold
  <2>1. CASE b # a
    BY <1>4, <2>1 DEF WelcomesHold
  <2>2. CASE b = a /\ (Enters(a) \/ Plays(a))
    BY <2>2, BufferMoves DEF WelcomesHold
  <2>3. CASE b = a /\ (Starts(a) \/ Ends(a))
    BY <2>3 DEF Starts, Ends, Refused
  <2> QED BY <1>5, <2>1, <2>2, <2>3
<1>16. SlotsHold'
  <2> SUFFICES ASSUME NEW b \in Addr, NEW c \in ClientID, clientPhase'[b] = "playing", Matches(b, c)
               PROVE  localPlayerID'[b] = c
    BY <1>2 DEF SlotsHold, Playing
  <2>1. CASE b # a
    BY <1>4, <2>1 DEF SlotsHold, Playing
  <2>2. CASE b = a /\ Enters(a)
    <3>1. 1 \in DOMAIN toClient[a] /\ Head(toClient[a]) = toClient[a][1]
      BY <1>3, <2>2 DEF Enters
    <3> QED BY <2>2, <3>1 DEF Enters, WelcomesHold
  <2>3. CASE b = a /\ Plays(a)
    BY <2>3 DEF Plays, SlotsHold
  <2> QED BY <1>5, <2>1, <2>2, <2>3 DEF Starts, Ends, Ended
<1>17. HandshakeMeetsWelcome'
  <2> SUFFICES ASSUME NEW b \in Addr, clientPhase'[b] = "handshake", toClient'[b] # <<>>
               PROVE  Head(toClient'[b]).type \in {"JOINEDGAME", "REFUSED"}
    BY DEF HandshakeMeetsWelcome
  <2>1. CASE b # a
    BY <1>4, <2>1 DEF HandshakeMeetsWelcome
  <2>2. CASE b = a
    <3>1. toClient'[a] = <<Refused(a)>>
      BY <1>5, <2>2 DEF Starts, Enters, Ends, Ended, Plays
    <3> QED BY <2>2, <3>1 DEF Refused
  <2> QED BY <2>1, <2>2
<1>18. AskedBefore'
  <2>1. curloopnum \in 0 .. INT_MAX
    BY DEF IInv, TypeOK
  <2> QED BY <1>2, <1>4, <1>7, <2>1 DEF AskedBefore
<1>19. UpdatesKeepAlive'
  <2> SUFFICES ASSUME NEW b \in Addr, NEW c \in ClientID, clientPhase'[b] = "playing",
                      IsHuman(c), cliinfo[c].addr = b, ~InFlight(b, c)'
               PROVE  asked'[b] = -1 \/ cliinfo[c].lastresp >= asked'[b]
    BY <1>2 DEF UpdatesKeepAlive, Playing
  <2>1. ~InFlight(b, c)
    BY <1>2, <1>6 DEF InFlight
  <2>2. CASE b # a
    BY <1>4, <2>1, <2>2 DEF UpdatesKeepAlive, Playing
  <2>3. CASE b = a /\ Enters(a)
    BY <2>3 DEF Enters, Newcomers
  <2>4. CASE b = a /\ Plays(a)
    <3>1. asked'[a] = asked[a]
      BY <2>4 DEF Plays, InFlight, From
    <3> QED BY <2>1, <2>4, <3>1 DEF UpdatesKeepAlive, Plays
  <2> QED BY <1>5, <2>2, <2>3, <2>4 DEF Starts, Ends, Ended
<1>20. ObjectsFiledRight'
  BY <1>4, <1>7 DEF ObjectsFiledRight
<1> QED
  BY <1>9, <1>10, <1>11, <1>12, <1>13, <1>14, <1>15, <1>16, <1>17, <1>18, <1>19, <1>20

-----------------------------------------------------------------------------
(* The theorems                                                            *)

LEMMA SystemStart == SystemInit => CInv
<1> SUFFICES ASSUME SystemInit PROVE CInv
  OBVIOUS
<1>1. IInv /\ QuietPhases
  BY InitInv, QuietInit DEF SystemInit
<1>2. /\ \A c \in ClientID : cliinfo[c] = NULL
      /\ phase = "init" /\ curloopnum = 0
      /\ toServer = <<>> /\ toClient = [a \in Addr |-> <<>>] /\ asked = [a \in Addr |-> -1]
      /\ clientPhase = [a \in Addr |-> "start"] /\ localPlayerID = [a \in Addr |-> -1]
      /\ clientPlayers = [a \in Addr |-> {}] /\ clientMissiles = [a \in Addr |-> {}]
      /\ sent = {}
  BY DEF SystemInit, Init, ClientInit
<1>3. \A a \in Addr : Unknown(a)
  BY <1>2 DEF Unknown, Matches
<1>4. \A a \in Addr : /\ clientPhase[a] = "start" /\ toClient[a] = <<>> /\ asked[a] = -1
                      /\ clientPlayers[a] = {} /\ clientMissiles[a] = {}
  BY <1>2
<1>5. SystemTypeOK
  <2>1. <<>> \in Seq(ClientDatagram) /\ <<>> \in Seq(ServerDatagram)
        /\ Len(<<>>) = 0 /\ SocketBuffer \in Nat /\ Len(<<>>) <= SocketBuffer
    BY SystemAssumption
  <2>2. \A a \in Addr : Len(toClient[a]) <= SocketBuffer
    BY <1>4, <2>1
  <2>3. /\ clientPhase \in [Addr -> ClientPhases] /\ localPlayerID \in [Addr -> ClientID \cup {-1}]
        /\ asked \in [Addr -> {-1} \cup 0 .. INT_MAX]
    BY <1>2 DEF ClientPhases
  <2>4. /\ clientPlayers \in [Addr -> SUBSET (0 .. UCHAR_VALUES - 1)]
        /\ clientMissiles \in [Addr -> SUBSET (0 .. UCHAR_VALUES - 1)]
    BY <1>2
  <2>5. toClient \in [Addr -> Seq(ServerDatagram)]
    BY <1>2, <2>1
  <2> QED BY <1>2, <2>1, <2>2, <2>3, <2>4, <2>5 DEF SystemTypeOK
<1>6. LoopHasAI /\ PortFound
  BY <1>2, <1>3, <1>4 DEF LoopHasAI, PortFound, Playing
<1>7. JoinsOnce /\ Newcomers /\ WelcomeFirst /\ WelcomesHold /\ SlotsHold
  BY <1>2, <1>3, <1>4
  DEF JoinsOnce, Newcomers, WelcomeFirst, WelcomesHold, SlotsHold, Playing, From
<1>8. HandshakeMeetsWelcome /\ AskedBefore /\ UpdatesKeepAlive /\ ObjectsFiledRight
  BY <1>2, <1>4
  DEF HandshakeMeetsWelcome, AskedBefore, UpdatesKeepAlive, ObjectsFiledRight, Playing
<1> QED BY <1>1, <1>5, <1>6, <1>7, <1>8 DEF CInv, SInv

LEMMA SystemStepInv == CInv /\ [SystemNext]_systemVars => CInv'
<1> SUFFICES ASSUME CInv, [SystemNext]_systemVars PROVE CInv'
  OBVIOUS
<1>1. [Next]_vars
  BY SystemStepIsServerStep DEF CInv, SInv, SystemTypeOK
<1>2. IInv' /\ QuietPhases'
  BY <1>1, NextInv, QuietNext DEF CInv
<1>3. CASE ServerStep
  BY <1>2, <1>3, ServerStepKeeps DEF CInv
<1>4. CASE \E a \in Addr : ClientStep(a)
  BY <1>2, <1>4, ClientStepKeeps DEF CInv
<1>5. CASE UNCHANGED systemVars
  <2>1. UNCHANGED <<vars, clientVars, netVars, asked>>
    BY <1>5 DEF systemVars
  <2>2. SInv'
    BY <2>1
    DEF CInv, SInv, vars, loopVars, clientVars, objectVars, netVars, SystemTypeOK, LoopHasAI,
        PortFound, PortOpen, JoinsOnce, JoinAt, From, Newcomers, WelcomeFirst, WelcomesHold,
        SlotsHold, HandshakeMeetsWelcome, AskedBefore, UpdatesKeepAlive, ObjectsFiledRight,
        Unknown, Matches, IsHuman, Playing, InFlight
  <2> QED BY <1>2, <2>2 DEF CInv
<1> QED BY <1>3, <1>4, <1>5 DEF SystemNext, ServerGone

LEMMA SystemInvariance == SystemSpec => []CInv
BY SystemStart, SystemStepInv, PTL DEF SystemSpec

(* What the server does among its clients, GameServer allows it to do: the *)
(* peers it is checked against are open, and these are some of them.  So   *)
(* every theorem about GameServer holds of the server in the system.       *)
THEOREM SystemRunsServer == SystemSpec => Spec
<1>1. SystemInit => Init
  BY DEF SystemInit
<1>2. CInv /\ [SystemNext]_systemVars => [Next]_vars
  BY SystemStepIsServerStep DEF CInv, SInv, SystemTypeOK
<1> QED BY <1>1, <1>2, SystemInvariance, PTL DEF SystemSpec, Spec

(* In the system, too, the server keeps a roster for its clients.          *)
THEOREM SystemKeepsRoster == SystemSpec => ImplementsRoster
BY SystemRunsServer, ServerImplementsRoster

(* Every variable of the system keeps its type, and no buffer overflows.   *)
THEOREM SystemTypeCorrect == SystemSpec => []SystemTypeOK
<1>1. CInv => SystemTypeOK
  BY DEF CInv, SInv
<1> QED BY <1>1, SystemInvariance, PTL

(* Whoever plays steers the slot the server keeps for it.                  *)
THEOREM EveryoneSteersItsOwn == SystemSpec => []PlaysOwnSlot
<1>1. CInv => PlaysOwnSlot
  BY MatchesHuman DEF CInv, SInv, SlotsHold, PlaysOwnSlot
<1> QED BY <1>1, SystemInvariance, PTL

(* Nothing gets to a client in front of its welcome.                       *)
THEOREM WelcomeComesFirst == SystemSpec => []HandshakeMeetsWelcome
<1>1. CInv => HandshakeMeetsWelcome
  BY DEF CInv, SInv
<1> QED BY <1>1, SystemInvariance, PTL

(* The server has heard every player since its last update or ping that    *)
(* could be answered.                                                      *)
THEOREM UpdatesAreAnswered == SystemSpec => []UpdatesKeepAlive
<1>1. CInv => UpdatesKeepAlive
  BY DEF CInv, SInv
<1> QED BY <1>1, SystemInvariance, PTL

(* No client takes a player for a missile or a missile for a player.       *)
THEOREM ClientsFileRight == SystemSpec => []ObjectsFiledRight
<1>1. CInv => ObjectsFiledRight
  BY DEF CInv, SInv
<1> QED BY <1>1, SystemInvariance, PTL
=============================================================================
