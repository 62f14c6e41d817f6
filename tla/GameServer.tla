----------------------------- MODULE GameServer -----------------------------
(***************************************************************************)
(* The game server process: the network side (src/src/Server/GamingServer),*)
(* the AI module (Server/AI) and the loop of GamingEngine::startGame that  *)
(* drives both, over the object tables of GamingEngine.                    *)
(*                                                                         *)
(* The server is one thread, so its position in the loop is one variable:  *)
(*                                                                         *)
(*   init -> aijoin -> tick -> recv <-> events                             *)
(*                      ^       |                                          *)
(*                      +---- check                                        *)
(*                                                                         *)
(* The peers are left open: in phase recv any address may have sent any    *)
(* datagram of the protocol, which covers loss, duplication and            *)
(* reordering.  out holds the datagrams the last step sent.                *)
(*                                                                         *)
(* fault names the first thing the process did that C++ gives no meaning   *)
(* to.  Nothing is promised after it, so the model stops there.            *)
(***************************************************************************)
EXTENDS GamingEngine

CONSTANTS
  AI,               \* stands for the all-zero address of the AI clients
  EventLists,       \* event lists the peers send: sequences of function ids
  NumAICs,          \* AI clients main asks for
  AI_ACCEL,         \* 5: ticks an AI client accelerates after it joined
  maxUnresploop, maxPingWaitloopTime, checkCliStatusEverySecs,
  UninitLong,       \* values an uninitialised long may hold
  INT_MAX           \* the last value of curloopnum

ASSUME ServerAssumption ==
  /\ NULL \notin Addr /\ AI \notin Addr /\ AI # NULL
  /\ NumAICs \in Nat /\ AI_ACCEL \in Nat /\ INT_MAX \in Nat
  /\ maxUnresploop \in Nat
  /\ maxPingWaitloopTime \in Nat
  /\ checkCliStatusEverySecs \in Nat \ {0}
  /\ UninitLong \subseteq Int
  /\ EventLists \subseteq Seq(FuncID)

ClientInfo == [aiClient : BOOLEAN, addr : Addr \cup {AI}, lastresp : Int]
AIClient   == [accel : 0 .. AI_ACCEL]
AIClients  == [ClientID -> AIClient \cup {NULL}]

ASSUME ServerNullAssumption == NULL \notin ClientInfo \cup AIClient \cup AIClients

VARIABLES
  cliinfo,      \* Server::cliinfo
  curloopnum,
  aiModule,     \* NULL, or AIModule::aic
  phase,
  scan,         \* the variable of the for loop that phase is in, else 0
  cid, todo,    \* whose event list is being handled and what is left of it,
                \* 0 and <<>> outside
  out,          \* datagrams sent by the last step
  fault,
  heard,        \* history: clients whose lastresp has been assigned
  pinged        \* history: clients pinged since they were last heard

loopVars == <<phase, scan, cid, todo>>
vars == <<engineVars, cliinfo, curloopnum, aiModule, loopVars, out, fault,
          heard, pinged>>

-----------------------------------------------------------------------------
(* Lookups                                                                 *)

IsClient(c) == cliinfo[c] # NULL
IsHuman(c)  == cliinfo[c] # NULL /\ ~cliinfo[c].aiClient

AnySlot(c) == TRUE                                    \* variant: no NULL test
GetFreeClientID(c) ==
  /\ cliinfo[c] = NULL
  /\ \A j \in ClientID : j < c => cliinfo[j] # NULL
TableFull == \A c \in ClientID : cliinfo[c] # NULL

MatchesNothing(a, c) == FALSE                         \* variant: never found
MatchesAnyone(a, c) == cliinfo[c] # NULL              \* variant: no comparison
(* An AI client's address is all zeros, which no datagram comes from.      *)
Matches(a, c) == cliinfo[c] # NULL /\ cliinfo[c].addr = a

LookupClientID(a, c) ==
  Matches(a, c) /\ \A j \in ClientID : j < c => ~Matches(a, j)
Unknown(a) == \A c \in ClientID : ~Matches(a, c)

-----------------------------------------------------------------------------
(* Start-up                                                                *)

Init ==
  /\ EngineInit
  /\ cliinfo = [c \in ClientID |-> NULL]
  /\ curloopnum = 0
  /\ aiModule = NULL
  /\ phase = "init" /\ scan = 0 /\ cid = 0 /\ todo = <<>>
  /\ out = {} /\ fault = "none"
  /\ heard = {} /\ pinged = {}

Running(p) == fault = "none" /\ phase = p

(* socket() or bind() fails: initialize returns -1, main starts the game.  *)
BindFails ==
  /\ Running("init")
  /\ phase' = "tick"
  /\ UNCHANGED <<engineVars, cliinfo, curloopnum, aiModule, scan, cid, todo,
                 out, fault, heard, pinged>>

BindOk ==
  /\ Running("init")
  /\ IF NumAICs > 0
     THEN aiModule' = [c \in ClientID |-> NULL] /\ phase' = "aijoin"
     ELSE phase' = "tick" /\ UNCHANGED aiModule
  /\ UNCHANGED <<engineVars, cliinfo, curloopnum, scan, cid, todo, out, fault,
                 heard, pinged>>

(* The lastresp of an AI client is never read.                             *)
NewAIClient == [aiClient |-> TRUE, addr |-> AI, lastresp |-> 0]

StartNewClient(c) == aiModule' = [aiModule EXCEPT ![c] = [accel |-> AI_ACCEL]]

(* One round of initialize's loop: join, then hand the slot to the AI.     *)
AiClientJoin ==
  /\ Running("aijoin") /\ scan < NumAICs
  /\ \/ \E c \in ClientID :
          /\ GetFreeClientID(c)
          /\ AddPlayer(c)
          /\ cliinfo' = [cliinfo EXCEPT ![c] = NewAIClient]
          /\ StartNewClient(c)
          /\ UNCHANGED fault
     \/ /\ TableFull
        /\ fault' = "bad slot"
        /\ UNCHANGED <<engineVars, cliinfo, aiModule>>
  /\ scan' = scan + 1
  /\ UNCHANGED <<curloopnum, phase, cid, todo, out, heard, pinged>>

AiClientsJoined ==
  /\ Running("aijoin") /\ scan = NumAICs
  /\ phase' = "tick" /\ scan' = 0
  /\ UNCHANGED <<engineVars, cliinfo, curloopnum, aiModule, cid, todo, out,
                 fault, heard, pinged>>

-----------------------------------------------------------------------------
(* One round of the game loop up to the wait: move everything, serialise   *)
(* it, send it to every human client, let the AI react to it.              *)

BroadcastUpdates ==
  {ObjUpdtList(cliinfo[c].addr, PlayerIds, MissileIds) :
     c \in {d \in ClientID : IsHuman(d)}}

(* AIModule::run as far as it is kept: every AI client's player is told to *)
(* turn, and the accelerating ones count down.                             *)
RunAI ==
  [c \in ClientID |->
     IF aiModule[c] = NULL \/ aiModule[c].accel = 0
     THEN aiModule[c]
     ELSE [accel |-> aiModule[c].accel - 1]]
AISteersNobody == \E c \in ClientID : aiModule[c] # NULL /\ playerList[c] = NULL

TickFault ==
  IF DanglingPlayer THEN "bad player"
  ELSE IF ~UpdateFits THEN "packet overflow"
  ELSE IF aiModule = NULL THEN "no AI module"
  ELSE IF AISteersNobody THEN "bad player"
  ELSE "none"

Tick ==
  /\ Running("tick")
  /\ fault' = TickFault
  /\ out' = IF DanglingPlayer \/ ~UpdateFits THEN {} ELSE BroadcastUpdates
  /\ aiModule' = IF fault' = "none" THEN RunAI ELSE aiModule
  /\ phase' = "recv"
  /\ UNCHANGED <<engineVars, cliinfo, curloopnum, scan, cid, todo, heard, pinged>>

-----------------------------------------------------------------------------
(* handleIncomingPackets: drain the socket until select times out.         *)

Heard(c) ==
  /\ cliinfo' = [cliinfo EXCEPT ![c].lastresp = curloopnum]
  /\ heard' = heard \cup {c}
  /\ pinged' = pinged \ {c}

(* getEventList takes the number of functions from the datagram and does   *)
(* not compare it with the datagram's length; a client's lists hold as     *)
(* many as they say (sendEventList), and no others are sent here.          *)
RecvEventList(a, evs) ==
  /\ Running("recv")
  /\ \E c \in ClientID : LookupClientID(a, c) /\ cid' = c
  /\ todo' = evs /\ phase' = "events"
  /\ out' = {}
  /\ UNCHANGED <<engineVars, cliinfo, curloopnum, aiModule, scan, fault, heard,
                 pinged>>

FirstPlayer == playerList[0]                          \* variant: wrong index
EventPlayer == playerList[cid]

(* One round of getEventList's loop.                                       *)
HandleNextEvent ==
  /\ Running("events") /\ todo # <<>>
  /\ IF EventPlayer = NULL \/ heap[EventPlayer] = NULL
     THEN fault' = "bad player" /\ UNCHANGED engineVars
     ELSE HandleEvent(EventPlayer, Head(todo)) /\ UNCHANGED fault
  /\ todo' = Tail(todo)
  /\ UNCHANGED <<cliinfo, curloopnum, aiModule, phase, scan, cid, out, heard,
                 pinged>>

EventListDone ==
  /\ Running("events") /\ todo = <<>>
  /\ Heard(cid)
  /\ phase' = "recv" /\ cid' = 0
  /\ UNCHANGED <<engineVars, curloopnum, aiModule, scan, todo, out, fault>>

RecvPingResp(a) ==
  /\ Running("recv")
  /\ \E c \in ClientID : LookupClientID(a, c) /\ Heard(c)
  /\ out' = {}
  /\ UNCHANGED <<engineVars, curloopnum, aiModule, loopVars, fault>>

JoinUnanswered(a) ==                                  \* variant: no welcome
  \E c \in ClientID, garbage \in UninitLong :
    /\ GetFreeClientID(c)
    /\ AddPlayer(c)
    /\ cliinfo' = [cliinfo EXCEPT
         ![c] = [aiClient |-> FALSE, addr |-> a, lastresp |-> garbage]]
    /\ out' = {}
    /\ UNCHANGED fault

(* welcomeClient, for an address without a slot.  new ClientInfo leaves    *)
(* lastresp unset; a full table is not noticed and slot -1 is written.     *)
JoinNew(a) ==
  \/ \E c \in ClientID, garbage \in UninitLong :
       /\ GetFreeClientID(c)
       /\ AddPlayer(c)
       /\ cliinfo' = [cliinfo EXCEPT
            ![c] = [aiClient |-> FALSE, addr |-> a, lastresp |-> garbage]]
       /\ out' = {JoinedGame(a, c)}
       /\ UNCHANGED fault
  \/ /\ TableFull
     /\ fault' = "bad slot" /\ out' = {}
     /\ UNCHANGED <<engineVars, cliinfo>>

RecvJoin(a) ==
  /\ Running("recv")
  /\ \/ Unknown(a) /\ JoinNew(a)
     \/ \E c \in ClientID :
          /\ LookupClientID(a, c)
          /\ out' = {JoinedGame(a, c)}
          /\ UNCHANGED <<engineVars, cliinfo, fault>>
  /\ UNCHANGED <<curloopnum, aiModule, loopVars, heard, pinged>>

(* A failed recvfrom, a bad version or magic, an unknown packet type, and  *)
(* an event list or a ping answer from an address without a slot.          *)
RecvIgnored ==
  /\ Running("recv")
  /\ out' = {}
  /\ UNCHANGED <<engineVars, cliinfo, curloopnum, aiModule, loopVars, fault,
                 heard, pinged>>

(* select fails: the rest of handleIncomingPackets is skipped.             *)
SelectFails ==
  /\ Running("recv")
  /\ phase' = "tick" /\ out' = {}
  /\ UNCHANGED <<engineVars, cliinfo, curloopnum, aiModule, scan, cid, todo,
                 fault, heard, pinged>>

-----------------------------------------------------------------------------
(* The end of handleIncomingPackets: look for dead clients, count the loop *)

CheckIsDue == curloopnum % checkCliStatusEverySecs = 0

SelectTimeout ==
  /\ Running("recv")
  /\ phase' = "check" /\ out' = {}
  /\ scan' = IF CheckIsDue THEN 0 ELSE MAX_CLIENT_ID
  /\ UNCHANGED <<engineVars, cliinfo, curloopnum, aiModule, cid, todo, fault,
                 heard, pinged>>

IsAnySilent(c) ==                                     \* variant: AI not skipped
  /\ cliinfo[c] # NULL
  /\ cliinfo[c].lastresp + maxUnresploop < curloopnum
IsSilent(c) ==
  /\ IsHuman(c)
  /\ cliinfo[c].lastresp + maxUnresploop < curloopnum

IsDeadAtOnce(c) == cliinfo[c].lastresp + maxUnresploop < curloopnum  \* variant
IsDeadLate(c) ==                                      \* variant: waits twice
  cliinfo[c].lastresp + maxUnresploop + 2 * maxPingWaitloopTime < curloopnum
IsDead(c) ==
  cliinfo[c].lastresp + maxUnresploop + maxPingWaitloopTime < curloopnum

KeepTableEntry(c) ==                                  \* variant: entry not cleared
  RemovePlayer(c) /\ out' = {} /\ UNCHANGED <<cliinfo, heard, pinged>>
KickClient(c) ==
  /\ RemovePlayer(c)
  /\ cliinfo' = [cliinfo EXCEPT ![c] = NULL]
  /\ heard' = heard \ {c} /\ pinged' = pinged \ {c}
  /\ out' = {}

DispatchPing(c) ==
  /\ out' = {PingReq(cliinfo[c].addr)}
  /\ pinged' = pinged \cup {c}
  /\ UNCHANGED <<engineVars, cliinfo, heard>>

(* One round of the loop over the client table.                            *)
CheckClient ==
  /\ Running("check") /\ scan < MAX_CLIENT_ID
  /\ \/ ~IsSilent(scan) /\ out' = {} /\ UNCHANGED <<engineVars, cliinfo, heard, pinged>>
     \/ IsSilent(scan) /\ IsDead(scan) /\ KickClient(scan)
     \/ IsSilent(scan) /\ ~IsDead(scan) /\ DispatchPing(scan)
  /\ scan' = scan + 1
  /\ UNCHANGED <<curloopnum, aiModule, phase, cid, todo, fault>>

(* curloopnum++ of a signed int.                                           *)
EndLoop ==
  /\ Running("check") /\ scan = MAX_CLIENT_ID
  /\ IF curloopnum < INT_MAX
     THEN curloopnum' = curloopnum + 1 /\ UNCHANGED fault
     ELSE fault' = "loop count overflow" /\ UNCHANGED curloopnum
  /\ phase' = "tick" /\ scan' = 0 /\ out' = {}
  /\ UNCHANGED <<engineVars, cliinfo, aiModule, cid, todo, heard, pinged>>

-----------------------------------------------------------------------------

Receive ==
  \/ \E a \in Addr, evs \in EventLists : RecvEventList(a, evs)
  \/ \E a \in Addr : RecvPingResp(a) \/ RecvJoin(a)
  \/ RecvIgnored

Loop ==
  \/ BindOk \/ BindFails \/ AiClientJoin \/ AiClientsJoined
  \/ Tick
  \/ HandleNextEvent \/ EventListDone
  \/ SelectTimeout \/ SelectFails
  \/ CheckClient \/ EndLoop

Faulted == fault # "none" /\ UNCHANGED vars

Next == Loop \/ Receive \/ Faulted

Spec == Init /\ [][Next]_vars

-----------------------------------------------------------------------------
(* Properties                                                              *)

TypeOK ==
  /\ EngineTypeOK
  /\ cliinfo \in [ClientID -> ClientInfo \cup {NULL}]
  /\ curloopnum \in 0 .. INT_MAX
  /\ aiModule \in AIClients \cup {NULL}
  /\ phase \in {"init", "aijoin", "tick", "recv", "events", "check"}
  /\ scan \in Nat
  /\ cid \in ClientID
  /\ todo \in Seq(FuncID)
  /\ fault \in {"none", "bad slot", "bad player", "packet overflow",
                "no AI module", "loop count overflow"}
  /\ heard \subseteq ClientID
  /\ pinged \subseteq ClientID

(* The server keeps who is in the game in three places: the client table,  *)
(* the player table and the allocated players.  After every handler they   *)
(* name the same slots, and the player of slot c carries the id c.         *)
TablesAgree ==
  /\ \A c \in ClientID : cliinfo[c] = NULL <=> playerList[c] = NULL
  /\ \A c \in ClientID :
       playerList[c] # NULL => /\ heap[playerList[c]] # NULL
                               /\ heap[playerList[c]].id = c
  /\ \A r \in PlayerRef :
       heap[r] # NULL => \E c \in ClientID : playerList[c] = r

(* The list the game loop serialises holds every player exactly once and   *)
(* nothing else: no deleted player is left in it by removePlayer, and no   *)
(* player is missing from the updates.                                     *)
ListedOnce ==
  /\ IsInjective(sentObjList)
  /\ Range(sentObjList) = {playerList[c] : c \in {d \in ClientID : playerList[d] # NULL}}

(* No step reads a player through a null pointer or after delete: neither  *)
(* the loop over the two tables, nor an event list that was queued before  *)
(* its sender was kicked, nor the AI, which never tests playerList.        *)
NoBadPlayer == fault # "bad player"

(* A slot the AI steers belongs to an AI client that is still in the game. *)
AIClientsStay ==
  aiModule # NULL =>
    \A c \in ClientID :
      aiModule[c] # NULL => cliinfo[c] # NULL /\ cliinfo[c].aiClient

(* A client is human exactly if it has an address.                         *)
AIAddresses ==
  \A c \in ClientID : cliinfo[c] # NULL => (cliinfo[c].aiClient <=> cliinfo[c].addr = AI)

(* However often an address joins, it has at most one slot.                *)
OneSlotPerAddress ==
  \A c, d \in ClientID :
    IsHuman(c) /\ IsHuman(d) /\ cliinfo[c].addr = cliinfo[d].addr => c = d

(* Two objects of one update never share the id byte the client files them *)
(* under, unless the missile table has run out and ids fell back to -1.    *)
WireIdsUnique ==
  fault = "none" =>
    LET ids == PlayerIds \o MissileIds IN
      \A k, l \in DOMAIN ids :
        ids[k] = ids[l] => k = l \/ \A i \in MissileID : missileList[i] # "NULL"

(* Every update lists exactly the clients that are in the game when it is  *)
(* sent, and goes to clients only.                                         *)
UpdateListsMembers ==
  \A m \in out : m.type = "OBJUPDTLIST" =>
    /\ Range(m.players) = {c \in ClientID : IsClient(c)}
    /\ \E c \in ClientID : IsHuman(c) /\ cliinfo[c].addr = m.dst

(* The id a welcome carries is the slot its receiver is entered in.        *)
WelcomeNamesOwnSlot ==
  \A m \in out : m.type = "JOINEDGAME" =>
    IsHuman(m.generated_id) /\ cliinfo[m.generated_id].addr = m.dst

(* "Check for dead clients": whatever loops are skipped because nothing is *)
(* due or select fails, no client stays in the game longer than both waits *)
(* and one check period after the loop it was last heard in.               *)
SilentClientsDropped ==
  \A c \in heard :
    curloopnum <= cliinfo[c].lastresp + maxUnresploop + maxPingWaitloopTime
                    + checkCliStatusEverySecs

Kicked(c) == cliinfo[c] # NULL /\ cliinfo'[c] = NULL

(* "Even pings were unhelpful... kill it": a client that has spoken once   *)
(* is kicked only after a ping sent since it last spoke.                   *)
KickOnlyAfterPing == [][\A c \in heard : Kicked(c) => c \in pinged]_vars

(* The same said of every client, as the comment in the code says it.      *)
EveryKickAfterPing == [][\A c \in ClientID : Kicked(c) => c \in pinged]_vars

(* A missile is paid for by the player of the client whose event list is   *)
(* being handled, and by no other.                                         *)
OnlySenderPays ==
  [][\A r \in PlayerRef :
       heap[r] # NULL /\ heap'[r] # NULL /\ heap'[r] # heap[r]
         => r = playerList[cid] /\ cid = heap[r].id /\ phase = "events"]_vars

-----------------------------------------------------------------------------
(* The roster this server keeps                                            *)

RosterMember ==
  [c \in ClientID |->
     IF cliinfo[c] = NULL THEN NULL ELSE cliinfo[c].addr]

RosterWelcomes ==
  {[to |-> m.dst, slot |-> m.generated_id] :
     m \in {n \in out : n.type = "JOINEDGAME"}}

RosterListings ==
  {[to |-> m.dst, players |-> m.players] :
     m \in {n \in out : n.type = "OBJUPDTLIST"}}

R == INSTANCE Roster WITH
       Slot <- ClientID, member <- RosterMember,
       welcomes <- RosterWelcomes, listings <- RosterListings

(* Seen from outside, the server keeps a roster: slots are given,          *)
(* confirmed and taken back one at a time, and an update tells everyone    *)
(* the same list of the slots in use.                                      *)
ImplementsRoster == R!RosterSpec
=============================================================================
