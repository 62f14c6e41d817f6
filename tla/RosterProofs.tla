---------------------------- MODULE RosterProofs ----------------------------
(***************************************************************************)
(* Proof that GameServer implements Roster, and of what its mail says: of  *)
(* slots, of players, and of missiles, each of which its sender pays for.  *)
(***************************************************************************)
EXTENDS GameServerProofs

(* Nothing is sent during start-up and while an event list is handled.     *)
QuietPhases == phase \in {"init", "aijoin", "events"} => out = {}

LEMMA QuietInit == Init => QuietPhases
BY DEF Init, QuietPhases

LEMMA QuietNext == IInv /\ QuietPhases /\ [Next]_vars => QuietPhases'
<1> SUFFICES ASSUME IInv, QuietPhases, [Next]_vars PROVE QuietPhases'
  OBVIOUS
<1>1. CASE Loop
  BY <1>1
  DEF Loop, QuietPhases, Running, BindOk, BindFails, AiClientJoin, AiClientsJoined, Tick,
      HandleNextEvent, EventListDone, SelectTimeout, SelectFails, CheckClient, EndLoop
<1>2. CASE Receive
  BY <1>2
  DEF Receive, QuietPhases, Running, RecvEventList, RecvPingResp, RecvJoin, RecvIgnored,
      loopVars
<1>3. CASE UNCHANGED vars
  BY <1>3 DEF QuietPhases, vars, loopVars
<1> QED BY <1>1, <1>2, <1>3 DEF Next, Faulted

LEMMA QuietInvariance == Spec => [](IInv /\ QuietPhases)
BY QuietInit, QuietNext, Invariance, PTL DEF Spec

-----------------------------------------------------------------------------
(* What an update says                                                     *)

(* The bytes an update carries for the players are the slots in use, each  *)
(* once: an id below UCHAR_VALUES is not changed by the conversion.        *)
LEMMA PlayerIdsExact ==
  ASSUME IInv
  PROVE  /\ IsInjective(PlayerIds)
         /\ Range(PlayerIds) = {c \in ClientID : IsClient(c)}
<1> USE ConstantFacts
<1>1. /\ sentObjList \in Seq(PlayerRef)
      /\ playerList \in [ClientID -> PlayerRef \cup {NULL}]
      /\ heap \in [PlayerRef -> Player \cup {NULL}]
  BY DEF IInv, TypeOK, EngineTypeOK
<1>2. ASSUME NEW c \in ClientID PROVE UChar(c) = c
  <2>1. c \in Nat /\ c < UCHAR_VALUES /\ UCHAR_VALUES \in Nat \ {0}
    BY EngineAssumption, ProtocolAssumption DEF ClientID
  <2> QED BY <2>1 DEF UChar
<1>3. ASSUME NEW k \in DOMAIN sentObjList
      PROVE  \E c \in ClientID : /\ playerList[c] = sentObjList[k]
                                 /\ playerList[c] # NULL
                                 /\ PlayerIds[k] = c
  <2>1. sentObjList[k] \in Range(sentObjList)
    BY DEF Range
  <2>2. PICK c \in ClientID : playerList[c] # NULL /\ playerList[c] = sentObjList[k]
    BY <2>1 DEF IInv, ListedOnce
  <2>3. heap[playerList[c]].id = c
    BY <2>2 DEF IInv, TablesAgree
  <2> QED BY <1>2, <2>2, <2>3 DEF PlayerIds
<1>4. DOMAIN PlayerIds = DOMAIN sentObjList
  BY DEF PlayerIds
<1>5. IsInjective(PlayerIds)
  <2> SUFFICES ASSUME NEW k \in DOMAIN sentObjList, NEW l \in DOMAIN sentObjList,
                      PlayerIds[k] = PlayerIds[l]
               PROVE  k = l
    BY <1>4 DEF IsInjective
  <2>1. sentObjList[k] = sentObjList[l]
    BY <1>3
  <2> QED BY <2>1 DEF IInv, ListedOnce, IsInjective
<1>6. ASSUME NEW c \in ClientID, IsClient(c) PROVE c \in Range(PlayerIds)
  <2>1. playerList[c] # NULL
    BY <1>6 DEF IInv, TablesAgree, IsClient
  <2>2. playerList[c] \in Range(sentObjList)
    BY <2>1 DEF IInv, ListedOnce
  <2>3. PICK k \in DOMAIN sentObjList : sentObjList[k] = playerList[c]
    BY <2>2 DEF Range
  <2>4. heap[sentObjList[k]].id = c
    BY <2>1, <2>3 DEF IInv, TablesAgree
  <2>5. PlayerIds[k] = c
    BY <1>2, <2>4 DEF PlayerIds
  <2> QED BY <1>4, <2>5 DEF Range
<1>7. ASSUME NEW c \in Range(PlayerIds) PROVE c \in ClientID /\ IsClient(c)
  <2>1. PICK k \in DOMAIN sentObjList : PlayerIds[k] = c
    BY <1>4, <1>7 DEF Range
  <2>2. PICK d \in ClientID : playerList[d] # NULL /\ PlayerIds[k] = d
    BY <1>3
  <2> QED BY <2>1, <2>2 DEF IInv, TablesAgree, IsClient
<1> QED BY <1>5, <1>6, <1>7

-----------------------------------------------------------------------------
(* The invariants about mail                                               *)

LEMMA WelcomesFollow ==
  ASSUME IInv, WelcomeNamesOwnSlot, UpdateListsMembers, QuietPhases, [Next]_vars
  PROVE  WelcomeNamesOwnSlot' /\ UpdateListsMembers'
<1> USE ConstantFacts
<1>1. CASE out' = {}
  BY <1>1 DEF WelcomeNamesOwnSlot, UpdateListsMembers
<1>2. CASE Tick
  <2>1. CASE out' = BroadcastUpdates
    <3>1. cliinfo' = cliinfo
      BY <1>2 DEF Tick
    <3>2. ASSUME NEW m \in out'
          PROVE  /\ m.type = "OBJUPDTLIST" /\ m.players = PlayerIds
                 /\ \E c \in ClientID : IsHuman(c) /\ cliinfo[c].addr = m.dst
      BY <2>1 DEF BroadcastUpdates, ObjUpdtList
    <3>3. Range(PlayerIds) = {c \in ClientID : IsClient(c)}
      BY PlayerIdsExact
    <3> QED BY <3>1, <3>2, <3>3
            DEF WelcomeNamesOwnSlot, UpdateListsMembers, IsHuman, IsClient
  <2> QED BY <1>1, <1>2, <2>1 DEF Tick
<1>3. ASSUME NEW a \in Addr, RecvJoin(a)
      PROVE  WelcomeNamesOwnSlot' /\ UpdateListsMembers'
  <2>1. ASSUME NEW c \in ClientID, out' = {JoinedGame(a, c)},
               IsHuman(c)', cliinfo'[c].addr = a
        PROVE  WelcomeNamesOwnSlot' /\ UpdateListsMembers'
    <3>1. \A m \in out' : m.type = "JOINEDGAME" /\ m.generated_id = c /\ m.dst = a
      BY <2>1 DEF JoinedGame
    <3> QED BY <2>1, <3>1 DEF WelcomeNamesOwnSlot, UpdateListsMembers, IsHuman
  <2>2. CASE Unknown(a) /\ JoinNew(a)
    <3>1. CASE out' = {}
      BY <3>1, <1>1
    <3>2. ASSUME NEW c \in ClientID, NEW garbage \in UninitLong,
                 cliinfo' = [cliinfo EXCEPT
                   ![c] = [aiClient |-> FALSE, addr |-> a, lastresp |-> garbage]],
                 out' = {JoinedGame(a, c)}
          PROVE  WelcomeNamesOwnSlot' /\ UpdateListsMembers'
      <4> DEFINE ci == [aiClient |-> FALSE, addr |-> a, lastresp |-> garbage]
      <4>1. ci \in ClientInfo /\ ~ci.aiClient /\ ci.addr = a
        BY ServerAssumption DEF ClientInfo
      <4>2. cliinfo'[c] = ci
        BY <3>2 DEF IInv, TypeOK
      <4> HIDE DEF ci
      <4> QED BY <2>1, <3>2, <4>1, <4>2 DEF IsHuman
    <3> QED BY <2>2, <3>1, <3>2 DEF JoinNew
  <2>3. ASSUME NEW c \in ClientID, LookupClientID(a, c), out' = {JoinedGame(a, c)},
               cliinfo' = cliinfo
        PROVE  WelcomeNamesOwnSlot' /\ UpdateListsMembers'
    <3>1. IsHuman(c) /\ cliinfo[c].addr = a
      BY <2>3, LookupFindsHuman DEF LookupClientID, Matches
    <3> QED BY <2>1, <2>3, <3>1 DEF IsHuman
  <2> QED BY <1>3, <2>2, <2>3 DEF RecvJoin
<1>4. CASE CheckClient
  <2>1. ASSUME out' = {PingReq(cliinfo[scan].addr)}
        PROVE  WelcomeNamesOwnSlot' /\ UpdateListsMembers'
    <3>1. \A m \in out' : m.type = "PINGREQ"
      BY <2>1 DEF PingReq
    <3> QED BY <3>1 DEF WelcomeNamesOwnSlot, UpdateListsMembers
  <2> QED BY <1>1, <1>4, <2>1 DEF CheckClient, KickClient, DispatchPing
<1>5. CASE UNCHANGED vars
  BY <1>5 DEF vars, WelcomeNamesOwnSlot, UpdateListsMembers, IsHuman, IsClient
<1>6. CASE AiClientJoin \/ HandleNextEvent \/ EventListDone \/ BindOk
  BY <1>1, <1>6
  DEF AiClientJoin, HandleNextEvent, EventListDone, BindOk, QuietPhases, Running
<1>7. CASE BindFails \/ AiClientsJoined
  BY <1>1, <1>7 DEF BindFails, AiClientsJoined, QuietPhases, Running
<1>8. CASE Receive
  BY <1>1, <1>3, <1>8 DEF Receive, RecvEventList, RecvPingResp, RecvIgnored
<1>9. CASE SelectTimeout \/ SelectFails \/ EndLoop
  BY <1>1, <1>9 DEF SelectTimeout, SelectFails, EndLoop
<1> QED
  BY <1>2, <1>4, <1>5, <1>6, <1>7, <1>8, <1>9 DEF Next, Loop, Faulted

LEMMA MailInvariance == Spec => [](WelcomeNamesOwnSlot /\ UpdateListsMembers)
<1>1. Init => WelcomeNamesOwnSlot /\ UpdateListsMembers
  BY DEF Init, WelcomeNamesOwnSlot, UpdateListsMembers
<1> QED BY <1>1, WelcomesFollow, QuietInvariance, PTL DEF Spec

(* A welcome names the slot its receiver is entered in.                    *)
THEOREM WelcomesNameOwnSlots == Spec => []WelcomeNamesOwnSlot
BY MailInvariance, PTL

(* An update lists the clients of the game, and goes to clients only.      *)
THEOREM UpdatesListMembers == Spec => []UpdateListsMembers
BY MailInvariance, PTL

-----------------------------------------------------------------------------
(* The refinement                                                          *)

LEMMA RosterInitially == Init => R!RosterInit
<1> SUFFICES ASSUME Init PROVE R!RosterInit
  OBVIOUS
<1>1. RosterMember = [c \in ClientID |-> NULL]
  BY DEF Init, RosterMember
<1>2. RosterWelcomes = {} /\ RosterListings = {}
  BY DEF Init, RosterWelcomes, RosterListings
<1> QED BY <1>1, <1>2 DEF R!RosterInit

(* The addresses of the human clients are the humans of the roster.        *)
LEMMA HumansAreHumans ==
  ASSUME IInv
  PROVE  /\ R!Humans = {cliinfo[c].addr : c \in {d \in ClientID : IsHuman(d)}}
         /\ R!Members = {c \in ClientID : IsClient(c)}
<1> USE ConstantFacts
<1>1. \A c \in ClientID : cliinfo[c] # NULL =>
        /\ cliinfo[c].addr \in Addr \cup {AI} /\ cliinfo[c].addr # NULL
        /\ cliinfo[c].aiClient <=> cliinfo[c].addr = AI
  BY DEF IInv, TypeOK, ClientInfo, AIAddresses
<1>2. \A c \in ClientID :
        RosterMember[c] = IF cliinfo[c] = NULL THEN NULL ELSE cliinfo[c].addr
  BY DEF RosterMember
<1>3. R!Members = {c \in ClientID : IsClient(c)}
  BY <1>1, <1>2 DEF R!Members, IsClient
<1>4. R!Humans = {RosterMember[c] : c \in R!Members} \ {AI}
  BY DEF R!Humans
<1>5. ASSUME NEW x \in R!Humans
      PROVE  x \in {cliinfo[c].addr : c \in {d \in ClientID : IsHuman(d)}}
  <2>1. PICK c \in R!Members : RosterMember[c] = x
    BY <1>4
  <2>2. x # AI /\ c \in ClientID /\ cliinfo[c] # NULL /\ x = cliinfo[c].addr
    BY <1>2, <1>3, <1>4, <2>1 DEF IsClient
  <2> QED BY <1>1, <2>2 DEF IsHuman
<1>6. ASSUME NEW c \in ClientID, IsHuman(c)
      PROVE  cliinfo[c].addr \in R!Humans
  <2>1. c \in R!Members /\ RosterMember[c] = cliinfo[c].addr /\ cliinfo[c].addr # AI
    BY <1>1, <1>2, <1>3, <1>6 DEF IsHuman, IsClient
  <2> QED BY <1>4, <2>1
<1> QED BY <1>3, <1>5, <1>6

(* A step that sends nothing has no mail.                                  *)
LEMMA NothingSent == ASSUME out' = {} PROVE R!NoMail
BY DEF R!NoMail, RosterWelcomes, RosterListings

(* What one welcome says to the roster.                                    *)
LEMMA WelcomeSent ==
  ASSUME NEW a, NEW c, out' = {JoinedGame(a, c)}
  PROVE  RosterWelcomes' = {R!Welcome(a, c)} /\ RosterListings' = {}
<1>1. \A m \in out' : m.type = "JOINEDGAME" /\ m.dst = a /\ m.generated_id = c
  BY DEF JoinedGame
<1>2. \E m \in out' : TRUE
  OBVIOUS
<1>3. "JOINEDGAME" # "OBJUPDTLIST"
  OBVIOUS
<1>4. RosterListings' = {}
  BY <1>1, <1>3 DEF RosterListings
<1>5. RosterWelcomes' = {R!Welcome(a, c)}
  BY <1>1, <1>2 DEF RosterWelcomes, R!Welcome
<1> QED BY <1>4, <1>5

(* A slot that is entered, or cleared, changes one entry of the roster.    *)
LEMMA EntrySet ==
  ASSUME IInv, NEW c \in ClientID, NEW ci \in ClientInfo \cup {NULL},
         cliinfo' = [cliinfo EXCEPT ![c] = ci]
  PROVE  RosterMember' = [RosterMember EXCEPT ![c] = IF ci = NULL THEN NULL ELSE ci.addr]
<1> DEFINE Entry(d) == IF cliinfo[d] = NULL THEN NULL ELSE cliinfo[d].addr
           new == IF ci = NULL THEN NULL ELSE ci.addr
<1>1. \A d \in ClientID : cliinfo'[d] = IF d = c THEN ci ELSE cliinfo[d]
  BY DEF IInv, TypeOK
<1>2. RosterMember = [d \in ClientID |-> Entry(d)]
  BY DEF RosterMember
<1>3. RosterMember' = [d \in ClientID |-> IF d = c THEN new ELSE Entry(d)]
  BY <1>1 DEF RosterMember
<1> HIDE DEF Entry, new
<1>4. RosterMember' = [RosterMember EXCEPT ![c] = new]
  BY <1>2, <1>3
<1> QED BY <1>4 DEF new

LEMMA QuietStep ==
  ASSUME out' = {}, cliinfo' = cliinfo
  PROVE  R!RosterNext
<1>1. R!NoMail
  BY NothingSent
<1>2. RosterMember' = RosterMember
  BY DEF RosterMember
<1> QED BY <1>1, <1>2 DEF R!RosterNext, R!Quiet

LEMMA JoinStep ==
  ASSUME IInv, NEW a \in Addr, RecvJoin(a)
  PROVE  R!RosterNext
<1> USE ConstantFacts
<1>1. ASSUME Unknown(a), NEW c \in ClientID, NEW garbage \in UninitLong,
             GetFreeClientID(c), out' = {JoinedGame(a, c)},
             cliinfo' = [cliinfo EXCEPT
               ![c] = [aiClient |-> FALSE, addr |-> a, lastresp |-> garbage]]
      PROVE  R!Admit(a)
  <2> DEFINE ci == [aiClient |-> FALSE, addr |-> a, lastresp |-> garbage]
  <2>1. ci \in ClientInfo /\ ci # NULL /\ ci.addr = a
    <3>1. ci \in ClientInfo /\ ci.addr = a
      BY ServerAssumption DEF ClientInfo
    <3> QED BY <3>1
  <2>2. cliinfo' = [cliinfo EXCEPT ![c] = ci]
    BY <1>1
  <2> HIDE DEF ci
  <2>3. RosterMember' = [RosterMember EXCEPT ![c] = a]
    BY <2>1, <2>2, EntrySet
  <2>4. RosterMember[c] = NULL
    BY <1>1 DEF RosterMember, GetFreeClientID
  <2>5. a \notin R!Humans
    BY <1>1, HumansAreHumans DEF Unknown, Matches, IsHuman
  <2>6. RosterWelcomes' = {R!Welcome(a, c)} /\ RosterListings' = {}
    BY <1>1, WelcomeSent
  <2> QED BY <2>3, <2>4, <2>5, <2>6 DEF R!Admit
<1>2. ASSUME NEW c \in ClientID, LookupClientID(a, c), out' = {JoinedGame(a, c)},
             cliinfo' = cliinfo
      PROVE  R!Readmit(a)
  <2>1. RosterMember[c] = a
    BY <1>2 DEF RosterMember, LookupClientID, Matches
  <2>2. RosterMember' = RosterMember
    BY <1>2 DEF RosterMember
  <2>3. RosterWelcomes' = {R!Welcome(a, c)} /\ RosterListings' = {}
    BY <1>2, WelcomeSent
  <2> QED BY <2>1, <2>2, <2>3 DEF R!Readmit
<1>3. CASE TableFull /\ out' = {} /\ cliinfo' = cliinfo
  BY <1>3, QuietStep
<1> QED BY <1>1, <1>2, <1>3 DEF RecvJoin, JoinNew, R!RosterNext

LEMMA TickStep ==
  ASSUME IInv, Tick
  PROVE  R!RosterNext
<1>1. cliinfo' = cliinfo
  BY DEF Tick
<1>2. CASE out' = {}
  BY <1>1, <1>2, QuietStep
<1>3. CASE out' = BroadcastUpdates
  <2>1. ASSUME NEW m \in out'
        PROVE  m.type = "OBJUPDTLIST" /\ m.players = PlayerIds
    BY <1>3 DEF BroadcastUpdates, ObjUpdtList
  <2>2. {m.dst : m \in out'} = {cliinfo[c].addr : c \in {d \in ClientID : IsHuman(d)}}
    <3>1. ASSUME NEW c \in ClientID
          PROVE  ObjUpdtList(cliinfo[c].addr, PlayerIds, MissileIds).dst = cliinfo[c].addr
      BY DEF ObjUpdtList
    <3> QED BY <1>3, <3>1 DEF BroadcastUpdates
  <2>3. RosterWelcomes' = {}
    BY <2>1 DEF RosterWelcomes
  <2>4. RosterListings' = {[to |-> m.dst, players |-> m.players] : m \in out'}
    BY <2>1 DEF RosterListings
  <2>5. \A l \in RosterListings' : l.players = PlayerIds
    BY <2>1, <2>4
  <2>6. {l.to : l \in RosterListings'} = {m.dst : m \in out'}
    <3>1. ASSUME NEW l \in RosterListings' PROVE l.to \in {m.dst : m \in out'}
      BY <2>4
    <3>2. ASSUME NEW m \in out' PROVE m.dst \in {l.to : l \in RosterListings'}
      <4> DEFINE l == [to |-> m.dst, players |-> m.players]
      <4>1. l \in RosterListings' /\ l.to = m.dst
        BY <2>4
      <4> HIDE DEF l
      <4> QED BY <4>1
    <3> QED BY <3>1, <3>2
  <2>7. RosterMember' = RosterMember
    BY <1>1 DEF RosterMember
  <2>8. {l.to : l \in RosterListings'} = R!Humans
    BY <2>2, <2>6, HumansAreHumans
  <2>9. \A l \in RosterListings' :
          IsInjective(l.players) /\ Range(l.players) = R!Members
    BY <2>5, PlayerIdsExact, HumansAreHumans
  <2>10. R!Announce
    BY <2>3, <2>5, <2>7, <2>8, <2>9
    DEF R!Announce, R!IsInjective, R!Range, IsInjective, Range
  <2> QED BY <2>10 DEF R!RosterNext
<1> QED BY <1>2, <1>3 DEF Tick

LEMMA CheckStep ==
  ASSUME IInv, CheckClient
  PROVE  R!RosterNext
<1> USE ConstantFacts
<1>1. scan \in ClientID
  <2>1. scan \in Nat /\ scan < MAX_CLIENT_ID
    BY DEF CheckClient, IInv, TypeOK
  <2> QED BY <2>1 DEF ClientID
<1>2. CASE out' = {} /\ cliinfo' = cliinfo
  BY <1>2, QuietStep
<1>3. CASE IsSilent(scan) /\ KickClient(scan)
  <2>1. RosterMember' = [RosterMember EXCEPT ![scan] = NULL]
    BY <1>1, <1>3, EntrySet DEF KickClient
  <2>2. RosterMember[scan] \in Addr
    BY <1>1, <1>3 DEF IsSilent, IsHuman, RosterMember, IInv, TypeOK, ClientInfo, AIAddresses
  <2>3. R!NoMail
    BY <1>3, NothingSent DEF KickClient
  <2> QED BY <1>1, <2>1, <2>2, <2>3 DEF R!RosterNext, R!Expel
<1>4. CASE DispatchPing(scan)
  <2>1. \A m \in out' : m.type = "PINGREQ"
    BY <1>4 DEF DispatchPing, PingReq
  <2>2. R!NoMail
    BY <2>1 DEF R!NoMail, RosterWelcomes, RosterListings
  <2>3. RosterMember' = RosterMember
    BY <1>4 DEF DispatchPing, RosterMember
  <2> QED BY <2>2, <2>3 DEF R!RosterNext, R!Quiet
<1> QED BY <1>2, <1>3, <1>4 DEF CheckClient

(* An answer changes lastresp only, which the roster does not show.        *)
LEMMA HeardStep ==
  ASSUME IInv, NEW c \in ClientID, IsHuman(c), Heard(c), out' = {}
  PROVE  R!RosterNext
<1>1. cliinfo[c] \in ClientInfo
  BY DEF IInv, TypeOK, IsHuman
<1>2. /\ [cliinfo[c] EXCEPT !.lastresp = curloopnum] # NULL
      /\ [cliinfo[c] EXCEPT !.lastresp = curloopnum].addr = cliinfo[c].addr
  <2>1. curloopnum \in Int
    <3>1. curloopnum \in 0 .. INT_MAX /\ INT_MAX \in Nat
      BY ServerAssumption DEF IInv, TypeOK
    <3> QED BY <3>1
  <2>2. [cliinfo[c] EXCEPT !.lastresp = curloopnum] \in ClientInfo
    BY <1>1, <2>1 DEF ClientInfo
  <2> QED BY <1>1, <2>2, ConstantFacts DEF ClientInfo
<1>3. \A d \in ClientID :
        /\ cliinfo'[d] = NULL <=> cliinfo[d] = NULL
        /\ cliinfo[d] # NULL => cliinfo'[d].addr = cliinfo[d].addr
  BY <1>2 DEF Heard, IInv, TypeOK, IsHuman
<1>4. RosterMember' = RosterMember
  BY <1>3 DEF RosterMember
<1> QED BY <1>4, NothingSent DEF R!RosterNext, R!Quiet

LEMMA AiJoinStep ==
  ASSUME IInv, QuietPhases, AiClientJoin
  PROVE  R!RosterNext
<1> USE ConstantFacts
<1>1. out' = {}
  BY DEF AiClientJoin, Running, QuietPhases
<1>2. ASSUME NEW c \in ClientID, GetFreeClientID(c),
             cliinfo' = [cliinfo EXCEPT ![c] = NewAIClient]
      PROVE  R!AdmitAI
  <2>1. NewAIClient \in ClientInfo /\ NewAIClient # NULL /\ NewAIClient.addr = AI
    <3>1. NewAIClient \in ClientInfo /\ NewAIClient.addr = AI
      BY DEF NewAIClient, ClientInfo
    <3> QED BY <3>1
  <2>2. RosterMember' = [RosterMember EXCEPT ![c] = AI]
    BY <1>2, <2>1, EntrySet
  <2>3. RosterMember[c] = NULL
    BY <1>2 DEF RosterMember, GetFreeClientID
  <2> QED BY <1>1, <2>2, <2>3, NothingSent DEF R!AdmitAI
<1>3. CASE cliinfo' = cliinfo
  BY <1>1, <1>3, QuietStep
<1> QED BY <1>2, <1>3 DEF AiClientJoin, R!RosterNext

LEMMA RosterStep ==
  IInv /\ QuietPhases /\ [Next]_vars =>
    [R!RosterNext]_<<RosterMember, RosterWelcomes, RosterListings>>
<1> SUFFICES ASSUME IInv, QuietPhases, [Next]_vars
             PROVE  [R!RosterNext]_<<RosterMember, RosterWelcomes, RosterListings>>
  OBVIOUS
<1>1. ASSUME NEW a \in Addr, RecvPingResp(a) PROVE R!RosterNext
  BY <1>1, LookupFindsHuman, HeardStep DEF RecvPingResp
<1>2. ASSUME EventListDone PROVE R!RosterNext
  <2>1. cid \in ClientID /\ IsHuman(cid)
    BY <1>2 DEF EventListDone, Running, IInv, SenderPlays, TypeOK
  <2> QED BY <1>2, <2>1, HeardStep DEF EventListDone, Running, QuietPhases
<1>3. CASE \/ BindOk \/ BindFails \/ AiClientsJoined \/ HandleNextEvent
           \/ SelectTimeout \/ SelectFails \/ EndLoop \/ RecvIgnored
           \/ \E a \in Addr, evs \in EventLists : RecvEventList(a, evs)
  <2>1. out' = {} /\ cliinfo' = cliinfo
    BY <1>3
    DEF BindOk, BindFails, AiClientsJoined, HandleNextEvent, SelectTimeout, SelectFails,
        EndLoop, RecvIgnored, RecvEventList, QuietPhases, Running
  <2> QED BY <2>1, QuietStep
<1>4. CASE UNCHANGED vars
  BY <1>4 DEF vars, RosterMember, RosterWelcomes, RosterListings
<1> QED
  BY <1>1, <1>2, <1>3, <1>4, TickStep, CheckStep, AiJoinStep, JoinStep
  DEF Next, Loop, Receive, Faulted

(* The server keeps the promise of Roster.                                 *)
THEOREM ServerImplementsRoster == Spec => ImplementsRoster
BY RosterInitially, RosterStep, QuietInvariance, PTL
DEF Spec, ImplementsRoster, R!RosterSpec, R!rosterVars

-----------------------------------------------------------------------------
(* The missiles of an update                                               *)

TableUsedUp == \A i \in MissileID : missileList[i] # "NULL"

(* The list of flying missiles holds filed missiles, each once; the id -1  *)
(* appears in it only when the table is used up, which it then stays.      *)
MissilesFiled ==
  /\ \A k \in DOMAIN moveObjList :
       moveObjList[k] \in MissileID => missileList[moveObjList[k]] # "NULL"
  /\ \A k \in DOMAIN moveObjList : moveObjList[k] = -1 => TableUsedUp
  /\ TableUsedUp \/ IsInjective(moveObjList)

LEMMA MissilesInit == Init => MissilesFiled
<1> SUFFICES ASSUME Init PROVE MissilesFiled
  OBVIOUS
<1>1. DOMAIN moveObjList = {}
  BY DEF Init, EngineInit
<1> QED BY <1>1 DEF MissilesFiled, IsInjective

LEMMA MissileListTypes ==
  ASSUME TypeOK
  PROVE  /\ Len(moveObjList) \in Nat /\ DOMAIN moveObjList = 1 .. Len(moveObjList)
         /\ \A k \in DOMAIN moveObjList : moveObjList[k] \in MissileID \cup {-1}
<1>1. moveObjList \in Seq(MissileID \cup {-1})
  BY DEF TypeOK, EngineTypeOK
<1> QED BY <1>1, LenProperties, ElementOfSeq

LEMMA ConsMissile ==
  ASSUME TypeOK, NEW m \in MissileID \cup {-1}
  PROVE  /\ Len(moveObjList) \in Nat /\ DOMAIN moveObjList = 1 .. Len(moveObjList)
         /\ DOMAIN Cons(m, moveObjList) = 1 .. Len(moveObjList) + 1
         /\ \A k \in 1 .. Len(moveObjList) + 1 :
              Cons(m, moveObjList)[k] = IF k = 1 THEN m ELSE moveObjList[k - 1]
<1>1. moveObjList \in Seq(MissileID \cup {-1})
  BY DEF TypeOK, EngineTypeOK
<1>2. <<m>> \in Seq(MissileID \cup {-1}) /\ Len(<<m>>) = 1 /\ <<m>>[1] = m
  OBVIOUS
<1>3. Len(moveObjList) \in Nat /\ DOMAIN moveObjList = 1 .. Len(moveObjList)
  BY <1>1, LenProperties
<1> DEFINE t == <<m>> \o moveObjList
<1>4. /\ t \in Seq(MissileID \cup {-1})
      /\ Len(t) = 1 + Len(moveObjList)
      /\ \A k \in 1 .. 1 + Len(moveObjList) :
           t[k] = IF k <= 1 THEN m ELSE moveObjList[k - 1]
  BY <1>1, <1>2, ConcatProperties
<1>5. DOMAIN t = 1 .. Len(moveObjList) + 1
  BY <1>3, <1>4, LenProperties
<1>6. Cons(m, moveObjList) = t
  BY DEF Cons
<1> HIDE DEF t
<1> QED BY <1>3, <1>4, <1>5, <1>6

LEMMA AddMissileFiles ==
  ASSUME TypeOK, MissilesFiled, AddMissile
  PROVE  MissilesFiled'
<1> USE EngineAssumption
<1>1. /\ missileList \in [MissileID -> {"NULL", "MISSILE", "GARBAGE"}]
      /\ \A k \in DOMAIN moveObjList : moveObjList[k] \in MissileID \cup {-1}
  BY MissileListTypes DEF TypeOK, EngineTypeOK
<1>2. -1 \notin MissileID
  BY DEF MissileID
<1>3. ASSUME NEW i \in MissileID, FreeMissileSlot(i),
             missileList' = [missileList EXCEPT ![i] = "MISSILE"],
             moveObjList' = Cons(i, moveObjList)
      PROVE  MissilesFiled'
  <2>1. /\ missileList[i] = "NULL" /\ missileList'[i] = "MISSILE"
        /\ \A j \in MissileID : j # i => missileList'[j] = missileList[j]
    BY <1>1, <1>3 DEF FreeMissileSlot
  <2>2. ~TableUsedUp
    BY <2>1 DEF TableUsedUp
  <2>3. \A k \in DOMAIN moveObjList :
          /\ moveObjList[k] \in MissileID /\ moveObjList[k] # i
          /\ missileList'[moveObjList[k]] # "NULL"
    BY <1>1, <2>1, <2>2 DEF MissilesFiled
  <2>4. \A k \in DOMAIN moveObjList' :
          \/ k = 1 /\ moveObjList'[k] = i
          \/ k - 1 \in DOMAIN moveObjList /\ moveObjList'[k] = moveObjList[k - 1]
    BY <1>3, ConsMissile
  <2>5. IsInjective(moveObjList)
    BY <2>2 DEF MissilesFiled
  <2>6. DOMAIN moveObjList' \subseteq Int
    BY <1>3, ConsMissile
  <2>7. IsInjective(moveObjList')
    BY <2>3, <2>4, <2>5, <2>6 DEF IsInjective
  <2>8. \A k \in DOMAIN moveObjList' :
          /\ moveObjList'[k] # -1
          /\ missileList'[moveObjList'[k]] # "NULL"
    BY <1>2, <2>1, <2>3, <2>4
  <2> QED BY <2>7, <2>8 DEF MissilesFiled
<1>4. CASE TableUsedUp /\ missileList' = missileList /\ moveObjList' = Cons(-1, moveObjList)
  <2>1. TableUsedUp'
    BY <1>4 DEF TableUsedUp
  <2> QED BY <2>1 DEF MissilesFiled, TableUsedUp
<1> QED BY <1>3, <1>4 DEF AddMissile, TableUsedUp

(* The missile tables change only while an event list is handled.          *)
LEMMA MissilesElsewhere ==
  ASSUME [Next]_vars
  PROVE  HandleNextEvent \/ UNCHANGED <<missileList, moveObjList>>
<1>1. CASE Loop
  BY <1>1
  DEF Loop, engineVars, BindOk, BindFails, AiClientJoin, AiClientsJoined, Tick,
      EventListDone, SelectTimeout, SelectFails, CheckClient, KickClient, DispatchPing,
      EndLoop, AddPlayer, RemovePlayer
<1>2. CASE Receive
  BY <1>2
  DEF Receive, engineVars, RecvEventList, RecvPingResp, RecvJoin, JoinNew, RecvIgnored,
      AddPlayer
<1>3. CASE UNCHANGED vars
  BY <1>3 DEF vars, engineVars
<1> QED BY <1>1, <1>2, <1>3 DEF Next, Faulted

LEMMA MissilesNext == IInv /\ MissilesFiled /\ [Next]_vars => MissilesFiled'
<1> SUFFICES ASSUME IInv, MissilesFiled, [Next]_vars PROVE MissilesFiled'
  OBVIOUS
<1>1. CASE UNCHANGED <<missileList, moveObjList>>
  BY <1>1 DEF MissilesFiled, TableUsedUp
<1>2. CASE HandleNextEvent
  <2>1. UNCHANGED <<missileList, moveObjList>> \/ AddMissile
    BY <1>2 DEF HandleNextEvent, HandleEvent, LaunchMissile, engineVars
  <2> QED BY <1>1, <2>1, AddMissileFiles DEF IInv
<1> QED BY <1>1, <1>2, MissilesElsewhere

LEMMA MissileInvariance == Spec => [](IInv /\ MissilesFiled)
BY MissilesInit, MissilesNext, Invariance, PTL DEF Spec

-----------------------------------------------------------------------------

LEMMA MissileIdsDistinct ==
  ASSUME IInv, MissilesFiled
  PROVE  WireIdsUnique
<1> USE ConstantFacts, EngineAssumption, ProtocolAssumption
<1> SUFFICES ASSUME ~TableUsedUp
             PROVE  IsInjective(PlayerIds \o MissileIds)
  BY DEF WireIdsUnique, TableUsedUp, IsInjective
<1>1. /\ Len(sentObjList) \in Nat /\ DOMAIN sentObjList = 1 .. Len(sentObjList)
      /\ Len(moveObjList) \in Nat /\ DOMAIN moveObjList = 1 .. Len(moveObjList)
      /\ \A k \in DOMAIN moveObjList : moveObjList[k] \in MissileID \cup {-1}
  <2>1. TypeOK /\ sentObjList \in Seq(PlayerRef)
    BY DEF IInv, TypeOK, EngineTypeOK
  <2> QED BY <2>1, MissileListTypes, LenProperties
<1> DEFINE n == Len(sentObjList)
           m == Len(moveObjList)
           ps == PlayerIds
           ms == MissileIds
<1>2. ASSUME NEW k \in 1 .. n PROVE ps[k] \in ClientID
  <2>1. ps[k] \in Range(ps)
    BY <1>1 DEF Range, PlayerIds
  <2> QED BY <2>1, PlayerIdsExact
<1>3. ps \in Seq(ClientID) /\ Len(ps) = n
  BY <1>1, <1>2, SeqDef, LenProperties DEF PlayerIds
<1>4. ASSUME NEW k \in 1 .. m
      PROVE  ms[k] = moveObjList[k] /\ ms[k] \in MissileID
  <2>1. moveObjList[k] \in MissileID
    BY <1>1 DEF MissilesFiled
  <2>2. UChar(moveObjList[k]) = moveObjList[k]
    <3>1. moveObjList[k] \in Nat /\ moveObjList[k] < UCHAR_VALUES
      BY <2>1 DEF MissileID
    <3> QED BY <3>1 DEF UChar
  <2> QED BY <1>1, <2>1, <2>2 DEF MissileIds
<1>5. ms \in Seq(MissileID) /\ Len(ms) = m
  BY <1>1, <1>4, SeqDef, LenProperties DEF MissileIds
<1>6. /\ \A k, l \in 1 .. n : ps[k] = ps[l] => k = l
      /\ \A k, l \in 1 .. m : ms[k] = ms[l] => k = l
  <2>1. IsInjective(ps) /\ DOMAIN ps = 1 .. n
    BY <1>1, PlayerIdsExact DEF PlayerIds
  <2>2. IsInjective(moveObjList)
    BY DEF MissilesFiled
  <2> QED BY <1>1, <1>4, <2>1, <2>2 DEF IsInjective
<1>7. \A c \in ClientID, i \in MissileID : c # i
  BY DEF ClientID, MissileID
<1> HIDE DEF ps, ms
<1>8. /\ Len(ps \o ms) = n + m
      /\ \A k \in 1 .. n + m : (ps \o ms)[k] = IF k <= n THEN ps[k] ELSE ms[k - n]
      /\ DOMAIN (ps \o ms) = 1 .. n + m
  <2>1. ps \in Seq(ClientID \cup MissileID) /\ ms \in Seq(ClientID \cup MissileID)
    BY <1>3, <1>5
  <2>2. /\ ps \o ms \in Seq(ClientID \cup MissileID)
        /\ Len(ps \o ms) = n + m
        /\ \A k \in 1 .. n + m : (ps \o ms)[k] = IF k <= n THEN ps[k] ELSE ms[k - n]
    <3>1. /\ ps \o ms \in Seq(ClientID \cup MissileID)
          /\ Len(ps \o ms) = Len(ps) + Len(ms)
          /\ \A k \in 1 .. Len(ps) + Len(ms) :
               (ps \o ms)[k] = IF k <= Len(ps) THEN ps[k] ELSE ms[k - Len(ps)]
      BY <2>1, ConcatProperties
    <3> QED BY <1>3, <1>5, <3>1
  <2> QED BY <2>2, LenProperties
<1>9. ASSUME NEW k \in 1 .. n + m, NEW l \in 1 .. n + m, (ps \o ms)[k] = (ps \o ms)[l]
      PROVE  k = l
  <2>1. CASE k <= n /\ l <= n
    <3>1. k \in 1 .. n /\ l \in 1 .. n /\ ps[k] = ps[l]
      BY <1>1, <1>8, <1>9, <2>1
    <3> QED BY <1>6, <3>1 DEF ps
  <2>2. CASE ~(k <= n) /\ ~(l <= n)
    <3>1. k - n \in 1 .. m /\ l - n \in 1 .. m /\ ms[k - n] = ms[l - n]
      BY <1>1, <1>8, <1>9, <2>2
    <3>2. k - n = l - n
      BY <1>6, <3>1
    <3> QED BY <1>1, <3>2
  <2>3. CASE k <= n /\ ~(l <= n)
    <3>1. k \in 1 .. n /\ l - n \in 1 .. m /\ ps[k] = ms[l - n]
      BY <1>1, <1>8, <1>9, <2>3
    <3> QED BY <1>2, <1>4, <1>7, <3>1 DEF ps, ms
  <2>4. CASE ~(k <= n) /\ l <= n
    <3>1. l \in 1 .. n /\ k - n \in 1 .. m /\ ps[l] = ms[k - n]
      BY <1>1, <1>8, <1>9, <2>4
    <3> QED BY <1>2, <1>4, <1>7, <3>1 DEF ps, ms
  <2> QED BY <2>1, <2>2, <2>3, <2>4
<1> QED BY <1>8, <1>9 DEF IsInjective, ps, ms

(* Two objects of an update share an id only when the missile table has    *)
(* been used up.                                                           *)
THEOREM WireIdsTellObjectsApart == Spec => []WireIdsUnique
BY MissileIdsDistinct, MissileInvariance, PTL

-----------------------------------------------------------------------------

LEMMA PaidBySender ==
  ASSUME IInv, [Next]_vars, NEW r \in PlayerRef,
         heap[r] # NULL, heap'[r] # NULL, heap'[r] # heap[r]
  PROVE  r = playerList[cid] /\ cid = heap[r].id /\ phase = "events"
<1> USE ConstantFacts
<1>1. ASSUME NEW c \in ClientID, AddPlayer(c) PROVE FALSE
  BY <1>1 DEF AddPlayer, IInv, TypeOK, EngineTypeOK
<1>2. ASSUME NEW c \in ClientID, RemovePlayer(c) PROVE FALSE
  BY <1>2 DEF RemovePlayer, IInv, TypeOK, EngineTypeOK
<1>3. heap' # heap
  OBVIOUS
<1>4. CASE Loop
  <2>1. HandleNextEvent \/ AiClientJoin \/ CheckClient
    BY <1>3, <1>4
    DEF Loop, engineVars, BindOk, BindFails, AiClientsJoined, Tick, EventListDone,
        SelectTimeout, SelectFails, EndLoop
  <2>2. ~AiClientJoin
    BY <1>1, <1>3 DEF AiClientJoin, engineVars
  <2>3. ASSUME CheckClient PROVE FALSE
    <3>1. scan \in ClientID
      <4>1. scan \in Nat /\ scan < MAX_CLIENT_ID
        BY <2>3 DEF CheckClient, IInv, TypeOK
      <4> QED BY <4>1 DEF ClientID
    <3> QED BY <1>2, <1>3, <2>3, <3>1 DEF CheckClient, KickClient, DispatchPing, engineVars
  <2>4. HandleNextEvent /\ phase = "events"
    BY <2>1, <2>2, <2>3 DEF HandleNextEvent, Running
  <2>5. cid \in ClientID /\ IsHuman(cid)
    BY <2>4 DEF IInv, TypeOK, SenderPlays
  <2>6. playerList[cid] # NULL /\ heap[playerList[cid]].id = cid
    BY <2>5 DEF IsHuman, IInv, TablesAgree
  <2>7. HandleEvent(playerList[cid], Head(todo))
    BY <1>3, <2>4 DEF HandleNextEvent, EventPlayer, engineVars
  <2>8. r = playerList[cid]
    BY <1>3, <2>7
    DEF HandleEvent, LaunchMissile, engineVars, IInv, TypeOK, EngineTypeOK
  <2> QED BY <2>4, <2>6, <2>8
<1>5. CASE Receive
  BY <1>1, <1>3, <1>5
  DEF Receive, engineVars, RecvEventList, RecvPingResp, RecvJoin, JoinNew, RecvIgnored
<1>6. CASE UNCHANGED vars
  BY <1>3, <1>6 DEF vars, engineVars
<1> QED BY <1>4, <1>5, <1>6 DEF Next, Faulted

(* A missile is paid for by the client whose event list is being handled.  *)
THEOREM SenderPays == Spec => OnlySenderPays
<1>1. IInv /\ [Next]_vars =>
        [\A r \in PlayerRef :
           heap[r] # NULL /\ heap'[r] # NULL /\ heap'[r] # heap[r]
             => r = playerList[cid] /\ cid = heap[r].id /\ phase = "events"]_vars
  BY PaidBySender
<1> QED BY <1>1, Invariance, PTL DEF Spec, OnlySenderPays
=============================================================================
