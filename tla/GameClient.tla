----------------------------- MODULE GameClient -----------------------------
(***************************************************************************)
(* The game client's main thread (src/src/Client: Game, the network half   *)
(* of GamingClient): joining, filing the objects of an update under their  *)
(* ids, answering.  There is one process per address of Addr; every action *)
(* is one datagram handled or one call made by process a.                  *)
(*                                                                         *)
(* A client's objects are the ids that playerList and missileList have an  *)
(* object for.  playerList is followed by missileList in struct Game, so a *)
(* local player with an id past playerList lands in an entry of            *)
(* missileList that no update reaches, and works.                          *)
(*                                                                         *)
(* sent holds the datagrams the last client step sent.                     *)
(***************************************************************************)
EXTENDS Protocol, Sequences, Functions

CONSTANTS
  MAX_NUM_PLAYERS,    \* 16: smaller ids are filed as players, the others as missiles
  lowestMissileID     \* 32: Missile asserts that its id is not below

ASSUME ClientAssumption ==
  MAX_NUM_PLAYERS \in Nat /\ lowestMissileID \in Nat

VARIABLES
  clientPhase,        \* where main is: "start", "handshake", "playing", or how it ended
  localPlayerID,
  clientPlayers,      \* ids that have a player object
  clientMissiles,     \* ids that have a missile object
  sent

objectVars == <<localPlayerID, clientPlayers, clientMissiles>>
clientVars == <<clientPhase, objectVars, sent>>

ClientPhases == {"start", "handshake", "playing", "quit", "failed", "aborted"}
Alive(a) == clientPhase[a] \in {"start", "handshake", "playing"}

ClientInit ==
  /\ clientPhase = [a \in Addr |-> "start"]
  /\ localPlayerID = [a \in Addr |-> -1]
  /\ clientPlayers = [a \in Addr |-> {}]
  /\ clientMissiles = [a \in Addr |-> {}]
  /\ sent = {}

-----------------------------------------------------------------------------

JoinGame(a)      == [type |-> "JOINGAME", src |-> a]
PingResp(a)      == [type |-> "PINGRESP", src |-> a]
EventList(a, fs) == [type |-> "EVENTLIST", src |-> a, fnlist |-> fs]

Enter(a, p) == clientPhase' = [clientPhase EXCEPT ![a] = p]

(* The user closes the window, or the process dies.                        *)
QuitClient(a) ==
  /\ Alive(a) /\ Enter(a, "quit") /\ sent' = {}
  /\ UNCHANGED objectVars

(* initGame up to the join that Connect sends, and only once.              *)
StartClient(a) ==
  /\ clientPhase[a] = "start"
  /\ Enter(a, "handshake") /\ sent' = {JoinGame(a)}
  /\ UNCHANGED objectVars

(* The rest of initGame: the local player goes into playerList.            *)
PlaceLocalPlayer(a, id) ==
  /\ localPlayerID' = [localPlayerID EXCEPT ![a] = id]
  /\ clientPlayers' = [clientPlayers EXCEPT ![a] = @ \cup {id}]
  /\ UNCHANGED clientMissiles

(* The rest of doHandshake: the first datagram has to be the  *)
(* welcome, or the program quits.  A refused port makes recv fail.         *)
Handshake(a, m) ==
  /\ clientPhase[a] = "handshake"
  /\ \/ /\ m.type = "JOINEDGAME"
        /\ Enter(a, "playing") /\ PlaceLocalPlayer(a, m.generated_id)
     \/ /\ m.type # "JOINEDGAME"
        /\ Enter(a, "failed") /\ UNCHANGED objectVars
  /\ sent' = {}

-----------------------------------------------------------------------------
(* handleNetworkEvents                                                     *)

IsPlayerTooFar(id) == id <= lowestMissileID       \* variant: wrong bound
IsPlayer(id) == id < MAX_NUM_PLAYERS

NeverRefused(a, ids) == FALSE                     \* variant: no assertion
(* The constructor of Missile asserts its id.                              *)
RefusesMissile(a, ids) ==
  \E id \in ids \ clientMissiles[a] : ~IsPlayer(id) /\ id < lowestMissileID

AnswerPingsOnly(a) == {}                          \* variant: the case has a break
AnswerUpdate(a) == {PingResp(a)}

(* updateObject for every object of the update; the case falls through     *)
(* into the ping case.                                                     *)
UpdateObjects(a, ids) ==
  \/ /\ RefusesMissile(a, ids)
     /\ Enter(a, "aborted") /\ sent' = {}
     /\ UNCHANGED objectVars
  \/ /\ ~RefusesMissile(a, ids)
     /\ clientPlayers' = [clientPlayers EXCEPT ![a] = @ \cup {id \in ids : IsPlayer(id)}]
     /\ clientMissiles' = [clientMissiles EXCEPT ![a] = @ \cup {id \in ids : ~IsPlayer(id)}]
     /\ sent' = AnswerUpdate(a)
     /\ UNCHANGED <<clientPhase, localPlayerID>>

HandlePacket(a, m) ==
  /\ clientPhase[a] = "playing"
  /\ \/ m.type = "OBJUPDTLIST" /\ UpdateObjects(a, Range(m.players) \cup Range(m.missiles))
     \/ m.type = "PINGREQ" /\ sent' = {PingResp(a)} /\ UNCHANGED <<clientPhase, objectVars>>
     \/ /\ m.type \notin {"OBJUPDTLIST", "PINGREQ"}
        /\ sent' = {} /\ UNCHANGED <<clientPhase, objectVars>>

(* The timer thread, once connected (EventMap says what is in the list).   *)
SendEventList(a, fs) ==
  /\ clientPhase[a] = "playing"
  /\ sent' = {EventList(a, fs)}
  /\ UNCHANGED <<clientPhase, objectVars>>
=============================================================================
