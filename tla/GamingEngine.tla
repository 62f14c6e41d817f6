---------------------------- MODULE GamingEngine ----------------------------
(***************************************************************************)
(* The server's object tables (src/src/Server/GamingEngine, Objects): the  *)
(* player table, the missile table and the two lists the game loop walks.  *)
(*                                                                         *)
(* Pointers are members of PlayerRef or NULL.  heap says which player a    *)
(* reference points to; heap[r] = NULL is memory that was never allocated  *)
(* or was deleted, and may be handed out again by the next new.  The       *)
(* intrusive lists are sequences, head first.  A missile is its id: it is  *)
(* never freed, and missileList is only ever compared with NULL.  Position *)
(* and attitude are left out; steering changes nothing kept here.          *)
(***************************************************************************)
EXTENDS Protocol, Sequences, SequencesExt

CONSTANTS
  MAX_CLIENT_ID, MIN_MISSILE_ID, MAX_MISSILE_ID,
  NUM_MISSILES,     \* 160: what a new player may fire
  PlayerRef,        \* addresses new Player may return
  NULL

ASSUME EngineAssumption ==
  /\ MAX_CLIENT_ID \in Nat \ {0}
  /\ MIN_MISSILE_ID \in Nat /\ MAX_MISSILE_ID \in Nat
  /\ MAX_CLIENT_ID <= MIN_MISSILE_ID
  /\ MIN_MISSILE_ID <= MAX_MISSILE_ID
  /\ MAX_MISSILE_ID <= UCHAR_VALUES
  /\ NUM_MISSILES \in Nat

ClientID  == 0 .. MAX_CLIENT_ID - 1
MissileID == MIN_MISSILE_ID .. MAX_MISSILE_ID - 1

FuncID == {"FIRE1", "OTHER"}    \* OTHER: any function that only steers

Player == [id : ClientID, num_missiles : 0 .. NUM_MISSILES]

ASSUME NullAssumption == NULL \notin PlayerRef \cup Player

VARIABLES heap, playerList, sentObjList, missileList, moveObjList

engineVars == <<heap, playerList, sentObjList, missileList, moveObjList>>

EngineTypeOK ==
  /\ heap \in [PlayerRef -> Player \cup {NULL}]
  /\ playerList \in [ClientID -> PlayerRef \cup {NULL}]
  /\ sentObjList \in Seq(PlayerRef)
  /\ missileList \in [MissileID -> {"NULL", "MISSILE", "GARBAGE"}]
  /\ moveObjList \in Seq(MissileID \cup {-1})

(* The constructor clears playerList but not missileList, so an entry of   *)
(* missileList starts as NULL or as whatever the allocator left there.     *)
EngineInit ==
  /\ heap = [r \in PlayerRef |-> NULL]
  /\ playerList = [i \in ClientID |-> NULL]
  /\ sentObjList = <<>>
  /\ missileList \in [MissileID -> {"NULL", "GARBAGE"}]
  /\ moveObjList = <<>>

-----------------------------------------------------------------------------
(* Players                                                                 *)

DropTail(s, r) == <<r>>                         \* variant: sentNext not set
AddSentObject(s, r) == Cons(r, s)

KeepSentObject(s, r) == s                       \* variant: delete without unlink
RemoveHeadOnly(s, r) == IF s # <<>> /\ Head(s) = r THEN Tail(s) ELSE s  \* variant
RemoveSentObject(s, r) == RemoveFirst(s, r)

(* new Player, then the slot, then the head of sentObjList.  The map's     *)
(* object only seeds the flight data; the id is overwritten with the slot. *)
AddPlayer(id) ==
  \E r \in PlayerRef :
    /\ heap[r] = NULL
    /\ heap' = [heap EXCEPT ![r] = [id |-> id, num_missiles |-> NUM_MISSILES]]
    /\ playerList' = [playerList EXCEPT ![id] = r]
    /\ sentObjList' = AddSentObject(sentObjList, r)
    /\ UNCHANGED <<missileList, moveObjList>>

RemovePlayer(id) ==
  LET p == playerList[id] IN
    /\ playerList' = [playerList EXCEPT ![id] = NULL]
    /\ sentObjList' = RemoveSentObject(sentObjList, p)
    /\ heap' = [heap EXCEPT ![p] = NULL]
    /\ UNCHANGED <<missileList, moveObjList>>

-----------------------------------------------------------------------------
(* Missiles                                                                *)

AnyMissileSlot(i) == TRUE                       \* variant: no NULL test
FreeMissileSlot(i) ==
  /\ missileList[i] = "NULL"
  /\ \A j \in MissileID : j < i => missileList[j] # "NULL"

(* With no slot left the missile keeps the id -1 of its constructor and is *)
(* flown all the same.                                                     *)
AddMissile ==
  \/ \E i \in MissileID :
       /\ FreeMissileSlot(i)
       /\ missileList' = [missileList EXCEPT ![i] = "MISSILE"]
       /\ moveObjList' = Cons(i, moveObjList)
  \/ /\ \A i \in MissileID : missileList[i] # "NULL"
     /\ moveObjList' = Cons(-1, moveObjList)
     /\ UNCHANGED missileList

LaunchUnpaid(r) ==                              \* variant: no test for missiles left
  /\ heap' = [heap EXCEPT ![r].num_missiles = @ - 1]
  /\ AddMissile
  /\ UNCHANGED <<playerList, sentObjList>>
LaunchMissile(r) ==
  \/ /\ heap[r].num_missiles <= 0
     /\ UNCHANGED engineVars
  \/ /\ heap[r].num_missiles > 0
     /\ heap' = [heap EXCEPT ![r].num_missiles = @ - 1]
     /\ AddMissile
     /\ UNCHANGED <<playerList, sentObjList>>

(* Player::handleEvent: one FIRE1 entry launches one missile whatever its  *)
(* count; every other function id only steers or does nothing.             *)
HandleEvent(r, funcid) ==
  \/ funcid = "FIRE1" /\ LaunchMissile(r)
  \/ funcid # "FIRE1" /\ UNCHANGED engineVars

-----------------------------------------------------------------------------
(* The update the game loop serialises: ids as they go on the wire.        *)

PlayerIds  == [k \in DOMAIN sentObjList |-> UChar(heap[sentObjList[k]].id)]
MissileIds == [k \in DOMAIN moveObjList |-> UChar(moveObjList[k])]

UpdateFits ==
  UpdateLen(Len(sentObjList) + Len(moveObjList)) <= MAX_PACKET_SIZE

(* A player the loop would touch has been deleted.                         *)
DanglingPlayer ==
  \/ \E k \in DOMAIN sentObjList : heap[sentObjList[k]] = NULL
  \/ \E i \in ClientID : playerList[i] # NULL /\ heap[playerList[i]] = NULL
=============================================================================
