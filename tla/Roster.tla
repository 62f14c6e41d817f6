------------------------------- MODULE Roster -------------------------------
(***************************************************************************)
(* What the game server promises its players, without its tables: a roster *)
(* of slots, each free, held by an AI client or held by one address, and   *)
(* the mail the server sends about it.  GameServer implements it.          *)
(***************************************************************************)
EXTENDS Integers, FiniteSets, Functions

CONSTANTS Slot, Addr, NULL, AI

VARIABLES
  member,     \* who holds a slot: NULL, AI or an address
  welcomes,   \* welcomes sent by the last step
  listings    \* updates sent by the last step

rosterVars == <<member, welcomes, listings>>

Members == {s \in Slot : member[s] # NULL}
Humans  == {member[s] : s \in Members} \ {AI}

Welcome(a, s) == [to |-> a, slot |-> s]

NoMail == welcomes' = {} /\ listings' = {}

RosterInit ==
  /\ member = [s \in Slot |-> NULL]
  /\ welcomes = {} /\ listings = {}

AdmitAI ==
  /\ \E s \in Slot : member[s] = NULL /\ member' = [member EXCEPT ![s] = AI]
  /\ NoMail

(* A newcomer gets a free slot and is told which.                          *)
Admit(a) ==
  /\ a \notin Humans
  /\ \E s \in Slot :
       /\ member[s] = NULL
       /\ member' = [member EXCEPT ![s] = a]
       /\ welcomes' = {Welcome(a, s)}
  /\ listings' = {}

(* A member that asks again is told the slot it has.                       *)
Readmit(a) ==
  /\ \E s \in Slot : member[s] = a /\ welcomes' = {Welcome(a, s)}
  /\ listings' = {}
  /\ UNCHANGED member

(* Only humans are expelled, one at a time.                                *)
Expel(s) ==
  /\ member[s] \in Addr
  /\ member' = [member EXCEPT ![s] = NULL]
  /\ NoMail

(* Every human is sent one and the same list: the slots in use, each once. *)
Announce ==
  /\ {m.to : m \in listings'} = Humans
  /\ \A m \in listings' : IsInjective(m.players) /\ Range(m.players) = Members
  /\ \A m, n \in listings' : m.players = n.players
  /\ welcomes' = {}
  /\ UNCHANGED member

Quiet == NoMail /\ UNCHANGED member

RosterNext ==
  \/ AdmitAI \/ Announce \/ Quiet
  \/ \E a \in Addr : Admit(a) \/ Readmit(a)
  \/ \E s \in Slot : Expel(s)

RosterSpec == RosterInit /\ [][RosterNext]_rosterVars
=============================================================================
