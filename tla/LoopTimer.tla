----------------------------- MODULE LoopTimer -----------------------------
(***************************************************************************)
(* How long a loop of the server takes: GamingEngine::startGame reads the  *)
(* clock before and after the tick, and gives what is left of the period   *)
(* to select in handleIncomingPackets (src/src/Server).                    *)
(*                                                                         *)
(* now is the time of day; gettimeofday's tv_usec is all the code looks    *)
(* at.  The clock is taken to run forwards.  select is Linux's: it carries *)
(* whole seconds out of tv_usec and leaves in tm the time it did not wait. *)
(***************************************************************************)
EXTENDS Integers

CONSTANTS
  timer_loop_time,  \* DEFAULT_WAIT_BEFORE_START_USEC, 20 ms
  USEC_PER_SEC,     \* values of tv_usec
  MaxWork,          \* bound: time a tick and its broadcast take
  MaxPackets,       \* bound: packets of a loop
  MaxHandling,      \* bound: time a packet takes, or the check of the clients
  MaxTime           \* bound: loops start before this time

ASSUME LoopTimerAssumption ==
  /\ timer_loop_time \in Nat /\ USEC_PER_SEC \in Nat \ {0}
  /\ {MaxWork, MaxPackets, MaxHandling, MaxTime} \subseteq Nat

VARIABLES
  now,         \* the clock
  phase,       \* loop, tick, select or packet
  starttm,     \* starttm.tv_usec
  tm,          \* what is left of the time given to select
  curloopnum,
  packets,     \* bound: packets of this loop so far
  began,       \* history: the clock when the loop began
  worked,      \* history: time the tick took
  handled,     \* history: time packets and the check took in this loop
  gameBegan    \* history: the clock when startGame was called

history == <<began, worked, handled, gameBegan>>
vars == <<now, phase, starttm, tm, curloopnum, packets, history>>

Usec(t)    == t % USEC_PER_SEC
Second(t)  == t \div USEC_PER_SEC

Init ==
  /\ now \in 0 .. USEC_PER_SEC - 1
  /\ phase = "loop"
  /\ starttm = 0 /\ tm = 0
  /\ curloopnum = 0 /\ packets = 0
  /\ began = now /\ worked = 0 /\ handled = 0 /\ gameBegan = now

BeginLoop ==
  /\ phase = "loop" /\ now < MaxTime
  /\ starttm' = Usec(now)
  /\ phase' = "tick"
  /\ packets' = 0
  /\ began' = now /\ worked' = 0 /\ handled' = 0
  /\ UNCHANGED <<now, tm, curloopnum, gameBegan>>

UnclippedWaitTime(usec) == timer_loop_time - usec       \* variant: no test for < 0
WaitTime(usec) == IF timer_loop_time - usec < 0 THEN 0 ELSE timer_loop_time - usec

(* The difference is of the microseconds only, the seconds are ignored.    *)
Tick ==
  /\ phase = "tick"
  /\ \E t \in 0 .. MaxWork :
       /\ now' = now + t
       /\ worked' = t
       /\ tm' = WaitTime(Usec(now + t) - starttm)
  /\ phase' = "select"
  /\ UNCHANGED <<starttm, curloopnum, packets, began, handled, gameBegan>>

WholeTimeAgain(t) == tm                         \* variant: select keeps tm
TimeLeft(t) == tm - t

SelectPacket ==
  /\ phase = "select" /\ packets < MaxPackets
  /\ packets' = packets + 1
  /\ \E t \in 0 .. tm :
       /\ now' = now + t
       /\ tm' = TimeLeft(t)
  /\ phase' = "packet"
  /\ UNCHANGED <<starttm, curloopnum, history>>

HandlePacket ==
  /\ phase = "packet"
  /\ \E t \in 0 .. MaxHandling :
       /\ now' = now + t
       /\ handled' = handled + t
  /\ phase' = "select"
  /\ UNCHANGED <<starttm, tm, curloopnum, packets, began, worked, gameBegan>>

(* The check of the clients, with its pings, comes on top.                 *)
SelectTimeout ==
  /\ phase = "select"
  /\ \E t \in 0 .. MaxHandling :
       /\ now' = now + tm + t
       /\ handled' = handled + t
  /\ tm' = 0
  /\ curloopnum' = curloopnum + 1
  /\ phase' = "loop"
  /\ UNCHANGED <<starttm, packets, began, worked, gameBegan>>

(* A select that fails ends the loop at once, before it is counted.        *)
CountedAllTheSame == curloopnum + 1             \* variant: counted first
NotCounted == curloopnum
SelectFails ==
  /\ phase = "select"
  /\ curloopnum' = NotCounted
  /\ phase' = "loop"
  /\ UNCHANGED <<now, starttm, tm, packets, history>>

BoundReached == phase = "loop" /\ now >= MaxTime /\ UNCHANGED vars

Next ==
  \/ BeginLoop \/ Tick \/ SelectPacket \/ HandlePacket \/ SelectTimeout \/ SelectFails
  \/ BoundReached

Spec == Init /\ [][Next]_vars

-----------------------------------------------------------------------------
(* Properties                                                              *)

TypeOK ==
  /\ {now, tm, starttm, curloopnum, packets} \subseteq Nat
  /\ {began, worked, handled, gameBegan} \subseteq Nat
  /\ starttm < USEC_PER_SEC
  /\ phase \in {"loop", "tick", "select", "packet"}

SecondsCrossed == Second(began + worked) - Second(began)
Longer(a, b)   == IF a > b THEN a ELSE b

(* A loop that is counted takes the period or its tick, whichever is       *)
(* longer, and the time of packets and check on top; but every change of   *)
(* second during the tick adds a whole second, since the wait is computed  *)
(* from microseconds alone.  So a loop is never shorter than the period.   *)
LoopLength ==
  [][curloopnum' # curloopnum =>
       now' - began = handled'
         + Longer(worked, timer_loop_time + USEC_PER_SEC * SecondsCrossed)]_vars

(* Time-outs are counted in loops: n loops are at least n periods long,    *)
(* however many selects fail, so that no client is pinged or dropped       *)
(* sooner than the thresholds say.  (The 750 loops of maxUnresploop are    *)
(* thus 15 seconds at least; its comment speaks of 10.)                    *)
LoopsTakeTheirTime == now - gameBegan >= timer_loop_time * curloopnum
=============================================================================
