-------------------------- MODULE LoopTimerProofs --------------------------
(***************************************************************************)
(* The length of a loop of the server, for any period, any times a tick    *)
(* and a packet take, and any clock that runs forwards.                    *)
(***************************************************************************)
EXTENDS LoopTimer, TLAPS

(* The microseconds of a time are what is left of it beside its seconds.   *)
LEMMA UsecSecond ==
  ASSUME NEW t \in Nat
  PROVE  /\ Usec(t) \in Nat /\ Usec(t) < USEC_PER_SEC /\ Second(t) \in Nat
         /\ Usec(t) = t - USEC_PER_SEC * Second(t)
BY LoopTimerAssumption DEF Usec, Second

(* What the two readings of the clock differ by.                           *)
LEMMA ReadingsDiffer ==
  ASSUME NEW b \in Nat, NEW t \in Nat
  PROVE  Usec(b + t) - Usec(b) = t - USEC_PER_SEC * (Second(b + t) - Second(b))
<1>1. b + t \in Nat
  OBVIOUS
<1>2. /\ Usec(b + t) = (b + t) - USEC_PER_SEC * Second(b + t)
      /\ Second(b + t) \in Nat
  BY <1>1, UsecSecond
<1>3. Usec(b) = b - USEC_PER_SEC * Second(b) /\ Second(b) \in Nat
  BY UsecSecond
<1>4. USEC_PER_SEC * (Second(b + t) - Second(b))
        = USEC_PER_SEC * Second(b + t) - USEC_PER_SEC * Second(b)
  BY <1>2, <1>3, LoopTimerAssumption
<1> QED BY <1>2, <1>3, <1>4, LoopTimerAssumption

(* How long the loop at hand is if no further packet comes.                *)
Length == handled + Longer(worked, timer_loop_time + USEC_PER_SEC * SecondsCrossed)

(* Until select times out, the clock and the time left add up to that.     *)
OnCourse ==
  /\ phase = "tick" => now = began /\ starttm = Usec(began) /\ worked = 0 /\ handled = 0
  /\ phase \in {"select", "packet"} => now + tm = began + Length

LoopsCounted ==
  /\ phase = "loop" => LoopsTakeTheirTime
  /\ phase # "loop" => now >= began /\ began - gameBegan >= timer_loop_time * curloopnum

TInv == TypeOK /\ OnCourse /\ LoopsCounted

LEMMA TimerInit == Init => TInv
<1> SUFFICES ASSUME Init PROVE TInv
  OBVIOUS
<1>1. TypeOK
  BY LoopTimerAssumption DEF Init, TypeOK
<1>2. timer_loop_time * curloopnum = 0
  BY LoopTimerAssumption DEF Init
<1>3. OnCourse /\ LoopsCounted
  BY <1>1, <1>2 DEF Init, OnCourse, LoopsCounted, LoopsTakeTheirTime, TypeOK
<1> QED BY <1>1, <1>3 DEF TInv

(* The tick's own step: what is given to select completes the loop.        *)
LEMMA TickStep ==
  ASSUME TInv, Tick
  PROVE  TInv'
<1>1. PICK t \in 0 .. MaxWork :
        now' = now + t /\ worked' = t /\ tm' = WaitTime(Usec(now + t) - starttm)
  BY DEF Tick
<1>2. t \in Nat /\ now \in Nat /\ began \in Nat /\ now = began /\ handled = 0 /\ starttm = Usec(began)
  BY <1>1, LoopTimerAssumption DEF TInv, TypeOK, OnCourse, Tick
<1> DEFINE crossed == USEC_PER_SEC * (Second(began + t) - Second(began))
<1>3. tm' = WaitTime(t - crossed)
  <2>1. Usec(began + t) - Usec(began) = t - crossed
    BY <1>2, ReadingsDiffer
  <2> QED BY <1>1, <1>2, <2>1
<1>4. crossed \in Int
  <2>1. began + t \in Nat
    BY <1>2
  <2>2. Second(began + t) \in Nat /\ Second(began) \in Nat
    BY <1>2, <2>1, UsecSecond
  <2> QED BY <2>2, LoopTimerAssumption
<1>5. tm' \in Nat
  <2> HIDE DEF crossed
  <2> QED BY <1>2, <1>3, <1>4, LoopTimerAssumption DEF WaitTime
<1>6. TypeOK'
  BY <1>1, <1>2, <1>5 DEF TInv, TypeOK, Tick
<1>7. now' + tm' = (began + Length)'
  <2>1. Length' = Longer(t, timer_loop_time + crossed)
    <3>1. Length' = handled' + Longer(worked', timer_loop_time
                      + USEC_PER_SEC * (Second(began' + worked') - Second(began')))
      BY DEF Length, SecondsCrossed
    <3>2. began' = began /\ handled' = 0 /\ worked' = t
      BY <1>1, <1>2 DEF Tick
    <3>3. Length' = 0 + Longer(t, timer_loop_time + crossed)
      BY <3>1, <3>2
    <3>4. Longer(t, timer_loop_time + crossed) \in Int
      <4> HIDE DEF crossed
      <4> QED BY <1>2, <1>4, LoopTimerAssumption DEF Longer
    <3> QED BY <3>3, <3>4
  <2>2. began' = began
    BY DEF Tick
  <2> HIDE DEF crossed
  <2>3. now + t + WaitTime(t - crossed) = began + Longer(t, timer_loop_time + crossed)
    BY <1>2, <1>4, LoopTimerAssumption DEF WaitTime, Longer
  <2> QED BY <1>1, <1>3, <2>1, <2>2, <2>3
<1>8. OnCourse'
  BY <1>7 DEF Tick, OnCourse
<1>9. LoopsCounted'
  BY <1>1, <1>2 DEF TInv, LoopsCounted, Tick
<1> QED BY <1>6, <1>8, <1>9 DEF TInv

(* At the time-out the loop has its length, which is at least the period.  *)
LEMMA LengthBounds ==
  ASSUME TypeOK
  PROVE  Length \in Int /\ Length >= timer_loop_time
<1>1. began \in Nat /\ worked \in Nat /\ handled \in Nat /\ began + worked \in Nat
  BY DEF TypeOK
<1>2. Second(began + worked) \in Nat /\ Second(began) \in Nat
  BY <1>1, UsecSecond
<1>3. Second(began + worked) >= Second(began)
  BY <1>1, LoopTimerAssumption DEF Second
<1>4. SecondsCrossed \in Nat
  BY <1>2, <1>3 DEF SecondsCrossed
<1>5. USEC_PER_SEC * SecondsCrossed \in Nat
  BY <1>4, LoopTimerAssumption
<1> QED BY <1>1, <1>5, LoopTimerAssumption DEF Length, Longer

(* Time spent on packets or on the check lengthens the loop by as much.    *)
LEMMA LengthMore ==
  ASSUME TypeOK, NEW t \in Nat, handled' = handled + t, UNCHANGED <<began, worked>>
  PROVE  Length' = Length + t
<1> DEFINE rest == Longer(worked, timer_loop_time + USEC_PER_SEC * SecondsCrossed)
<1>1. Length = handled + rest /\ Length' = (handled + t) + rest
  BY DEF Length, SecondsCrossed
<1>2. handled \in Nat /\ rest \in Int
  <2>1. began \in Nat /\ worked \in Nat /\ began + worked \in Nat
    BY DEF TypeOK
  <2>2. Second(began + worked) \in Nat /\ Second(began) \in Nat
    BY <2>1, UsecSecond
  <2>3. USEC_PER_SEC * SecondsCrossed \in Int
    BY <2>2, LoopTimerAssumption DEF SecondsCrossed
  <2> QED BY <2>1, <2>3, LoopTimerAssumption DEF TypeOK, Longer
<1> HIDE DEF rest
<1> QED BY <1>1, <1>2

LEMMA TimeoutStep ==
  ASSUME TInv, SelectTimeout
  PROVE  TInv' /\ now' - began = Length'
<1>1. PICK t \in 0 .. MaxHandling : now' = now + tm + t /\ handled' = handled + t
  BY DEF SelectTimeout
<1>2. t \in Nat /\ now + tm = began + Length
  BY <1>1, LoopTimerAssumption DEF TInv, OnCourse, SelectTimeout
<1>3. TypeOK'
  BY <1>1, <1>2 DEF TInv, TypeOK, SelectTimeout
<1>4. Length' = Length + t
  BY <1>1, <1>2, LengthMore DEF TInv, SelectTimeout
<1>5. now' - began = Length'
  BY <1>1, <1>2, <1>4, LengthBounds DEF TInv, TypeOK
<1>6. OnCourse'
  BY DEF SelectTimeout, OnCourse
<1>7. LoopsTakeTheirTime'
  <2>1. timer_loop_time * (curloopnum + 1) = timer_loop_time * curloopnum + timer_loop_time
    BY LoopTimerAssumption DEF TInv, TypeOK
  <2>2. timer_loop_time * curloopnum \in Nat
    BY LoopTimerAssumption DEF TInv, TypeOK
  <2>3. /\ curloopnum' = curloopnum + 1 /\ gameBegan' = gameBegan
        /\ began - gameBegan >= timer_loop_time * curloopnum
    BY DEF TInv, LoopsCounted, SelectTimeout
  <2>4. (now - gameBegan)' >= timer_loop_time * curloopnum + timer_loop_time
    BY <1>1, <1>2, <2>2, <2>3, LengthBounds, LoopTimerAssumption DEF TInv, TypeOK
  <2> QED BY <2>1, <2>3, <2>4 DEF LoopsTakeTheirTime
<1>8. LoopsCounted'
  BY <1>7 DEF LoopsCounted, SelectTimeout
<1> QED BY <1>3, <1>5, <1>6, <1>8 DEF TInv

LEMMA TimerNext == TInv /\ [Next]_vars => TInv'
<1> SUFFICES ASSUME TInv, [Next]_vars PROVE TInv'
  OBVIOUS
<1>1. CASE BeginLoop
  <2>1. TypeOK'
    BY <1>1, UsecSecond DEF TInv, TypeOK, BeginLoop
  <2>2. OnCourse'
    BY <1>1 DEF BeginLoop, OnCourse
  <2>3. LoopsCounted'
    BY <1>1 DEF TInv, TypeOK, BeginLoop, LoopsCounted, LoopsTakeTheirTime
  <2> QED BY <2>1, <2>2, <2>3 DEF TInv
<1>2. CASE Tick
  BY <1>2, TickStep
<1>3. CASE SelectPacket
  <2>1. PICK t \in 0 .. tm : now' = now + t /\ tm' = tm - t
    BY <1>3 DEF SelectPacket, TimeLeft
  <2>2. t \in Nat /\ tm - t \in Nat
    BY <2>1 DEF TInv, TypeOK
  <2>3. TypeOK'
    BY <1>3, <2>1, <2>2 DEF TInv, TypeOK, SelectPacket, history
  <2>4. Length' = Length
    BY <1>3 DEF SelectPacket, history, Length, SecondsCrossed
  <2>5. OnCourse'
    BY <1>3, <2>1, <2>2, <2>4 DEF TInv, TypeOK, OnCourse, SelectPacket, history
  <2>6. LoopsCounted'
    BY <1>3, <2>1, <2>2 DEF TInv, TypeOK, LoopsCounted, SelectPacket, history
  <2> QED BY <2>3, <2>5, <2>6 DEF TInv
<1>4. CASE HandlePacket
  <2>1. PICK t \in 0 .. MaxHandling : now' = now + t /\ handled' = handled + t
    BY <1>4 DEF HandlePacket
  <2>2. t \in Nat
    BY <2>1, LoopTimerAssumption
  <2>3. TypeOK'
    BY <1>4, <2>1, <2>2 DEF TInv, TypeOK, HandlePacket
  <2>4. Length' = Length + t
    BY <1>4, <2>1, <2>2, LengthMore DEF TInv, HandlePacket
  <2>5. OnCourse'
    <3>1. began' = began /\ tm' = tm /\ now + tm = began + Length
      BY <1>4 DEF TInv, OnCourse, HandlePacket
    <3>2. Length \in Int
      BY LengthBounds DEF TInv
    <3>3. now' + tm' = (began + Length)'
      BY <2>1, <2>2, <2>4, <3>1, <3>2 DEF TInv, TypeOK
    <3> QED BY <1>4, <3>3 DEF OnCourse, HandlePacket
  <2>6. LoopsCounted'
    BY <1>4, <2>1, <2>2 DEF TInv, TypeOK, LoopsCounted, HandlePacket
  <2> QED BY <2>3, <2>5, <2>6 DEF TInv
<1>5. CASE SelectTimeout
  BY <1>5, TimeoutStep
<1>6. CASE SelectFails
  <2>1. TypeOK' /\ OnCourse'
    BY <1>6 DEF TInv, TypeOK, OnCourse, SelectFails, NotCounted, history
  <2>2. timer_loop_time * curloopnum \in Nat
    BY LoopTimerAssumption DEF TInv, TypeOK
  <2>3. LoopsTakeTheirTime
    BY <1>6, <2>2 DEF TInv, TypeOK, LoopsCounted, LoopsTakeTheirTime, SelectFails
  <2>4. LoopsCounted'
    BY <1>6, <2>3 DEF LoopsCounted, LoopsTakeTheirTime, SelectFails, NotCounted, history
  <2> QED BY <2>1, <2>4 DEF TInv
<1>7. CASE BoundReached \/ UNCHANGED vars
  BY <1>7 DEF BoundReached, vars, history, TInv, TypeOK, OnCourse, Length, SecondsCrossed, LoopsCounted,
              LoopsTakeTheirTime
<1> QED BY <1>1, <1>2, <1>3, <1>4, <1>5, <1>6, <1>7 DEF Next

LEMMA TimerInvariance == Spec => []TInv
BY TimerInit, TimerNext, PTL DEF Spec

(* Every variable keeps its type: no time runs backwards or below zero,    *)
(* and what is left for select is never negative.                          *)
THEOREM TimerTypeCorrect == Spec => []TypeOK
<1>1. TInv => TypeOK
  BY DEF TInv
<1> QED BY <1>1, TimerInvariance, PTL

(* Every counted loop is as long as LoopLength says: the wait set by       *)
(* startGame, however packets divide it up, completes the period.          *)
THEOREM CountedLoopLength == Spec => LoopLength
<1>1. ASSUME TInv, [Next]_vars
      PROVE  [curloopnum' # curloopnum =>
                now' - began = handled'
                  + Longer(worked, timer_loop_time + USEC_PER_SEC * SecondsCrossed)]_vars
  <2> SUFFICES ASSUME Next, curloopnum' # curloopnum
               PROVE  now' - began = handled'
                        + Longer(worked, timer_loop_time + USEC_PER_SEC * SecondsCrossed)
    BY <1>1
  <2>1. SelectTimeout
    BY DEF Next, BeginLoop, Tick, SelectPacket, HandlePacket, SelectFails, NotCounted,
           BoundReached, vars
  <2>2. Length' = handled' + Longer(worked, timer_loop_time + USEC_PER_SEC * SecondsCrossed)
    BY <2>1 DEF SelectTimeout, Length, SecondsCrossed
  <2> QED BY <1>1, <2>1, <2>2, TimeoutStep
<1> QED BY <1>1, TimerInvariance, PTL DEF Spec, LoopLength

(* The thresholds counted in loops are never reached before that many      *)
(* periods have passed, even while selects fail.                           *)
THEOREM LoopsNeverHurry == Spec => []LoopsTakeTheirTime
<1>1. TInv => LoopsTakeTheirTime
  <2> SUFFICES ASSUME TInv, phase # "loop" PROVE LoopsTakeTheirTime
    BY DEF TInv, LoopsCounted
  <2>1. timer_loop_time * curloopnum \in Nat
    BY LoopTimerAssumption DEF TInv, TypeOK
  <2> QED BY <2>1 DEF TInv, TypeOK, LoopsCounted, LoopsTakeTheirTime
<1> QED BY <1>1, TimerInvariance, PTL
=============================================================================
