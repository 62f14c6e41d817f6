--------------------------- MODULE EventMapProofs ---------------------------
(***************************************************************************)
(* Proofs that the client's two threads lose or repeat a key press only    *)
(* where an increment overlaps a report, and that the reports of a held    *)
(* function share one tick with the reports before and leave none out.     *)
(***************************************************************************)
EXTENDS EventMap, SequenceTheorems, FiniteSetTheorems, TLAPS

(* The timer thread counts up to updateInterval while it serialises, and   *)
(* is at a function when it reports one.                                   *)
TimerPlaced ==
  /\ timer.pc = "idle" => timer = Idle /\ networkUpdateCounter < updateInterval
  /\ timer.pc \notin {"idle", "scan"} => timer.func \in FuncID
  /\ timer.pc = "restamp" => timer.reg < USHORT_VALUES
  /\ main.pc = "stamp" => main.reg < INT_VALUES

(* The copy a thread took is still the value, but for races, and a         *)
(* function both threads hold a copy of has raced.                         *)
CopiesFresh ==
  /\ main.pc = "store" /\ timer.pc = "clear" /\ main.func = timer.func
       => main.func \in raced
  /\ main.pc = "store" /\ main.func \notin raced => main.reg = happened[main.func]
  /\ timer.pc = "clear" /\ timer.func \notin raced => timer.reg = happened[timer.func]

EInv == TypeOK /\ TimerPlaced /\ CopiesFresh /\ UnracedPressesCounted

-----------------------------------------------------------------------------

LEMMA FuncFacts ==
  /\ FuncID \subseteq Nat /\ 0 \in FuncID
  /\ FuncID \subseteq 0 .. MAX_NUM_FUNCS
  /\ \A f \in FuncID : f + 1 \in 0 .. MAX_NUM_FUNCS
  /\ \A f \in 0 .. MAX_NUM_FUNCS : f < MAX_NUM_FUNCS => f \in FuncID
  /\ FirstFunc \in 0 .. MAX_NUM_FUNCS
BY EventMapAssumption DEF FuncID, FirstFunc

LEMMA ModBound ==
  ASSUME NEW n \in Int, NEW m \in Nat \ {0}
  PROVE  n % m \in 0 .. m - 1
OBVIOUS

LEMMA EInit == Init => EInv
<1> SUFFICES ASSUME Init PROVE EInv
  OBVIOUS
<1> USE FuncFacts, EventMapAssumption DEF Init, Idle, At
<1>1. TypeOK
  <2>1. fnlist \in Seq([funcid : FuncID, count : 0 .. USHORT_VALUES - 1])
    OBVIOUS
  <2>2. /\ stamp \in [FuncID -> 0 .. INT_VALUES - 1]
        /\ unreported \in [FuncID -> 0 .. INT_VALUES]
        /\ networkUpdateCounter \in 0 .. updateInterval
        /\ presses \in 0 .. MaxPresses
    OBVIOUS
  <2>3. /\ main \in [pc : MainPlaces, func : FuncID, reg : Nat]
        /\ timer \in [pc : TimerPlaces, func : 0 .. MAX_NUM_FUNCS, reg : Nat]
    BY DEF MainPlaces, TimerPlaces
  <2>4. /\ inprogress \in [FuncID -> Int] /\ reset \in [FuncID -> BOOLEAN]
        /\ happened \in [FuncID -> Nat]
        /\ counted \in [FuncID -> Nat] /\ reported \in [FuncID -> Nat]
    OBVIOUS
  <2>5. /\ timestamp \in 0 .. INT_VALUES - 1 /\ connected \in BOOLEAN
        /\ down \subseteq Key /\ raced \subseteq FuncID /\ kept \subseteq FuncID
    OBVIOUS
  <2> QED BY ONLY <2>1, <2>2, <2>3, <2>4, <2>5 DEF TypeOK
<1>2. TimerPlaced
  BY DEF TimerPlaced
<1>3. CopiesFresh
  BY DEF CopiesFresh
<1>4. UnracedPressesCounted
  BY DEF UnracedPressesCounted
<1> QED BY <1>1, <1>2, <1>3, <1>4 DEF EInv

-----------------------------------------------------------------------------
(* The main thread                                                         *)

LEMMA ConnectInv == EInv /\ Connect => EInv'
<1> SUFFICES ASSUME EInv, Connect PROVE EInv'
  OBVIOUS
<1> USE FuncFacts DEF Connect, Quit, Idle, At, history, keyVars
<1>1. TypeOK'
  <2>1. main' \in [pc : MainPlaces, func : FuncID, reg : Nat] /\ connected' \in BOOLEAN
    <3>1. connected \in BOOLEAN
      BY DEF EInv, TypeOK
    <3>2. main' = [pc |-> "idle", func |-> 0, reg |-> 0] \/
          main' = [pc |-> "exited", func |-> 0, reg |-> 0]
      OBVIOUS
    <3>3. main' \in [pc : MainPlaces, func : FuncID, reg : Nat]
      BY <3>2 DEF MainPlaces
    <3> QED BY <3>1, <3>3
  <2> QED BY <2>1 DEF EInv, TypeOK
<1>2. TimerPlaced'
  BY DEF EInv, TimerPlaced
<1>3. CopiesFresh'
  BY DEF EInv, CopiesFresh
<1>4. UnracedPressesCounted'
  BY DEF EInv, UnracedPressesCounted
<1> QED BY <1>1, <1>2, <1>3, <1>4 DEF EInv

LEMMA CloseWindowInv == EInv /\ CloseWindow => EInv'
<1> SUFFICES ASSUME EInv, CloseWindow PROVE EInv'
  OBVIOUS
<1> USE FuncFacts DEF CloseWindow, Quit, At, clockVars, history, keyVars
<1>1. main' \in [pc : MainPlaces, func : FuncID, reg : Nat] /\ main'.pc = "exited"
  BY DEF MainPlaces
<1>2. TypeOK'
  BY <1>1 DEF EInv, TypeOK
<1>3. TimerPlaced'
  BY <1>1 DEF EInv, TimerPlaced
<1>4. CopiesFresh'
  BY <1>1 DEF EInv, CopiesFresh
<1>5. UnracedPressesCounted'
  BY DEF EInv, UnracedPressesCounted
<1> QED BY <1>2, <1>3, <1>4, <1>5 DEF EInv

LEMMA KeyDownInv == ASSUME NEW k \in Key, EInv, KeyDown(k) PROVE EInv'
<1> USE FuncFacts DEF KeyDown, At, history, clockVars
<1>1. ev2funcid[k] \in FuncID
  BY EventMapAssumption
<1>2. timestamp \in Nat /\ timestamp < INT_VALUES
  BY EventMapAssumption DEF EInv, TypeOK
<1>3. presses' \in 0 .. MaxPresses
  BY EventMapAssumption DEF EInv, TypeOK
<1>4. main' \in [pc : MainPlaces, func : FuncID, reg : Nat]
  BY <1>1, <1>2 DEF MainPlaces
<1>5. TypeOK'
  BY <1>3, <1>4 DEF EInv, TypeOK
<1>6. TimerPlaced'
  BY <1>2 DEF EInv, TimerPlaced
<1>7. CopiesFresh'
  BY DEF EInv, CopiesFresh
<1>8. UnracedPressesCounted'
  BY DEF EInv, UnracedPressesCounted
<1> QED BY <1>5, <1>6, <1>7, <1>8 DEF EInv

LEMMA StoreStampInv == EInv /\ StoreStamp => EInv'
<1> SUFFICES ASSUME EInv, StoreStamp PROVE EInv'
  OBVIOUS
<1> USE DEF StoreStamp, At, history, clockVars, keyVars
<1>1. main.func \in FuncID /\ main.reg \in 0 .. INT_VALUES - 1
  BY EventMapAssumption DEF EInv, TypeOK, TimerPlaced
<1>2. main' \in [pc : MainPlaces, func : FuncID, reg : Nat]
  BY <1>1 DEF MainPlaces
<1>3. stamp' \in [FuncID -> 0 .. INT_VALUES - 1]
  BY <1>1 DEF EInv, TypeOK
<1>4. TypeOK'
  BY <1>2, <1>3 DEF EInv, TypeOK
<1>5. TimerPlaced'
  BY DEF EInv, TimerPlaced
<1>6. CopiesFresh'
  BY DEF EInv, CopiesFresh
<1>7. UnracedPressesCounted'
  BY DEF EInv, UnracedPressesCounted
<1> QED BY <1>4, <1>5, <1>6, <1>7 DEF EInv

LEMMA EnterFunctionInv == EInv /\ EnterFunction => EInv'
<1> SUFFICES ASSUME EInv, EnterFunction PROVE EInv'
  OBVIOUS
<1> USE FuncFacts DEF EnterFunction, Quit, Idle, At, history, clockVars, keyVars
<1>1. main.func \in FuncID
  BY DEF EInv, TypeOK
<1>2. main' \in [pc : MainPlaces, func : FuncID, reg : Nat] /\ main'.pc \in {"idle", "load", "exited"}
  BY <1>1 DEF MainPlaces
<1>3. inprogress' \in [FuncID -> Int]
  <2>1. inprogress \in [FuncID -> Int]
    BY DEF EInv, TypeOK
  <2>2. inprogress' = [inprogress EXCEPT ![main.func] = inprogress[main.func] + 1]
    OBVIOUS
  <2> QED BY ONLY <1>1, <2>1, <2>2
<1>4. TypeOK'
  BY <1>2, <1>3 DEF EInv, TypeOK
<1>5. TimerPlaced'
  BY <1>2 DEF EInv, TimerPlaced
<1>6. CopiesFresh'
  BY <1>2 DEF EInv, CopiesFresh
<1>7. UnracedPressesCounted'
  BY DEF EInv, UnracedPressesCounted
<1> QED BY <1>4, <1>5, <1>6, <1>7 DEF EInv

LEMMA LoadHappenedInv == EInv /\ LoadHappened => EInv'
<1> SUFFICES ASSUME EInv, LoadHappened PROVE EInv'
  OBVIOUS
<1> USE DEF LoadHappened, At, clockVars, keyVars
<1>1. main.func \in FuncID /\ happened[main.func] \in Nat
  BY DEF EInv, TypeOK
<1>2. /\ main' \in [pc : MainPlaces, func : FuncID, reg : Nat]
      /\ main'.pc = "store" /\ main'.func = main.func /\ main'.reg = happened[main.func]
  BY <1>1 DEF MainPlaces
<1>3. raced' \subseteq FuncID /\ raced \subseteq raced'
  BY <1>1 DEF EInv, TypeOK
<1>4. TypeOK'
  BY <1>2, <1>3 DEF EInv, TypeOK
<1>5. TimerPlaced'
  BY <1>2 DEF EInv, TimerPlaced
<1>6. CopiesFresh'
  BY <1>2, <1>3 DEF EInv, CopiesFresh
<1>7. UnracedPressesCounted'
  BY <1>3 DEF EInv, UnracedPressesCounted
<1> QED BY <1>4, <1>5, <1>6, <1>7 DEF EInv

(* A thread that stores while the other holds a copy has raced with it.    *)
LEMMA StoreHappenedInv == EInv /\ StoreHappened => EInv'
<1> SUFFICES ASSUME EInv, StoreHappened PROVE EInv'
  OBVIOUS
<1> USE FuncFacts DEF StoreHappened, Idle, At, clockVars, keyVars
<1> DEFINE f == main.func
<1>1. /\ f \in FuncID /\ main.reg \in Nat
      /\ happened \in [FuncID -> Nat] /\ counted \in [FuncID -> Nat]
      /\ reset \in [FuncID -> BOOLEAN] /\ reported \in [FuncID -> Nat]
  BY DEF EInv, TypeOK
<1>2. main' \in [pc : MainPlaces, func : FuncID, reg : Nat] /\ main'.pc = "idle"
  BY <1>1 DEF MainPlaces
<1>3. /\ happened' \in [FuncID -> Nat] /\ counted' \in [FuncID -> Nat]
      /\ reset' \in [FuncID -> BOOLEAN]
      /\ \A g \in FuncID :
           /\ happened'[g] = IF g = f THEN main.reg + 1 ELSE happened[g]
           /\ counted'[g] = IF g = f THEN counted[g] + 1 ELSE counted[g]
  <2>1. /\ happened' = [happened EXCEPT ![f] = main.reg + 1]
        /\ counted' = [counted EXCEPT ![f] = counted[f] + 1]
        /\ reset' = [reset EXCEPT ![f] = TRUE]
    OBVIOUS
  <2>2. main.reg + 1 \in Nat /\ counted[f] + 1 \in Nat
    <3>1. main.reg \in Nat /\ counted[f] \in Nat
      BY <1>1
    <3> QED BY ONLY <3>1
  <2> HIDE DEF f
  <2> QED BY ONLY <1>1, <2>1, <2>2
<1>4. TypeOK'
  BY <1>2, <1>3 DEF EInv, TypeOK
<1>5. TimerPlaced'
  BY <1>2 DEF EInv, TimerPlaced
<1>6. CopiesFresh'
  BY <1>1, <1>2 DEF EInv, CopiesFresh
<1>7. UnracedPressesCounted'
  <2> SUFFICES ASSUME NEW g \in FuncID \ raced
               PROVE  counted'[g] = reported[g] + happened'[g]
    BY DEF UnracedPressesCounted
  <2>1. counted[g] = reported[g] + happened[g]
    BY DEF EInv, UnracedPressesCounted
  <2>2. CASE g = f
    <3>1. main.reg = happened[f]
      BY <2>2 DEF EInv, CopiesFresh
    <3>2. counted'[g] = counted[g] + 1 /\ happened'[g] = happened[g] + 1
      BY <1>3, <2>2, <3>1
    <3>3. counted[g] \in Nat /\ reported[g] \in Nat /\ happened[g] \in Nat
      BY <1>1
    <3> QED BY ONLY <2>1, <3>2, <3>3
  <2>3. CASE g # f
    BY <1>3, <2>1, <2>3
  <2> QED BY <2>2, <2>3
<1> QED BY <1>4, <1>5, <1>6, <1>7 DEF EInv

LEMMA KeyUpInv == ASSUME NEW k \in Key, EInv, KeyUp(k) PROVE EInv'
<1> USE FuncFacts DEF KeyUp, clockVars
<1> DEFINE f == ev2funcid[k]
<1>1. f \in FuncID
  BY EventMapAssumption
<1>2. /\ inprogress \in [FuncID -> Int] /\ reset \in [FuncID -> BOOLEAN]
      /\ kept \subseteq FuncID
  BY DEF EInv, TypeOK
<1>3. inprogress' \in [FuncID -> Int]
  <2>1. inprogress' = [inprogress EXCEPT ![f] = inprogress[f] - 1]
    OBVIOUS
  <2> QED BY ONLY <1>1, <1>2, <2>1
<1>4. reset' \in [FuncID -> BOOLEAN] /\ kept' \subseteq FuncID
  BY <1>1, <1>2
<1>5. TypeOK'
  BY <1>3, <1>4 DEF EInv, TypeOK
<1>6. TimerPlaced'
  BY DEF EInv, TimerPlaced
<1>7. CopiesFresh'
  BY DEF EInv, CopiesFresh
<1>8. UnracedPressesCounted'
  BY DEF EInv, UnracedPressesCounted
<1> QED BY <1>5, <1>6, <1>7, <1>8 DEF EInv
-----------------------------------------------------------------------------
(* The timer thread                                                        *)

LEMMA TickInv == EInv /\ Tick => EInv'
<1> SUFFICES ASSUME EInv, Tick PROVE EInv'
  OBVIOUS
<1> USE DEF Tick, keyVars
<1>1. timestamp' \in 0 .. INT_VALUES - 1
  <2>1. timestamp + 1 \in Int /\ INT_VALUES \in Nat \ {0}
    BY EventMapAssumption DEF EInv, TypeOK
  <2> QED BY <2>1, ModBound
<1>2. unreported' \in [FuncID -> 0 .. INT_VALUES]
  <2>1. unreported \in [FuncID -> 0 .. INT_VALUES] /\ INT_VALUES \in Nat
    BY EventMapAssumption DEF EInv, TypeOK
  <2>2. ASSUME NEW f \in FuncID
        PROVE  (IF unreported[f] < INT_VALUES THEN unreported[f] + 1 ELSE INT_VALUES)
                 \in 0 .. INT_VALUES
    <3>1. unreported[f] \in 0 .. INT_VALUES
      BY <2>1
    <3> QED BY ONLY <2>1, <3>1
  <2> QED BY <2>2
<1>3. networkUpdateCounter < updateInterval /\ networkUpdateCounter \in Nat
  BY EventMapAssumption DEF EInv, TypeOK, TimerPlaced
<1>4. /\ networkUpdateCounter' \in 0 .. updateInterval
      /\ timer' = Idle => networkUpdateCounter' < updateInterval
      /\ timer' = Idle \/ timer' = ScanFrom(FirstFunc)
  <2>1. updateInterval \in Nat
    BY EventMapAssumption
  <2>2. CASE connected
    <3>1. networkUpdateCounter' = networkUpdateCounter + 1
      BY <2>2
    <3>2. timer' = IF networkUpdateCounter' >= updateInterval THEN ScanFrom(FirstFunc) ELSE Idle
      BY <2>2
    <3>3. ScanFrom(FirstFunc) # Idle
      BY DEF ScanFrom, Idle, At
    <3> QED BY ONLY <1>3, <2>1, <3>1, <3>2, <3>3
  <2>3. CASE ~connected
    <3>1. timer' = timer /\ networkUpdateCounter' = networkUpdateCounter
      BY <2>3
    <3>2. timer' = Idle
      BY <3>1 DEF EInv, TimerPlaced
    <3> QED BY ONLY <1>3, <2>1, <3>1, <3>2
  <2> QED BY <2>2, <2>3
<1>5. /\ timer' \in [pc : TimerPlaces, func : 0 .. MAX_NUM_FUNCS, reg : Nat]
      /\ timer'.pc \in {"idle", "scan"}
      /\ timer'.pc = "idle" => timer' = Idle /\ networkUpdateCounter' < updateInterval
  <2>1. ScanFrom(FirstFunc).pc = "scan" /\ Idle.pc = "idle"
    BY DEF ScanFrom, Idle, At
  <2>2. /\ Idle \in [pc : TimerPlaces, func : 0 .. MAX_NUM_FUNCS, reg : Nat]
        /\ ScanFrom(FirstFunc) \in [pc : TimerPlaces, func : 0 .. MAX_NUM_FUNCS, reg : Nat]
    BY FuncFacts DEF ScanFrom, Idle, At, TimerPlaces
  <2> QED BY ONLY <1>4, <2>1, <2>2
<1>6. TypeOK'
  BY <1>1, <1>2, <1>4, <1>5 DEF EInv, TypeOK
<1>7. TimerPlaced'
  BY <1>5 DEF EInv, TimerPlaced
<1>8. CopiesFresh'
  BY <1>5 DEF EInv, CopiesFresh
<1>9. UnracedPressesCounted'
  BY DEF EInv, UnracedPressesCounted
<1> QED BY <1>6, <1>7, <1>8, <1>9 DEF EInv

LEMMA ScanInv == EInv /\ Scan => EInv'
<1> SUFFICES ASSUME EInv, Scan PROVE EInv'
  OBVIOUS
<1> USE DEF Scan, clockVars, keyVars, history
<1> DEFINE f == timer.func
<1>1. f \in FuncID /\ f + 1 \in 0 .. MAX_NUM_FUNCS
  BY FuncFacts DEF EInv, TypeOK
<1>2. \/ timer' = ScanFrom(f + 1)
      \/ timer' = At("copy", f, 0)
      \/ timer' = At("read", f, 0)
  OBVIOUS
<1>3. /\ timer' \in [pc : TimerPlaces, func : 0 .. MAX_NUM_FUNCS, reg : Nat]
      /\ timer'.pc \in {"scan", "copy", "read"}
      /\ timer'.pc # "scan" => timer'.func \in FuncID
  <2> HIDE DEF f
  <2> QED BY ONLY <1>1, <1>2, FuncFacts DEF ScanFrom, At, TimerPlaces
<1>4. TypeOK'
  BY <1>3 DEF EInv, TypeOK
<1>5. TimerPlaced'
  BY <1>3 DEF EInv, TimerPlaced
<1>6. CopiesFresh'
  BY <1>3 DEF EInv, CopiesFresh
<1>7. UnracedPressesCounted'
  BY DEF EInv, UnracedPressesCounted
<1> QED BY <1>4, <1>5, <1>6, <1>7 DEF EInv

LEMMA ReadStampInv == EInv /\ ReadStamp => EInv'
<1> SUFFICES ASSUME EInv, ReadStamp PROVE EInv'
  OBVIOUS
<1> USE DEF ReadStamp, clockVars, keyVars, history
<1>1. timer.func \in FuncID
  BY DEF EInv, TimerPlaced
<1>2. UShort(timestamp - stamp[timer.func] + 1) \in 0 .. USHORT_VALUES - 1
  <2>1. timestamp \in Int /\ stamp[timer.func] \in Int
    BY <1>1, EventMapAssumption DEF EInv, TypeOK
  <2>2. timestamp - stamp[timer.func] + 1 \in Int
    BY ONLY <2>1
  <2>3. USHORT_VALUES \in Nat \ {0}
    BY EventMapAssumption
  <2> HIDE DEF ReadStamp
  <2> QED BY <2>2, <2>3, ModBound DEF UShort
<1>3. /\ timer' \in [pc : TimerPlaces, func : 0 .. MAX_NUM_FUNCS, reg : Nat]
      /\ timer'.pc = "restamp" /\ timer'.func = timer.func
      /\ timer'.reg < USHORT_VALUES
  <2>1. USHORT_VALUES \in Nat
    BY EventMapAssumption
  <2> DEFINE count == UShort(timestamp - stamp[timer.func] + 1)
  <2>2. timer' = At("restamp", timer.func, count)
    OBVIOUS
  <2>3. count \in 0 .. USHORT_VALUES - 1
    BY <1>2
  <2> HIDE DEF count
  <2>4. count \in Nat /\ count < USHORT_VALUES
    BY ONLY <2>1, <2>3
  <2>5. timer.func \in 0 .. MAX_NUM_FUNCS
    BY <1>1, FuncFacts
  <2> QED BY ONLY <2>2, <2>4, <2>5 DEF At, TimerPlaces
<1>4. TypeOK'
  BY <1>3 DEF EInv, TypeOK
<1>5. TimerPlaced'
  BY <1>1, <1>3 DEF EInv, TimerPlaced
<1>6. CopiesFresh'
  BY <1>3 DEF EInv, CopiesFresh
<1>7. UnracedPressesCounted'
  BY DEF EInv, UnracedPressesCounted
<1> QED BY <1>4, <1>5, <1>6, <1>7 DEF EInv

(* What both kinds of report have in common.                               *)
LEMMA ReportTypes ==
  ASSUME EInv, NEW f \in FuncID, NEW count \in 0 .. USHORT_VALUES - 1, Report(f, count)
  PROVE  /\ fnlist' \in Seq([funcid : FuncID, count : 0 .. USHORT_VALUES - 1])
         /\ unreported' \in [FuncID -> 0 .. INT_VALUES]
         /\ timer' \in [pc : TimerPlaces, func : 0 .. MAX_NUM_FUNCS, reg : Nat]
         /\ timer'.pc = "scan"
<1>1. fnlist \in Seq([funcid : FuncID, count : 0 .. USHORT_VALUES - 1])
  BY DEF EInv, TypeOK
<1>2. [funcid |-> f, count |-> count] \in [funcid : FuncID, count : 0 .. USHORT_VALUES - 1]
  OBVIOUS
<1>3. fnlist' \in Seq([funcid : FuncID, count : 0 .. USHORT_VALUES - 1])
  BY <1>1, <1>2, AppendProperties DEF Report
<1>4. unreported' \in [FuncID -> 0 .. INT_VALUES]
  <2>1. unreported \in [FuncID -> 0 .. INT_VALUES] /\ 0 \in 0 .. INT_VALUES
    BY EventMapAssumption DEF EInv, TypeOK
  <2> QED BY <2>1 DEF Report
<1>5. /\ timer' \in [pc : TimerPlaces, func : 0 .. MAX_NUM_FUNCS, reg : Nat]
      /\ timer'.pc = "scan"
  BY FuncFacts DEF Report, ScanFrom, At, TimerPlaces
<1> QED BY <1>3, <1>4, <1>5

LEMMA WriteStampInv == EInv /\ WriteStamp => EInv'
<1> SUFFICES ASSUME EInv, WriteStamp PROVE EInv'
  OBVIOUS
<1> USE DEF WriteStamp, clockVars, keyVars
<1>1. timer.func \in FuncID /\ timer.reg \in 0 .. USHORT_VALUES - 1
  BY EventMapAssumption DEF EInv, TimerPlaced, TypeOK
<1>2. stamp' \in [FuncID -> 0 .. INT_VALUES - 1] /\ kept' \subseteq FuncID
  BY <1>1 DEF EInv, TypeOK, Restamped
<1>3. TypeOK'
  BY <1>1, <1>2, ReportTypes DEF EInv, TypeOK
<1>4. TimerPlaced'
  BY <1>1, ReportTypes DEF EInv, TimerPlaced
<1>5. CopiesFresh'
  BY <1>1, ReportTypes DEF EInv, CopiesFresh
<1>6. UnracedPressesCounted'
  BY DEF EInv, UnracedPressesCounted
<1> QED BY <1>3, <1>4, <1>5, <1>6 DEF EInv

LEMMA CopyHappenedInv == EInv /\ CopyHappened => EInv'
<1> SUFFICES ASSUME EInv, CopyHappened PROVE EInv'
  OBVIOUS
<1> USE DEF CopyHappened, clockVars, keyVars
<1>1. timer.func \in FuncID /\ happened[timer.func] \in Nat
  BY DEF EInv, TimerPlaced, TypeOK
<1>2. /\ timer' \in [pc : TimerPlaces, func : 0 .. MAX_NUM_FUNCS, reg : Nat]
      /\ timer'.pc = "clear" /\ timer'.func = timer.func
      /\ timer'.reg = happened[timer.func]
  BY <1>1, FuncFacts DEF At, TimerPlaces
<1>3. raced' \subseteq FuncID /\ raced \subseteq raced'
  BY <1>1 DEF EInv, TypeOK
<1>4. TypeOK'
  BY <1>2, <1>3 DEF EInv, TypeOK
<1>5. TimerPlaced'
  BY <1>1, <1>2 DEF EInv, TimerPlaced
<1>6. CopiesFresh'
  BY <1>2, <1>3 DEF EInv, CopiesFresh
<1>7. UnracedPressesCounted'
  BY <1>3 DEF EInv, UnracedPressesCounted
<1> QED BY <1>4, <1>5, <1>6, <1>7 DEF EInv

LEMMA ClearHappenedInv == EInv /\ ClearHappened => EInv'
<1> SUFFICES ASSUME EInv, ClearHappened PROVE EInv'
  OBVIOUS
<1> USE DEF ClearHappened, clockVars, keyVars
<1> DEFINE f == timer.func
<1>1. /\ f \in FuncID /\ timer.reg \in Nat
      /\ happened \in [FuncID -> Nat] /\ reported \in [FuncID -> Nat]
      /\ counted \in [FuncID -> Nat]
  BY DEF EInv, TimerPlaced, TypeOK
<1>2. UShort(timer.reg) \in 0 .. USHORT_VALUES - 1
  <2>1. timer.reg \in Int /\ USHORT_VALUES \in Nat \ {0}
    BY <1>1, EventMapAssumption
  <2> QED BY ONLY <2>1, ModBound DEF UShort
<1>3. /\ happened' \in [FuncID -> Nat] /\ reported' \in [FuncID -> Nat]
      /\ \A g \in FuncID :
           /\ happened'[g] = IF g = f THEN 0 ELSE happened[g]
           /\ reported'[g] = IF g = f THEN reported[g] + timer.reg ELSE reported[g]
  <2>1. /\ happened' = [happened EXCEPT ![f] = 0]
        /\ reported' = [reported EXCEPT ![f] = reported[f] + timer.reg]
    BY DEF ClearedHappened
  <2>2. reported[f] + timer.reg \in Nat
    <3>1. reported[f] \in Nat
      BY <1>1
    <3> QED BY ONLY <1>1, <3>1
  <2> HIDE DEF f
  <2> QED BY ONLY <1>1, <2>1, <2>2
<1>4. TypeOK'
  BY <1>1, <1>2, <1>3, ReportTypes DEF EInv, TypeOK
<1>5. TimerPlaced'
  BY <1>1, <1>2, ReportTypes DEF EInv, TimerPlaced
<1>6. CopiesFresh'
  <2>1. timer'.pc = "scan" /\ main' = main /\ raced' = raced
    BY <1>1, <1>2, ReportTypes
  <2>2. main.pc = "store" /\ main.func \notin raced =>
          main.func # f /\ main.reg = happened[main.func] /\ main.func \in FuncID
    BY DEF EInv, CopiesFresh, TypeOK
  <2> HIDE DEF f
  <2> QED BY ONLY <1>3, <2>1, <2>2 DEF CopiesFresh
<1>7. UnracedPressesCounted'
  <2> SUFFICES ASSUME NEW g \in FuncID \ raced
               PROVE  counted[g] = reported'[g] + happened'[g]
    BY DEF UnracedPressesCounted
  <2>1. counted[g] = reported[g] + happened[g]
    BY DEF EInv, UnracedPressesCounted
  <2>2. CASE g = f
    <3>1. timer.reg = happened[g]
      BY <2>2 DEF EInv, CopiesFresh
    <3>2. happened'[g] = 0 /\ reported'[g] = reported[g] + happened[g]
      BY <1>3, <2>2, <3>1
    <3>3. reported[g] \in Nat /\ happened[g] \in Nat
      BY <1>1
    <3> QED BY ONLY <2>1, <3>2, <3>3
  <2>3. CASE g # f
    BY <1>3, <2>1, <2>3
  <2> QED BY <2>2, <2>3
<1> QED BY <1>4, <1>5, <1>6, <1>7 DEF EInv

LEMMA SendEventListInv == EInv /\ SendEventList => EInv'
<1> SUFFICES ASSUME EInv, SendEventList PROVE EInv'
  OBVIOUS
<1> USE DEF SendEventList, keyVars, history
<1>1. /\ timer' \in [pc : TimerPlaces, func : 0 .. MAX_NUM_FUNCS, reg : Nat]
      /\ timer'.pc = "idle"
  BY FuncFacts DEF Idle, At, TimerPlaces
<1>2. fnlist' \in Seq([funcid : FuncID, count : 0 .. USHORT_VALUES - 1])
  OBVIOUS
<1>3. networkUpdateCounter' \in 0 .. updateInterval /\ networkUpdateCounter' < updateInterval
  BY EventMapAssumption
<1>4. TypeOK'
  BY <1>1, <1>2, <1>3 DEF EInv, TypeOK
<1>5. TimerPlaced'
  BY <1>1, <1>3 DEF EInv, TimerPlaced
<1>6. CopiesFresh'
  BY <1>1 DEF EInv, CopiesFresh
<1>7. UnracedPressesCounted'
  BY DEF EInv, UnracedPressesCounted
<1> QED BY <1>4, <1>5, <1>6, <1>7 DEF EInv

-----------------------------------------------------------------------------

LEMMA ENext == EInv /\ [Next]_vars => EInv'
<1> SUFFICES ASSUME EInv, [Next]_vars PROVE EInv'
  OBVIOUS
<1>1. CASE MainStep
  BY <1>1, StoreStampInv, EnterFunctionInv, LoadHappenedInv, StoreHappenedInv DEF MainStep
<1>2. CASE TimerStep
  BY <1>2, TickInv, ScanInv, ReadStampInv, WriteStampInv, CopyHappenedInv,
     ClearHappenedInv, SendEventListInv
  DEF TimerStep
<1>3. CASE UNCHANGED vars
  BY <1>3
  DEF vars, clockVars, keyVars, history, EInv, TypeOK, TimerPlaced, CopiesFresh,
      UnracedPressesCounted
<1> QED BY <1>1, <1>2, <1>3, ConnectInv, CloseWindowInv, KeyDownInv, KeyUpInv
  DEF Next, Exited

LEMMA EInvariance == Spec => []EInv
BY EInit, ENext, PTL DEF Spec

(* Every variable of the client's event map keeps its type.                *)
THEOREM EventMapTypeCorrect == Spec => []TypeOK
<1>1. EInv => TypeOK
  BY DEF EInv
<1> QED BY <1>1, EInvariance, PTL

(* A function whose increments never overlapped a report has every press   *)
(* either reported or waiting to be.                                       *)
THEOREM PressesCounted == Spec => []UnracedPressesCounted
<1>1. EInv => UnracedPressesCounted
  BY DEF EInv
<1> QED BY <1>1, EInvariance, PTL

-----------------------------------------------------------------------------
(* Held functions                                                          *)

Age(s) == IF s <= timestamp THEN timestamp - s ELSE timestamp - s + INT_VALUES

Held(f) == {k \in down : ev2funcid[k] = f}

Pending(f) == main.pc \in {"stamp", "enter"} /\ main.func = f

(* inprogress counts the keys that are down, but the one that keyDown is   *)
(* at.                                                                     *)
KeysCounted ==
  /\ IsFiniteSet(down)
  /\ \A f \in FuncID :
       /\ inprogress[f] >= 0
       /\ Cardinality(Held(f)) = IF Pending(f) THEN inprogress[f] + 1 ELSE inprogress[f]

(* A stamp is not older than the last report.                              *)
Recent(s, f) == unreported[f] < INT_VALUES => Age(s) <= unreported[f]

StampsRecent == \A f \in FuncID \ SINGLE_FUNCS : Recent(stamp[f], f)

TimerAt(f) == timer.pc \in {"read", "restamp"} /\ timer.func = f

(* While keyDown is about to store the time it took, nothing is in         *)
(* progress, so the only report of the function that may still come is of  *)
(* the same tick.                                                          *)
StampTaken ==
  main.pc = "stamp" =>
    /\ inprogress[main.func] = 0
    /\ main.func \notin SINGLE_FUNCS => Recent(main.reg, main.func)
    /\ TimerAt(main.func) => main.reg = timestamp

(* A function that stays in progress is in every event list.               *)
KeptReported ==
  \A f \in kept :
    /\ f \notin SINGLE_FUNCS /\ IS_FUNC_NONLOCAL(f) /\ inprogress[f] > 0
    /\ connected /\ unreported[f] <= networkUpdateCounter
    /\ timer.pc # "idle" /\ timer.func > f => unreported[f] = 0
    /\ Age(stamp[f]) = IF unreported[f] = INT_VALUES THEN 0 ELSE unreported[f]

TimerReports ==
  /\ timer.pc \in {"read", "restamp"} =>
       timer.func \notin SINGLE_FUNCS /\ IS_FUNC_NONLOCAL(timer.func)
  /\ timer.pc \in {"copy", "clear"} => timer.func \in SINGLE_FUNCS
  /\ timer.pc # "idle" => connected
  /\ timer.pc = "restamp" =>
       /\ timer.reg <= unreported[timer.func] + 1
       /\ timer.func \in kept => timer.reg = UShort(unreported[timer.func] + 1)

HInv == KeysCounted /\ StampsRecent /\ StampTaken /\ KeptReported /\ TimerReports


(* Counts are cut to fewer bits than the clock, so a clock that has gone   *)
(* round does not show.                                                    *)
LEMMA UShortRound ==
  ASSUME NEW n \in Int
  PROVE  /\ UShort(n + INT_VALUES) = UShort(n)
         /\ USHORT_VALUES <= INT_VALUES
<1> DEFINE U == USHORT_VALUES
           q == n \div U
           p == (n + INT_VALUES) \div U
           k == INT_VALUES \div U
           t == p - q - k
<1>1. U \in Nat \ {0} /\ INT_VALUES \in Nat \ {0} /\ INT_VALUES % U = 0
  BY EventMapAssumption
<1>2. /\ q \in Int /\ n = U * q + (n % U) /\ n % U \in 0 .. U - 1
      /\ k \in Int /\ INT_VALUES = U * k
      /\ p \in Int /\ n + INT_VALUES = U * p + ((n + INT_VALUES) % U)
      /\ (n + INT_VALUES) % U \in 0 .. U - 1
  BY <1>1
<1> HIDE DEF U, q, p, k
<1>3. t \in Int /\ U * t = (n % U) - ((n + INT_VALUES) % U)
  BY <1>1, <1>2
<1> HIDE DEF t
<1>4. t >= 1 => U * t >= U
  BY <1>1, <1>3
<1>5. t <= -1 => U * t <= -U
  BY <1>1, <1>3
<1>6. t = 0
  BY <1>1, <1>2, <1>3, <1>4, <1>5
<1>7. (n + INT_VALUES) % U = n % U
  <2> DEFINE r == n % U
             z == (n + INT_VALUES) % U
  <2>1. U * t = r - z /\ r \in Int /\ z \in Int
    BY <1>1, <1>2, <1>3
  <2> HIDE DEF r, z
  <2>2. r - z = 0
    BY <1>1, <1>6, <2>1
  <2>3. r = z
    BY <2>1, <2>2
  <2> QED BY <2>3 DEF r, z
<1>8. k >= 1 /\ U <= U * k
  BY <1>1, <1>2
<1> QED BY <1>1, <1>2, <1>7, <1>8 DEF UShort, U

LEMMA UShortBound ==
  ASSUME NEW n \in Nat
  PROVE  UShort(n) \in Nat /\ UShort(n) <= n /\ UShort(n) < USHORT_VALUES
<1> DEFINE U == USHORT_VALUES
           q == n \div U
<1>1. U \in Nat \ {0}
  BY EventMapAssumption
<1>2. q \in Int /\ n = U * q + (n % U) /\ n % U \in 0 .. U - 1
  BY <1>1
<1> HIDE DEF U, q
<1>3. q <= -1 => U * q <= -U
  BY <1>1, <1>2
<1>4. q >= 0 => U * q >= 0
  BY <1>1, <1>2
<1> QED BY <1>1, <1>2, <1>3, <1>4 DEF UShort, U

(* What ReadStamp counts from.                                             *)
LEMMA AgeRead ==
  ASSUME timestamp \in 0 .. INT_VALUES - 1, NEW s \in 0 .. INT_VALUES - 1
  PROVE  /\ Age(s) \in 0 .. INT_VALUES - 1
         /\ UShort(timestamp - s + 1) = UShort(Age(s) + 1)
<1>1. INT_VALUES \in Nat \ {0}
  BY EventMapAssumption
<1>2. Age(s) \in 0 .. INT_VALUES - 1
  BY <1>1 DEF Age
<1>3. Age(s) = timestamp - s \/ Age(s) + 1 = (timestamp - s + 1) + INT_VALUES
  BY <1>1 DEF Age
<1>4. timestamp - s + 1 \in Int
  BY <1>1
<1> QED BY <1>2, <1>3, <1>4, UShortRound

LEMMA AgeTicks ==
  ASSUME timestamp \in 0 .. INT_VALUES - 1, NEW s \in 0 .. INT_VALUES - 1,
         timestamp' = (timestamp + 1) % INT_VALUES
  PROVE  LET then == IF s <= timestamp' THEN timestamp' - s ELSE timestamp' - s + INT_VALUES
         IN  then = IF Age(s) + 1 = INT_VALUES THEN 0 ELSE Age(s) + 1
<1>1. INT_VALUES \in Nat \ {0}
  BY EventMapAssumption
<1>2. timestamp' = IF timestamp + 1 = INT_VALUES THEN 0 ELSE timestamp + 1
  BY <1>1
<1> QED BY <1>1, <1>2 DEF Age


LEMMA HeldTypes ==
  ASSUME EInv
  PROVE  /\ timestamp \in 0 .. INT_VALUES - 1 /\ INT_VALUES \in Nat \ {0}
         /\ inprogress \in [FuncID -> Int] /\ stamp \in [FuncID -> 0 .. INT_VALUES - 1]
         /\ unreported \in [FuncID -> 0 .. INT_VALUES] /\ kept \subseteq FuncID
         /\ main.func \in FuncID /\ FuncID \subseteq Nat
         /\ main.pc = "stamp" => main.reg \in 0 .. INT_VALUES - 1
         /\ timer.pc \notin {"idle", "scan"} => timer.func \in FuncID
         /\ timer.func \in Nat /\ timer.reg \in Nat
         /\ networkUpdateCounter \in 0 .. updateInterval /\ updateInterval \in Nat
<1>1. /\ timestamp \in 0 .. INT_VALUES - 1 /\ INT_VALUES \in Nat \ {0}
      /\ inprogress \in [FuncID -> Int] /\ stamp \in [FuncID -> 0 .. INT_VALUES - 1]
      /\ unreported \in [FuncID -> 0 .. INT_VALUES] /\ kept \subseteq FuncID
      /\ networkUpdateCounter \in 0 .. updateInterval /\ updateInterval \in Nat
  BY EventMapAssumption DEF EInv, TypeOK
<1>2. main.func \in FuncID /\ main.reg \in Nat /\ timer.func \in 0 .. MAX_NUM_FUNCS /\ timer.reg \in Nat
  BY DEF EInv, TypeOK
<1>3. main.pc = "stamp" => main.reg < INT_VALUES
  BY DEF EInv, TimerPlaced
<1>4. timer.pc \notin {"idle", "scan"} => timer.func \in FuncID
  BY DEF EInv, TimerPlaced
<1>5. timer.func \in Nat
  BY <1>2, EventMapAssumption
<1> QED BY <1>1, <1>2, <1>3, <1>4, <1>5, FuncFacts

LEMMA HeldInit == Init => HInv
<1> SUFFICES ASSUME Init PROVE HInv
  OBVIOUS
<1>1. \A f \in FuncID : inprogress[f] = 0 /\ Held(f) = {} /\ ~Pending(f)
  BY DEF Init, At, Held, Pending
<1>2. KeysCounted
  BY <1>1, FS_EmptySet DEF Init, KeysCounted
<1>3. StampsRecent
  BY EventMapAssumption DEF Init, StampsRecent, Recent
<1>4. StampTaken /\ KeptReported /\ TimerReports
  BY DEF Init, Idle, At, StampTaken, KeptReported, TimerReports
<1> QED BY <1>2, <1>3, <1>4 DEF HInv

(* What is said of the timer thread lasts while the clock, the stamps and  *)
(* the thread itself stand still.                                          *)
LEMMA TimerFrame ==
  ASSUME HInv, UNCHANGED <<timestamp, networkUpdateCounter, stamp, unreported, timer>>,
         connected => connected', kept' \subseteq kept, \A f \in kept' : inprogress'[f] > 0
  PROVE  StampsRecent' /\ KeptReported' /\ TimerReports'
<1>1. StampsRecent'
  BY DEF HInv, StampsRecent, Recent, Age
<1>2. KeptReported'
  BY DEF HInv, KeptReported, Age
<1>3. TimerReports'
  BY DEF HInv, TimerReports
<1> QED BY <1>1, <1>2, <1>3

LEMMA MainFrame ==
  ASSUME HInv, UNCHANGED <<down, inprogress>>, main'.pc \notin {"stamp", "enter"},
         main.pc \notin {"stamp", "enter"}
  PROVE  KeysCounted' /\ StampTaken'
BY DEF HInv, KeysCounted, StampTaken, Pending, Held

LEMMA MainMovesOn ==
  EInv /\ HInv /\ (Connect \/ CloseWindow \/ LoadHappened \/ StoreHappened) => HInv'
<1> SUFFICES ASSUME EInv, HInv, Connect \/ CloseWindow \/ LoadHappened \/ StoreHappened
             PROVE  HInv'
  OBVIOUS
<1>1. /\ UNCHANGED <<timestamp, networkUpdateCounter, stamp, unreported, timer, kept, inprogress, down>>
      /\ connected => connected'
      /\ main.pc \notin {"stamp", "enter"} /\ main'.pc \notin {"stamp", "enter"}
  BY DEF Connect, CloseWindow, LoadHappened, StoreHappened, Quit, Idle, At, clockVars, keyVars, history
<1>2. \A f \in kept' : inprogress'[f] > 0
  BY <1>1 DEF HInv, KeptReported
<1> QED BY <1>1, <1>2, TimerFrame, MainFrame DEF HInv

LEMMA StoreStampHeld == EInv /\ HInv /\ StoreStamp => HInv'
<1> SUFFICES ASSUME EInv, HInv, StoreStamp PROVE HInv'
  OBVIOUS
<1> DEFINE f == main.func
<1>1. /\ main.pc = "stamp" /\ stamp' = [stamp EXCEPT ![f] = main.reg]
      /\ main' = At("enter", f, 0)
      /\ UNCHANGED <<timestamp, networkUpdateCounter, connected, unreported, timer, kept, inprogress, down>>
  BY DEF StoreStamp, clockVars, keyVars, history
<1>2. inprogress[f] = 0 /\ f \notin kept /\ (f \notin SINGLE_FUNCS => Recent(main.reg, f))
  BY <1>1 DEF HInv, StampTaken, KeptReported
<1>3. main'.pc = "enter" /\ main'.func = f
  BY <1>1 DEF At
<1>4. KeysCounted'
  BY <1>1, <1>3 DEF HInv, KeysCounted, Pending, Held
<1>5. StampsRecent'
  <2> SUFFICES ASSUME NEW g \in FuncID \ SINGLE_FUNCS PROVE Recent(stamp[g], g)'
    BY DEF StampsRecent
  <2>1. CASE g = f
    BY <1>1, <1>2, <2>1, HeldTypes DEF Recent, Age
  <2>2. CASE g # f
    <3>1. stamp'[g] = stamp[g]
      BY <1>1, <2>2, HeldTypes
    <3> QED BY <1>1, <3>1 DEF HInv, StampsRecent, Recent, Age
  <2> QED BY <2>1, <2>2
<1>6. \A g \in kept : stamp'[g] = stamp[g]
  BY <1>1, <1>2, HeldTypes
<1>7. KeptReported'
  BY <1>1, <1>6 DEF HInv, KeptReported, Age
<1>8. TimerReports' /\ StampTaken'
  BY <1>1, <1>3 DEF HInv, TimerReports, StampTaken
<1> QED BY <1>4, <1>5, <1>7, <1>8 DEF HInv

LEMMA EnterFunctionHeld == EInv /\ HInv /\ EnterFunction => HInv'
<1> SUFFICES ASSUME EInv, HInv, EnterFunction PROVE HInv'
  OBVIOUS
<1> DEFINE f == main.func
<1>1. /\ main.pc = "enter" /\ inprogress' = [inprogress EXCEPT ![f] = inprogress[f] + 1]
      /\ main'.pc \notin {"stamp", "enter"}
      /\ UNCHANGED <<timestamp, networkUpdateCounter, connected, stamp, unreported, timer, kept, down>>
  BY DEF EnterFunction, Quit, Idle, At, clockVars, keyVars, history
<1>2. \A g \in FuncID : inprogress'[g] = IF g = f THEN inprogress[g] + 1 ELSE inprogress[g]
  BY <1>1, HeldTypes
<1>3. \A g \in FuncID : inprogress[g] \in Int
  BY HeldTypes
<1>4. \A g \in kept' : inprogress'[g] > 0
  BY <1>1, <1>2, <1>3, HeldTypes DEF HInv, KeptReported
<1>5. KeysCounted'
  BY <1>1, <1>2, <1>3 DEF HInv, KeysCounted, Pending, Held
<1>6. StampTaken'
  BY <1>1 DEF StampTaken
<1> QED BY <1>1, <1>4, <1>5, <1>6, TimerFrame DEF HInv


LEMMA KeyDownHeld ==
  ASSUME NEW k \in Key, EInv, HInv, KeyDown(k)
  PROVE  HInv'
<1> DEFINE f == ev2funcid[k]
<1>1. /\ main.pc = "idle" /\ k \notin down /\ down' = down \cup {k} /\ f \in FuncID
      /\ main' = IF inprogress[f] = 0 THEN At("stamp", f, timestamp) ELSE At("enter", f, 0)
      /\ UNCHANGED <<timestamp, networkUpdateCounter, connected, stamp, unreported, timer, kept, inprogress>>
  BY EventMapAssumption DEF KeyDown, StartsFunction, clockVars, history
<1>2. main'.pc \in {"stamp", "enter"} /\ main'.func = f
  BY <1>1 DEF At
<1>3. main'.pc = "stamp" => inprogress[f] = 0 /\ main'.reg = timestamp
  BY <1>1 DEF At
<1> HIDE DEF f
<1>4. KeysCounted'
  <2>1. IsFiniteSet(down')
    BY <1>1, FS_AddElement DEF HInv, KeysCounted
  <2>2. ASSUME NEW g \in FuncID
        PROVE  /\ inprogress'[g] >= 0
               /\ Cardinality(Held(g)') = IF Pending(g)' THEN inprogress'[g] + 1 ELSE inprogress'[g]
    <3>1. /\ inprogress[g] \in Int /\ inprogress[g] >= 0 /\ Cardinality(Held(g)) = inprogress[g]
          /\ IsFiniteSet(down)
      BY <1>1, HeldTypes DEF HInv, KeysCounted, Pending
    <3>2. CASE g = f
      <4>1. Held(g)' = Held(g) \cup {k} /\ k \notin Held(g) /\ IsFiniteSet(Held(g))
        BY <1>1, <3>1, <3>2, FS_Subset DEF Held, f
      <4>2. Cardinality(Held(g)') = Cardinality(Held(g)) + 1
        BY <4>1, FS_AddElement
      <4> QED BY <1>1, <1>2, <3>1, <3>2, <4>2 DEF Pending
    <3>3. CASE g # f
      <4>1. Held(g)' = Held(g)
        BY <1>1, <3>3 DEF Held, f
      <4> QED BY <1>1, <1>2, <3>1, <3>3, <4>1 DEF Pending
    <3> QED BY <3>2, <3>3
  <2> QED BY <2>1, <2>2 DEF KeysCounted
<1>5. StampTaken'
  <2> SUFFICES ASSUME main'.pc = "stamp"
               PROVE  /\ inprogress'[f] = 0 /\ main'.reg = timestamp'
                      /\ Recent(main.reg, f)'
    BY <1>2 DEF StampTaken
  <2>1. Recent(main.reg, f)'
    BY <1>1, <1>3, HeldTypes DEF Recent, Age
  <2> QED BY <1>1, <1>3, <2>1
<1>6. \A g \in kept' : inprogress'[g] > 0
  BY <1>1 DEF HInv, KeptReported
<1> QED BY <1>1, <1>4, <1>5, <1>6, TimerFrame DEF HInv

LEMMA KeyUpHeld ==
  ASSUME NEW k \in Key, EInv, HInv, KeyUp(k)
  PROVE  HInv'
<1> DEFINE f == ev2funcid[k]
<1>1. /\ main.pc = "idle" /\ main' = main /\ k \in down /\ down' = down \ {k} /\ f \in FuncID
      /\ inprogress' = [inprogress EXCEPT ![f] = inprogress[f] - 1]
      /\ kept' = IF inprogress'[f] = 0 THEN kept \ {f} ELSE kept
      /\ UNCHANGED <<timestamp, networkUpdateCounter, connected, stamp, unreported, timer>>
  BY EventMapAssumption DEF KeyUp, clockVars
<1>2. \A g \in FuncID : inprogress'[g] = IF g = f THEN inprogress[g] - 1 ELSE inprogress[g]
  BY <1>1, HeldTypes
<1>3. \A g \in FuncID : inprogress[g] \in Int
  BY HeldTypes
<1> HIDE DEF f
<1>4. /\ IsFiniteSet(down')
      /\ \A g \in FuncID : inprogress'[g] >= 0 /\ Cardinality(Held(g)') = inprogress'[g]
  <2>1. IsFiniteSet(down')
    BY <1>1, FS_RemoveElement DEF HInv, KeysCounted
  <2>2. ASSUME NEW g \in FuncID
        PROVE  inprogress'[g] >= 0 /\ Cardinality(Held(g)') = inprogress'[g]
    <3>1. /\ inprogress[g] >= 0 /\ Cardinality(Held(g)) = inprogress[g]
          /\ IsFiniteSet(down)
      BY <1>1 DEF HInv, KeysCounted, Pending
    <3>2. CASE g = f
      <4>1. Held(g)' = Held(g) \ {k} /\ k \in Held(g) /\ IsFiniteSet(Held(g))
        BY <1>1, <3>1, <3>2, FS_Subset DEF Held, f
      <4>2. Cardinality(Held(g)') = Cardinality(Held(g)) - 1 /\ IsFiniteSet(Held(g)')
        BY <4>1, FS_RemoveElement
      <4>3. Cardinality(Held(g)') \in Nat
        BY <4>2, FS_CardinalityType
      <4> QED BY <1>2, <1>3, <3>1, <3>2, <4>2, <4>3
    <3>3. CASE g # f
      <4>1. Held(g)' = Held(g)
        BY <1>1, <3>3 DEF Held, f
      <4> QED BY <1>2, <3>1, <3>3, <4>1
    <3> QED BY <3>2, <3>3
  <2> QED BY <2>1, <2>2
<1>5. KeysCounted' /\ StampTaken'
  BY <1>1, <1>4 DEF KeysCounted, Pending, StampTaken
<1>6. kept' \subseteq kept
  BY <1>1
<1>7. \A g \in kept' : inprogress'[g] > 0
  BY <1>1, <1>2, <1>3, <1>4, HeldTypes DEF HInv, KeptReported
<1> QED BY <1>1, <1>5, <1>6, <1>7, TimerFrame DEF HInv


(* No step of the timer thread changes what keyDown counts.                *)
LEMMA KeysFrame ==
  HInv /\ UNCHANGED <<down, inprogress, main>> => KeysCounted'
BY DEF HInv, KeysCounted, Pending, Held

LEMMA TickHeld == EInv /\ HInv /\ Tick => HInv'
<1> SUFFICES ASSUME EInv, HInv, Tick PROVE HInv'
  OBVIOUS
<1>1. /\ timer.pc = "idle" /\ timestamp' = (timestamp + 1) % INT_VALUES
      /\ unreported' = [f \in FuncID |->
           IF unreported[f] < INT_VALUES THEN unreported[f] + 1 ELSE INT_VALUES]
      /\ UNCHANGED <<connected, down, inprogress, stamp, main, kept>>
      /\ connected => networkUpdateCounter' = networkUpdateCounter + 1
      /\ ~connected => UNCHANGED <<networkUpdateCounter, timer>>
  BY DEF Tick, keyVars
<1>2. /\ timer'.pc \in {"idle", "scan"}
      /\ timer'.pc = "scan" => connected /\ timer'.func = FirstFunc
  BY DEF Tick, ScanFrom, Idle, At
<1>3. networkUpdateCounter < updateInterval /\ networkUpdateCounter \in Nat
  BY <1>1, HeldTypes DEF EInv, TimerPlaced
<1>4. ASSUME NEW f \in FuncID
      PROVE  /\ unreported'[f] = IF unreported[f] < INT_VALUES THEN unreported[f] + 1 ELSE INT_VALUES
             /\ unreported[f] \in 0 .. INT_VALUES
  BY <1>1, HeldTypes
<1>5. ASSUME NEW s \in 0 .. INT_VALUES - 1
      PROVE  /\ (IF s <= timestamp' THEN timestamp' - s ELSE timestamp' - s + INT_VALUES)
                  = IF Age(s) + 1 = INT_VALUES THEN 0 ELSE Age(s) + 1
             /\ Age(s) \in 0 .. INT_VALUES - 1
  BY <1>1, HeldTypes, AgeTicks, AgeRead
<1>6. StampsRecent'
  <2> SUFFICES ASSUME NEW f \in FuncID \ SINGLE_FUNCS PROVE Recent(stamp[f], f)'
    BY DEF StampsRecent
  <2>1. stamp'[f] = stamp[f] /\ stamp[f] \in 0 .. INT_VALUES - 1
    BY <1>1, HeldTypes
  <2>2. unreported[f] < INT_VALUES => Age(stamp[f]) <= unreported[f]
    BY DEF HInv, StampsRecent, Recent
  <2>3. Age(stamp[f])' = IF Age(stamp[f]) + 1 = INT_VALUES THEN 0 ELSE Age(stamp[f]) + 1
    BY <1>5, <2>1 DEF Age
  <2>4. Age(stamp[f]) \in 0 .. INT_VALUES - 1 /\ INT_VALUES \in Nat
    BY <1>5, <2>1, HeldTypes
  <2> QED BY <1>4, <2>2, <2>3, <2>4 DEF Recent
<1>7. StampTaken'
  <2> SUFFICES ASSUME main.pc = "stamp"
               PROVE  /\ inprogress[main.func] = 0
                      /\ main.func \notin SINGLE_FUNCS => Recent(main.reg, main.func)'
    BY <1>1, <1>2 DEF StampTaken, TimerAt
  <2>1. main.func \in FuncID /\ main.reg \in 0 .. INT_VALUES - 1 /\ INT_VALUES \in Nat
    BY HeldTypes
  <2>2. /\ inprogress[main.func] = 0
        /\ main.func \notin SINGLE_FUNCS /\ unreported[main.func] < INT_VALUES
             => Age(main.reg) <= unreported[main.func]
    BY DEF HInv, StampTaken, Recent
  <2>3. Age(main.reg)' = IF Age(main.reg) + 1 = INT_VALUES THEN 0 ELSE Age(main.reg) + 1
    BY <1>1, <1>5, <2>1 DEF Age
  <2>4. Age(main.reg) \in 0 .. INT_VALUES - 1
    BY <1>5, <2>1
  <2> QED BY <1>1, <1>4, <2>1, <2>2, <2>3, <2>4 DEF Recent
<1>8. KeptReported'
  <2> SUFFICES ASSUME NEW f \in kept
               PROVE  /\ f \notin SINGLE_FUNCS /\ IS_FUNC_NONLOCAL(f) /\ inprogress'[f] > 0
                      /\ connected' /\ unreported'[f] <= networkUpdateCounter'
                      /\ timer'.pc # "idle" /\ timer'.func > f => unreported'[f] = 0
                      /\ Age(stamp[f])' = IF unreported'[f] = INT_VALUES THEN 0 ELSE unreported'[f]
    BY <1>1 DEF KeptReported
  <2>1. /\ f \notin SINGLE_FUNCS /\ IS_FUNC_NONLOCAL(f) /\ inprogress[f] > 0 /\ connected
        /\ unreported[f] <= networkUpdateCounter
        /\ Age(stamp[f]) = IF unreported[f] = INT_VALUES THEN 0 ELSE unreported[f]
    BY DEF HInv, KeptReported
  <2>2. f \in FuncID /\ f \in Nat /\ stamp[f] \in 0 .. INT_VALUES - 1 /\ stamp' = stamp
    BY <1>1, HeldTypes
  <2>3. unreported[f] < INT_VALUES /\ unreported[f] \in Nat /\ INT_VALUES \in Nat
    BY <1>3, <1>4, <2>1, <2>2, EventMapAssumption
  <2>4. unreported'[f] = unreported[f] + 1
    BY <1>4, <2>2, <2>3
  <2>5. ~(timer'.pc # "idle" /\ timer'.func > f)
    BY <1>2, <2>1, <2>2 DEF IS_FUNC_NONLOCAL, FUNCID_INVALID, FirstFunc
  <2>6. Age(stamp[f])' = IF Age(stamp[f]) + 1 = INT_VALUES THEN 0 ELSE Age(stamp[f]) + 1
    BY <1>5, <2>2 DEF Age
  <2>7. Age(stamp[f])' = IF unreported'[f] = INT_VALUES THEN 0 ELSE unreported'[f]
    BY <2>1, <2>3, <2>4, <2>6
  <2>8. unreported'[f] <= networkUpdateCounter'
    BY <1>1, <1>3, <2>1, <2>3, <2>4
  <2> QED BY <1>1, <2>1, <2>5, <2>7, <2>8
<1>9. TimerReports'
  BY <1>1, <1>2 DEF TimerReports
<1> QED BY <1>1, <1>6, <1>7, <1>8, <1>9, KeysFrame DEF HInv

LEMMA ScanHeld == EInv /\ HInv /\ Scan => HInv'
<1> SUFFICES ASSUME EInv, HInv, Scan PROVE HInv'
  OBVIOUS
<1> DEFINE f == timer.func
<1>1. /\ timer.pc = "scan"
      /\ timer' = IF ~IS_FUNC_NONLOCAL(f) THEN ScanFrom(f + 1)
                  ELSE IF IS_FUNC_SINGLE_EVENT(f) /\ HasHappened(f) THEN At("copy", f, 0)
                  ELSE IF ~IS_FUNC_SINGLE_EVENT(f) /\ inprogress[f] # 0 THEN At("read", f, 0)
                  ELSE ScanFrom(f + 1)
      /\ UNCHANGED <<timestamp, networkUpdateCounter, connected, stamp, unreported, kept, inprogress,
                     main, down>>
  BY DEF Scan, clockVars, keyVars, history
<1>2. \/ timer' = At("read", f, 0) /\ IS_FUNC_NONLOCAL(f) /\ f \notin SINGLE_FUNCS /\ inprogress[f] # 0
      \/ timer' = At("copy", f, 0) /\ f \in SINGLE_FUNCS
      \/ /\ timer' = ScanFrom(f + 1)
         /\ ~(IS_FUNC_NONLOCAL(f) /\ f \notin SINGLE_FUNCS /\ inprogress[f] # 0)
  BY <1>1 DEF IS_FUNC_SINGLE_EVENT
<1> HIDE DEF f
<1>3. f \in Nat /\ f = timer.func /\ connected
  BY <1>1, HeldTypes DEF f, HInv, TimerReports
<1>4. StampsRecent'
  BY <1>1 DEF HInv, StampsRecent, Recent, Age
<1>5. StampTaken'
  BY <1>1, <1>2 DEF HInv, StampTaken, Recent, Age, TimerAt, At, ScanFrom
<1>6. TimerReports'
  BY <1>1, <1>2, <1>3 DEF TimerReports, At, ScanFrom
<1>7. KeptReported'
  <2>1. ASSUME NEW g \in kept, timer'.pc # "idle", timer'.func > g PROVE unreported[g] = 0
    <3>1. g \in Nat
      BY HeldTypes
    <3>2. IS_FUNC_NONLOCAL(g) /\ g \notin SINGLE_FUNCS /\ inprogress[g] > 0
      BY DEF HInv, KeptReported
    <3>3. inprogress[g] # 0
      BY <3>2
    <3>4. timer'.func = f \/ (g # f /\ timer'.func = f + 1)
      <4>1. CASE timer' = ScanFrom(f + 1)
        <5>1. timer'.func = f + 1
          BY <4>1 DEF ScanFrom, At
        <5>2. g = f => timer' # ScanFrom(f + 1) \/ inprogress[g] = 0
          BY <1>2, <3>2 DEF At, ScanFrom
        <5> QED BY <3>3, <4>1, <5>1, <5>2
      <4>2. CASE timer' # ScanFrom(f + 1)
        BY <1>2, <4>2 DEF At
      <4> QED BY <4>1, <4>2
    <3>5. f > g
      BY <1>3, <2>1, <3>1, <3>4
    <3> QED BY <1>1, <1>3, <3>5 DEF HInv, KeptReported
  <2> QED BY <1>1, <2>1 DEF HInv, KeptReported, Age
<1> QED BY <1>1, <1>4, <1>5, <1>6, <1>7, KeysFrame DEF HInv

LEMMA ReadStampHeld == EInv /\ HInv /\ ReadStamp => HInv'
<1> SUFFICES ASSUME EInv, HInv, ReadStamp PROVE HInv'
  OBVIOUS
<1> DEFINE f == timer.func
<1>1. /\ timer.pc = "read"
      /\ timer' = At("restamp", f, UShort(timestamp - stamp[f] + 1))
      /\ UNCHANGED <<timestamp, networkUpdateCounter, connected, stamp, unreported, kept, inprogress,
                     main, down>>
  BY DEF ReadStamp, clockVars, keyVars, history
<1>2. timer'.pc = "restamp" /\ timer'.func = f /\ timer'.reg = UShort(timestamp - stamp[f] + 1)
  BY <1>1 DEF At
<1>3. /\ f \in FuncID /\ stamp[f] \in 0 .. INT_VALUES - 1 /\ unreported[f] \in 0 .. INT_VALUES
      /\ timestamp \in 0 .. INT_VALUES - 1 /\ INT_VALUES \in Nat /\ USHORT_VALUES \in Nat
  BY <1>1, HeldTypes, EventMapAssumption
<1>4. f \notin SINGLE_FUNCS /\ IS_FUNC_NONLOCAL(f) /\ connected
  BY <1>1 DEF HInv, TimerReports
<1>5. timer'.reg = UShort(Age(stamp[f]) + 1) /\ Age(stamp[f]) \in 0 .. INT_VALUES - 1
  BY <1>2, <1>3, AgeRead
<1> DEFINE a == Age(stamp[f])
<1> HIDE DEF a, f
<1>6. timer'.reg <= unreported[f] + 1
  <2>1. unreported[f] < INT_VALUES => a <= unreported[f]
    BY <1>3, <1>4 DEF HInv, StampsRecent, Recent, a
  <2>2. a + 1 \in Nat /\ timer'.reg = UShort(a + 1)
    BY <1>5 DEF a
  <2>3. timer'.reg \in Nat /\ timer'.reg <= a + 1 /\ timer'.reg < USHORT_VALUES
    BY <2>2, UShortBound
  <2>4. USHORT_VALUES <= INT_VALUES
    BY UShortRound
  <2>5. a \in Nat
    BY <1>5 DEF a
  <2> QED BY <1>3, <2>1, <2>3, <2>4, <2>5
<1>7. f \in kept => timer'.reg = UShort(unreported[f] + 1)
  <2> SUFFICES ASSUME f \in kept PROVE timer'.reg = UShort(unreported[f] + 1)
    OBVIOUS
  <2>1. a = IF unreported[f] = INT_VALUES THEN 0 ELSE unreported[f]
    BY DEF HInv, KeptReported, a
  <2>2. UShort(0 + 1) = UShort((0 + 1) + INT_VALUES)
    BY UShortRound
  <2>3. CASE unreported[f] = INT_VALUES
    <3>1. (0 + 1) + INT_VALUES = unreported[f] + 1
      BY <1>3, <2>3
    <3> QED BY <1>5, <2>1, <2>2, <2>3, <3>1 DEF a
  <2>4. CASE unreported[f] # INT_VALUES
    BY <1>5, <2>1, <2>4 DEF a
  <2> QED BY <2>3, <2>4
<1>8. TimerReports'
  BY <1>1, <1>2, <1>4, <1>6, <1>7 DEF TimerReports
<1>9. StampsRecent' /\ StampTaken'
  BY <1>1, <1>2 DEF HInv, StampsRecent, StampTaken, Recent, Age, TimerAt, f
<1>10. KeptReported'
  BY <1>1, <1>2 DEF HInv, KeptReported, Age, f
<1> QED BY <1>1, <1>8, <1>9, <1>10, KeysFrame DEF HInv


LEMMA WriteStampHeld == EInv /\ HInv /\ WriteStamp => HInv'
<1> SUFFICES ASSUME EInv, HInv, WriteStamp PROVE HInv'
  OBVIOUS
<1> DEFINE f == timer.func
<1>1. /\ timer.pc = "restamp" /\ stamp' = [stamp EXCEPT ![f] = timestamp]
      /\ unreported' = [unreported EXCEPT ![f] = 0] /\ timer' = ScanFrom(f + 1)
      /\ kept' = IF inprogress[f] # 0 THEN kept \cup {f} ELSE kept
      /\ UNCHANGED <<timestamp, networkUpdateCounter, connected, inprogress, main, down>>
  BY DEF WriteStamp, Restamped, Report, clockVars, keyVars
<1>2. timer'.pc = "scan" /\ timer'.func = f + 1
  BY <1>1 DEF ScanFrom, At
<1>3. /\ f \in FuncID /\ f \in Nat /\ INT_VALUES \in Nat \ {0} /\ timestamp \in 0 .. INT_VALUES - 1
      /\ networkUpdateCounter \in Nat /\ inprogress[f] \in Int
  BY <1>1, HeldTypes, EventMapAssumption
<1>4. f \notin SINGLE_FUNCS /\ IS_FUNC_NONLOCAL(f) /\ connected
  BY <1>1 DEF HInv, TimerReports
<1>5. ASSUME NEW g \in FuncID
      PROVE  /\ unreported'[g] = IF g = f THEN 0 ELSE unreported[g]
             /\ stamp'[g] = IF g = f THEN timestamp ELSE stamp[g]
  BY <1>1, HeldTypes
<1>6. ASSUME NEW s, s = timestamp
      PROVE  (IF s <= timestamp THEN timestamp - s ELSE timestamp - s + INT_VALUES) = 0
  BY <1>3, <1>6
<1> HIDE DEF f
<1>7. StampsRecent'
  <2> SUFFICES ASSUME NEW g \in FuncID \ SINGLE_FUNCS PROVE Recent(stamp[g], g)'
    BY DEF StampsRecent
  <2>1. CASE g = f
    BY <1>1, <1>3, <1>5, <1>6, <2>1 DEF Recent, Age
  <2>2. CASE g # f
    BY <1>1, <1>5, <2>2 DEF HInv, StampsRecent, Recent, Age
  <2> QED BY <2>1, <2>2
<1>8. StampTaken'
  <2> SUFFICES ASSUME main.pc = "stamp"
               PROVE  /\ inprogress[main.func] = 0
                      /\ main.func \notin SINGLE_FUNCS => Recent(main.reg, main.func)'
    BY <1>1, <1>2 DEF StampTaken, TimerAt
  <2>1. /\ inprogress[main.func] = 0 /\ main.func \in FuncID
        /\ main.func \notin SINGLE_FUNCS => Recent(main.reg, main.func)
        /\ main.func = f => main.reg = timestamp
    BY <1>1, HeldTypes DEF HInv, StampTaken, TimerAt, f
  <2>2. CASE main.func = f
    BY <1>1, <1>3, <1>5, <1>6, <2>1, <2>2 DEF Recent, Age
  <2>3. CASE main.func # f
    BY <1>1, <1>5, <2>1, <2>3 DEF Recent, Age
  <2> QED BY <2>1, <2>2, <2>3
<1>9. KeptReported'
  <2> SUFFICES ASSUME NEW g \in kept'
               PROVE  /\ g \notin SINGLE_FUNCS /\ IS_FUNC_NONLOCAL(g) /\ inprogress[g] > 0
                      /\ connected /\ unreported'[g] <= networkUpdateCounter
                      /\ f + 1 > g => unreported'[g] = 0
                      /\ Age(stamp[g])' = IF unreported'[g] = INT_VALUES THEN 0 ELSE unreported'[g]
    BY <1>1, <1>2 DEF KeptReported
  <2>1. CASE g = f
    <3>1. inprogress[f] > 0
      BY <1>1, <1>3, <2>1 DEF HInv, KeysCounted, KeptReported
    <3>2. unreported'[g] = 0 /\ stamp'[g] = timestamp
      BY <1>3, <1>5, <2>1
    <3>3. Age(stamp[g])' = 0
      BY <1>1, <1>6, <3>2 DEF Age
    <3> QED BY <1>3, <1>4, <2>1, <3>1, <3>2, <3>3
  <2>2. CASE g # f
    <3>1. g \in kept /\ g \in FuncID /\ g \in Nat
      BY <1>1, <2>2, HeldTypes
    <3>2. unreported'[g] = unreported[g] /\ Age(stamp[g])' = Age(stamp[g])
      BY <1>1, <1>5, <2>2, <3>1 DEF Age
    <3>3. f + 1 > g => f > g
      BY <1>3, <2>2, <3>1
    <3> QED BY <1>1, <3>1, <3>2, <3>3 DEF HInv, KeptReported, f
  <2> QED BY <2>1, <2>2
<1>10. TimerReports'
  BY <1>1, <1>2, <1>4 DEF TimerReports
<1> QED BY <1>1, <1>7, <1>8, <1>9, <1>10, KeysFrame DEF HInv

LEMMA CopyHappenedHeld == EInv /\ HInv /\ CopyHappened => HInv'
<1> SUFFICES ASSUME EInv, HInv, CopyHappened PROVE HInv'
  OBVIOUS
<1>1. /\ timer.pc = "copy" /\ timer'.pc = "clear" /\ timer'.func = timer.func
      /\ UNCHANGED <<timestamp, networkUpdateCounter, connected, stamp, unreported, kept, inprogress,
                     main, down>>
  BY DEF CopyHappened, At, clockVars, keyVars
<1>2. StampsRecent' /\ StampTaken'
  BY <1>1 DEF HInv, StampsRecent, StampTaken, Recent, Age, TimerAt
<1>3. KeptReported' /\ TimerReports'
  BY <1>1 DEF HInv, KeptReported, TimerReports, Age
<1> QED BY <1>1, <1>2, <1>3, KeysFrame DEF HInv

LEMMA ClearHappenedHeld == EInv /\ HInv /\ ClearHappened => HInv'
<1> SUFFICES ASSUME EInv, HInv, ClearHappened PROVE HInv'
  OBVIOUS
<1> DEFINE f == timer.func
<1>1. /\ timer.pc = "clear" /\ timer' = ScanFrom(f + 1)
      /\ unreported' = [unreported EXCEPT ![f] = 0]
      /\ UNCHANGED <<timestamp, networkUpdateCounter, connected, stamp, kept, inprogress, main, down>>
  BY DEF ClearHappened, Report, clockVars, keyVars
<1>2. timer'.pc = "scan" /\ timer'.func = f + 1
  BY <1>1 DEF ScanFrom, At
<1>3. f \in SINGLE_FUNCS /\ connected
  BY <1>1 DEF HInv, TimerReports
<1>4. \A g : g \notin SINGLE_FUNCS /\ g \in FuncID => unreported'[g] = unreported[g]
  BY <1>1, <1>3, HeldTypes
<1>5. StampsRecent' /\ StampTaken'
  BY <1>1, <1>2, <1>4, HeldTypes DEF HInv, StampsRecent, StampTaken, Recent, Age, TimerAt
<1>6. KeptReported'
  <2> SUFFICES ASSUME NEW g \in kept
               PROVE  /\ unreported'[g] = unreported[g] /\ Age(stamp[g])' = Age(stamp[g])
                      /\ timer'.func > g => timer.func > g
    BY <1>1 DEF HInv, KeptReported
  <2>1. g \notin SINGLE_FUNCS /\ g \in FuncID /\ g \in Nat /\ f \in Nat
    BY HeldTypes DEF HInv, KeptReported
  <2>2. g # f
    BY <1>3, <2>1
  <2> QED BY <1>1, <1>2, <1>4, <2>1, <2>2 DEF Age
<1>7. TimerReports'
  BY <1>1, <1>2, <1>3 DEF TimerReports
<1> QED BY <1>1, <1>5, <1>6, <1>7, KeysFrame DEF HInv

LEMMA SendEventListHeld == EInv /\ HInv /\ SendEventList => HInv'
<1> SUFFICES ASSUME EInv, HInv, SendEventList PROVE HInv'
  OBVIOUS
<1>1. /\ timer.pc = "scan" /\ timer.func = MAX_NUM_FUNCS /\ timer'.pc = "idle"
      /\ networkUpdateCounter' = 0
      /\ UNCHANGED <<timestamp, connected, stamp, unreported, kept, inprogress, main, down>>
  BY DEF SendEventList, Idle, At, keyVars, history
<1>2. StampsRecent' /\ StampTaken' /\ TimerReports'
  BY <1>1 DEF HInv, StampsRecent, StampTaken, Recent, Age, TimerAt, TimerReports
<1>3. \A f \in kept : timer.func > f
  BY <1>1, HeldTypes, EventMapAssumption DEF FuncID
<1>4. \A f \in kept : unreported[f] = 0
  BY <1>1, <1>3 DEF HInv, KeptReported
<1>5. KeptReported'
  BY <1>1, <1>4 DEF HInv, KeptReported, Age
<1> QED BY <1>1, <1>2, <1>5, KeysFrame DEF HInv

LEMMA HeldNext == EInv /\ HInv /\ [Next]_vars => HInv'
<1> SUFFICES ASSUME EInv, HInv, [Next]_vars PROVE HInv'
  OBVIOUS
<1>1. CASE TimerStep
  BY <1>1, TickHeld, ScanHeld, ReadStampHeld, WriteStampHeld, CopyHappenedHeld, ClearHappenedHeld,
     SendEventListHeld
  DEF TimerStep
<1>2. CASE UNCHANGED vars
  <2>1. /\ UNCHANGED <<timestamp, networkUpdateCounter, stamp, unreported, timer, connected, kept,
                       inprogress, main, down>>
    BY <1>2 DEF vars, clockVars, keyVars, history
  <2>2. \A f \in kept' : inprogress'[f] > 0
    BY <2>1 DEF HInv, KeptReported
  <2>3. StampTaken'
    BY <2>1 DEF HInv, StampTaken, Recent, Age, TimerAt
  <2> QED BY <2>1, <2>2, <2>3, TimerFrame, KeysFrame DEF HInv
<1> QED BY <1>1, <1>2, MainMovesOn, StoreStampHeld, EnterFunctionHeld, KeyDownHeld, KeyUpHeld
  DEF Next, MainStep, Exited

(* However often the clock goes round and whatever the main thread does    *)
(* meanwhile: of the ticks that a report of a held function counts, at     *)
(* most one was counted before, which is the tick of the report before;    *)
(* and while the function stays held a report counts that tick and each    *)
(* tick since.                                                             *)
THEOREM HeldReportsOverlapByOne == Spec => HeldReportsShareOneTick
<1>1. Init => EInv /\ HInv
  BY EInit, HeldInit
<1>2. EInv /\ HInv /\ [Next]_vars => (EInv /\ HInv)'
  BY ENext, HeldNext
<1>3. EInv /\ HInv =>
        (timer.pc = "restamp" => Repeated(timer.func) <= 1)
  <2> SUFFICES ASSUME EInv, HInv, timer.pc = "restamp" PROVE Repeated(timer.func) <= 1
    OBVIOUS
  <2>1. timer.reg <= unreported[timer.func] + 1
    BY DEF HInv, TimerReports
  <2>2. timer.reg \in Nat /\ unreported[timer.func] \in Int
    BY HeldTypes, EventMapAssumption
  <2> QED BY <2>1, <2>2 DEF Repeated
<1>4. EInv /\ HInv /\ [Next]_vars =>
        [\A f \in FuncID :
           timer.pc = "restamp" /\ timer.func = f /\ timer' # timer =>
             /\ Repeated(f) <= 1
             /\ f \in kept => timer.reg = UShort(unreported[f] + 1)]_vars
  BY <1>3 DEF HInv, TimerReports
<1> QED BY <1>1, <1>2, <1>4, PTL DEF Spec, HeldReportsShareOneTick
=============================================================================
