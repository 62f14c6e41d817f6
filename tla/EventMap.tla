------------------------------ MODULE EventMap ------------------------------
(***************************************************************************)
(* How the client turns keys into event lists (src/src/Client/GamingClient *)
(* EventMap and the timer half of GamingClient).                           *)
(*                                                                         *)
(* Two threads share funcArr and timestamp without a lock: the main thread *)
(* runs keyDown and keyUp for the keys it polls, the SDL timer thread runs *)
(* updateTimerCb, which every updateInterval ticks serialises the map and  *)
(* sends it.  A step is one access to a word that the other thread may be  *)
(* writing, so the increment of happened and each report take two steps;   *)
(* accesses to words only one thread uses join the step they belong to.    *)
(*                                                                         *)
(* The fields of struct function are variables of their own, by function   *)
(* id.  The clock is a counter cut to the bits that matter: counts are     *)
(* differences cut to 16 bits, and the constructor leaves it unset.        *)
(***************************************************************************)
EXTENDS Integers, Sequences

CONSTANTS
  Key,              \* keys of the keyboard
  ev2funcid,        \* the loaded key map: function id of each key
  MAX_NUM_FUNCS,    \* ids are 0 .. MAX_NUM_FUNCS - 1
  LOCAL_FUNCS,      \* ids with FUNCID_LOCAL_MASK, not sent; QUIT is one
  SINGLE_FUNCS,     \* ids with FUNCID_SINGLE_EVENT_MASK
  FUNCID_QUIT,
  updateInterval,   \* 2: ticks between two event lists
  INT_VALUES,       \* 2^32: values of timestamp as far as they matter
  USHORT_VALUES,    \* 2^16: values of cliEvObj.count
  MaxPresses        \* bound: key presses of a run

FuncID == 0 .. MAX_NUM_FUNCS - 1
FUNCID_INVALID == 0
IS_FUNC_NONLOCAL(f)     == f # FUNCID_INVALID /\ f \notin LOCAL_FUNCS
IS_FUNC_SINGLE_EVENT(f) == f \in SINGLE_FUNCS

ASSUME EventMapAssumption ==
  /\ MAX_NUM_FUNCS \in Nat \ {0}
  /\ ev2funcid \in [Key -> FuncID]
  /\ updateInterval \in Nat \ {0}
  /\ INT_VALUES \in Nat \ {0} /\ USHORT_VALUES \in Nat \ {0}
  /\ INT_VALUES % USHORT_VALUES = 0 /\ updateInterval <= INT_VALUES
  /\ MaxPresses \in Nat

VARIABLES
  timestamp,
  inprogress, stamp, reset, happened,   \* struct function, by id
  connected, networkUpdateCounter,
  main, timer,  \* the threads: place, function at hand, register
  fnlist,       \* the event list being built
  down,         \* keys held down
  presses,      \* bound: presses so far
  counted,      \* history: increments of happened, by function
  reported,     \* history: sum of the counts reported, by function
  raced,        \* history: functions whose increment met a report half way
  unreported,   \* history: ticks since the last report, up to INT_VALUES
  kept          \* history: functions in progress ever since their last report

clockVars == <<timestamp, connected, networkUpdateCounter>>
keyVars   == <<down, presses>>
history   == <<counted, reported, raced, unreported, kept>>
vars == <<clockVars, inprogress, stamp, reset, happened, main, timer, fnlist,
          keyVars, history>>

At(pc, f, reg) == [pc |-> pc, func |-> f, reg |-> reg]
Idle == At("idle", 0, 0)

Init ==
  /\ timestamp \in 0 .. INT_VALUES - 1
  /\ inprogress = [f \in FuncID |-> 0]
  /\ stamp = [f \in FuncID |-> 0]
  /\ reset = [f \in FuncID |-> FALSE]
  /\ happened = [f \in FuncID |-> 0]
  /\ connected = FALSE /\ networkUpdateCounter = 0
  /\ main = At("connecting", 0, 0) /\ timer = Idle
  /\ fnlist = <<>>
  /\ down = {} /\ presses = 0
  /\ counted = [f \in FuncID |-> 0] /\ reported = [f \in FuncID |-> 0]
  /\ raced = {} /\ kept = {}
  /\ unreported = [f \in FuncID |-> INT_VALUES]

-----------------------------------------------------------------------------
(* The main thread                                                         *)

Quit == main' = At("exited", 0, 0)

(* initGame connects after the timer was started; if it cannot, main quits.*)
Connect ==
  /\ main.pc = "connecting"
  /\ \/ connected' = TRUE /\ main' = Idle
     \/ Quit /\ UNCHANGED connected
  /\ UNCHANGED <<timestamp, networkUpdateCounter, inprogress, stamp, reset, happened,
                 timer, fnlist, keyVars, history>>

(* keyDown: the first key of a function starts its time.  inprogress is    *)
(* written by this thread only, so what it is tested for stays true.       *)
StartsFunction(f) == inprogress[f] = 0

KeyDown(k) ==
  /\ main.pc = "idle" /\ k \notin down /\ presses < MaxPresses
  /\ LET f == ev2funcid[k] IN
       main' = IF StartsFunction(f) THEN At("stamp", f, timestamp) ELSE At("enter", f, 0)
  /\ down' = down \cup {k} /\ presses' = presses + 1
  /\ UNCHANGED <<clockVars, inprogress, stamp, reset, happened, timer, fnlist, history>>

StoreStamp ==
  /\ main.pc = "stamp"
  /\ stamp' = [stamp EXCEPT ![main.func] = main.reg]
  /\ main' = At("enter", main.func, 0)
  /\ UNCHANGED <<clockVars, inprogress, reset, happened, timer, fnlist, keyVars, history>>

(* The one callback that is registered is QUIT's, and does not return.     *)
EnterFunction ==
  /\ main.pc = "enter"
  /\ inprogress' = [inprogress EXCEPT ![main.func] = @ + 1]
  /\ IF main.func = FUNCID_QUIT THEN Quit
     ELSE main' = IF reset[main.func] THEN Idle ELSE At("load", main.func, 0)
  /\ UNCHANGED <<clockVars, stamp, reset, happened, timer, fnlist, keyVars, history>>

(* happened++, a load and a store.                                         *)
LoadHappened ==
  /\ main.pc = "load"
  /\ main' = At("store", main.func, happened[main.func])
  /\ raced' = IF timer.pc = "clear" /\ timer.func = main.func
              THEN raced \cup {main.func} ELSE raced
  /\ UNCHANGED <<clockVars, inprogress, stamp, reset, happened, timer, fnlist, keyVars,
                 counted, reported, unreported, kept>>

StoreHappened ==
  /\ main.pc = "store"
  /\ happened' = [happened EXCEPT ![main.func] = main.reg + 1]
  /\ reset' = [reset EXCEPT ![main.func] = TRUE]
  /\ main' = Idle
  /\ counted' = [counted EXCEPT ![main.func] = @ + 1]
  /\ UNCHANGED <<clockVars, inprogress, stamp, timer, fnlist, keyVars,
                 reported, raced, unreported, kept>>

KeyUp(k) ==
  /\ main.pc = "idle" /\ k \in down
  /\ LET f == ev2funcid[k] IN
       /\ inprogress' = [inprogress EXCEPT ![f] = @ - 1]
       /\ reset' = [reset EXCEPT ![f] = FALSE]
       /\ kept' = IF inprogress'[f] = 0 THEN kept \ {f} ELSE kept
  /\ down' = down \ {k}
  /\ UNCHANGED <<clockVars, stamp, happened, main, timer, fnlist, presses,
                 counted, reported, raced, unreported>>

(* SDL_QUIT ends the process.                                              *)
CloseWindow ==
  /\ main.pc = "idle" /\ Quit
  /\ UNCHANGED <<clockVars, inprogress, stamp, reset, happened, timer, fnlist, keyVars, history>>

-----------------------------------------------------------------------------
(* The timer thread                                                        *)

LateFirstFunc == 2                                \* variant: starts one late
FirstFunc == 1                                    \* FUNCID_INVALID is passed over
ScanFrom(f) == At("scan", f, 0)

(* updateTimerCb up to the loop of serializeEvMap.                         *)
Tick ==
  /\ timer.pc = "idle"
  /\ timestamp' = (timestamp + 1) % INT_VALUES
  /\ unreported' = [f \in FuncID |->
       IF unreported[f] < INT_VALUES THEN unreported[f] + 1 ELSE INT_VALUES]
  /\ IF connected
     THEN /\ networkUpdateCounter' = networkUpdateCounter + 1
          /\ timer' = IF networkUpdateCounter' >= updateInterval THEN ScanFrom(FirstFunc) ELSE Idle
     ELSE UNCHANGED <<networkUpdateCounter, timer>>
  /\ UNCHANGED <<connected, inprogress, stamp, reset, happened, main, fnlist, keyVars,
                 counted, reported, raced, kept>>

(* One round of the loop up to the test that finds something to report.    *)
HappenedAgain(f) == happened[f] > 1               \* variant: off by one
HasHappened(f)   == happened[f] # 0

Scan ==
  /\ timer.pc = "scan" /\ timer.func < MAX_NUM_FUNCS
  /\ LET f == timer.func IN
       timer' = IF ~IS_FUNC_NONLOCAL(f) THEN ScanFrom(f + 1)
                ELSE IF IS_FUNC_SINGLE_EVENT(f) /\ HasHappened(f) THEN At("copy", f, 0)
                ELSE IF ~IS_FUNC_SINGLE_EVENT(f) /\ inprogress[f] # 0 THEN At("read", f, 0)
                ELSE ScanFrom(f + 1)
  /\ UNCHANGED <<clockVars, inprogress, stamp, reset, happened, main, fnlist, keyVars,
                 history>>

WholeInt(n) == n                                  \* variant: not cut to 16 bits
UShort(n) == n % USHORT_VALUES

Report(f, count) ==
  /\ fnlist' = Append(fnlist, [funcid |-> f, count |-> count])
  /\ unreported' = [unreported EXCEPT ![f] = 0]
  /\ timer' = ScanFrom(f + 1)

(* A function in progress: the ticks from its stamp to the present one,    *)
(* both included; the present one is its next stamp.                       *)
ReadStamp ==
  /\ timer.pc = "read"
  /\ timer' = At("restamp", timer.func, UShort(timestamp - stamp[timer.func] + 1))
  /\ UNCHANGED <<clockVars, inprogress, stamp, reset, happened, main, fnlist, keyVars,
                 history>>

KeptStamp(f) == stamp                             \* variant: not restamped
Restamped(f) == [stamp EXCEPT ![f] = timestamp]

WriteStamp ==
  /\ timer.pc = "restamp"
  /\ stamp' = Restamped(timer.func)
  /\ Report(timer.func, timer.reg)
  /\ kept' = IF inprogress[timer.func] # 0 THEN kept \cup {timer.func} ELSE kept
  /\ UNCHANGED <<clockVars, inprogress, reset, happened, main, keyVars,
                 counted, reported, raced>>

(* A single event: how often it happened, which is then set to 0.          *)
CopyHappened ==
  /\ timer.pc = "copy"
  /\ timer' = At("clear", timer.func, happened[timer.func])
  /\ raced' = IF main.pc = "store" /\ main.func = timer.func
              THEN raced \cup {timer.func} ELSE raced
  /\ UNCHANGED <<clockVars, inprogress, stamp, reset, happened, main, fnlist, keyVars,
                 counted, reported, unreported, kept>>

KeepHappened(f) == happened                       \* variant: not set to 0
ClearedHappened(f) == [happened EXCEPT ![f] = 0]

ClearHappened ==
  /\ timer.pc = "clear"
  /\ happened' = ClearedHappened(timer.func)
  /\ Report(timer.func, UShort(timer.reg))
  /\ reported' = [reported EXCEPT ![timer.func] = @ + timer.reg]
  /\ UNCHANGED <<clockVars, inprogress, stamp, reset, main, keyVars,
                 counted, raced, kept>>

(* The end of the loop: the list is sent if it holds anything.             *)
SendEventList ==
  /\ timer.pc = "scan" /\ timer.func = MAX_NUM_FUNCS
  /\ timer' = Idle /\ fnlist' = <<>> /\ networkUpdateCounter' = 0
  /\ UNCHANGED <<timestamp, connected, inprogress, stamp, reset, happened, main,
                 keyVars, history>>

-----------------------------------------------------------------------------

Running == main.pc # "exited"

MainStep  == StoreStamp \/ EnterFunction \/ LoadHappened \/ StoreHappened
TimerStep == Tick \/ Scan \/ ReadStamp \/ WriteStamp \/ CopyHappened \/ ClearHappened
             \/ SendEventList

Exited == ~Running /\ UNCHANGED vars

Next ==
  \/ /\ Running
     /\ \/ Connect \/ CloseWindow \/ MainStep \/ TimerStep
        \/ \E k \in Key : KeyDown(k) \/ KeyUp(k)
  \/ Exited

(* Both threads run on: SDL keeps calling the timer, and the main thread   *)
(* finishes the key it is at.  Nobody has to press or release a key.       *)
Fairness == WF_vars(Running /\ TimerStep) /\ WF_vars(Running /\ MainStep)

Spec == Init /\ [][Next]_vars /\ Fairness

-----------------------------------------------------------------------------
(* Properties                                                              *)

MainPlaces  == {"connecting", "idle", "stamp", "enter", "load", "store", "exited"}
TimerPlaces == {"idle", "scan", "read", "restamp", "copy", "clear"}

TypeOK ==
  /\ timestamp \in 0 .. INT_VALUES - 1
  /\ inprogress \in [FuncID -> Int]
  /\ stamp \in [FuncID -> 0 .. INT_VALUES - 1]
  /\ reset \in [FuncID -> BOOLEAN]
  /\ happened \in [FuncID -> Nat]
  /\ connected \in BOOLEAN /\ networkUpdateCounter \in 0 .. updateInterval
  /\ main \in [pc : MainPlaces, func : FuncID, reg : Nat]
  /\ timer \in [pc : TimerPlaces, func : 0 .. MAX_NUM_FUNCS, reg : Nat]
  /\ fnlist \in Seq([funcid : FuncID, count : 0 .. USHORT_VALUES - 1])
  /\ down \subseteq Key /\ presses \in 0 .. MaxPresses
  /\ counted \in [FuncID -> Nat] /\ reported \in [FuncID -> Nat]
  /\ raced \subseteq FuncID /\ kept \subseteq FuncID
  /\ unreported \in [FuncID -> 0 .. INT_VALUES]

(* The threads lose or repeat a press only if the increment of the press   *)
(* overlaps a report of the same function, between the copy and the reset. *)
(* Otherwise every press is in a report, or waits in happened for the next.*)
UnracedPressesCounted ==
  \A f \in FuncID \ raced : counted[f] = reported[f] + happened[f]

(* "This is used for single events which need to be picked up": no press   *)
(* is lost.                                                                *)
NoPressLost ==
  \A f \in FuncID :
    main.pc = "idle" /\ timer.pc = "idle" => counted[f] <= reported[f] + happened[f]

(* A report of f counts timer.reg ticks, the present one the last of them. *)
(* Of these so many were counted by an earlier report.                     *)
Repeated(f) == timer.reg - unreported[f]

(* A report counts both its ends, and the next one starts where it ended:  *)
(* the tick of a report is counted by two reports.  It is the only one:    *)
(* no other tick is counted twice, and a function held ever since its last *)
(* report leaves none out (cut to 16 bits), even when the key is released  *)
(* and pressed again under the timer thread, or another key of the         *)
(* function comes and goes.  At two ticks from list to list, a list of a   *)
(* held function says three.                                               *)
HeldReportsShareOneTick ==
  [][\A f \in FuncID :
       timer.pc = "restamp" /\ timer.func = f /\ timer' # timer =>
         /\ Repeated(f) <= 1
         /\ f \in kept => timer.reg = UShort(unreported[f] + 1)]_vars

(* A press that was counted is taken up by an event list in the end.       *)
PressesPickedUp ==
  \A f \in {g \in SINGLE_FUNCS : IS_FUNC_NONLOCAL(g)} :
    happened[f] > 0 ~> happened[f] = 0 \/ ~Running

(* A function that stays in progress is reported again and again.          *)
HeldFunctionsReported ==
  \A f \in {g \in FuncID \ SINGLE_FUNCS : IS_FUNC_NONLOCAL(g)} :
    inprogress[f] > 0 ~> \/ timer.pc = "restamp" /\ timer.func = f
                         \/ inprogress[f] = 0
                         \/ ~Running
=============================================================================
