---------------------------- MODULE KeymapLoader ----------------------------
(***************************************************************************)
(* EventMap::loadKeymap (src/src/Client/GamingClient/EventMap.cpp): the    *)
(* key map file, read line by line into ev2funcid, the table EventMap      *)
(* looks keys up in.                                                       *)
(*                                                                         *)
(* Texts are members of small sets, with the names of the tables kmap and  *)
(* funcarr among them.  A line is what one fgets returns: a line of more   *)
(* than 255 characters comes as two, and of these the first, like a last   *)
(* line without a newline, is not ended; the code overwrites its last      *)
(* character all the same.  The word in front of ev2funcid, the upper half *)
(* of timestamp, is written for a key the loader does not know.            *)
(***************************************************************************)
EXTENDS Integers, Sequences

CONSTANTS
  KeyText, FuncText,  \* texts before and after the colon
  Chop,               \* a function's text without its last character
  kmap,               \* SDL's number of each key name
  funcarr,            \* id of each function name
  MAX_NUM_EVENTS,     \* 1024: entries of ev2funcid
  MAX_NUM_FUNCS,      \* 256
  MaxLines            \* bound: lines of a file

EventID == 0 .. MAX_NUM_EVENTS - 1
FuncID  == 0 .. MAX_NUM_FUNCS - 1
SDLK_UNKNOWN   == 0
FUNCID_INVALID == 0
KeyName  == DOMAIN kmap
FuncName == DOMAIN funcarr

ASSUME KeymapAssumption ==
  /\ MAX_NUM_EVENTS \in Nat \ {0} /\ MAX_NUM_FUNCS \in Nat \ {0}
  /\ KeyName \subseteq KeyText /\ kmap \in [KeyName -> EventID]
  /\ FuncName \subseteq FuncText /\ funcarr \in [FuncName -> FuncID]
  /\ Chop \in [FuncText -> FuncText]
  /\ MaxLines \in Nat

Binding == [kind : {"binding"}, key : KeyText, func : FuncText, ended : BOOLEAN]
Line    == [kind : {"comment", "blank", "nocolon"}] \cup Binding

VARIABLES
  ev2funcid,
  wordBefore,  \* ev2funcid[-1]: the upper half of timestamp
  err,         \* "reading", then what loadKeymap returns
  lines        \* history: the lines read

vars == <<ev2funcid, wordBefore, err, lines>>

Init ==
  /\ ev2funcid = [k \in EventID |-> FUNCID_INVALID]
  /\ wordBefore = "unset"
  /\ err \in {"reading", "-1"}     \* -1: the file cannot be opened
  /\ lines = <<>>

-----------------------------------------------------------------------------

getKeyID(key) == IF key \in KeyName THEN kmap[key] ELSE -1

UnknownIsMinusOne(str) == IF str \in FuncName THEN funcarr[str] ELSE -1  \* variant
getFuncIDfromStr(str) == IF str \in FuncName THEN funcarr[str] ELSE FUNCID_INVALID

(* line[len-1] = '\0'                                                      *)
FuncOf(l) == getFuncIDfromStr(IF l.ended THEN l.func ELSE Chop[l.func])

Refused(l) ==
  \/ l.kind = "nocolon"
  \/ l.kind = "binding" /\ (getKeyID(l.key) = SDLK_UNKNOWN \/ FuncOf(l) = FUNCID_INVALID)

FirstWins(key, func) ==                         \* variant: a bound key is kept
  /\ ev2funcid' = IF key \in EventID /\ ev2funcid[key] = FUNCID_INVALID
                  THEN [ev2funcid EXCEPT ![key] = func] ELSE ev2funcid
  /\ UNCHANGED wordBefore
(* The test for an unknown key compares getKeyID's -1 with 0, so -1 comes  *)
(* as far as here.                                                         *)
registerEvent(key, func) ==
  \/ /\ key \in EventID
     /\ ev2funcid' = [ev2funcid EXCEPT ![key] = func]
     /\ UNCHANGED wordBefore
  \/ /\ key = -1
     /\ wordBefore' = "overwritten"
     /\ UNCHANGED ev2funcid

ReadLine(l) ==
  /\ err = "reading" /\ Len(lines) < MaxLines
  /\ lines' = Append(lines, l)
  /\ \/ Refused(l) /\ err' = "-1" /\ UNCHANGED <<ev2funcid, wordBefore>>
     \/ /\ ~Refused(l) /\ l.kind = "binding"
        /\ registerEvent(getKeyID(l.key), FuncOf(l))
        /\ UNCHANGED err
     \/ l.kind \in {"comment", "blank"} /\ UNCHANGED <<ev2funcid, wordBefore, err>>

EndOfFile ==
  /\ err = "reading"
  /\ err' = "0"
  /\ UNCHANGED <<ev2funcid, wordBefore, lines>>

(* GamingClient::initialize goes on whatever loadKeymap returned.          *)
Loaded == err # "reading" /\ UNCHANGED vars

Next == (\E l \in Line : ReadLine(l)) \/ EndOfFile \/ Loaded

Spec == Init /\ [][Next]_vars

-----------------------------------------------------------------------------
(* Properties                                                              *)

TypeOK ==
  /\ ev2funcid \in [EventID -> FuncID]
  /\ wordBefore \in {"unset", "overwritten"}
  /\ err \in {"reading", "0", "-1"}
  /\ lines \in Seq(Line)

(* Line l gives key k its function.                                        *)
Binds(l, k) ==
  /\ l.kind = "binding"
  /\ l.key \in KeyName /\ kmap[l.key] = k /\ k # SDLK_UNKNOWN
  /\ FuncOf(l) # FUNCID_INVALID

(* At every moment, and so when the load is broken off half way, a key has *)
(* the function of the last line read that names it, and none if no line   *)
(* does: no line is lost, and none is filed under another key.             *)
BoundAsRead ==
  \A k \in EventID :
    \/ /\ ev2funcid[k] = FUNCID_INVALID
       /\ \A i \in DOMAIN lines : ~Binds(lines[i], k)
    \/ \E i \in DOMAIN lines :
         /\ Binds(lines[i], k) /\ ev2funcid[k] = FuncOf(lines[i])
         /\ \A j \in DOMAIN lines : j > i => ~Binds(lines[j], k)

(* "Invalid Event map format", "... in key", "... in function": a line with *)
(* no colon, or with a key or a function that the tables do not have.      *)
Bad(l) ==
  \/ l.kind = "nocolon"
  \/ /\ l.kind = "binding"
     /\ \/ l.key \notin KeyName \/ kmap[l.key] = SDLK_UNKNOWN
        \/ FuncOf(l) = FUNCID_INVALID

(* As the messages say: loadKeymap ends with an error at the first line    *)
(* that is not valid, whatever about it is not.                            *)
StopsAtFirstBadLine ==
  \A i \in DOMAIN lines : Bad(lines[i]) => i = Len(lines) /\ err = "-1"
=============================================================================
