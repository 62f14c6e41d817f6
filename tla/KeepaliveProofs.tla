-------------------------- MODULE KeepaliveProofs ---------------------------
(***************************************************************************)
(* Proof that the server drops a client only after a ping (GameServer's    *)
(* KickOnlyAfterPing), whenever it waits for the answer to a ping at least *)
(* as long as from one check to the next.  The code waits 1500 loops and   *)
(* checks every 300.                                                       *)
(***************************************************************************)
EXTENDS GameServerProofs

(* The check of loop n has been made for client c.                         *)
Checked(n, c) ==
  /\ n % checkCliStatusEverySecs = 0
  /\ n < curloopnum \/ (n = curloopnum /\ phase = "check" /\ c < scan)

(* Clients that were heard are humans of the game, heard in a past loop.   *)
HeardPlay ==
  \A c \in heard : IsHuman(c) /\ cliinfo[c].lastresp \in 0 .. curloopnum

(* A client that was heard and not pinged since passed every check so far. *)
UnpingedPassed ==
  \A c \in heard \ pinged, n \in Nat :
    Checked(n, c) => cliinfo[c].lastresp + maxUnresploop >= n

(* A client that was heard and is still there was not dead at any check.   *)
HeardPassed ==
  \A c \in heard, n \in Nat :
    Checked(n, c) => cliinfo[c].lastresp + maxUnresploop + maxPingWaitloopTime >= n

(* Clients are looked at in the check phase of a due loop only.            *)
ScanIsDue == phase = "check" /\ scan < MAX_CLIENT_ID => CheckIsDue

KInv == HeardPlay /\ UnpingedPassed /\ HeardPassed /\ ScanIsDue

-----------------------------------------------------------------------------

(* Multiples of the period are the loops that are divisible by it.         *)
LEMMA MultipleMod ==
  ASSUME NEW q \in Nat, NEW K \in Nat \ {0} PROVE (K * q) % K = 0
OBVIOUS

(* The loop one period before a due loop was due.                          *)
LEMMA PreviousCheck ==
  ASSUME NEW n \in Nat, NEW K \in Nat \ {0}, n % K = 0, n >= K
  PROVE  (n - K) % K = 0
<1> DEFINE q == n \div K
<1>1. n = K * q /\ q \in Nat
  OBVIOUS
<1>2. q # 0
  BY <1>1
<1> HIDE DEF q
<1>3. q - 1 \in Nat
  BY <1>1, <1>2
<1>4. n - K = K * (q - 1)
  BY <1>1
<1> QED BY <1>3, <1>4, MultipleMod

(* The first due loop is loop 0.                                           *)
LEMMA FirstCheck ==
  ASSUME NEW n \in Nat, NEW K \in Nat \ {0}, n % K = 0, n < K
  PROVE  n = 0
OBVIOUS

-----------------------------------------------------------------------------

(* What the type invariant says of the variables used here.                *)
LEMMA LoopTypes ==
  ASSUME IInv
  PROVE  /\ curloopnum \in Nat /\ maxUnresploop \in Nat
         /\ maxPingWaitloopTime \in Nat /\ checkCliStatusEverySecs \in Nat \ {0}
         /\ cliinfo \in [ClientID -> ClientInfo \cup {NULL}]
         /\ heard \subseteq ClientID /\ scan \in Nat /\ cid \in ClientID
<1>1. curloopnum \in 0 .. INT_MAX /\ INT_MAX \in Nat
  BY ServerAssumption DEF IInv, TypeOK
<1>2. curloopnum \in Nat
  BY <1>1
<1> QED BY <1>2, ServerAssumption DEF IInv, TypeOK

LEMMA KInit == Init => KInv
BY DEF Init, KInv, HeardPlay, UnpingedPassed, HeardPassed, ScanIsDue

(* A step that makes no check and hears nobody keeps what was heard.       *)
LEMMA NothingHeard ==
  ASSUME IInv, KInv, heard' = heard, pinged' = pinged, curloopnum' = curloopnum,
         \A c \in heard : cliinfo'[c] = cliinfo[c],
         phase' = "check" => phase = "check" /\ scan' = scan
  PROVE  KInv'
<1>1. HeardPlay'
  BY DEF KInv, HeardPlay, IsHuman
<1>2. \A c \in heard, n \in Nat : Checked(n, c)' => Checked(n, c)
  BY DEF Checked
<1>3. UnpingedPassed'
  BY <1>2 DEF KInv, UnpingedPassed
<1>4. HeardPassed'
  BY <1>2 DEF KInv, HeardPassed
<1>5. ScanIsDue'
  BY DEF KInv, ScanIsDue, CheckIsDue
<1> QED BY <1>1, <1>3, <1>4, <1>5 DEF KInv

(* Hearing a client makes it pass every check made so far.                 *)
LEMMA HeardPasses ==
  ASSUME IInv, KInv, NEW c \in ClientID, IsHuman(c), Heard(c),
         phase' = "recv", curloopnum' = curloopnum
  PROVE  KInv'
<1>1. /\ curloopnum \in Nat /\ maxUnresploop \in Nat
      /\ cliinfo[c] \in ClientInfo
  BY LoopTypes DEF IsHuman
<1>2. /\ heard' = heard \cup {c} /\ pinged' = pinged \ {c}
      /\ \A d \in heard : d # c => cliinfo'[d] = cliinfo[d]
      /\ cliinfo'[c] = [cliinfo[c] EXCEPT !.lastresp = curloopnum]
  BY DEF Heard, IInv, TypeOK
<1>3. /\ cliinfo'[c] # NULL /\ cliinfo'[c].aiClient = cliinfo[c].aiClient
      /\ cliinfo'[c].lastresp = curloopnum
  BY <1>1, <1>2, ConstantFacts DEF ClientInfo
<1>4. HeardPlay'
  <2>1. \A d \in heard : d # c => cliinfo'[d] = cliinfo[d]
    BY <1>2
  <2>2. IsHuman(c)' /\ cliinfo'[c].lastresp \in 0 .. curloopnum
    BY <1>1, <1>3 DEF IsHuman
  <2>3. \A d \in heard : d # c => IsHuman(d)' /\ cliinfo'[d].lastresp \in 0 .. curloopnum
    BY <2>1 DEF KInv, HeardPlay, IsHuman
  <2> QED BY <1>2, <2>2, <2>3 DEF HeardPlay
<1>5. ASSUME NEW d \in heard' \ pinged', NEW n \in Nat, Checked(n, d)'
      PROVE  cliinfo'[d].lastresp + maxUnresploop >= n
  <2>1. n < curloopnum /\ n % checkCliStatusEverySecs = 0
    BY <1>5 DEF Checked
  <2>2. CASE d = c
    BY <2>1, <2>2, <1>1, <1>3
  <2>3. CASE d # c
    <3>1. d \in heard \ pinged
      BY <1>2, <2>3
    <3> QED BY <2>1, <2>3, <3>1, <1>2 DEF KInv, UnpingedPassed, Checked
  <2> QED BY <2>2, <2>3
<1>6. ASSUME NEW d \in heard', NEW n \in Nat, Checked(n, d)'
      PROVE  cliinfo'[d].lastresp + maxUnresploop + maxPingWaitloopTime >= n
  <2>1. n < curloopnum /\ n % checkCliStatusEverySecs = 0
    BY <1>6 DEF Checked
  <2>2. CASE d = c
    BY <2>1, <2>2, <1>1, <1>3, LoopTypes
  <2>3. CASE d # c
    <3>1. d \in heard
      BY <1>2, <2>3
    <3> QED BY <2>1, <2>3, <3>1, <1>2 DEF KInv, HeardPassed, Checked
  <2> QED BY <2>2, <2>3
<1>7. ScanIsDue'
  BY DEF ScanIsDue
<1> QED BY <1>4, <1>5, <1>6, <1>7 DEF KInv, UnpingedPassed, HeardPassed

(* The loop number moves on only after every client was looked at.         *)
LEMMA EndLoopPasses ==
  ASSUME IInv, KInv, EndLoop
  PROVE  KInv'
<1>1. /\ curloopnum \in Nat /\ curloopnum' \in {curloopnum, curloopnum + 1}
      /\ phase = "check" /\ phase' = "tick" /\ scan = MAX_CLIENT_ID
      /\ cliinfo' = cliinfo /\ heard' = heard /\ pinged' = pinged
  BY LoopTypes DEF EndLoop, Running
<1>2. HeardPlay'
  BY <1>1 DEF KInv, HeardPlay, IsHuman
<1>3. \A c \in heard, n \in Nat : Checked(n, c)' => Checked(n, c)
  <2> SUFFICES ASSUME NEW c \in heard, NEW n \in Nat, Checked(n, c)' PROVE Checked(n, c)
    OBVIOUS
  <2>1. c < scan
    BY <1>1, LoopTypes, ConstantFacts DEF ClientID
  <2>2. n < curloopnum'
    BY <1>1 DEF Checked
  <2>3. n < curloopnum \/ n = curloopnum
    BY <1>1, <2>2
  <2> QED BY <1>1, <2>1, <2>3 DEF Checked
<1>4. UnpingedPassed'
  BY <1>1, <1>3 DEF KInv, UnpingedPassed
<1>5. HeardPassed'
  BY <1>1, <1>3 DEF KInv, HeardPassed
<1> QED BY <1>1, <1>2, <1>4, <1>5 DEF KInv, ScanIsDue

(* Looking at a client: it passes, is pinged or leaves.                    *)
LEMMA CheckClientPasses ==
  ASSUME IInv, KInv, CheckClient
  PROVE  KInv'
<1>1. /\ curloopnum \in Nat /\ curloopnum' = curloopnum
      /\ phase = "check" /\ phase' = "check"
      /\ scan \in ClientID /\ scan' = scan + 1
      /\ maxUnresploop \in Nat
  <2>1. scan \in Nat /\ scan < MAX_CLIENT_ID /\ scan' = scan + 1
    BY LoopTypes DEF CheckClient
  <2>2. scan \in ClientID
    BY <2>1, ConstantFacts DEF ClientID
  <2> QED BY <2>1, <2>2, LoopTypes DEF CheckClient, Running
<1>2. /\ heard' \subseteq heard /\ heard' \ pinged' \subseteq heard \ pinged
      /\ \A c \in heard' : cliinfo'[c] = cliinfo[c]
      /\ scan \in heard' \ pinged' => ~IsSilent(scan)
      /\ scan \in heard' => ~IsSilent(scan) \/ ~IsDead(scan)
  <2>1. heard \subseteq ClientID /\ cliinfo \in [ClientID -> ClientInfo \cup {NULL}]
    BY DEF IInv, TypeOK
  <2> QED BY <1>1, <2>1 DEF CheckClient, KickClient, DispatchPing
<1>3. HeardPlay'
  BY <1>1, <1>2 DEF KInv, HeardPlay, IsHuman
<1>4. ASSUME NEW c \in heard' \ pinged', NEW n \in Nat, Checked(n, c)'
      PROVE  cliinfo'[c].lastresp + maxUnresploop >= n
  <2>1. c \in heard \ pinged /\ c \in ClientID /\ cliinfo'[c] = cliinfo[c]
    BY <1>2 DEF IInv, TypeOK
  <2>2. CASE Checked(n, c)
    BY <2>1, <2>2 DEF KInv, UnpingedPassed
  <2>3. CASE ~Checked(n, c)
    <3>1. c = scan /\ n = curloopnum
      BY <1>1, <1>4, <2>1, <2>3, ConstantFacts DEF Checked, ClientID
    <3>2. ~(cliinfo[c].lastresp + maxUnresploop < curloopnum)
      BY <1>2, <2>1, <3>1 DEF IsSilent, KInv, HeardPlay
    <3>3. cliinfo[c].lastresp \in Nat
      BY <1>1, <2>1 DEF KInv, HeardPlay
    <3> QED BY <1>1, <2>1, <3>1, <3>2, <3>3
  <2> QED BY <2>2, <2>3
<1>5. ASSUME NEW c \in heard', NEW n \in Nat, Checked(n, c)'
      PROVE  cliinfo'[c].lastresp + maxUnresploop + maxPingWaitloopTime >= n
  <2>1. c \in heard /\ c \in ClientID /\ cliinfo'[c] = cliinfo[c]
    BY <1>2 DEF IInv, TypeOK
  <2>2. CASE Checked(n, c)
    BY <2>1, <2>2 DEF KInv, HeardPassed
  <2>3. CASE ~Checked(n, c)
    <3>1. c = scan /\ n = curloopnum
      BY <1>1, <1>5, <2>1, <2>3, ConstantFacts DEF Checked, ClientID
    <3>2. cliinfo[c].lastresp \in Nat /\ IsHuman(c)
      BY <1>1, <2>1 DEF KInv, HeardPlay
    <3>3. \/ ~(cliinfo[c].lastresp + maxUnresploop < curloopnum)
          \/ ~(cliinfo[c].lastresp + maxUnresploop + maxPingWaitloopTime < curloopnum)
      BY <1>2, <1>5, <3>1, <3>2 DEF IsSilent, IsDead
    <3>4. maxUnresploop \in Nat /\ maxPingWaitloopTime \in Nat /\ curloopnum \in Nat
      BY LoopTypes
    <3> QED BY ONLY <2>1, <3>1, <3>2, <3>3, <3>4
  <2> QED BY <2>2, <2>3
<1>6. ScanIsDue'
  BY <1>1, ConstantFacts DEF KInv, ScanIsDue, CheckIsDue, ClientID
<1> QED BY <1>3, <1>4, <1>5, <1>6 DEF KInv, UnpingedPassed, HeardPassed

(* The tables are not looked at yet when the receive loop ends.            *)
LEMMA SelectTimeoutPasses ==
  ASSUME IInv, KInv, SelectTimeout
  PROVE  KInv'
<1>1. /\ curloopnum' = curloopnum /\ phase' = "check" /\ phase = "recv"
      /\ scan' = IF CheckIsDue THEN 0 ELSE MAX_CLIENT_ID
      /\ cliinfo' = cliinfo /\ heard' = heard /\ pinged' = pinged
  BY DEF SelectTimeout, Running
<1>2. HeardPlay'
  BY <1>1 DEF KInv, HeardPlay, IsHuman
<1>3. \A c \in heard, n \in Nat : Checked(n, c)' => Checked(n, c)
  <2>1. heard \subseteq Nat
    BY ConstantFacts DEF IInv, TypeOK
  <2> QED BY <1>1, <2>1 DEF Checked, CheckIsDue
<1>4. UnpingedPassed'
  BY <1>1, <1>3 DEF KInv, UnpingedPassed
<1>5. HeardPassed'
  BY <1>1, <1>3 DEF KInv, HeardPassed
<1>6. ScanIsDue'
  BY <1>1, ConstantFacts DEF ScanIsDue, CheckIsDue
<1> QED BY <1>2, <1>4, <1>5, <1>6 DEF KInv

LEMMA KNext == IInv /\ KInv /\ [Next]_vars => KInv'
<1> SUFFICES ASSUME IInv, KInv, [Next]_vars PROVE KInv'
  OBVIOUS
<1>1. ASSUME NEW a \in Addr, RecvPingResp(a) PROVE KInv'
  <2>1. PICK c \in ClientID : LookupClientID(a, c) /\ Heard(c)
    BY <1>1 DEF RecvPingResp
  <2> QED BY <1>1, <2>1, LookupFindsHuman, HeardPasses DEF RecvPingResp, loopVars, Running
<1>2. ASSUME EventListDone PROVE KInv'
  <2>1. cid \in ClientID /\ IsHuman(cid)
    BY <1>2 DEF EventListDone, Running, IInv, SenderPlays, TypeOK
  <2> QED BY <1>2, <2>1, HeardPasses DEF EventListDone
<1>3. ASSUME NEW a \in Addr, RecvJoin(a) PROVE KInv'
  <2>1. phase' = phase /\ phase = "recv" /\ heard' = heard /\ pinged' = pinged
        /\ curloopnum' = curloopnum
    BY <1>3 DEF RecvJoin, loopVars, Running
  <2>2. \A c \in heard : cliinfo'[c] = cliinfo[c]
    <3>1. heard \subseteq ClientID /\ cliinfo \in [ClientID -> ClientInfo \cup {NULL}]
      BY DEF IInv, TypeOK
    <3>2. \A c \in heard : cliinfo[c] # NULL
      BY DEF KInv, HeardPlay, IsHuman
    <3> QED BY <1>3, <3>1, <3>2 DEF RecvJoin, JoinNew, GetFreeClientID
  <2> QED BY <2>1, <2>2, NothingHeard
<1>4. ASSUME AiClientJoin PROVE KInv'
  <2>1. phase' = phase /\ phase = "aijoin" /\ heard' = heard /\ pinged' = pinged
        /\ curloopnum' = curloopnum
    BY <1>4 DEF AiClientJoin, Running
  <2>2. \A c \in heard : cliinfo'[c] = cliinfo[c]
    <3>1. heard \subseteq ClientID /\ cliinfo \in [ClientID -> ClientInfo \cup {NULL}]
      BY DEF IInv, TypeOK
    <3>2. \A c \in heard : cliinfo[c] # NULL
      BY DEF KInv, HeardPlay, IsHuman
    <3> QED BY <1>4, <3>1, <3>2 DEF AiClientJoin, GetFreeClientID
  <2> QED BY <2>1, <2>2, NothingHeard
<1>5. CASE \/ BindOk \/ BindFails \/ AiClientsJoined \/ Tick \/ HandleNextEvent
           \/ RecvIgnored \/ SelectFails \/ UNCHANGED vars
           \/ \E a \in Addr, evs \in EventLists : RecvEventList(a, evs)
  <2>1. /\ heard' = heard /\ pinged' = pinged /\ curloopnum' = curloopnum
        /\ cliinfo' = cliinfo
        /\ phase' = "check" => phase = "check" /\ scan' = scan
    BY <1>5 DEF BindOk, BindFails, AiClientsJoined, Tick, HandleNextEvent,
         RecvIgnored, SelectFails, RecvEventList, vars, loopVars, Running
  <2> QED BY <2>1, NothingHeard
<1> QED
  BY <1>1, <1>2, <1>3, <1>4, <1>5, EndLoopPasses, CheckClientPasses, SelectTimeoutPasses
  DEF Next, Loop, Receive, Faulted

(* Who is dropped was pinged.                                              *)
LEMMA KickedWasPinged ==
  ASSUME maxPingWaitloopTime >= checkCliStatusEverySecs,
         IInv, KInv, Next, NEW c \in heard, Kicked(c)
  PROVE  c \in pinged
<1>1. /\ c \in ClientID /\ cliinfo \in [ClientID -> ClientInfo \cup {NULL}]
      /\ curloopnum \in Nat
      /\ cliinfo[c] # NULL /\ cliinfo'[c] = NULL
  BY LoopTypes DEF Kicked
<1>2. /\ CheckClient /\ scan = c /\ IsSilent(c) /\ IsDead(c) /\ phase = "check"
  <2>1. ASSUME cliinfo' = cliinfo PROVE FALSE
    BY <1>1, <2>1
  <2>2. ASSUME NEW d \in ClientID, NEW ci, ci # NULL, cliinfo' = [cliinfo EXCEPT ![d] = ci]
        PROVE  FALSE
    BY <1>1, <2>2
  <2>3. ASSUME NEW d \in ClientID, Heard(d) PROVE FALSE
    BY <1>1, <2>3, ConstantFacts DEF Heard, ClientInfo
  <2>4. ASSUME NEW a \in Addr, RecvJoin(a) PROVE FALSE
    <3>1. ASSUME NEW garbage \in UninitLong
          PROVE  [aiClient |-> FALSE, addr |-> a, lastresp |-> garbage] # NULL
      <4>1. [aiClient |-> FALSE, addr |-> a, lastresp |-> garbage] \in ClientInfo
        BY ServerAssumption DEF ClientInfo
      <4> QED BY <4>1, ConstantFacts
    <3> QED BY <2>1, <2>2, <2>4, <3>1 DEF RecvJoin, JoinNew
  <2>5. ASSUME AiClientJoin PROVE FALSE
    <3>1. NewAIClient # NULL
      <4>1. NewAIClient \in ClientInfo
        BY DEF NewAIClient, ClientInfo
      <4> QED BY <4>1, ConstantFacts
    <3> QED BY <2>1, <2>2, <2>5, <3>1 DEF AiClientJoin
  <2>6. ASSUME EventListDone PROVE FALSE
    BY <2>3, <2>6 DEF EventListDone, IInv, TypeOK
  <2>7. ASSUME NEW a \in Addr, RecvPingResp(a) PROVE FALSE
    BY <2>3, <2>7 DEF RecvPingResp
  <2>8. CheckClient
    BY <2>1, <2>4, <2>5, <2>6, <2>7
    DEF Next, Loop, Receive, Faulted, vars, BindOk, BindFails, AiClientsJoined, Tick,
        HandleNextEvent, RecvIgnored, SelectFails, SelectTimeout, RecvEventList, EndLoop
  <2> QED
    BY <1>1, <2>1, <2>8 DEF CheckClient, KickClient, DispatchPing, Running
<1>3. IsHuman(c) /\ cliinfo[c].lastresp \in Nat
  BY <1>1 DEF KInv, HeardPlay
<1>4. CheckIsDue
  BY <1>1, <1>2, ConstantFacts DEF KInv, ScanIsDue, ClientID
<1>5. SUFFICES ASSUME c \notin pinged PROVE FALSE
  OBVIOUS
<1>6. CASE curloopnum < checkCliStatusEverySecs
  <2>1. curloopnum = 0
    BY <1>1, <1>4, <1>6, FirstCheck, ServerAssumption DEF CheckIsDue
  <2> QED BY <1>2, <1>3, <2>1, ServerAssumption DEF IsDead
<1>7. CASE curloopnum >= checkCliStatusEverySecs
  <2> DEFINE n == curloopnum - checkCliStatusEverySecs
  <2>1. n \in Nat /\ n < curloopnum /\ n % checkCliStatusEverySecs = 0
    <3>1. curloopnum % checkCliStatusEverySecs = 0
      BY <1>4 DEF CheckIsDue
    <3>2. n \in Nat /\ n < curloopnum
      BY <1>1, <1>7, LoopTypes
    <3>3. n % checkCliStatusEverySecs = 0
      BY <1>1, <1>7, <3>1, PreviousCheck, LoopTypes
    <3> QED BY <3>2, <3>3
  <2>2. cliinfo[c].lastresp + maxUnresploop >= n
    BY <1>5, <2>1 DEF KInv, UnpingedPassed, Checked
  <2> QED BY <1>1, <1>2, <1>3, <2>2, ServerAssumption DEF IsDead
<1> QED BY <1>1, <1>6, <1>7, ServerAssumption

(* The last check of a loop before this one is at most a period ago.       *)
LEMMA LastCheck ==
  ASSUME NEW n \in Nat, NEW K \in Nat \ {0}, n >= K
  PROVE  \E k \in Nat : k < n /\ k % K = 0 /\ n <= k + K
<1>1. CASE n % K = 0
  <2>1. (n - K) % K = 0
    BY <1>1, PreviousCheck
  <2> QED BY <2>1
<1>2. CASE n % K # 0
  <2> DEFINE q == n \div K
  <2>1. q \in Nat /\ K * q <= n /\ n < K * q + K
    <3>1. q \in Int /\ q >= 0
      OBVIOUS
    <3>2. K * q <= n
      OBVIOUS
    <3>3. n < K * q + K
      OBVIOUS
    <3> QED BY <3>1, <3>2, <3>3
  <2> HIDE DEF q
  <2>2. (K * q) % K = 0
    BY <2>1, MultipleMod
  <2>3. K * q \in Nat /\ K * q # n
    BY <1>2, <2>1, <2>2
  <2>4. K * q < n /\ n <= K * q + K
    BY <2>1, <2>3
  <2> QED BY <2>2, <2>3, <2>4
<1> QED BY <1>1, <1>2

LEMMA HeardInTime == IInv /\ KInv => SilentClientsDropped
<1> SUFFICES ASSUME IInv, KInv, NEW c \in heard
             PROVE  curloopnum <= cliinfo[c].lastresp + maxUnresploop
                                    + maxPingWaitloopTime + checkCliStatusEverySecs
  BY DEF SilentClientsDropped
<1> DEFINE last == cliinfo[c].lastresp
           K    == checkCliStatusEverySecs
<1>1. /\ curloopnum \in Nat /\ maxUnresploop \in Nat /\ maxPingWaitloopTime \in Nat
      /\ K \in Nat \ {0} /\ last \in Nat
  <2>1. curloopnum \in Nat
    BY LoopTypes
  <2>2. last \in 0 .. curloopnum
    BY DEF KInv, HeardPlay
  <2> HIDE DEF last
  <2>3. last \in Nat
    BY ONLY <2>1, <2>2
  <2> QED BY <2>1, <2>3, LoopTypes
<1>2. \A n \in Nat : n < curloopnum /\ n % K = 0 => last + maxUnresploop + maxPingWaitloopTime >= n
  BY DEF KInv, HeardPassed, Checked
<1>3. SUFFICES curloopnum <= last + maxUnresploop + maxPingWaitloopTime + K
  OBVIOUS
<1> HIDE DEF last, K
<1>4. CASE curloopnum < K
  BY ONLY <1>1, <1>4
<1>5. CASE curloopnum >= K
  <2>1. PICK k \in Nat : k < curloopnum /\ k % K = 0 /\ curloopnum <= k + K
    BY <1>1, <1>5, LastCheck
  <2>2. last + maxUnresploop + maxPingWaitloopTime >= k
    BY <1>2, <2>1
  <2> QED BY ONLY <1>1, <2>1, <2>2
<1> QED BY ONLY <1>1, <1>4, <1>5

(* No client that has been heard stays in the game longer than both waits  *)
(* and one check period after that.                                        *)
THEOREM DroppedInTime == Spec => []SilentClientsDropped
<1>1. Spec => []KInv
  BY KInit, KNext, Invariance, PTL DEF Spec
<1> QED BY <1>1, HeardInTime, Invariance, PTL

(* A client that was heard is dropped only after a ping that it has not    *)
(* answered, provided the server waits for the answer at least as long as  *)
(* from one check to the next.                                             *)
THEOREM DroppedAfterPing ==
  ASSUME maxPingWaitloopTime >= checkCliStatusEverySecs
  PROVE  Spec => KickOnlyAfterPing
<1>1. Spec => []KInv
  BY KInit, KNext, Invariance, PTL DEF Spec
<1>2. IInv /\ KInv /\ [Next]_vars => [\A c \in heard : Kicked(c) => c \in pinged]_vars
  BY KickedWasPinged
<1> QED BY <1>1, <1>2, Invariance, PTL DEF Spec, KickOnlyAfterPing
=============================================================================
