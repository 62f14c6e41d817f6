---------------------------- MODULE StartupProofs ---------------------------
(***************************************************************************)
(* loadKeymap for any file and any tables of names, and the start of both  *)
(* programs with any files, among any other processes.                     *)
(***************************************************************************)
EXTENDS Startup, SequenceTheorems, WellFoundedInduction, TLAPS

KInv == TypeOK /\ BoundAsRead

LEMMA FuncOfType ==
  ASSUME NEW l \in Binding
  PROVE  FuncOf(l) \in FuncID
BY KeymapAssumption DEF FuncOf, getFuncIDfromStr, FuncID, FUNCID_INVALID, Binding

LEMMA KeyIDType ==
  ASSUME NEW key \in KeyText
  PROVE  /\ getKeyID(key) \in EventID \cup {-1}
         /\ getKeyID(key) \in EventID => key \in KeyName /\ getKeyID(key) = kmap[key]
         /\ getKeyID(key) = -1 => key \notin KeyName
BY KeymapAssumption DEF getKeyID, EventID

LEMMA KeymapInit == Init => KInv
BY KeymapAssumption
   DEF Init, KInv, TypeOK, BoundAsRead, FuncID, FUNCID_INVALID

(* The lines before the one that is read keep what they say.               *)
LEMMA Appended ==
  ASSUME TypeOK, NEW l \in Line, lines' = Append(lines, l)
  PROVE  /\ lines' \in Seq(Line) /\ Len(lines') = Len(lines) + 1 /\ Len(lines) \in Nat
         /\ DOMAIN lines = 1 .. Len(lines) /\ DOMAIN lines' = 1 .. Len(lines) + 1
         /\ \A i \in DOMAIN lines : lines'[i] = lines[i] /\ i # Len(lines) + 1
         /\ lines'[Len(lines) + 1] = l
BY DEF TypeOK

(* A line that binds k is the last for k from then on.                     *)
LEMMA BoundByLine ==
  ASSUME TypeOK, BoundAsRead, NEW l \in Binding, lines' = Append(lines, l),
         ~Refused(l), registerEvent(getKeyID(l.key), FuncOf(l))
  PROVE  BoundAsRead'
<1> SUFFICES ASSUME NEW k \in EventID
             PROVE  \/ /\ ev2funcid'[k] = FUNCID_INVALID
                       /\ \A i \in DOMAIN lines' : ~Binds(lines'[i], k)
                    \/ \E i \in DOMAIN lines' :
                         /\ Binds(lines'[i], k) /\ ev2funcid'[k] = FuncOf(lines'[i])
                         /\ \A j \in DOMAIN lines' : j > i => ~Binds(lines'[j], k)
  BY DEF BoundAsRead
<1> DEFINE n == Len(lines) + 1
<1>1. l \in Line /\ l.kind = "binding" /\ l.key \in KeyText
  BY DEF Line, Binding
<1>2. /\ DOMAIN lines' = DOMAIN lines \cup {n} /\ n \in Nat
      /\ \A i \in DOMAIN lines : i < n /\ i \in Nat /\ lines'[i] = lines[i]
      /\ lines'[n] = l
  BY <1>1, Appended
<1>3. getKeyID(l.key) # SDLK_UNKNOWN /\ FuncOf(l) # FUNCID_INVALID
  BY <1>1 DEF Refused
<1>4. CASE getKeyID(l.key) = k
  <2>1. l.key \in KeyName /\ kmap[l.key] = k /\ k # SDLK_UNKNOWN
    BY <1>1, <1>3, <1>4, KeyIDType
  <2>2. Binds(l, k)
    BY <1>1, <1>3, <2>1 DEF Binds
  <2>3. ev2funcid' = [ev2funcid EXCEPT ![k] = FuncOf(l)]
    BY <1>4, KeymapAssumption DEF registerEvent, EventID
  <2>4. ev2funcid'[k] = FuncOf(lines'[n])
    BY <1>2, <2>3 DEF TypeOK
  <2>5. \A j \in DOMAIN lines' : ~(j > n)
    BY <1>2
  <2> QED BY <1>2, <2>2, <2>4, <2>5
<1>5. CASE getKeyID(l.key) # k
  <2>1. ~Binds(l, k)
    BY <1>5 DEF Binds, getKeyID
  <2>2. ev2funcid'[k] = ev2funcid[k]
    BY <1>5 DEF registerEvent, TypeOK
  <2>3. \A i \in DOMAIN lines : Binds(lines'[i], k) <=> Binds(lines[i], k)
    BY <1>2
  <2>4. CASE /\ ev2funcid[k] = FUNCID_INVALID
             /\ \A i \in DOMAIN lines : ~Binds(lines[i], k)
    BY <1>2, <2>1, <2>2, <2>3, <2>4
  <2>5. CASE \E i \in DOMAIN lines :
               /\ Binds(lines[i], k) /\ ev2funcid[k] = FuncOf(lines[i])
               /\ \A j \in DOMAIN lines : j > i => ~Binds(lines[j], k)
    <3>1. PICK i \in DOMAIN lines :
            /\ Binds(lines[i], k) /\ ev2funcid[k] = FuncOf(lines[i])
            /\ \A j \in DOMAIN lines : j > i => ~Binds(lines[j], k)
      BY <2>5
    <3>2. i \in DOMAIN lines' /\ Binds(lines'[i], k) /\ ev2funcid'[k] = FuncOf(lines'[i])
      BY <1>2, <2>2, <2>3, <3>1
    <3>3. \A j \in DOMAIN lines' : j > i => ~Binds(lines'[j], k)
      BY <1>2, <2>1, <2>3, <3>1
    <3> QED BY <3>2, <3>3
  <2> QED BY <2>4, <2>5 DEF BoundAsRead
<1> QED BY <1>4, <1>5

(* A line that binds nothing leaves every key as it is.                    *)
LEMMA UnboundByLine ==
  ASSUME TypeOK, BoundAsRead, NEW l \in Line, lines' = Append(lines, l),
         l.kind = "binding" => Refused(l), UNCHANGED ev2funcid
  PROVE  BoundAsRead'
<1> SUFFICES ASSUME NEW k \in EventID
             PROVE  \/ /\ ev2funcid[k] = FUNCID_INVALID
                       /\ \A i \in DOMAIN lines' : ~Binds(lines'[i], k)
                    \/ \E i \in DOMAIN lines' :
                         /\ Binds(lines'[i], k) /\ ev2funcid[k] = FuncOf(lines'[i])
                         /\ \A j \in DOMAIN lines' : j > i => ~Binds(lines'[j], k)
  BY DEF BoundAsRead
<1> DEFINE n == Len(lines) + 1
<1>1. /\ DOMAIN lines' = DOMAIN lines \cup {n} /\ n \in Nat
      /\ \A i \in DOMAIN lines : i < n /\ i \in Nat /\ lines'[i] = lines[i]
      /\ lines'[n] = l
  BY Appended
<1>2. ~Binds(l, k)
  BY DEF Binds, Refused, getKeyID
<1>3. \A i \in DOMAIN lines : Binds(lines'[i], k) <=> Binds(lines[i], k)
  BY <1>1
<1>4. CASE ev2funcid[k] = FUNCID_INVALID /\ \A i \in DOMAIN lines : ~Binds(lines[i], k)
  BY <1>1, <1>2, <1>3, <1>4
<1>5. CASE \E i \in DOMAIN lines :
             /\ Binds(lines[i], k) /\ ev2funcid[k] = FuncOf(lines[i])
             /\ \A j \in DOMAIN lines : j > i => ~Binds(lines[j], k)
  <2>1. PICK i \in DOMAIN lines :
          /\ Binds(lines[i], k) /\ ev2funcid[k] = FuncOf(lines[i])
          /\ \A j \in DOMAIN lines : j > i => ~Binds(lines[j], k)
    BY <1>5
  <2>2. i \in DOMAIN lines' /\ Binds(lines'[i], k) /\ ev2funcid[k] = FuncOf(lines'[i])
    BY <1>1, <1>3, <2>1
  <2>3. \A j \in DOMAIN lines' : j > i => ~Binds(lines'[j], k)
    BY <1>1, <1>2, <1>3, <2>1
  <2> QED BY <2>2, <2>3
<1> QED BY <1>4, <1>5 DEF BoundAsRead

LEMMA KeymapNext == KInv /\ [Next]_vars => KInv'
<1> SUFFICES ASSUME KInv, [Next]_vars PROVE KInv'
  OBVIOUS
<1> USE DEF KInv
<1>1. ASSUME NEW l \in Line, ReadLine(l) PROVE KInv'
  <2>1. lines' = Append(lines, l) /\ err = "reading"
    BY <1>1 DEF ReadLine
  <2>2. CASE ~Refused(l) /\ l.kind = "binding"
    <3>1. l \in Binding /\ l.key \in KeyText /\ FuncOf(l) \in FuncID
      BY <2>2, FuncOfType DEF Line, Binding
    <3>2. registerEvent(getKeyID(l.key), FuncOf(l)) /\ UNCHANGED err
      BY <1>1, <2>2 DEF ReadLine
    <3>3. TypeOK'
      BY <2>1, <3>1, <3>2 DEF TypeOK, registerEvent
    <3>4. BoundAsRead'
      BY <2>1, <2>2, <3>1, <3>2, BoundByLine
    <3> QED BY <3>3, <3>4
  <2>3. CASE Refused(l) \/ l.kind # "binding"
    <3>1. UNCHANGED <<ev2funcid, wordBefore>>
      BY <1>1, <2>3 DEF ReadLine
    <3>2. err' \in {err, "-1"}
      BY <1>1, <2>3 DEF ReadLine, Refused
    <3>3. TypeOK'
      BY <2>1, <3>1, <3>2 DEF TypeOK
    <3>4. BoundAsRead'
      BY <2>1, <2>3, <3>1, UnboundByLine
    <3> QED BY <3>3, <3>4
  <2> QED BY <2>2, <2>3
<1>2. CASE EndOfFile
  BY <1>2 DEF EndOfFile, TypeOK, BoundAsRead, Binds
<1>3. CASE Loaded \/ UNCHANGED vars
  BY <1>3 DEF Loaded, vars, TypeOK, BoundAsRead, Binds
<1> QED BY <1>1, <1>2, <1>3 DEF Next

(* Every function in the table is a function id, as EventMap takes it to   *)
(* be when it looks a key up.                                              *)
THEOREM KeymapTypeCorrect == Spec => []TypeOK
BY KeymapInit, KeymapNext, PTL DEF Spec, KInv

(* Each key has the function of the last line that names it, at every      *)
(* moment of the load and after it.                                        *)
THEOREM KeysBoundAsRead == Spec => []BoundAsRead
BY KeymapInit, KeymapNext, PTL DEF Spec, KInv

-----------------------------------------------------------------------------
(* The list of descriptions is the file's, last one first.                 *)

LEMMA LeastOfNat ==
  ASSUME NEW S, S \subseteq Nat, S # {}
  PROVE  \E n \in S : \A m \in S : n <= m
<1>1. \E n \in S : \A m \in S : ~(<<m, n>> \in OpToRel(<, Nat))
  BY NatLessThanWellFounded, WFMin
<1>2. PICK n \in S : \A m \in S : ~(<<m, n>> \in OpToRel(<, Nat))
  BY <1>1
<1>3. \A m \in S : ~(m < n)
  BY <1>2 DEF OpToRel
<1> QED BY <1>3

LEMMA ListReversed ==
  ASSUME NEW m, NEW S, m.objects \in Seq(S)
  PROVE  objList(m) = [i \in 1 .. Len(m.objects) |-> m.objects[Len(m.objects) + 1 - i]]
<1> DEFINE N == Len(m.objects)
           Reversed(n) == [i \in 1 .. n |-> m.objects[n + 1 - i]]
           G == [n \in 0 .. N |-> Reversed(n)]
           F == CHOOSE f : f = [n \in 0 .. N |->
                  IF n = 0 THEN <<>> ELSE insertObjInfo(f[n - 1], m.objects[n])]
<1>0. N \in Nat /\ m.objects \in [1 .. N -> S]
  OBVIOUS
<1>1. \A n \in 1 .. N : insertObjInfo(Reversed(n - 1), m.objects[n]) = Reversed(n)
  <2> SUFFICES ASSUME NEW n \in 1 .. N
               PROVE  insertObjInfo(Reversed(n - 1), m.objects[n]) = Reversed(n)
    OBVIOUS
  <2>1. Reversed(n - 1) \in Seq(S) /\ Len(Reversed(n - 1)) = n - 1
    BY <1>0
  <2>2. m.objects[n] \in S
    BY <1>0
  <2> QED BY <1>0, <2>1, <2>2 DEF insertObjInfo
<1>2. Reversed(0) = <<>>
  BY <1>0
<1>3. G = [n \in 0 .. N |-> IF n = 0 THEN <<>> ELSE insertObjInfo(G[n - 1], m.objects[n])]
  <2> SUFFICES ASSUME NEW n \in 0 .. N
               PROVE  Reversed(n) = IF n = 0 THEN <<>> ELSE insertObjInfo(G[n - 1], m.objects[n])
    OBVIOUS
  <2>1. CASE n = 0
    BY <1>2, <2>1
  <2>2. CASE n # 0
    <3>1. n \in 1 .. N /\ n - 1 \in 0 .. N
      BY <1>0, <2>2
    <3>2. G[n - 1] = Reversed(n - 1)
      BY <3>1
    <3> QED BY <1>1, <2>2, <3>1, <3>2
  <2> QED BY <2>1, <2>2
<1>4. F = [n \in 0 .. N |-> IF n = 0 THEN <<>> ELSE insertObjInfo(F[n - 1], m.objects[n])]
  <2> HIDE DEF G
  <2> QED BY <1>3
<1>5. \A n \in 0 .. N : F[n] = G[n]
  <2> SUFFICES ASSUME {n \in 0 .. N : F[n] # G[n]} # {} PROVE FALSE
    OBVIOUS
  <2> HIDE DEF G, F
  <2>1. PICK n \in 0 .. N :
          F[n] # G[n] /\ \A k \in {j \in 0 .. N : F[j] # G[j]} : n <= k
    <3>1. {n \in 0 .. N : F[n] # G[n]} \subseteq Nat
      BY <1>0
    <3> QED BY <3>1, LeastOfNat
  <2>2. n # 0 => n - 1 \in 0 .. N /\ ~(n <= n - 1)
    BY <1>0
  <2>3. n # 0 => F[n - 1] = G[n - 1]
    BY <2>1, <2>2
  <2>4. F[n] = IF n = 0 THEN <<>> ELSE insertObjInfo(F[n - 1], m.objects[n])
    BY <1>4
  <2>5. G[n] = IF n = 0 THEN <<>> ELSE insertObjInfo(G[n - 1], m.objects[n])
    BY <1>3
  <2> QED BY <2>1, <2>3, <2>4, <2>5
<1>6. objList(m) = F[N]
  BY DEF objList
<1>7. F[N] = Reversed(N)
  <2>1. N \in 0 .. N
    BY <1>0
  <2> HIDE DEF F
  <2> QED BY <1>5, <2>1
<1> QED BY <1>6, <1>7

LEMMA LeastIs ==
  ASSUME NEW S, S \subseteq Nat, NEW k \in S, \A j \in S : k <= j
  PROVE  Min(S) = k
<1>1. \E x \in S : \A y \in S : x =< y
  OBVIOUS
<1>2. Min(S) \in S /\ \A j \in S : Min(S) =< j
  BY <1>1 DEF Min
<1>3. PICK n \in Nat : n = Min(S)
  BY <1>2
<1> QED BY <1>2, <1>3

LEMMA GreatestIs ==
  ASSUME NEW S, S \subseteq Nat, NEW k \in S, \A j \in S : k >= j
  PROVE  Max(S) = k
<1>1. \E x \in S : \A y \in S : x >= y
  OBVIOUS
<1>2. Max(S) \in S /\ \A j \in S : Max(S) >= j
  BY <1>1 DEF Max
<1>3. PICK n \in Nat : n = Max(S)
  BY <1>2
<1> QED BY <1>2, <1>3

Described(m, type, id) ==
  {k \in DOMAIN m.objects : m.objects[k].type = type /\ m.objects[k].id = id}

(* The first match from the head is the last of the file.                  *)
LEMMA LastOfFile ==
  ASSUME NEW m, NEW S, m.objects \in Seq(S), m.objects # <<>>, NEW type, NEW id
  PROVE  LET mine == Described(m, type, id)
             k == Max(IF mine # {} THEN mine ELSE DOMAIN m.objects)
         IN  k \in DOMAIN m.objects /\ getObj(m, type, id) = m.objects[k]
<1> DEFINE N == Len(m.objects)
           mine == Described(m, type, id)
           list == objList(m)
           found == {i \in DOMAIN list : list[i].type = type /\ list[i].id = id}
<1>1. /\ N \in Nat /\ N > 0 /\ DOMAIN m.objects = 1 .. N
      /\ list = [i \in 1 .. N |-> m.objects[N + 1 - i]] /\ DOMAIN list = 1 .. N
  BY ListReversed
<1>a. \A i : i \in 1 .. N => N + 1 - i \in 1 .. N /\ N + 1 - (N + 1 - i) = i
  BY <1>1
<1>b. \A i \in 1 .. N : list[N + 1 - i] = m.objects[i] /\ list[i] = m.objects[N + 1 - i]
  BY <1>1, <1>a
<1>c. \A i \in 1 .. N : (i \in mine <=> N + 1 - i \in found) /\ (i \in found <=> N + 1 - i \in mine)
  BY <1>1, <1>a, <1>b DEF Described
<1>d. mine \subseteq 1 .. N /\ found \subseteq 1 .. N
  BY <1>1 DEF Described
<1> HIDE DEF list, N
<1>2. CASE mine # {}
  <2>1. found # {}
    BY <1>2, <1>c, <1>d
  <2>2. found \subseteq Nat /\ mine \subseteq Nat
    BY <1>1, <1>d
  <2>3. PICK f \in found : \A j \in found : f <= j
    BY <2>1, <2>2, LeastOfNat
  <2>4. f \in 1 .. N
    BY <1>d
  <2>5. Min(found) = f
    BY <2>2, <2>3, LeastIs
  <2>6. N + 1 - f \in mine
    BY <1>c, <2>4
  <2>7. ASSUME NEW j \in mine PROVE N + 1 - f >= j
    <3>1. j \in 1 .. N /\ N + 1 - j \in found
      BY <1>c, <1>d
    <3>2. f <= N + 1 - j
      BY <2>3, <3>1
    <3> QED BY <1>1, <2>4, <3>1, <3>2
  <2>9. Max(mine) = N + 1 - f
    BY <2>2, <2>6, <2>7, GreatestIs
  <2>10. getObj(m, type, id) = list[f]
    BY <2>1, <2>5 DEF getObj, list
  <2>11. list[f] = m.objects[N + 1 - f] /\ N + 1 - f \in DOMAIN m.objects
    BY <1>1, <1>a, <1>b, <2>4
  <2> QED BY <1>2, <2>9, <2>10, <2>11
<1>3. CASE mine = {}
  <2>1. found = {}
    BY <1>3, <1>c, <1>d
  <2>2. list # <<>> /\ Head(list) = list[1]
    BY <1>1
  <2>3. getObj(m, type, id) = list[1]
    BY <2>1, <2>2 DEF getObj, list
  <2>4. Max(1 .. N) = N
    BY <1>1, GreatestIs
  <2> QED BY <1>1, <1>3, <2>3, <2>4
<1> QED BY <1>2, <1>3

-----------------------------------------------------------------------------
(* The start of both programs reads the key map as loadKeymap does, and    *)
(* leaves it alone otherwise.                                              *)
LEMMA LaunchReadsKeymap == LaunchNext \/ UNCHANGED launchVars => [Next]_vars
BY DEF LaunchNext, launchVars, ClientStep, ReadKeymap, UserQuits, ServerStep, OtherStep, Next

(* So every start is, for the key map, a run of loadKeymap.                *)
THEOREM LaunchLoadsKeymap == LaunchSpec => Spec
<1>1. LaunchInit => Init
  BY DEF LaunchInit
<1>2. [LaunchNext]_launchVars => [Next]_vars
  BY LaunchReadsKeymap
<1> QED BY <1>1, <1>2, PTL DEF LaunchSpec, Spec

(* A server that has got past its map has one; a server there is has its   *)
(* number in srvpid, which is set once.                                    *)
MapRead == server \in {"bind", "aijoin", "serving"} => mapFile # NULL
PidKnown ==
  /\ srvpid = "none" => server = "none"
  /\ client = "main" => srvpid = "none"

(* Players start when the server has its map, which stays.                 *)
NobodyYet == server \in {"none", "child", "main", "bind"} => started = <<>>

LInv ==
  /\ LaunchTypeOK /\ MapRead /\ PidKnown /\ QuitEndsOwnServer
  /\ NobodyYet /\ StartsFromItsDescription

LEMMA LaunchStart == LaunchInit => LInv
<1> SUFFICES ASSUME LaunchInit PROVE LInv
  OBVIOUS
<1>1. TypeOK
  BY KeymapInit DEF LaunchInit, KInv
<1>2. started = <<>> /\ map = NoMap
  BY DEF LaunchInit
<1>3. map \in [result : {"NULL", "map"}, objects : Seq(ObjInfo)] /\ started \in Seq(ObjInfo)
  BY <1>2 DEF NoMap
<1>4. StartsFromItsDescription
  BY <1>2 DEF StartsFromItsDescription
<1> QED BY <1>1, <1>2, <1>3, <1>4
     DEF LaunchInit, LInv, LaunchTypeOK, ClientPlaces, MapRead, PidKnown, QuitEndsOwnServer, NobodyYet

LEMMA StartsKept ==
  StartsFromItsDescription /\ UNCHANGED <<map, started>> => StartsFromItsDescription'
BY DEF StartsFromItsDescription

LEMMA QuitKeeps == LInv /\ TypeOK' /\ Quit /\ UNCHANGED mapFile => LInv'
<1>1. LInv /\ Quit => StartsFromItsDescription'
  BY StartsKept DEF LInv, Quit
<1> QED BY <1>1 DEF LInv, LaunchTypeOK, ClientPlaces, MapRead, PidKnown, NobodyYet, QuitEndsOwnServer, Quit, ServerEnds

LEMMA GoToKeeps ==
  ASSUME LInv, TypeOK', NEW c \in ClientPlaces \ {"main", "quit"}, GoTo(c), UNCHANGED mapFile
  PROVE  LInv'
<1>1. StartsFromItsDescription'
  BY StartsKept DEF LInv, GoTo, serverMain
<1> QED BY <1>1 DEF LInv, LaunchTypeOK, MapRead, PidKnown, NobodyYet, QuitEndsOwnServer, GoTo, serverMain

LEMMA ClientKeeps == LInv /\ TypeOK' /\ ClientStep => LInv'
<1> SUFFICES ASSUME LInv, TypeOK', ClientStep PROVE LInv'
  OBVIOUS
<1> USE DEF LInv, LaunchTypeOK, MapRead, PidKnown, NobodyYet, QuitEndsOwnServer, serverMain
<1>0. UNCHANGED mapFile
  BY DEF ClientStep
<1>1. CASE client = "main" /\ fork_server
  <2>1. StartsFromItsDescription'
    BY <1>1, StartsKept DEF fork_server
  <2>2. client' = "video" /\ UNCHANGED <<killed, mapName, join, map, started, port>>
    BY <1>1 DEF fork_server
  <2>3. (srvpid' = "own" /\ server' = "child") \/ UNCHANGED <<srvpid, server>>
    BY <1>1 DEF fork_server
  <2>4. started = <<>>
    BY <1>1
  <2> QED BY <1>0, <1>1, <2>1, <2>2, <2>3, <2>4 DEF ClientPlaces
<1>2. CASE client = "connect" /\ Connect
  <2>1. CASE Quit
    BY <1>0, <2>1, QuitKeeps
  <2>2. CASE ~Quit
    <3>1. Sent \in {"refused", "atOwn", "atOther"}
      BY DEF Sent
    <3>2. StartsFromItsDescription'
      BY <1>2, <2>2, StartsKept DEF Connect
    <3> QED BY <1>0, <1>2, <2>2, <3>1, <3>2 DEF Connect, ClientPlaces
  <2> QED BY <2>1, <2>2
<1>3. CASE Quit
  BY <1>0, <1>3, QuitKeeps
<1>4. ASSUME NEW c \in ClientPlaces \ {"main", "quit"}, GoTo(c) PROVE LInv'
  BY <1>0, <1>4, GoToKeeps
<1>5. CASE UNCHANGED <<clientMain, join, serverMain, port>>
  <2>1. StartsFromItsDescription'
    BY <1>5, StartsKept
  <2> QED BY <1>0, <1>5, <2>1 DEF clientMain
<1>6. \/ client = "main" /\ fork_server
      \/ client = "connect" /\ Connect
      \/ Quit
      \/ \E c \in ClientPlaces \ {"main", "quit"} : GoTo(c)
      \/ UNCHANGED <<clientMain, join, serverMain, port>>
  BY DEF ClientStep, SetVideo, LoadDefaultMap, doHandshake, LoadNamedMap, LoadTerrain, NewPanel,
         ClientPlaces
<1> QED BY <1>1, <1>2, <1>3, <1>4, <1>5, <1>6

(* Only a file that was parsed gives a map, and its list holds objects.    *)
LEMMA MapsRead ==
  ASSUME NEW file \in Document, NEW m \in loadMap(file), m.result = "map"
  PROVE  file # NULL /\ m \in [result : {"NULL", "map"}, objects : Seq(ObjInfo)]
<1>1. file # NULL /\ \E d \in readMap(file) : m = MapOf(d)
  BY DEF loadMap, NoMap, Abort
<1>2. PICK d \in readMap(file) : m = MapOf(d)
  BY <1>1
<1>3. file.objects \in Seq(Element)
  BY <1>1, StartupAssumption DEF MapFile
<1>4. ASSUME NEW e \in Element, NEW o \in readObject(e) PROVE o \in ObjInfo
  <2>1. readInt(e.id) \subseteq ObjID /\ readTriplet(e.loc) \subseteq Location
    BY DEF readInt, readTriplet, Element
  <2>2. PICK i \in readInt(e.id), l \in readTriplet(e.loc) : o = [type |-> e.type, id |-> i, loc |-> l]
    BY DEF readObject
  <2>3. e.type \in objtypes_arr
    BY DEF readObject, lookupObjType
  <2> QED BY <2>1, <2>2, <2>3 DEF ObjInfo
<1>5. DOMAIN d = 1 .. Len(file.objects) /\ Len(file.objects) \in Nat
  BY <1>3 DEF readMap
<1>6. \A i \in 1 .. Len(file.objects) : d[i] \in ObjInfo
  BY <1>3, <1>4 DEF readMap
<1>7. d \in Seq(ObjInfo)
  BY <1>5, <1>6, SeqDef DEF readMap
<1> QED BY <1>1, <1>2, <1>7 DEF MapOf

(* A player starts from the description its slot's number finds.           *)
LEMMA NewPlayerKeeps ==
  ASSUME LInv, server \in {"aijoin", "serving"}, NEW o, o = getObj(map, "player", Len(started)),
         NewPlayer(o), UNCHANGED map
  PROVE  started' \in Seq(ObjInfo) /\ StartsFromItsDescription'
<1> DEFINE n == Len(started)
           From(id) == LET mine == Described(map, "player", id)
                       IN  map.objects[Max(IF mine # {} THEN mine ELSE DOMAIN map.objects)]
<1>1. /\ started \in Seq(ObjInfo) /\ map.objects \in Seq(ObjInfo)
      /\ \A i \in DOMAIN started : started[i] = From(i - 1)
  BY DEF LInv, LaunchTypeOK, StartsFromItsDescription, Described
<1>2. o # NULL /\ started' = Append(started, o)
  BY DEF NewPlayer
<1>3. map.objects # <<>>
  <2> SUFFICES ASSUME map.objects = <<>> PROVE o = NULL
    BY <1>2
  <2>1. objList(map) = [i \in 1 .. Len(map.objects) |-> map.objects[Len(map.objects) + 1 - i]]
    BY <1>1, ListReversed
  <2>2. Len(map.objects) = 0
    OBVIOUS
  <2>3. objList(map) = <<>>
    BY <2>1, <2>2
  <2>4. {i \in DOMAIN objList(map) :
           objList(map)[i].type = "player" /\ objList(map)[i].id = Len(started)} = {}
    BY <2>3
  <2> QED BY <2>3, <2>4 DEF getObj
<1>4. o = From(n) /\ o \in ObjInfo
  BY <1>1, <1>3, LastOfFile
<1>5. /\ started' \in Seq(ObjInfo) /\ n \in Nat /\ DOMAIN started' = DOMAIN started \cup {n + 1}
      /\ started'[n + 1] = o /\ \A i \in DOMAIN started : started'[i] = started[i]
  BY <1>1, <1>2, <1>4
<1> HIDE DEF From, n
<1>6. \A i \in DOMAIN started' : started'[i] = From(i - 1)
  BY <1>1, <1>4, <1>5
<1> QED BY <1>5, <1>6 DEF StartsFromItsDescription, From, Described

LEMMA ServerKeeps == LInv /\ TypeOK' /\ ServerStep => LInv'
<1> SUFFICES ASSUME LInv, TypeOK', ServerStep PROVE LInv'
  OBVIOUS
<1> USE DEF LInv, LaunchTypeOK, MapRead, PidKnown, NobodyYet, QuitEndsOwnServer
<1>0. UNCHANGED <<mapFile, client, srvpid, killed>>
  BY DEF ServerStep
<1>1. CASE ServerEnds /\ server # "none" /\ UNCHANGED <<map, started, mapName>>
  <2>1. StartsFromItsDescription'
    BY <1>1, StartsKept
  <2> QED BY <1>0, <1>1, <2>1 DEF ServerEnds
<1>2. CASE server = "child" /\ Exec /\ UNCHANGED mapName
  <2>1. UNCHANGED <<map, started>>
    BY <1>2 DEF Exec
  <2>2. StartsFromItsDescription'
    BY <2>1, StartsKept
  <2> QED BY <1>0, <1>1, <1>2, <2>1, <2>2 DEF Exec
<1>3. CASE server = "main" /\ LoadServerMap /\ UNCHANGED mapName
  <2>1. PICK m \in loadMap(mapFile) :
          \/ m.result = "map" /\ server' = "bind" /\ map' = m /\ UNCHANGED <<started, port, join>>
          \/ m.result # "map" /\ ServerEnds /\ UNCHANGED <<map, started>>
    BY <1>3 DEF LoadServerMap
  <2>2. CASE m.result = "map"
    <3>1. mapFile # NULL /\ m \in [result : {"NULL", "map"}, objects : Seq(ObjInfo)]
      BY <2>2, MapsRead
    <3>2. started' = <<>>
      BY <1>3, <2>1, <2>2
    <3>3. StartsFromItsDescription'
      BY <3>2 DEF StartsFromItsDescription
    <3> QED BY <1>0, <1>3, <2>1, <2>2, <3>1, <3>2, <3>3
  <2> QED BY <1>1, <1>3, <2>1, <2>2
<1>4. CASE server = "bind" /\ Bind /\ UNCHANGED mapName
  <2>1. UNCHANGED <<map, started>>
    BY <1>4 DEF Bind
  <2>2. StartsFromItsDescription'
    BY <2>1, StartsKept
  <2> QED BY <1>0, <1>1, <1>4, <2>1, <2>2 DEF Bind
<1>5. CASE server = "aijoin" /\ aiClientJoin /\ UNCHANGED map
  <2>1. CASE Len(started) < NumAICs /\ addPlayer(UNCHANGED <<join, mapName>>)
    <3>1. CASE NewPlayer(getObj(map, "player", Len(started))) /\ UNCHANGED <<join, mapName, server, port>>
      <4>1. started' \in Seq(ObjInfo) /\ StartsFromItsDescription'
        BY <1>5, <3>1, NewPlayerKeeps
      <4> QED BY <1>0, <1>5, <3>1, <4>1
    <3> QED BY <1>1, <1>5, <2>1, <3>1 DEF addPlayer
  <2>2. CASE server' = "serving" /\ UNCHANGED <<started, port, join, mapName>>
    <3>1. StartsFromItsDescription'
      BY <1>5, <2>2, StartsKept
    <3> QED BY <1>0, <1>5, <2>2, <3>1
  <2> QED BY <1>5, <2>1, <2>2 DEF aiClientJoin
<1>6. CASE server = "serving" /\ welcomeClient /\ UNCHANGED map
  <2>1. mapFile.name \in MapName
    BY <1>6, StartupAssumption
  <2>2. CASE /\ NewPlayer(getObj(map, "player", Len(started)))
             /\ join' = "welcome" /\ mapName' = mapFile.name /\ UNCHANGED <<server, port>>
    <3>1. started' \in Seq(ObjInfo) /\ StartsFromItsDescription'
      BY <1>6, <2>2, NewPlayerKeeps
    <3> QED BY <1>0, <1>6, <2>1, <2>2, <3>1
  <2> QED BY <1>1, <1>6, <2>2 DEF welcomeClient, addPlayer
<1> QED BY <1>2, <1>3, <1>4, <1>5, <1>6 DEF ServerStep, Exec, LoadServerMap, Bind

LEMMA LaunchKeeps == LInv /\ TypeOK' /\ [LaunchNext]_launchVars => LInv'
<1> SUFFICES ASSUME LInv, TypeOK', [LaunchNext]_launchVars PROVE LInv'
  OBVIOUS
<1>1. CASE ClientStep
  BY <1>1, ClientKeeps
<1>2. CASE UserQuits
  BY <1>2, QuitKeeps DEF UserQuits
<1>3. CASE ServerStep
  BY <1>3, ServerKeeps
<1>4. CASE OtherStep
  <2>1. StartsFromItsDescription'
    BY <1>4, StartsKept DEF OtherStep, serverMain, LInv
  <2> QED BY <1>4, <2>1
       DEF OtherStep, OtherStarts, OtherStops, OtherAnswers, LInv, LaunchTypeOK, MapRead, PidKnown,
           NobodyYet, QuitEndsOwnServer, serverMain
<1>5. CASE UNCHANGED launchVars
  <2>1. StartsFromItsDescription'
    BY <1>5, StartsKept DEF launchVars, serverMain, LInv
  <2> QED BY <1>5, <2>1
       DEF launchVars, clientMain, serverMain, LInv, LaunchTypeOK, MapRead, PidKnown, NobodyYet,
           QuitEndsOwnServer
<1> QED BY <1>1, <1>2, <1>3, <1>4, <1>5 DEF LaunchNext

LEMMA LaunchAlways == LaunchSpec => []LInv
<1>1. LaunchSpec => []TypeOK
  BY LaunchLoadsKeymap, KeymapTypeCorrect
<1> QED BY <1>1, LaunchStart, LaunchKeeps, PTL DEF LaunchSpec

(* The types of the whole start, with any map file and any answer.         *)
THEOREM LaunchTypeCorrect == LaunchSpec => []LaunchTypeOK
BY LaunchAlways, PTL DEF LInv

(* Whatever fails on the way, a client that quits has ended the server it  *)
(* forked, and kills nothing else.                                         *)
THEOREM OwnServerEnded == LaunchSpec => []QuitEndsOwnServer
BY LaunchAlways, PTL DEF LInv

(* Whatever the map file says, a player starts from the last description   *)
(* of its slot, or from the last of all.                                   *)
THEOREM PlayersStartAsDescribed == LaunchSpec => []StartsFromItsDescription
BY LaunchAlways, PTL DEF LInv

(* In every start of the two programs each key has the function of the     *)
(* last line that names it: nothing that happens beside the load, and      *)
(* nothing after it, changes a key.                                        *)
THEOREM LaunchBindsKeys == LaunchSpec => []BoundAsRead
BY LaunchLoadsKeymap, KeysBoundAsRead, PTL
=============================================================================
