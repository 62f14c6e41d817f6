-------------------------- MODULE GameServerProofs --------------------------
(***************************************************************************)
(* Proofs about GameServer, for every value of its constants.              *)
(***************************************************************************)
EXTENDS GameServer, SequenceTheorems, TLAPS

(* The event list being handled belongs to a client that is in the game.   *)
SenderPlays == phase = "events" => IsHuman(cid)

(* AI clients join only once the AI module exists.                         *)
AIModuleReady == phase = "aijoin" => aiModule # NULL

(* The inductive invariant: the invariants to be proved, strengthened with *)
(* what the program position implies.                                      *)
IInv ==
  /\ TypeOK
  /\ TablesAgree
  /\ ListedOnce
  /\ AIClientsStay
  /\ AIAddresses
  /\ OneSlotPerAddress
  /\ SenderPlays
  /\ AIModuleReady
  /\ NoBadPlayer

-----------------------------------------------------------------------------
(* The two operations on the engine's object lists, for lists without      *)
(* repetitions                                                             *)

(* addSentObject: pushing an element that is not in the list keeps the     *)
(* list free of repetitions and adds just that element.                    *)
LEMMA ConsFresh ==
  ASSUME NEW S, NEW s \in Seq(S), NEW e \in S,
         IsInjective(s), e \notin Range(s)
  PROVE  /\ Cons(e, s) \in Seq(S)
         /\ IsInjective(Cons(e, s))
         /\ Range(Cons(e, s)) = Range(s) \cup {e}
<1> DEFINE t == Cons(e, s)
<1>1. /\ <<e>> \in Seq(S) /\ Len(<<e>>) = 1 /\ <<e>>[1] = e
  OBVIOUS
<1>2. /\ t \in Seq(S)
      /\ Len(t) = Len(s) + 1
      /\ \A i \in 1 .. Len(s) + 1 : t[i] = IF i <= 1 THEN e ELSE s[i - 1]
  BY <1>1, ConcatProperties DEF Cons
<1> HIDE DEF t
<1>3. /\ DOMAIN t = 1 .. Len(s) + 1
      /\ DOMAIN s = 1 .. Len(s)
      /\ Len(s) \in Nat
  BY <1>2, LenProperties
<1>4. \A i \in DOMAIN s : s[i] # e
  BY DEF Range
<1>5. IsInjective(t)
  BY <1>2, <1>3, <1>4 DEF IsInjective
<1>6. Range(t) = Range(s) \cup {e}
  <2>1. ASSUME NEW x \in Range(t) PROVE x \in Range(s) \cup {e}
    BY <2>1, <1>2, <1>3 DEF Range
  <2>2. ASSUME NEW x \in Range(s) PROVE x \in Range(t)
    <3>1. PICK i \in DOMAIN s : s[i] = x
      BY DEF Range
    <3>2. i + 1 \in DOMAIN t /\ t[i + 1] = x
      BY <3>1, <1>2, <1>3
    <3> QED BY <3>2 DEF Range
  <2>3. e \in Range(t)
    <3>1. 1 \in DOMAIN t /\ t[1] = e
      BY <1>2, <1>3
    <3> QED BY <3>1 DEF Range
  <2> QED BY <2>1, <2>2, <2>3
<1> QED BY <1>2, <1>5, <1>6 DEF t

(* removeSentObject: in a list without repetitions it takes out exactly    *)
(* the element it is given.                                                *)
LEMMA RemoveFirstListed ==
  ASSUME NEW S, NEW s \in Seq(S), NEW e \in Range(s),
         IsInjective(s)
  PROVE  /\ RemoveFirst(s, e) \in Seq(S)
         /\ IsInjective(RemoveFirst(s, e))
         /\ Range(RemoveFirst(s, e)) = Range(s) \ {e}
<1> DEFINE n == Len(s)
           I == {i \in 1 .. n : s[i] = e}
           t == RemoveFirst(s, e)
<1>1. n \in Nat /\ DOMAIN s = 1 .. n /\ \A i \in 1 .. n : s[i] \in S
  BY LenProperties
<1>2. PICK k \in 1 .. n : s[k] = e
  BY <1>1 DEF Range
<1>3. I = {k}
  BY <1>1, <1>2 DEF IsInjective
<1>4. Min({k}) = k
  BY <1>2 DEF Min
<1>5. SelectInSeq(s, LAMBDA v : v = e) = k
  BY <1>3, <1>4 DEF SelectInSeq
<1>6. t = SubSeq(s, 1, k - 1) \o SubSeq(s, k + 1, n)
  BY <1>2, <1>5 DEF RemoveFirst, RemoveAt
<1> DEFINE u == SubSeq(s, 1, k - 1)
           v == SubSeq(s, k + 1, n)
<1>7. /\ u \in Seq(S) /\ Len(u) = k - 1
      /\ \A i \in 1 .. k - 1 : u[i] = s[i]
  <2>1. \A i \in 1 .. k - 1 : s[i] \in S
    BY <1>1, <1>2
  <2>2. /\ u \in Seq(S)
        /\ Len(u) = IF 1 <= k - 1 THEN (k - 1) - 1 + 1 ELSE 0
        /\ \A i \in 1 .. (k - 1) - 1 + 1 : u[i] = s[1 + i - 1]
    BY <2>1, <1>2, SubSeqProperties
  <2> QED BY <2>2, <1>2, <1>1
<1>8. /\ v \in Seq(S) /\ Len(v) = n - k
      /\ \A i \in 1 .. n - k : v[i] = s[k + i]
  <2>1. \A i \in k + 1 .. n : s[i] \in S
    BY <1>1, <1>2
  <2>2. /\ v \in Seq(S)
        /\ Len(v) = IF k + 1 <= n THEN n - (k + 1) + 1 ELSE 0
        /\ \A i \in 1 .. n - (k + 1) + 1 : v[i] = s[k + 1 + i - 1]
    BY <2>1, <1>1, <1>2, SubSeqProperties
  <2>3. n \in Nat /\ k \in 1 .. n
    BY <1>1, <1>2
  <2> HIDE DEF n, v
  <2>4. /\ (IF k + 1 <= n THEN n - (k + 1) + 1 ELSE 0) = n - k
        /\ n - (k + 1) + 1 = n - k
        /\ \A i \in 1 .. n - k : k + 1 + i - 1 = k + i
    BY <2>3
  <2> QED BY <2>2, <2>4
<1> HIDE DEF u, v
<1>9. /\ t \in Seq(S) /\ Len(t) = n - 1
      /\ \A i \in 1 .. n - 1 : t[i] = IF i < k THEN s[i] ELSE s[i + 1]
  <2>1. /\ u \o v \in Seq(S)
        /\ Len(u \o v) = Len(u) + Len(v)
        /\ \A i \in 1 .. Len(u) + Len(v) :
             (u \o v)[i] = IF i <= Len(u) THEN u[i] ELSE v[i - Len(u)]
    BY <1>7, <1>8, ConcatProperties
  <2>2. t = u \o v
    BY <1>6 DEF u, v
  <2>3. Len(u) + Len(v) = n - 1
    BY <1>1, <1>2, <1>7, <1>8
  <2>4. t \in Seq(S) /\ Len(t) = n - 1
    BY <2>1, <2>2, <2>3
  <2>5. ASSUME NEW i \in 1 .. n - 1
        PROVE  t[i] = IF i < k THEN s[i] ELSE s[i + 1]
    <3>1. t[i] = IF i <= k - 1 THEN u[i] ELSE v[i - (k - 1)]
      BY <2>1, <2>2, <2>3, <1>7
    <3>2. CASE i < k
      BY <3>1, <3>2, <1>1, <1>2, <1>7
    <3>3. CASE ~(i < k)
      <4>1. i - (k - 1) \in 1 .. n - k /\ k + (i - (k - 1)) = i + 1
        BY <3>3, <1>1, <1>2
      <4>2. v[i - (k - 1)] = s[i + 1]
        BY <4>1, <1>8
      <4> HIDE DEF t
      <4> QED BY <3>1, <3>3, <4>2, <1>1, <1>2
    <3> QED BY <3>2, <3>3
  <2> HIDE DEF t
  <2> QED BY <2>4, <2>5
<1> HIDE DEF t
<1>10. DOMAIN t = 1 .. n - 1
  BY <1>9, LenProperties
<1>11. IsInjective(t)
  <2>1. ASSUME NEW i \in 1 .. n - 1, NEW j \in 1 .. n - 1, t[i] = t[j]
        PROVE  i = j
    <3>1. t[i] = s[IF i < k THEN i ELSE i + 1]
          /\ t[j] = s[IF j < k THEN j ELSE j + 1]
      BY <1>9
    <3>2. (IF i < k THEN i ELSE i + 1) \in DOMAIN s
          /\ (IF j < k THEN j ELSE j + 1) \in DOMAIN s
      BY <1>1, <1>2
    <3>3. (IF i < k THEN i ELSE i + 1) = (IF j < k THEN j ELSE j + 1)
      BY <2>1, <3>1, <3>2 DEF IsInjective
    <3> QED BY <3>3, <1>1, <1>2
  <2> QED BY <2>1, <1>10 DEF IsInjective
<1>12. Range(t) = Range(s) \ {e}
  <2>1. ASSUME NEW x \in Range(t) PROVE x \in Range(s) \ {e}
    <3>1. PICK i \in 1 .. n - 1 : t[i] = x
      BY <1>10 DEF Range
    <3>2. PICK j \in 1 .. n : j # k /\ s[j] = x
      <4>1. CASE i < k
        BY <4>1, <3>1, <1>9, <1>1, <1>2
      <4>2. CASE ~(i < k)
        <5>1. i + 1 \in 1 .. n /\ i + 1 # k /\ s[i + 1] = x
          BY <4>2, <3>1, <1>9, <1>1, <1>2
        <5> QED BY <5>1
      <4> QED BY <4>1, <4>2
    <3>3. x # e
      BY <3>2, <1>1, <1>2 DEF IsInjective
    <3> QED BY <3>2, <3>3, <1>1 DEF Range
  <2>2. ASSUME NEW x \in Range(s) \ {e} PROVE x \in Range(t)
    <3>1. PICK i \in 1 .. n : s[i] = x
      BY <1>1 DEF Range
    <3>2. PICK j \in 1 .. n - 1 : t[j] = x
      <4>1. CASE i < k
        BY <4>1, <3>1, <1>9, <1>1, <1>2
      <4>2. CASE i > k
        <5>1. i - 1 \in 1 .. n - 1 /\ t[i - 1] = s[(i - 1) + 1]
          BY <4>2, <1>9, <1>1, <1>2
        <5> QED BY <5>1, <3>1, <1>1
      <4>3. i # k
        BY <2>2, <3>1, <1>2
      <4> QED BY <4>1, <4>2, <4>3, <1>1, <1>2
    <3> QED BY <3>2, <1>10 DEF Range
  <2> QED BY <2>1, <2>2
<1> QED BY <1>9, <1>11, <1>12 DEF t

-----------------------------------------------------------------------------

(* What the assumptions on the constants say, in the form the steps use.   *)
LEMMA ConstantFacts ==
  /\ MAX_CLIENT_ID \in Nat \ {0}
  /\ ClientID \subseteq Nat /\ 0 \in ClientID
  /\ NULL \notin PlayerRef /\ NULL \notin Player
  /\ NULL \notin ClientInfo /\ NULL \notin AIClient /\ NULL \notin AIClients
  /\ AI \notin Addr /\ NULL \notin Addr /\ AI # NULL
BY EngineAssumption, NullAssumption, ServerAssumption, ServerNullAssumption
   DEF ClientID

LEMMA InitInv == Init => IInv
<1> SUFFICES ASSUME Init PROVE IInv
  OBVIOUS
<1> USE ConstantFacts DEF Init, EngineInit
<1>1. TypeOK
  <2>1. sentObjList \in Seq(PlayerRef) /\ moveObjList \in Seq(MissileID \cup {-1})
        /\ todo \in Seq(FuncID)
    OBVIOUS
  <2>2. curloopnum \in 0 .. INT_MAX
    BY ServerAssumption
  <2> QED BY <2>1, <2>2 DEF TypeOK, EngineTypeOK
<1>2. TablesAgree
  BY DEF TablesAgree
<1>3. ListedOnce
  BY DEF ListedOnce, IsInjective, Range
<1> QED
  BY <1>1, <1>2, <1>3
  DEF IInv, AIClientsStay, AIAddresses, OneSlotPerAddress, IsHuman, SenderPlays,
      AIModuleReady, NoBadPlayer

-----------------------------------------------------------------------------
(* The handlers that change the tables                                     *)

(* Whoever takes a free slot, addPlayer and the new table entry together   *)
(* keep the tables in step.                                                *)
LEMMA AddPlayerAgrees ==
  ASSUME TypeOK, TablesAgree, ListedOnce,
         NEW c \in ClientID, NEW ci \in ClientInfo,
         GetFreeClientID(c), AddPlayer(c),
         cliinfo' = [cliinfo EXCEPT ![c] = ci]
  PROVE  /\ EngineTypeOK'
         /\ cliinfo' \in [ClientID -> ClientInfo \cup {NULL}]
         /\ TablesAgree'
         /\ ListedOnce'
<1> USE ConstantFacts
<1> PICK r \in PlayerRef :
      /\ heap[r] = NULL
      /\ heap' = [heap EXCEPT ![r] = [id |-> c, num_missiles |-> NUM_MISSILES]]
      /\ playerList' = [playerList EXCEPT ![c] = r]
      /\ sentObjList' = AddSentObject(sentObjList, r)
      /\ UNCHANGED <<missileList, moveObjList>>
  BY DEF AddPlayer
<1>0. /\ playerList \in [ClientID -> PlayerRef \cup {NULL}]
      /\ heap \in [PlayerRef -> Player \cup {NULL}]
      /\ cliinfo \in [ClientID -> ClientInfo \cup {NULL}]
  BY DEF TypeOK, EngineTypeOK
<1>1. [id |-> c, num_missiles |-> NUM_MISSILES] \in Player
  BY EngineAssumption DEF Player
<1>2. r \notin Range(sentObjList)
  BY DEF TablesAgree, ListedOnce
<1>3. /\ sentObjList' \in Seq(PlayerRef)
      /\ IsInjective(sentObjList')
      /\ Range(sentObjList') = Range(sentObjList) \cup {r}
  <2>1. sentObjList \in Seq(PlayerRef)
    BY DEF TypeOK, EngineTypeOK
  <2>2. IsInjective(sentObjList)
    BY DEF ListedOnce
  <2> QED BY <1>2, <2>1, <2>2, ConsFresh DEF AddSentObject
<1>4. EngineTypeOK'
  BY <1>1, <1>3 DEF TypeOK, EngineTypeOK
<1>5. cliinfo' \in [ClientID -> ClientInfo \cup {NULL}]
  BY DEF TypeOK
<1>6. /\ playerList[c] = NULL
      /\ \A d \in ClientID : playerList'[d] = IF d = c THEN r ELSE playerList[d]
      /\ \A d \in ClientID : cliinfo'[d] = IF d = c THEN ci ELSE cliinfo[d]
      /\ \A q \in PlayerRef : heap'[q] =
           IF q = r THEN [id |-> c, num_missiles |-> NUM_MISSILES] ELSE heap[q]
  <2>1. playerList[c] = NULL
    BY DEF TablesAgree, GetFreeClientID
  <2> QED BY <1>0, <2>1
<1>7. \A d \in ClientID : playerList[d] # NULL => playerList[d] \in PlayerRef \ {r}
  BY <1>0 DEF TablesAgree
<1>8. TablesAgree'
  <2>1. \A d \in ClientID : cliinfo'[d] = NULL <=> playerList'[d] = NULL
    BY <1>6 DEF TablesAgree
  <2>2. ASSUME NEW d \in ClientID, playerList'[d] # NULL
        PROVE  heap'[playerList'[d]] # NULL /\ heap'[playerList'[d]].id = d
    <3>1. CASE d = c
      BY <3>1, <1>1, <1>6
    <3>2. CASE d # c
      BY <2>2, <3>2, <1>6, <1>7 DEF TablesAgree
    <3> QED BY <3>1, <3>2
  <2>3. ASSUME NEW q \in PlayerRef, heap'[q] # NULL
        PROVE  \E d \in ClientID : playerList'[d] = q
    <3>1. CASE q = r
      BY <3>1, <1>6
    <3>2. CASE q # r
      <4>1. PICK d \in ClientID : playerList[d] = q
        BY <2>3, <3>2, <1>6 DEF TablesAgree
      <4>2. d # c
        BY <4>1, <1>6
      <4> QED BY <4>1, <4>2, <1>6
    <3> QED BY <3>1, <3>2
  <2> QED BY <2>1, <2>2, <2>3 DEF TablesAgree
<1>9. ListedOnce'
  <2>1. {playerList'[d] : d \in {e \in ClientID : playerList'[e] # NULL}}
        = {playerList[d] : d \in {e \in ClientID : playerList[e] # NULL}} \cup {r}
    BY <1>6
  <2> QED BY <2>1, <1>3 DEF ListedOnce
<1> QED BY <1>4, <1>5, <1>8, <1>9

(* removePlayer and the cleared table entry together keep them in step.    *)
LEMMA RemovePlayerAgrees ==
  ASSUME TypeOK, TablesAgree, ListedOnce,
         NEW c \in ClientID, cliinfo[c] # NULL,
         RemovePlayer(c),
         cliinfo' = [cliinfo EXCEPT ![c] = NULL]
  PROVE  /\ EngineTypeOK'
         /\ cliinfo' \in [ClientID -> ClientInfo \cup {NULL}]
         /\ TablesAgree'
         /\ ListedOnce'
<1> USE ConstantFacts
<1> DEFINE p == playerList[c]
<1>0. /\ playerList \in [ClientID -> PlayerRef \cup {NULL}]
      /\ heap \in [PlayerRef -> Player \cup {NULL}]
      /\ cliinfo \in [ClientID -> ClientInfo \cup {NULL}]
  BY DEF TypeOK, EngineTypeOK
<1>1. p \in PlayerRef /\ heap[p] # NULL /\ heap[p].id = c
  BY <1>0 DEF TablesAgree
<1>2. p \in Range(sentObjList)
  BY <1>1 DEF ListedOnce
<1>3. /\ sentObjList' \in Seq(PlayerRef)
      /\ IsInjective(sentObjList')
      /\ Range(sentObjList') = Range(sentObjList) \ {p}
  <2>1. sentObjList \in Seq(PlayerRef)
    BY DEF TypeOK, EngineTypeOK
  <2>2. IsInjective(sentObjList)
    BY DEF ListedOnce
  <2>3. sentObjList' = RemoveFirst(sentObjList, p)
    BY DEF RemovePlayer, RemoveSentObject
  <2> HIDE DEF p
  <2> QED BY <1>2, <2>1, <2>2, <2>3, RemoveFirstListed
<1>4. /\ playerList' = [playerList EXCEPT ![c] = NULL]
      /\ heap' = [heap EXCEPT ![p] = NULL]
      /\ UNCHANGED <<missileList, moveObjList>>
  BY DEF RemovePlayer
<1>5. EngineTypeOK'
  BY <1>3, <1>4 DEF TypeOK, EngineTypeOK
<1>6. cliinfo' \in [ClientID -> ClientInfo \cup {NULL}]
  BY DEF TypeOK
<1>7. \A d \in ClientID : d # c /\ playerList[d] # NULL => playerList[d] # p
  BY <1>1 DEF TablesAgree
<1>8. /\ \A d \in ClientID : playerList'[d] = IF d = c THEN NULL ELSE playerList[d]
      /\ \A d \in ClientID : cliinfo'[d] = IF d = c THEN NULL ELSE cliinfo[d]
      /\ \A q \in PlayerRef : heap'[q] = IF q = p THEN NULL ELSE heap[q]
  BY <1>0, <1>4
<1>9. TablesAgree'
  <2>1. \A d \in ClientID : cliinfo'[d] = NULL <=> playerList'[d] = NULL
    BY <1>8 DEF TablesAgree
  <2>2. ASSUME NEW d \in ClientID, playerList'[d] # NULL
        PROVE  heap'[playerList'[d]] # NULL /\ heap'[playerList'[d]].id = d
    <3>1. d # c /\ playerList'[d] = playerList[d] /\ playerList[d] \in PlayerRef \ {p}
      BY <2>2, <1>0, <1>7, <1>8
    <3> QED BY <2>2, <3>1, <1>8 DEF TablesAgree
  <2>3. ASSUME NEW q \in PlayerRef, heap'[q] # NULL
        PROVE  \E d \in ClientID : playerList'[d] = q
    <3>1. PICK d \in ClientID : playerList[d] = q
      BY <2>3, <1>8 DEF TablesAgree
    <3>2. d # c
      BY <2>3, <3>1, <1>8
    <3> QED BY <3>1, <3>2, <1>8
  <2> QED BY <2>1, <2>2, <2>3 DEF TablesAgree
<1>10. ListedOnce'
  <2>1. {playerList'[d] : d \in {e \in ClientID : playerList'[e] # NULL}}
        = {playerList[d] : d \in {e \in ClientID : playerList[e] # NULL}} \ {p}
    <3>1. playerList[c] = p
      OBVIOUS
    <3> HIDE DEF p
    <3>2. ASSUME NEW d \in ClientID, playerList'[d] # NULL
          PROVE  playerList'[d] = playerList[d] /\ playerList[d] # p
      BY <3>2, <1>7, <1>8
    <3>3. ASSUME NEW d \in ClientID, playerList[d] # NULL, playerList[d] # p
          PROVE  playerList'[d] = playerList[d]
      BY <3>1, <3>3, <1>8
    <3> QED BY <3>2, <3>3
  <2> QED BY <2>1, <1>3 DEF ListedOnce
<1> QED BY <1>5, <1>6, <1>9, <1>10

(* Handling an event leaves every player where it is.                      *)
LEMMA HandleEventAgrees ==
  ASSUME TypeOK, TablesAgree, ListedOnce,
         NEW r \in PlayerRef, heap[r] # NULL, NEW f \in FuncID,
         HandleEvent(r, f), UNCHANGED cliinfo
  PROVE  EngineTypeOK' /\ TablesAgree' /\ ListedOnce'
<1> USE ConstantFacts
<1>1. CASE UNCHANGED engineVars
  <2>1. /\ heap' = heap /\ playerList' = playerList /\ sentObjList' = sentObjList
        /\ missileList' = missileList /\ moveObjList' = moveObjList
    BY <1>1 DEF engineVars
  <2>2. EngineTypeOK'
    BY <2>1 DEF TypeOK, EngineTypeOK
  <2>3. TablesAgree'
    BY <2>1 DEF TablesAgree
  <2>4. ListedOnce'
    BY <2>1 DEF ListedOnce
  <2> QED BY <2>2, <2>3, <2>4
<1>2. CASE /\ heap[r].num_missiles > 0
           /\ heap' = [heap EXCEPT ![r].num_missiles = @ - 1]
           /\ AddMissile
           /\ UNCHANGED <<playerList, sentObjList>>
  <2>1. /\ heap' \in [PlayerRef -> Player \cup {NULL}]
        /\ \A q \in PlayerRef :
             /\ heap'[q] = NULL <=> heap[q] = NULL
             /\ heap[q] # NULL => heap'[q].id = heap[q].id
    <3>1. heap[r] \in Player
      BY DEF TypeOK, EngineTypeOK
    <3>2. [heap[r] EXCEPT !.num_missiles = @ - 1] \in Player
          /\ [heap[r] EXCEPT !.num_missiles = @ - 1].id = heap[r].id
      BY <1>2, <3>1, EngineAssumption DEF Player
    <3> QED BY <1>2, <3>2 DEF TypeOK, EngineTypeOK
  <2>2. missileList' \in [MissileID -> {"NULL", "MISSILE", "GARBAGE"}]
        /\ moveObjList' \in Seq(MissileID \cup {-1})
    <3>1. ASSUME NEW m \in MissileID \cup {-1}
          PROVE  Cons(m, moveObjList) \in Seq(MissileID \cup {-1})
      <4>1. <<m>> \in Seq(MissileID \cup {-1})
        OBVIOUS
      <4>2. moveObjList \in Seq(MissileID \cup {-1})
        BY DEF TypeOK, EngineTypeOK
      <4> QED BY <4>1, <4>2, ConcatProperties DEF Cons
    <3>2. missileList \in [MissileID -> {"NULL", "MISSILE", "GARBAGE"}]
      BY DEF TypeOK, EngineTypeOK
    <3>3. PICK m \in MissileID \cup {-1} : moveObjList' = Cons(m, moveObjList)
      BY <1>2 DEF AddMissile
    <3>4. moveObjList' \in Seq(MissileID \cup {-1})
      BY <3>1, <3>3
    <3>5. missileList' \in [MissileID -> {"NULL", "MISSILE", "GARBAGE"}]
      BY <1>2, <3>2 DEF AddMissile
    <3> QED BY <3>4, <3>5
  <2>3. EngineTypeOK'
    BY <1>2, <2>1, <2>2 DEF TypeOK, EngineTypeOK
  <2>4. TablesAgree'
    <3>1. playerList' = playerList /\ cliinfo' = cliinfo
      BY <1>2
    <3>2. \A c \in ClientID : playerList[c] # NULL => playerList[c] \in PlayerRef
      BY DEF TypeOK, EngineTypeOK
    <3>3. \A c \in ClientID :
            playerList'[c] # NULL => /\ heap'[playerList'[c]] # NULL
                                     /\ heap'[playerList'[c]].id = c
      BY <2>1, <3>1, <3>2 DEF TablesAgree
    <3> QED BY <2>1, <3>1, <3>3 DEF TablesAgree
  <2>5. ListedOnce'
    BY <1>2 DEF ListedOnce
  <2> QED BY <2>3, <2>4, <2>5
<1> QED BY <1>1, <1>2 DEF HandleEvent, LaunchMissile

-----------------------------------------------------------------------------
(* One lemma per group of steps                                            *)

(* Steps that touch neither the tables nor the lists.                      *)
LEMMA TablesUntouched ==
  ASSUME IInv, UNCHANGED <<engineVars, cliinfo>>
  PROVE  /\ EngineTypeOK'
         /\ cliinfo' \in [ClientID -> ClientInfo \cup {NULL}]
         /\ TablesAgree' /\ ListedOnce' /\ AIAddresses' /\ OneSlotPerAddress'
<1>1. /\ heap' = heap /\ playerList' = playerList /\ sentObjList' = sentObjList
      /\ missileList' = missileList /\ moveObjList' = moveObjList
      /\ cliinfo' = cliinfo
  BY DEF engineVars
<1> USE <1>1 DEF IInv
<1>2. EngineTypeOK' /\ cliinfo' \in [ClientID -> ClientInfo \cup {NULL}]
  BY DEF TypeOK, EngineTypeOK
<1>3. TablesAgree'
  BY DEF TablesAgree
<1>4. ListedOnce'
  BY DEF ListedOnce
<1>5. AIAddresses' /\ OneSlotPerAddress'
  BY DEF AIAddresses, OneSlotPerAddress, IsHuman
<1> QED BY <1>2, <1>3, <1>4, <1>5

LEMMA StartInv ==
  ASSUME IInv, BindOk \/ BindFails \/ AiClientsJoined
  PROVE  IInv'
<1> USE ConstantFacts
<1>1. UNCHANGED <<engineVars, cliinfo>>
  BY DEF BindOk, BindFails, AiClientsJoined
<1>2. UNCHANGED <<curloopnum, cid, todo, fault, heard, pinged>>
  BY DEF BindOk, BindFails, AiClientsJoined
<1>3. /\ phase' \in {"tick", "aijoin"} /\ scan' \in Nat
      /\ aiModule' \in AIClients \cup {NULL}
      /\ phase' = "aijoin" => aiModule' # NULL
      /\ aiModule' = aiModule \/ aiModule' = [c \in ClientID |-> NULL]
  <2>1. [c \in ClientID |-> NULL] \in AIClients
    BY DEF AIClients
  <2> QED BY <2>1 DEF BindOk, BindFails, AiClientsJoined, IInv, TypeOK, Running
<1>4. TypeOK'
  BY <1>1, <1>2, <1>3, TablesUntouched DEF IInv, TypeOK
<1>5. AIClientsStay'
  BY <1>1, <1>3 DEF IInv, AIClientsStay
<1> QED
  BY <1>1, <1>2, <1>3, <1>4, <1>5, TablesUntouched
  DEF IInv, SenderPlays, AIModuleReady, NoBadPlayer

LEMMA AiJoinInv ==
  ASSUME IInv, AiClientJoin
  PROVE  IInv'
<1> USE ConstantFacts
<1>1. /\ phase = "aijoin" /\ aiModule # NULL /\ aiModule \in AIClients
      /\ UNCHANGED <<curloopnum, phase, cid, todo, heard, pinged>>
      /\ scan' \in Nat
  <2>1. /\ phase = "aijoin" /\ scan' = scan + 1
        /\ UNCHANGED <<curloopnum, phase, cid, todo, heard, pinged>>
    BY DEF AiClientJoin, Running
  <2>2. aiModule # NULL
    BY <2>1 DEF IInv, AIModuleReady
  <2>3. aiModule \in AIClients /\ scan \in Nat
    BY <2>2 DEF IInv, TypeOK
  <2> QED BY <2>1, <2>2, <2>3
<1>2. CASE TableFull /\ fault' = "bad slot" /\ UNCHANGED <<engineVars, cliinfo, aiModule>>
  <2>1. TypeOK'
    BY <1>1, <1>2, TablesUntouched DEF IInv, TypeOK
  <2>2. AIClientsStay'
    BY <1>2 DEF IInv, AIClientsStay
  <2> QED
    BY <1>1, <1>2, <2>1, <2>2, TablesUntouched
    DEF IInv, SenderPlays, AIModuleReady, NoBadPlayer
<1>3. ASSUME NEW c \in ClientID, GetFreeClientID(c), AddPlayer(c),
             cliinfo' = [cliinfo EXCEPT ![c] = NewAIClient],
             StartNewClient(c), UNCHANGED fault
      PROVE  IInv'
  <2>1. NewAIClient \in ClientInfo /\ NewAIClient.aiClient /\ NewAIClient.addr = AI
    BY DEF NewAIClient, ClientInfo
  <2>2. /\ EngineTypeOK' /\ cliinfo' \in [ClientID -> ClientInfo \cup {NULL}]
        /\ TablesAgree' /\ ListedOnce'
    BY <1>3, <2>1, AddPlayerAgrees DEF IInv
  <2>3. /\ \A d \in ClientID : cliinfo'[d] = IF d = c THEN NewAIClient ELSE cliinfo[d]
        /\ \A d \in ClientID :
             aiModule'[d] = IF d = c THEN [accel |-> AI_ACCEL] ELSE aiModule[d]
        /\ aiModule' \in AIClients
    <3>1. [accel |-> AI_ACCEL] \in AIClient
      BY ServerAssumption DEF AIClient
    <3> QED BY <1>1, <1>3, <3>1 DEF StartNewClient, IInv, TypeOK, AIClients
  <2>4. TypeOK'
    BY <1>1, <1>3, <2>2, <2>3 DEF IInv, TypeOK
  <2>5. AIClientsStay'
    BY <1>1, <2>1, <2>3 DEF IInv, AIClientsStay
  <2>6. AIAddresses' /\ OneSlotPerAddress'
    BY <2>1, <2>3 DEF IInv, AIAddresses, OneSlotPerAddress, IsHuman
  <2> QED
    BY <1>1, <1>3, <2>2, <2>3, <2>4, <2>5, <2>6
    DEF IInv, SenderPlays, AIModuleReady, NoBadPlayer
<1> QED BY <1>2, <1>3 DEF AiClientJoin

(* The tick reads only live players.                                       *)
LEMMA TickFindsPlayers ==
  ASSUME IInv
  PROVE  ~DanglingPlayer /\ (aiModule # NULL => ~AISteersNobody)
<1> USE ConstantFacts DEF IInv
<1>1. ASSUME NEW k \in DOMAIN sentObjList
      PROVE  heap[sentObjList[k]] # NULL
  <2>1. sentObjList[k] \in Range(sentObjList)
    BY DEF Range
  <2> QED BY <2>1 DEF ListedOnce, TablesAgree
<1>2. ~DanglingPlayer
  BY <1>1 DEF DanglingPlayer, TablesAgree
<1>3. aiModule # NULL => ~AISteersNobody
  BY DEF AISteersNobody, AIClientsStay, TablesAgree
<1> QED BY <1>2, <1>3

(* A turn of the AI neither creates nor ends an AI client.                 *)
LEMMA AIGoesOn ==
  ASSUME TypeOK, aiModule # NULL
  PROVE  /\ RunAI \in AIClients
         /\ \A c \in ClientID : RunAI[c] = NULL <=> aiModule[c] = NULL
<1> USE ConstantFacts
<1>1. aiModule \in AIClients
  BY DEF TypeOK
<1>2. ASSUME NEW c \in ClientID, aiModule[c] # NULL, aiModule[c].accel # 0
      PROVE  [accel |-> aiModule[c].accel - 1] \in AIClient
  BY <1>1, <1>2, ServerAssumption DEF AIClients, AIClient
<1> QED BY <1>1, <1>2 DEF RunAI, AIClients

LEMMA TickInv ==
  ASSUME IInv, Tick
  PROVE  IInv'
<1> USE ConstantFacts
<1>1. /\ UNCHANGED <<engineVars, cliinfo>>
      /\ UNCHANGED <<curloopnum, scan, cid, todo, heard, pinged>>
      /\ phase' = "recv"
  BY DEF Tick
<1>2. fault' \in {"packet overflow", "no AI module", "none"}
      /\ (fault' = "none" => aiModule # NULL)
  BY TickFindsPlayers DEF Tick, TickFault
<1>3. aiModule # NULL =>
        /\ RunAI \in AIClients
        /\ \A c \in ClientID : RunAI[c] = NULL <=> aiModule[c] = NULL
  BY AIGoesOn DEF IInv
<1>4. aiModule' = aiModule \/ (aiModule # NULL /\ aiModule' = RunAI)
  BY <1>2 DEF Tick
<1>5. aiModule' \in AIClients \cup {NULL}
  BY <1>3, <1>4 DEF IInv, TypeOK
<1>6. TypeOK'
  BY <1>1, <1>2, <1>5, TablesUntouched DEF IInv, TypeOK
<1>7. AIClientsStay'
  BY <1>1, <1>3, <1>4 DEF IInv, AIClientsStay
<1> QED
  BY <1>1, <1>2, <1>6, <1>7, TablesUntouched
  DEF IInv, SenderPlays, AIModuleReady, NoBadPlayer

-----------------------------------------------------------------------------
(* The packet handlers                                                     *)

(* Hearing from a client changes its lastresp and nothing else.            *)
LEMMA HeardInv ==
  ASSUME IInv, NEW c \in ClientID, IsHuman(c), Heard(c),
         UNCHANGED <<engineVars, curloopnum, aiModule, scan, todo, fault>>,
         \/ UNCHANGED <<phase, cid>>
         \/ phase' = "recv" /\ cid' = 0
  PROVE  IInv'
<1> USE ConstantFacts
<1>1. /\ heap' = heap /\ playerList' = playerList /\ sentObjList' = sentObjList
      /\ missileList' = missileList /\ moveObjList' = moveObjList
      /\ aiModule' = aiModule /\ fault' = fault
  BY DEF engineVars
<1>2. cliinfo[c] \in ClientInfo /\ curloopnum \in Int
  <2>1. /\ cliinfo \in [ClientID -> ClientInfo \cup {NULL}]
        /\ curloopnum \in 0 .. INT_MAX
    BY DEF IInv, TypeOK
  <2> QED BY <2>1, ServerAssumption DEF IsHuman
<1>3. /\ cliinfo' \in [ClientID -> ClientInfo \cup {NULL}]
      /\ \A d \in ClientID :
           /\ cliinfo'[d] = NULL <=> cliinfo[d] = NULL
           /\ cliinfo[d] # NULL => /\ cliinfo'[d].aiClient = cliinfo[d].aiClient
                                   /\ cliinfo'[d].addr = cliinfo[d].addr
  <2>1. /\ [cliinfo[c] EXCEPT !.lastresp = curloopnum] \in ClientInfo
        /\ [cliinfo[c] EXCEPT !.lastresp = curloopnum].aiClient = cliinfo[c].aiClient
        /\ [cliinfo[c] EXCEPT !.lastresp = curloopnum].addr = cliinfo[c].addr
    BY <1>2 DEF ClientInfo
  <2> QED BY <2>1 DEF Heard, IInv, TypeOK, IsHuman
<1>4. EngineTypeOK'
  BY <1>1 DEF IInv, TypeOK, EngineTypeOK
<1>5. TypeOK'
  BY <1>1, <1>3, <1>4 DEF IInv, TypeOK, Heard
<1>6. TablesAgree'
  BY <1>1, <1>3 DEF IInv, TablesAgree
<1>7. ListedOnce'
  BY <1>1 DEF IInv, ListedOnce
<1>8. AIClientsStay' /\ AIAddresses'
  BY <1>1, <1>3 DEF IInv, AIClientsStay, AIAddresses
<1>9. OneSlotPerAddress'
  BY <1>3 DEF IInv, OneSlotPerAddress, IsHuman
<1>10. SenderPlays' /\ AIModuleReady' /\ NoBadPlayer'
  <2>1. cid \in ClientID
    BY DEF IInv, TypeOK
  <2>2. SenderPlays'
    BY <1>3, <2>1 DEF IInv, SenderPlays, IsHuman
  <2> QED BY <1>1, <2>2 DEF IInv, AIModuleReady, NoBadPlayer
<1> QED BY <1>5, <1>6, <1>7, <1>8, <1>9, <1>10 DEF IInv

(* A slot found by address is a human's.                                   *)
LEMMA LookupFindsHuman ==
  ASSUME IInv, NEW a \in Addr, NEW c \in ClientID, LookupClientID(a, c)
  PROVE  IsHuman(c)
BY ConstantFacts DEF IInv, AIAddresses, LookupClientID, Matches, IsHuman, TypeOK, ClientInfo

LEMMA RecvEventListInv ==
  ASSUME IInv, NEW a \in Addr, NEW evs \in EventLists, RecvEventList(a, evs)
  PROVE  IInv'
<1> USE ConstantFacts
<1>1. PICK c \in ClientID : LookupClientID(a, c) /\ cid' = c
  BY DEF RecvEventList
<1>2. IsHuman(c)
  BY <1>1, LookupFindsHuman
<1>3. /\ UNCHANGED <<engineVars, cliinfo>>
      /\ UNCHANGED <<curloopnum, aiModule, scan, fault, heard, pinged>>
      /\ phase' = "events" /\ todo' = evs
  BY DEF RecvEventList
<1>4. evs \in Seq(FuncID)
  BY ServerAssumption
<1>5. TypeOK'
  BY <1>1, <1>3, <1>4, TablesUntouched DEF IInv, TypeOK
<1>6. SenderPlays'
  BY <1>1, <1>2, <1>3 DEF SenderPlays, IsHuman
<1> QED
  BY <1>3, <1>5, <1>6, TablesUntouched
  DEF IInv, AIClientsStay, AIModuleReady, NoBadPlayer

LEMMA HandleNextEventInv ==
  ASSUME IInv, HandleNextEvent
  PROVE  IInv'
<1> USE ConstantFacts
<1>1. /\ IsHuman(cid) /\ cid \in ClientID /\ todo \in Seq(FuncID) /\ todo # <<>>
      /\ UNCHANGED <<cliinfo, curloopnum, aiModule, phase, scan, cid, heard, pinged>>
      /\ todo' = Tail(todo)
  BY DEF HandleNextEvent, Running, IInv, SenderPlays, TypeOK
<1>2. /\ EventPlayer \in PlayerRef
      /\ heap[EventPlayer] # NULL
  <2>1. cliinfo[cid] # NULL
    BY <1>1 DEF IsHuman
  <2>2. playerList[cid] # NULL
    BY <1>1, <2>1 DEF IInv, TablesAgree
  <2>3. playerList[cid] \in PlayerRef
    BY <1>1, <2>2 DEF IInv, TypeOK, EngineTypeOK
  <2> QED BY <1>1, <2>2, <2>3 DEF IInv, TablesAgree, EventPlayer
<1>3. HandleEvent(EventPlayer, Head(todo)) /\ UNCHANGED fault
  BY <1>2 DEF HandleNextEvent
<1>4. Head(todo) \in FuncID /\ Tail(todo) \in Seq(FuncID)
  BY <1>1, HeadTailProperties
<1>5. EngineTypeOK' /\ TablesAgree' /\ ListedOnce'
  BY <1>1, <1>2, <1>3, <1>4, HandleEventAgrees DEF IInv
<1>6. TypeOK'
  BY <1>1, <1>3, <1>4, <1>5 DEF IInv, TypeOK
<1>7. AIClientsStay' /\ AIAddresses' /\ OneSlotPerAddress' /\ SenderPlays'
  BY <1>1 DEF IInv, AIClientsStay, AIAddresses, OneSlotPerAddress, SenderPlays, IsHuman
<1> QED
  BY <1>1, <1>3, <1>5, <1>6, <1>7 DEF IInv, AIModuleReady, NoBadPlayer

LEMMA RecvJoinInv ==
  ASSUME IInv, NEW a \in Addr, RecvJoin(a)
  PROVE  IInv'
<1> USE ConstantFacts
<1>1. UNCHANGED <<curloopnum, aiModule, phase, scan, cid, todo, heard, pinged>>
      /\ phase = "recv"
  BY DEF RecvJoin, loopVars, Running
<1>2. ASSUME UNCHANGED <<engineVars, cliinfo>>, fault' # "bad player",
             fault' \in {fault, "bad slot"}
      PROVE  IInv'
  <2>1. TypeOK'
    BY <1>1, <1>2, TablesUntouched DEF IInv, TypeOK
  <2> QED
    BY <1>1, <1>2, <2>1, TablesUntouched
    DEF IInv, AIClientsStay, SenderPlays, AIModuleReady, NoBadPlayer
<1>3. ASSUME Unknown(a), NEW c \in ClientID, NEW garbage \in UninitLong,
             GetFreeClientID(c), AddPlayer(c), UNCHANGED fault,
             cliinfo' = [cliinfo EXCEPT
               ![c] = [aiClient |-> FALSE, addr |-> a, lastresp |-> garbage]]
      PROVE  IInv'
  <2> DEFINE ci == [aiClient |-> FALSE, addr |-> a, lastresp |-> garbage]
  <2>1. ci \in ClientInfo /\ ~ci.aiClient /\ ci.addr = a
    BY ServerAssumption DEF ClientInfo
  <2>2. /\ EngineTypeOK' /\ cliinfo' \in [ClientID -> ClientInfo \cup {NULL}]
        /\ TablesAgree' /\ ListedOnce'
    <3> HIDE DEF ci
    <3>1. cliinfo' = [cliinfo EXCEPT ![c] = ci]
      BY <1>3 DEF ci
    <3> QED BY <1>3, <2>1, <3>1, AddPlayerAgrees DEF IInv
  <2>3. \A d \in ClientID : cliinfo'[d] = IF d = c THEN ci ELSE cliinfo[d]
    BY <1>3 DEF IInv, TypeOK
  <2> HIDE DEF ci
  <2>4. TypeOK'
    BY <1>1, <1>3, <2>2 DEF IInv, TypeOK
  <2>5. AIClientsStay'
    BY <1>1, <1>3, <2>3 DEF IInv, AIClientsStay, GetFreeClientID
  <2>6. AIAddresses'
    BY <2>1, <2>3 DEF IInv, AIAddresses
  <2>7. OneSlotPerAddress'
    BY <1>3, <2>1, <2>3 DEF IInv, OneSlotPerAddress, IsHuman, Unknown, Matches
  <2> QED
    BY <1>1, <1>3, <2>2, <2>4, <2>5, <2>6, <2>7
    DEF IInv, SenderPlays, AIModuleReady, NoBadPlayer
<1> QED BY <1>2, <1>3 DEF RecvJoin, JoinNew, IInv, NoBadPlayer

(* Datagrams that are ignored, and the ends of the receive loop.           *)
LEMMA QuietInv ==
  ASSUME IInv, RecvIgnored \/ SelectFails \/ SelectTimeout \/ EndLoop \/ Faulted
  PROVE  IInv'
<1> USE ConstantFacts
<1>1. UNCHANGED <<engineVars, cliinfo, aiModule, cid, todo, heard, pinged>>
  BY DEF RecvIgnored, SelectFails, SelectTimeout, EndLoop, Faulted, vars, loopVars
<1>2. /\ curloopnum' \in 0 .. INT_MAX
      /\ scan' \in Nat
      /\ phase' \in {phase, "tick", "check"}
      /\ fault' \in {fault, "loop count overflow"}
  <2>1. curloopnum \in 0 .. INT_MAX /\ scan \in Nat /\ INT_MAX \in Nat
    BY ServerAssumption DEF IInv, TypeOK
  <2>2. CASE RecvIgnored \/ SelectFails \/ Faulted
    BY <2>1, <2>2 DEF RecvIgnored, SelectFails, Faulted, vars, loopVars
  <2>3. CASE SelectTimeout
    BY <2>1, <2>3 DEF SelectTimeout
  <2>4. CASE EndLoop
    <3>1. scan' = 0 /\ phase' = "tick"
      BY <2>4 DEF EndLoop
    <3>2. CASE curloopnum < INT_MAX
      BY <2>1, <2>4, <3>1, <3>2 DEF EndLoop
    <3>3. CASE ~(curloopnum < INT_MAX)
      BY <2>1, <2>4, <3>1, <3>3 DEF EndLoop
    <3> QED BY <3>2, <3>3
  <2> QED BY <2>2, <2>3, <2>4
<1>3. TypeOK'
  BY <1>1, <1>2, TablesUntouched DEF IInv, TypeOK
<1>4. AIClientsStay' /\ SenderPlays' /\ AIModuleReady' /\ NoBadPlayer'
  BY <1>1, <1>2 DEF IInv, AIClientsStay, SenderPlays, AIModuleReady, NoBadPlayer, IsHuman
<1> QED BY <1>1, <1>3, <1>4, TablesUntouched DEF IInv

LEMMA CheckClientInv ==
  ASSUME IInv, CheckClient
  PROVE  IInv'
<1> USE ConstantFacts
<1>1. /\ scan \in ClientID /\ scan' \in Nat /\ phase = "check"
      /\ UNCHANGED <<curloopnum, aiModule, phase, cid, todo, fault>>
  BY DEF CheckClient, Running, IInv, TypeOK, ClientID
<1>2. CASE UNCHANGED <<engineVars, cliinfo, heard>> /\ pinged' \subseteq ClientID
  <2>1. TypeOK'
    BY <1>1, <1>2, TablesUntouched DEF IInv, TypeOK
  <2> QED
    BY <1>1, <1>2, <2>1, TablesUntouched
    DEF IInv, AIClientsStay, SenderPlays, AIModuleReady, NoBadPlayer
<1>3. CASE IsSilent(scan) /\ KickClient(scan)
  <2>1. /\ cliinfo[scan] # NULL /\ ~cliinfo[scan].aiClient
        /\ RemovePlayer(scan)
        /\ cliinfo' = [cliinfo EXCEPT ![scan] = NULL]
        /\ heard' \subseteq heard /\ pinged' \subseteq pinged
    BY <1>3 DEF IsSilent, IsHuman, KickClient
  <2>2. /\ EngineTypeOK' /\ cliinfo' \in [ClientID -> ClientInfo \cup {NULL}]
        /\ TablesAgree' /\ ListedOnce'
    BY <1>1, <2>1, RemovePlayerAgrees DEF IInv
  <2>3. \A d \in ClientID : cliinfo'[d] = IF d = scan THEN NULL ELSE cliinfo[d]
    BY <2>1 DEF IInv, TypeOK
  <2>4. TypeOK'
    BY <1>1, <2>1, <2>2 DEF IInv, TypeOK
  <2>5. AIClientsStay' /\ AIAddresses' /\ OneSlotPerAddress'
    BY <1>1, <2>1, <2>3 DEF IInv, AIClientsStay, AIAddresses, OneSlotPerAddress, IsHuman
  <2> QED
    BY <1>1, <2>2, <2>4, <2>5 DEF IInv, SenderPlays, AIModuleReady, NoBadPlayer
<1>4. pinged \cup {scan} \subseteq ClientID
  BY <1>1 DEF IInv, TypeOK
<1> QED
  BY <1>1, <1>2, <1>3, <1>4 DEF CheckClient, DispatchPing, IInv, TypeOK

-----------------------------------------------------------------------------

LEMMA NextInv == IInv /\ [Next]_vars => IInv'
<1> SUFFICES ASSUME IInv, [Next]_vars PROVE IInv'
  OBVIOUS
<1>1. ASSUME NEW a \in Addr, RecvPingResp(a) PROVE IInv'
  <2>1. PICK c \in ClientID : LookupClientID(a, c) /\ Heard(c)
    BY <1>1 DEF RecvPingResp
  <2> QED BY <1>1, <2>1, LookupFindsHuman, HeardInv DEF RecvPingResp, loopVars
<1>2. ASSUME EventListDone PROVE IInv'
  <2>1. cid \in ClientID /\ IsHuman(cid)
    BY <1>2 DEF EventListDone, Running, IInv, SenderPlays, TypeOK
  <2> QED BY <1>2, <2>1, HeardInv DEF EventListDone
<1>3. CASE Loop
  BY <1>2, <1>3, StartInv, AiJoinInv, TickInv, HandleNextEventInv, QuietInv,
     CheckClientInv DEF Loop
<1>4. CASE Receive
  BY <1>1, <1>4, RecvEventListInv, RecvJoinInv, QuietInv DEF Receive
<1>5. CASE UNCHANGED vars
  <2>1. /\ UNCHANGED <<engineVars, cliinfo>>
        /\ UNCHANGED <<curloopnum, aiModule, phase, scan, cid, todo, fault, heard, pinged>>
    BY <1>5 DEF vars, loopVars
  <2>2. TypeOK'
    BY <2>1, TablesUntouched DEF IInv, TypeOK
  <2> QED
    BY <2>1, <2>2, TablesUntouched
    DEF IInv, AIClientsStay, SenderPlays, AIModuleReady, NoBadPlayer, IsHuman
<1> QED BY <1>3, <1>4, <1>5, QuietInv DEF Next

LEMMA Invariance == Spec => []IInv
BY InitInv, NextInv, PTL DEF Spec

(* Every variable keeps its type.                                          *)
THEOREM TypeCorrect == Spec => []TypeOK
<1>1. IInv => TypeOK
  BY DEF IInv
<1> QED BY <1>1, Invariance, PTL

(* The client table, the player table and the allocated players always     *)
(* name the same slots.                                                    *)
THEOREM TablesAlwaysAgree == Spec => []TablesAgree
<1>1. IInv => TablesAgree
  BY DEF IInv
<1> QED BY <1>1, Invariance, PTL

(* The list of serialised players holds each player of the game once.      *)
THEOREM PlayersListedOnce == Spec => []ListedOnce
<1>1. IInv => ListedOnce
  BY DEF IInv
<1> QED BY <1>1, Invariance, PTL

(* The server never reads a player that is not there.                      *)
THEOREM NeverReadsBadPlayer == Spec => []NoBadPlayer
<1>1. IInv => NoBadPlayer
  BY DEF IInv
<1> QED BY <1>1, Invariance, PTL

(* The AI only steers AI clients that are in the game.                     *)
THEOREM AISteersOnlyItsOwn == Spec => []AIClientsStay
<1>1. IInv => AIClientsStay
  BY DEF IInv
<1> QED BY <1>1, Invariance, PTL

(* No address ever holds two slots.                                        *)
THEOREM AddressHasOneSlot == Spec => []OneSlotPerAddress
<1>1. IInv => OneSlotPerAddress
  BY DEF IInv
<1> QED BY <1>1, Invariance, PTL
=============================================================================
