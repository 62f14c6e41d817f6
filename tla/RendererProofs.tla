--------------------------- MODULE RendererProofs ---------------------------
(***************************************************************************)
(* Proofs about Renderer, for every number of objects, every model of the  *)
(* aircraft and any order of frames and updates.                           *)
(***************************************************************************)
EXTENDS Renderer, SequenceTheorems, FiniteSetTheorems, WellFoundedInduction, TLAPS

LEMMA LeastOfNat ==
  ASSUME NEW S, S \subseteq Nat, S # {}
  PROVE  \E n \in S : \A m \in S : n <= m
<1>1. \E n \in S : \A m \in S : ~(<<m, n>> \in OpToRel(<, Nat))
  BY NatLessThanWellFounded, WFMin
<1>2. PICK n \in S : \A m \in S : ~(<<m, n>> \in OpToRel(<, Nat))
  BY <1>1
<1>3. \A m \in S : ~(m < n)
  BY <1>2 DEF OpToRel
<1> QED BY <1>3

(* What holds of 0 and from one number to the next holds up to n.          *)
LEMMA Climb ==
  ASSUME NEW n \in Nat, NEW J, 0 \in J, \A i \in 1 .. n : i - 1 \in J => i \in J
  PROVE  \A i \in 0 .. n : i \in J
<1> SUFFICES ASSUME (0 .. n) \ J # {} PROVE FALSE
  OBVIOUS
<1>1. (0 .. n) \ J \subseteq Nat
  OBVIOUS
<1>2. PICK k \in (0 .. n) \ J : \A m \in (0 .. n) \ J : k <= m
  BY <1>1, LeastOfNat
<1>3. k # 0
  BY <1>2
<1>4. k \in 1 .. n /\ k - 1 \in 0 .. n /\ ~(k <= k - 1)
  BY <1>2, <1>3
<1> QED BY <1>2, <1>4

-----------------------------------------------------------------------------
(* Sequences of calls                                                      *)

(* The states a sequence of calls goes through.                            *)
Trace(g, s, a) == a[0] = g /\ \A n \in 1 .. Len(s) : a[n] = Exec(a[n - 1], s[n])

LEMMA RunTrace ==
  ASSUME NEW g, NEW s, Len(s) \in Nat
  PROVE  \E a : Trace(g, s, a) /\ Run(g, s) = a[Len(s)]
<1> DEFINE N == Len(s)
           Step(f, n) == IF n = 0 THEN g ELSE Exec(f[n - 1], s[n])
           Upto(k, f) == f = [n \in 0 .. k |-> Step(f, n)]
           J == {k \in 0 .. N : \E f : Upto(k, f)}
<1>1. 0 \in J
  <2> DEFINE f == [n \in 0 .. 0 |-> g]
  <2>1. \E e : Upto(0, e)
    <3>1. Upto(0, f)
      OBVIOUS
    <3> QED BY <3>1
  <2> HIDE DEF Upto
  <2> QED BY <2>1
<1>2. ASSUME NEW k \in 1 .. N, k - 1 \in J PROVE k \in J
  <2>1. PICK f : Upto(k - 1, f)
    BY <1>2
  <2> DEFINE h == [n \in 0 .. k |-> IF n = k THEN Exec(f[k - 1], s[k]) ELSE f[n]]
  <2>2. \A n \in 0 .. k - 1 : f[n] = Step(f, n) /\ h[n] = f[n]
    BY <2>1
  <2>3. \A n \in 0 .. k : h[n] = Step(h, n)
    <3> SUFFICES ASSUME NEW n \in 0 .. k PROVE h[n] = Step(h, n)
      OBVIOUS
    <3>1. CASE n = k
      <4>1. k - 1 \in 0 .. k - 1 /\ k # 0
        OBVIOUS
      <4>2. h[k] = Exec(f[k - 1], s[k]) /\ h[k - 1] = f[k - 1]
        BY <2>2, <4>1
      <4> HIDE DEF h
      <4> QED BY <3>1, <4>1, <4>2
    <3>2. CASE n # k /\ n # 0
      <4>1. n \in 0 .. k - 1 /\ n - 1 \in 0 .. k - 1
        BY <3>2
      <4> HIDE DEF h
      <4> QED BY <2>2, <3>2, <4>1
    <3>3. CASE n # k /\ n = 0
      <4>1. n \in 0 .. k - 1
        BY <3>3
      <4> HIDE DEF h
      <4> QED BY <2>2, <3>3, <4>1
    <3> QED BY <3>1, <3>2, <3>3
  <2>4. DOMAIN h = 0 .. k /\ h = [n \in 0 .. k |-> h[n]]
    OBVIOUS
  <2>5. Upto(k, h)
    <3> HIDE DEF h
    <3> QED BY <2>3, <2>4
  <2>6. \E e : Upto(k, e)
    BY <2>5
  <2> HIDE DEF Upto
  <2> QED BY <2>6
<1>3. \A k \in 0 .. N : k \in J
  <2> HIDE DEF J
  <2> QED BY <1>1, <1>2, Climb
<1>4. N \in J
  BY <1>3
<1> DEFINE F == CHOOSE f : Upto(N, f)
<1>5. Upto(N, F)
  BY <1>4
<1>6. Run(g, s) = F[N]
  BY DEF Run
<1> HIDE DEF F
<1>7. Trace(g, s, F)
  <2>1. \A n \in 1 .. N : n \in 0 .. N /\ n # 0
    OBVIOUS
  <2> QED BY <1>5, <2>1 DEF Trace
<1> QED BY <1>6, <1>7

LEMMA TraceUnique ==
  ASSUME NEW g, NEW s, Len(s) \in Nat, NEW a, Trace(g, s, a)
  PROVE  Run(g, s) = a[Len(s)]
<1> DEFINE N == Len(s)
<1>1. PICK b : Trace(g, s, b) /\ Run(g, s) = b[N]
  BY RunTrace
<1> DEFINE J == {n \in 0 .. N : a[n] = b[n]}
<1>2. 0 \in J
  BY <1>1 DEF Trace
<1>3. ASSUME NEW n \in 1 .. N, n - 1 \in J PROVE n \in J
  BY <1>1, <1>3 DEF Trace
<1>4. N \in J
  <2>1. N \in 0 .. N
    OBVIOUS
  <2> HIDE DEF J
  <2> QED BY <1>2, <1>3, <2>1, Climb
<1> QED BY <1>1, <1>4

(* A sequence of whatever.                                                 *)
IsList(s) == Len(s) \in Nat /\ s = [i \in 1 .. Len(s) |-> s[i]]

LEMMA ListIsSeq ==
  ASSUME NEW s, IsList(s), NEW S, \A i \in 1 .. Len(s) : s[i] \in S
  PROVE  s \in Seq(S)
BY SeqDef DEF IsList

LEMMA SeqIsList ==
  ASSUME NEW S, NEW s \in Seq(S)
  PROVE  IsList(s)
BY DEF IsList

LEMMA Concatenated ==
  ASSUME NEW s, NEW t, IsList(s), IsList(t)
  PROVE  /\ IsList(s \o t) /\ Len(s \o t) = Len(s) + Len(t)
         /\ \A i \in 1 .. Len(s) : (s \o t)[i] = s[i]
         /\ \A i \in 1 .. Len(t) : (s \o t)[Len(s) + i] = t[i]
<1> DEFINE S == {s[i] : i \in 1 .. Len(s)} \cup {t[i] : i \in 1 .. Len(t)}
<1>1. s \in Seq(S) /\ t \in Seq(S)
  BY ListIsSeq
<1>2. s \o t \in Seq(S)
  BY <1>1
<1> HIDE DEF S
<1>3. Len(s) \in Nat /\ Len(t) \in Nat
  BY DEF IsList
<1>4. /\ Len(s \o t) = Len(s) + Len(t)
      /\ \A i \in 1 .. Len(s) + Len(t) :
           (s \o t)[i] = IF i <= Len(s) THEN s[i] ELSE t[i - Len(s)]
  BY <1>1, ConcatProperties
<1>5. \A i \in 1 .. Len(s) : i \in 1 .. Len(s) + Len(t) /\ i <= Len(s)
  BY <1>3
<1>6. \A i \in 1 .. Len(t) : /\ Len(s) + i \in 1 .. Len(s) + Len(t) /\ ~(Len(s) + i <= Len(s))
                             /\ Len(s) + i - Len(s) = i
  BY <1>3
<1>7. IsList(s \o t)
  BY <1>2, SeqIsList
<1>8. \A i \in 1 .. Len(s) : (s \o t)[i] = s[i]
  BY <1>4, <1>5
<1>9. \A i \in 1 .. Len(t) : (s \o t)[Len(s) + i] = t[i]
  BY <1>4, <1>6
<1> QED BY <1>4, <1>7, <1>8, <1>9

(* Running one sequence and then the other.                                *)
LEMMA RunConcat ==
  ASSUME NEW g, NEW s, NEW t, IsList(s), IsList(t)
  PROVE  Run(g, s \o t) = Run(Run(g, s), t)
<1> DEFINE N == Len(s)
           M == Len(t)
<1>1. N \in Nat /\ M \in Nat
  BY DEF IsList
<1>2. PICK a : Trace(g, s, a) /\ Run(g, s) = a[N]
  BY <1>1, RunTrace
<1>3. PICK b : Trace(a[N], t, b) /\ Run(a[N], t) = b[M]
  BY <1>1, RunTrace
<1> DEFINE c == [n \in 0 .. N + M |-> IF n <= N THEN a[n] ELSE b[n - N]]
<1>4. Len(s \o t) = N + M
  BY Concatenated
<1>5. c[0] = g
  BY <1>1, <1>2 DEF Trace
<1>6. ASSUME NEW n \in 1 .. N + M PROVE c[n] = Exec(c[n - 1], (s \o t)[n])
  <2>1. CASE n <= N
    <3>1. n \in 1 .. N /\ c[n] = a[n] /\ c[n - 1] = a[n - 1] /\ (s \o t)[n] = s[n]
      BY <1>1, <2>1, Concatenated
    <3> QED BY <1>2, <3>1 DEF Trace
  <2>2. CASE n = N + 1
    <3>1. 1 \in 1 .. M /\ c[n] = b[1] /\ c[n - 1] = a[N] /\ N + 1 - N = 1
      BY <1>1, <2>2
    <3>2. (s \o t)[n] = t[1] /\ b[1] = Exec(b[0], t[1]) /\ b[0] = a[N]
      <4>1. 1 - 1 = 0
        OBVIOUS
      <4> QED BY <1>3, <2>2, <3>1, <4>1, Concatenated DEF Trace
    <3> QED BY <3>1, <3>2
  <2>3. CASE n > N + 1
    <3> DEFINE i == n - N
    <3>1. i \in 1 .. M /\ N + i = n /\ c[n] = b[i] /\ c[n - 1] = b[i - 1]
      BY <1>1, <2>3
    <3>2. (s \o t)[n] = t[i]
      BY <3>1, Concatenated
    <3> HIDE DEF i
    <3> QED BY <1>3, <3>1, <3>2 DEF Trace
  <2> QED BY <1>1, <2>1, <2>2, <2>3
<1>7. c[N + M] = b[M]
  <2>1. CASE M = 0
    <3>1. c[N + M] = a[N] /\ b[M] = a[N]
      BY <1>1, <1>3, <2>1 DEF Trace
    <3> QED BY <3>1
  <2>2. CASE M # 0
    BY <1>1, <2>2
  <2> QED BY <2>1, <2>2
<1>8. Trace(g, s \o t, c)
  <2> HIDE DEF c
  <2> QED BY <1>4, <1>5, <1>6 DEF Trace
<1>9. Run(g, s \o t) = c[N + M]
  <2>1. Len(s \o t) \in Nat
    BY <1>1, <1>4
  <2> HIDE DEF c
  <2> QED BY <1>4, <1>8, <2>1, TraceUnique
<1> QED BY <1>2, <1>3, <1>7, <1>9


LEMMA EmptyRun == \A g : Run(g, <<>>) = g /\ IsList(<<>>)
<1> SUFFICES ASSUME NEW g PROVE Run(g, <<>>) = g /\ IsList(<<>>)
  OBVIOUS
<1>1. Len(<<>>) = 0 /\ IsList(<<>>)
  BY DEF IsList
<1>2. PICK a : Trace(g, <<>>, a) /\ Run(g, <<>>) = a[0]
  BY <1>1, RunTrace
<1> QED BY <1>1, <1>2 DEF Trace

(* FlattenSeq, as the sequence of its parts.                               *)
LEMMA Flattened ==
  ASSUME NEW ss, Len(ss) \in Nat \ {0}
  PROVE  \E f : /\ f[1] = ss[1] /\ \A n \in 2 .. Len(ss) : f[n] = f[n - 1] \o ss[n]
                /\ FlattenSeq(ss) = f[Len(ss)]
<1> DEFINE N == Len(ss)
           Step(f, n) == IF n = 1 THEN ss[n] ELSE f[n - 1] \o ss[n]
           Upto(k, f) == f = [n \in 1 .. k |-> Step(f, n)]
           J == {k \in 0 .. N : \E f : Upto(k, f)}
<1>1. 0 \in J
  <2> DEFINE f == [n \in 1 .. 0 |-> 0]
  <2>1. \E e : Upto(0, e)
    <3>1. Upto(0, f)
      OBVIOUS
    <3> QED BY <3>1
  <2> HIDE DEF Upto
  <2> QED BY <2>1
<1>2. ASSUME NEW k \in 1 .. N, k - 1 \in J PROVE k \in J
  <2>1. PICK f : Upto(k - 1, f)
    BY <1>2
  <2> DEFINE h == [n \in 1 .. k |-> IF n = k THEN Step(f, k) ELSE f[n]]
  <2>2. \A n \in 1 .. k - 1 : f[n] = Step(f, n) /\ h[n] = f[n]
    <3>1. \A n \in 1 .. k - 1 : h[n] = f[n]
      OBVIOUS
    <3> HIDE DEF h
    <3> QED BY <2>1, <3>1
  <2>3. \A n \in 1 .. k : h[n] = Step(h, n)
    <3> SUFFICES ASSUME NEW n \in 1 .. k PROVE h[n] = Step(h, n)
      OBVIOUS
    <3>1. n # 1 => n - 1 \in 1 .. k - 1
      OBVIOUS
    <3>2. n # k => n \in 1 .. k - 1
      OBVIOUS
    <3>3. h[k] = Step(f, k)
      OBVIOUS
    <3> HIDE DEF h
    <3> QED BY <2>2, <3>1, <3>2, <3>3
  <2>4. DOMAIN h = 1 .. k /\ h = [n \in 1 .. k |-> h[n]]
    OBVIOUS
  <2>5. Upto(k, h)
    <3> HIDE DEF h
    <3> QED BY <2>3, <2>4
  <2>6. \E e : Upto(k, e)
    BY <2>5
  <2> HIDE DEF Upto
  <2> QED BY <2>6
<1>3. N \in J
  <2>1. N \in 0 .. N
    OBVIOUS
  <2> HIDE DEF J
  <2> QED BY <1>1, <1>2, <2>1, Climb
<1> DEFINE F == CHOOSE f : Upto(N, f)
<1>4. Upto(N, F)
  BY <1>3
<1>5. FlattenSeq(ss) = F[N]
  BY DEF FlattenSeq
<1> HIDE DEF F
<1>6. F[1] = ss[1]
  <2>1. 1 \in 1 .. N
    OBVIOUS
  <2> QED BY <1>4, <2>1
<1>7. \A n \in 2 .. N : F[n] = F[n - 1] \o ss[n]
  <2>1. \A n \in 2 .. N : n \in 1 .. N /\ n # 1
    OBVIOUS
  <2> QED BY <1>4, <2>1
<1> QED BY <1>5, <1>6, <1>7

(* Running the parts one after the other.                                  *)
LEMMA RunFlatten ==
  ASSUME NEW g, NEW ss, IsList(ss), \A i \in 1 .. Len(ss) : IsList(ss[i])
  PROVE  /\ IsList(FlattenSeq(ss))
         /\ \E a : /\ a[0] = g /\ \A n \in 1 .. Len(ss) : a[n] = Run(a[n - 1], ss[n])
                   /\ Run(g, FlattenSeq(ss)) = a[Len(ss)]
<1> DEFINE N == Len(ss)
<1>0. N \in Nat
  BY DEF IsList
<1>1. CASE N = 0
  <2>1. ss = <<>> /\ FlattenSeq(ss) = ss
    BY <1>1 DEF IsList, FlattenSeq
  <2> DEFINE a == [n \in 0 .. 0 |-> g]
  <2>2. a[0] = g /\ Run(g, ss) = a[N]
    BY <1>1, <2>1, EmptyRun
  <2>3. \A n \in 1 .. N : a[n] = Run(a[n - 1], ss[n])
    BY <1>1
  <2> HIDE DEF a
  <2> QED BY <2>1, <2>2, <2>3
<1>2. CASE N # 0
  <2>1. PICK f : /\ f[1] = ss[1] /\ \A n \in 2 .. N : f[n] = f[n - 1] \o ss[n]
                 /\ FlattenSeq(ss) = f[N]
    BY <1>0, <1>2, Flattened
  <2> DEFINE a == [n \in 0 .. N |-> IF n = 0 THEN g ELSE Run(g, f[n])]
             J == {n \in 0 .. N : n # 0 => IsList(f[n])}
  <2>2. ASSUME NEW n \in 1 .. N, n - 1 \in J PROVE n \in J
    <3>1. CASE n = 1
      BY <2>1, <3>1
    <3>2. CASE n # 1
      <4>1. n \in 2 .. N /\ n - 1 # 0 /\ n \in 0 .. N
        BY <3>2
      <4>2. IsList(f[n - 1]) /\ IsList(ss[n]) /\ f[n] = f[n - 1] \o ss[n]
        BY <2>1, <2>2, <4>1
      <4>3. IsList(f[n])
        BY <4>2, Concatenated
      <4> QED BY <4>1, <4>3
    <3> QED BY <3>1, <3>2
  <2>3. \A n \in 0 .. N : n \in J
    <3>1. 0 \in J
      BY <1>0
    <3> HIDE DEF J
    <3> QED BY <1>0, <2>2, <3>1, Climb
  <2>4. ASSUME NEW n \in 1 .. N PROVE a[n] = Run(a[n - 1], ss[n])
    <3>1. CASE n = 1
      BY <2>1, <3>1
    <3>2. CASE n # 1
      <4>1. n \in 2 .. N /\ n - 1 \in 0 .. N /\ n - 1 # 0
        BY <3>2
      <4>2. IsList(f[n - 1]) /\ IsList(ss[n]) /\ f[n] = f[n - 1] \o ss[n]
        BY <2>1, <2>3, <4>1
      <4>3. Run(g, f[n]) = Run(Run(g, f[n - 1]), ss[n])
        BY <4>2, RunConcat
      <4> QED BY <4>1, <4>3
    <3> QED BY <3>1, <3>2
  <2>5. a[0] = g /\ Run(g, FlattenSeq(ss)) = a[N] /\ IsList(FlattenSeq(ss))
    <3>1. N \in J /\ N \in 0 .. N
      BY <1>0, <2>3
    <3> QED BY <1>0, <1>2, <2>1, <3>1
  <2> HIDE DEF a
  <2> QED BY <2>4, <2>5
<1> QED BY <1>1, <1>2


-----------------------------------------------------------------------------
(* What each call changes                                                  *)

(* Appending to a list, and taking it away again.                          *)
LEMMA ListAppend ==
  \A s, x : IsList(s) =>
    /\ IsList(Append(s, x)) /\ Len(Append(s, x)) = Len(s) + 1
    /\ Append(s, x)[Len(s) + 1] = x /\ \A i \in 1 .. Len(s) : Append(s, x)[i] = s[i]
    /\ Last(Append(s, x)) = x /\ Front(Append(s, x)) = s
<1> SUFFICES ASSUME NEW s, NEW x, IsList(s)
             PROVE  /\ IsList(Append(s, x)) /\ Len(Append(s, x)) = Len(s) + 1
                    /\ Append(s, x)[Len(s) + 1] = x
                    /\ \A i \in 1 .. Len(s) : Append(s, x)[i] = s[i]
                    /\ Last(Append(s, x)) = x /\ Front(Append(s, x)) = s
  OBVIOUS
<1> DEFINE S == {s[i] : i \in 1 .. Len(s)} \cup {x}
<1>1. s \in Seq(S) /\ x \in S
  BY ListIsSeq
<1> HIDE DEF S
<1>2. Append(s, x) \in Seq(S) /\ Len(Append(s, x)) = Len(s) + 1
  BY <1>1
<1>3. Append(s, x)[Len(s) + 1] = x /\ \A i \in 1 .. Len(s) : Append(s, x)[i] = s[i]
  BY <1>1
<1>4. Front(Append(s, x)) = s
  BY <1>1, <1>2, <1>3 DEF Front
<1>5. Last(Append(s, x)) = x
  BY <1>2, <1>3 DEF Last
<1> QED BY <1>2, <1>3, <1>4, <1>5, SeqIsList

IsStack(s) == IsList(s) /\ Len(s) > 0

Context(g) ==
  /\ g = [on |-> g.on, color |-> g.color, diffuse |-> g.diffuse, fill |-> g.fill,
          blend |-> g.blend, alpha |-> g.alpha, texture |-> g.texture,
          mode |-> g.mode, stack |-> g.stack, drawn |-> g.drawn]
  /\ g.on \subseteq Capability
  /\ Tracking(g) => g.diffuse = g.color.rgb
  /\ g.mode \in {"MODELVIEW", "PROJECTION"}
  /\ g.stack = [MODELVIEW |-> g.stack.MODELVIEW, PROJECTION |-> g.stack.PROJECTION]
  /\ IsStack(g.stack.MODELVIEW) /\ IsStack(g.stack.PROJECTION)
  /\ IsList(g.drawn)

SameColours(h, g)  == h.color = g.color /\ h.diffuse = g.diffuse
SameFunctions(h, g) == h.blend = g.blend /\ h.alpha = g.alpha /\ h.fill = g.fill
SameMatrices(h, g) == h.mode = g.mode /\ h.stack = g.stack

Enabled(g, h, c) ==
  /\ h.on = g.on \cup {c} /\ h.color = g.color /\ h.texture = g.texture
  /\ h.diffuse = IF c = "COLOR_MATERIAL" THEN g.color.rgb ELSE g.diffuse
  /\ SameFunctions(h, g) /\ SameMatrices(h, g) /\ h.drawn = g.drawn

Disabled(g, h, c) ==
  /\ h.on = g.on \ {c} /\ SameColours(h, g) /\ h.texture = g.texture
  /\ SameFunctions(h, g) /\ SameMatrices(h, g) /\ h.drawn = g.drawn

Colored(g, h, rgb, a) ==
  /\ h.color = [rgb |-> rgb, a |-> a] /\ h.on = g.on /\ h.texture = g.texture
  /\ h.diffuse = IF Tracking(g) THEN rgb ELSE g.diffuse
  /\ SameFunctions(h, g) /\ SameMatrices(h, g) /\ h.drawn = g.drawn

Diffused(g, h, rgb) ==
  /\ h.diffuse = (IF Tracking(g) THEN g.diffuse ELSE rgb)
  /\ h.color = g.color /\ h.on = g.on /\ h.texture = g.texture
  /\ SameFunctions(h, g) /\ SameMatrices(h, g) /\ h.drawn = g.drawn

Filled(g, h, m) ==
  /\ h.fill = m /\ h.blend = g.blend /\ h.alpha = g.alpha
  /\ h.on = g.on /\ SameColours(h, g) /\ h.texture = g.texture
  /\ SameMatrices(h, g) /\ h.drawn = g.drawn

Blended(g, h, f) ==
  /\ h.blend = f /\ h.alpha = g.alpha /\ h.fill = g.fill
  /\ h.on = g.on /\ SameColours(h, g) /\ h.texture = g.texture
  /\ SameMatrices(h, g) /\ h.drawn = g.drawn

AlphaTested(g, h, f) ==
  /\ h.alpha = f /\ h.blend = g.blend /\ h.fill = g.fill
  /\ h.on = g.on /\ SameColours(h, g) /\ h.texture = g.texture
  /\ SameMatrices(h, g) /\ h.drawn = g.drawn

Bound(g, h, t) ==
  /\ h.texture = t /\ h.on = g.on /\ SameColours(h, g)
  /\ SameFunctions(h, g) /\ SameMatrices(h, g) /\ h.drawn = g.drawn

Drawn(g, h, obj, of, name) ==
  /\ h.drawn = Append(g.drawn, Look(g, [obj |-> obj, of |-> of, name |-> name]))
  /\ h.on = g.on /\ SameColours(h, g) /\ h.texture = g.texture
  /\ SameFunctions(h, g) /\ SameMatrices(h, g)

LEMMA DoesEnable ==
  \A g, h, c : Context(g) /\ c \in Capability /\ h = Exec(g, Enable(c)) =>
    Context(h) /\ Enabled(g, h, c)
<1> SUFFICES ASSUME NEW g, NEW h, NEW c, Context(g), c \in Capability, h = Exec(g, Enable(c))
             PROVE  Context(h) /\ Enabled(g, h, c)
  OBVIOUS
<1>1. h = [g EXCEPT !.on = @ \cup {c}, !.diffuse = IF c = "COLOR_MATERIAL" THEN g.color.rgb ELSE @]
  BY DEF Exec, Enable
<1>2. h = [on |-> h.on, color |-> h.color, diffuse |-> h.diffuse, fill |-> h.fill,
           blend |-> h.blend, alpha |-> h.alpha, texture |-> h.texture,
           mode |-> h.mode, stack |-> h.stack, drawn |-> h.drawn]
  BY <1>1 DEF Context
<1>3. Enabled(g, h, c)
  BY <1>1 DEF Context, Enabled, SameColours, SameFunctions, SameMatrices
<1> QED BY <1>2, <1>3 DEF Context, Tracking, Enabled, SameColours, SameFunctions, SameMatrices

LEMMA DoesDisable ==
  \A g, h, c : Context(g) /\ c \in Capability /\ h = Exec(g, Disable(c)) =>
    Context(h) /\ Disabled(g, h, c)
<1> SUFFICES ASSUME NEW g, NEW h, NEW c, Context(g), c \in Capability, h = Exec(g, Disable(c))
             PROVE  Context(h) /\ Disabled(g, h, c)
  OBVIOUS
<1>1. h = [g EXCEPT !.on = @ \ {c}]
  BY DEF Exec, Disable
<1>2. h = [on |-> h.on, color |-> h.color, diffuse |-> h.diffuse, fill |-> h.fill,
           blend |-> h.blend, alpha |-> h.alpha, texture |-> h.texture,
           mode |-> h.mode, stack |-> h.stack, drawn |-> h.drawn]
  BY <1>1 DEF Context
<1>3. Disabled(g, h, c)
  BY <1>1 DEF Context, Disabled, SameColours, SameFunctions, SameMatrices
<1> QED BY <1>2, <1>3 DEF Context, Tracking, Disabled, SameColours, SameFunctions, SameMatrices

LEMMA DoesColor ==
  \A g, h, rgb, a : Context(g) /\ h = Exec(g, Color(rgb, a)) =>
    Context(h) /\ Colored(g, h, rgb, a)
<1> SUFFICES ASSUME NEW g, NEW h, NEW rgb, NEW a, Context(g), h = Exec(g, Color(rgb, a))
             PROVE  Context(h) /\ Colored(g, h, rgb, a)
  OBVIOUS
<1>1. h = [g EXCEPT !.color = [rgb |-> rgb, a |-> a], !.diffuse = IF Tracking(g) THEN rgb ELSE @]
  BY DEF Exec, Color
<1>2. h = [on |-> h.on, color |-> h.color, diffuse |-> h.diffuse, fill |-> h.fill,
           blend |-> h.blend, alpha |-> h.alpha, texture |-> h.texture,
           mode |-> h.mode, stack |-> h.stack, drawn |-> h.drawn]
  BY <1>1 DEF Context
<1>3. Colored(g, h, rgb, a)
  BY <1>1 DEF Context, Colored, SameColours, SameFunctions, SameMatrices
<1> QED BY <1>2, <1>3 DEF Context, Tracking, Colored, SameColours, SameFunctions, SameMatrices

LEMMA DoesDiffuse ==
  \A g, h, rgb : Context(g) /\ h = Exec(g, Diffuse(rgb)) =>
    Context(h) /\ Diffused(g, h, rgb)
<1> SUFFICES ASSUME NEW g, NEW h, NEW rgb, Context(g), h = Exec(g, Diffuse(rgb))
             PROVE  Context(h) /\ Diffused(g, h, rgb)
  OBVIOUS
<1>1. h = [g EXCEPT !.diffuse = IF Tracking(g) THEN @ ELSE rgb]
  BY DEF Exec, Diffuse
<1>2. h = [on |-> h.on, color |-> h.color, diffuse |-> h.diffuse, fill |-> h.fill,
           blend |-> h.blend, alpha |-> h.alpha, texture |-> h.texture,
           mode |-> h.mode, stack |-> h.stack, drawn |-> h.drawn]
  BY <1>1 DEF Context
<1>3. Diffused(g, h, rgb)
  BY <1>1 DEF Context, Diffused, SameColours, SameFunctions, SameMatrices
<1> QED BY <1>2, <1>3 DEF Context, Tracking, Diffused, SameColours, SameFunctions, SameMatrices

LEMMA DoesPolygonMode ==
  \A g, h, m : Context(g) /\ h = Exec(g, PolygonMode(m)) =>
    Context(h) /\ Filled(g, h, m)
<1> SUFFICES ASSUME NEW g, NEW h, NEW m, Context(g), h = Exec(g, PolygonMode(m))
             PROVE  Context(h) /\ Filled(g, h, m)
  OBVIOUS
<1>1. h = [g EXCEPT !.fill = m]
  BY DEF Exec, PolygonMode
<1>2. h = [on |-> h.on, color |-> h.color, diffuse |-> h.diffuse, fill |-> h.fill,
           blend |-> h.blend, alpha |-> h.alpha, texture |-> h.texture,
           mode |-> h.mode, stack |-> h.stack, drawn |-> h.drawn]
  BY <1>1 DEF Context
<1>3. Filled(g, h, m)
  BY <1>1 DEF Context, Filled, SameColours, SameFunctions, SameMatrices
<1> QED BY <1>2, <1>3 DEF Context, Tracking, Filled, SameColours, SameFunctions, SameMatrices

LEMMA DoesBlendFunc ==
  \A g, h, f : Context(g) /\ h = Exec(g, BlendFunc(f)) =>
    Context(h) /\ Blended(g, h, f)
<1> SUFFICES ASSUME NEW g, NEW h, NEW f, Context(g), h = Exec(g, BlendFunc(f))
             PROVE  Context(h) /\ Blended(g, h, f)
  OBVIOUS
<1>1. h = [g EXCEPT !.blend = f]
  BY DEF Exec, BlendFunc
<1>2. h = [on |-> h.on, color |-> h.color, diffuse |-> h.diffuse, fill |-> h.fill,
           blend |-> h.blend, alpha |-> h.alpha, texture |-> h.texture,
           mode |-> h.mode, stack |-> h.stack, drawn |-> h.drawn]
  BY <1>1 DEF Context
<1>3. Blended(g, h, f)
  BY <1>1 DEF Context, Blended, SameColours, SameFunctions, SameMatrices
<1> QED BY <1>2, <1>3 DEF Context, Tracking, Blended, SameColours, SameFunctions, SameMatrices

LEMMA DoesAlphaFunc ==
  \A g, h, f : Context(g) /\ h = Exec(g, AlphaFunc(f)) =>
    Context(h) /\ AlphaTested(g, h, f)
<1> SUFFICES ASSUME NEW g, NEW h, NEW f, Context(g), h = Exec(g, AlphaFunc(f))
             PROVE  Context(h) /\ AlphaTested(g, h, f)
  OBVIOUS
<1>1. h = [g EXCEPT !.alpha = f]
  BY DEF Exec, AlphaFunc
<1>2. h = [on |-> h.on, color |-> h.color, diffuse |-> h.diffuse, fill |-> h.fill,
           blend |-> h.blend, alpha |-> h.alpha, texture |-> h.texture,
           mode |-> h.mode, stack |-> h.stack, drawn |-> h.drawn]
  BY <1>1 DEF Context
<1>3. AlphaTested(g, h, f)
  BY <1>1 DEF Context, AlphaTested, SameColours, SameFunctions, SameMatrices
<1> QED BY <1>2, <1>3 DEF Context, Tracking, AlphaTested, SameColours, SameFunctions, SameMatrices

LEMMA DoesBindTexture ==
  \A g, h, t : Context(g) /\ h = Exec(g, BindTexture(t)) =>
    Context(h) /\ Bound(g, h, t)
<1> SUFFICES ASSUME NEW g, NEW h, NEW t, Context(g), h = Exec(g, BindTexture(t))
             PROVE  Context(h) /\ Bound(g, h, t)
  OBVIOUS
<1>1. h = [g EXCEPT !.texture = t]
  BY DEF Exec, BindTexture
<1>2. h = [on |-> h.on, color |-> h.color, diffuse |-> h.diffuse, fill |-> h.fill,
           blend |-> h.blend, alpha |-> h.alpha, texture |-> h.texture,
           mode |-> h.mode, stack |-> h.stack, drawn |-> h.drawn]
  BY <1>1 DEF Context
<1>3. Bound(g, h, t)
  BY <1>1 DEF Context, Bound, SameColours, SameFunctions, SameMatrices
<1> QED BY <1>2, <1>3 DEF Context, Tracking, Bound, SameColours, SameFunctions, SameMatrices

LEMMA DoesDraw ==
  \A g, h, obj, of, name : Context(g) /\ h = Exec(g, Draw(obj, of, name)) =>
    Context(h) /\ Drawn(g, h, obj, of, name)
<1> SUFFICES ASSUME NEW g, NEW h, NEW obj, NEW of, NEW name, Context(g), h = Exec(g, Draw(obj, of, name))
             PROVE  Context(h) /\ Drawn(g, h, obj, of, name)
  OBVIOUS
<1>1. h = [g EXCEPT !.drawn = Append(@, Look(g, [obj |-> obj, of |-> of, name |-> name]))]
  BY DEF Exec, Draw
<1>2. h = [on |-> h.on, color |-> h.color, diffuse |-> h.diffuse, fill |-> h.fill,
           blend |-> h.blend, alpha |-> h.alpha, texture |-> h.texture,
           mode |-> h.mode, stack |-> h.stack, drawn |-> h.drawn]
  BY <1>1 DEF Context
<1>3. Drawn(g, h, obj, of, name)
  BY <1>1 DEF Context, Drawn, SameColours, SameFunctions, SameMatrices
<1> QED BY ListAppend, <1>2, <1>3 DEF Context, Tracking, Drawn, SameColours, SameFunctions, SameMatrices


(* A capability is enabled or disabled.                                    *)
Switched(g, h, c, b) ==
  /\ h.on = (IF b THEN g.on \cup {c} ELSE g.on \ {c})
  /\ h.color = g.color /\ h.texture = g.texture
  /\ h.diffuse = g.diffuse \/ (b /\ c = "COLOR_MATERIAL")
  /\ SameFunctions(h, g) /\ SameMatrices(h, g) /\ h.drawn = g.drawn

LEMMA DoesSwitch ==
  \A g, h, c, b :
    Context(g) /\ c \in Capability /\ h = Exec(g, IF b THEN Enable(c) ELSE Disable(c)) =>
      Context(h) /\ Switched(g, h, c, b)
<1> SUFFICES ASSUME NEW g, NEW h, NEW c, NEW b, Context(g), c \in Capability,
                    h = Exec(g, IF b THEN Enable(c) ELSE Disable(c))
             PROVE  Context(h) /\ Switched(g, h, c, b)
  OBVIOUS
<1>1. CASE b
  <2>1. Context(h) /\ Enabled(g, h, c)
    BY <1>1, DoesEnable
  <2> QED BY <1>1, <2>1 DEF Enabled, Switched
<1>2. CASE ~b
  <2>1. Context(h) /\ Disabled(g, h, c)
    BY <1>2, DoesDisable
  <2> QED BY <1>2, <2>1 DEF Disabled, Switched, SameColours
<1> QED BY <1>1, <1>2

SamePicture(h, g) ==
  /\ h.on = g.on /\ SameColours(h, g) /\ h.texture = g.texture
  /\ SameFunctions(h, g) /\ h.drawn = g.drawn

(* The matrices: the one on top, and those below it.                       *)
View(g, b, t) == IsList(b) /\ g.stack.MODELVIEW = Append(b, t)
Projection(g, b, t) == IsList(b) /\ g.stack.PROJECTION = Append(b, t)

LEMMA DoesMatrixMode ==
  \A g, h, m : Context(g) /\ m \in {"MODELVIEW", "PROJECTION"} /\ h = Exec(g, MatrixMode(m)) =>
    Context(h) /\ SamePicture(h, g) /\ h.mode = m /\ h.stack = g.stack
<1> SUFFICES ASSUME NEW g, NEW h, NEW m, Context(g), m \in {"MODELVIEW", "PROJECTION"},
                    h = Exec(g, MatrixMode(m))
             PROVE  Context(h) /\ SamePicture(h, g) /\ h.mode = m /\ h.stack = g.stack
  OBVIOUS
<1>1. h = [g EXCEPT !.mode = m]
  BY DEF Exec, MatrixMode
<1>2. h = [on |-> h.on, color |-> h.color, diffuse |-> h.diffuse, fill |-> h.fill,
           blend |-> h.blend, alpha |-> h.alpha, texture |-> h.texture,
           mode |-> h.mode, stack |-> h.stack, drawn |-> h.drawn]
  BY <1>1 DEF Context
<1>3. SamePicture(h, g) /\ h.mode = m /\ h.stack = g.stack
  BY <1>1 DEF Context, SamePicture, SameColours, SameFunctions
<1> QED BY <1>2, <1>3 DEF Context, Tracking, SamePicture, SameColours, SameFunctions

(* A call that replaces the stack in use by another.                       *)
Restacked(g, s) == [g EXCEPT !.stack[g.mode] = s]

LEMMA StackReplaced ==
  ASSUME NEW g, NEW h, NEW s, Context(g), IsStack(s), h = Restacked(g, s)
  PROVE  /\ Context(h) /\ SamePicture(h, g) /\ h.mode = g.mode
         /\ g.mode = "MODELVIEW" =>
              h.stack.MODELVIEW = s /\ h.stack.PROJECTION = g.stack.PROJECTION
         /\ g.mode = "PROJECTION" =>
              h.stack.PROJECTION = s /\ h.stack.MODELVIEW = g.stack.MODELVIEW
<1>1. h = [on |-> h.on, color |-> h.color, diffuse |-> h.diffuse, fill |-> h.fill,
           blend |-> h.blend, alpha |-> h.alpha, texture |-> h.texture,
           mode |-> h.mode, stack |-> h.stack, drawn |-> h.drawn]
  BY DEF Context, Restacked
<1>2. SamePicture(h, g) /\ h.mode = g.mode
  BY DEF Context, Restacked, SamePicture, SameColours, SameFunctions
<1>3. h.stack = [g.stack EXCEPT ![g.mode] = s]
  BY DEF Context, Restacked
<1> DEFINE M == g.stack.MODELVIEW
           P == g.stack.PROJECTION
<1>4. g.stack = [MODELVIEW |-> M, PROJECTION |-> P] /\ IsStack(M) /\ IsStack(P)
      /\ g.mode \in {"MODELVIEW", "PROJECTION"}
  BY DEF Context
<1> HIDE DEF M, P
<1>5. CASE g.mode = "MODELVIEW"
  <2>1. h.stack = [MODELVIEW |-> s, PROJECTION |-> P]
    BY <1>3, <1>4, <1>5
  <2>2. Context(h)
    BY <1>1, <1>2, <1>4, <2>1 DEF Context, Tracking, SamePicture, SameColours, SameFunctions
  <2> QED BY <1>2, <1>4, <1>5, <2>1, <2>2
<1>6. CASE g.mode = "PROJECTION"
  <2>1. h.stack = [MODELVIEW |-> M, PROJECTION |-> s]
    BY <1>3, <1>4, <1>6
  <2>2. Context(h)
    BY <1>1, <1>2, <1>4, <2>1 DEF Context, Tracking, SamePicture, SameColours, SameFunctions
  <2> QED BY <1>2, <1>4, <1>6, <2>1, <2>2
<1> QED BY <1>4, <1>5, <1>6


(* The four calls that change the stack in use, by what they do to it.     *)
LEMMA DoesPush ==
  \A g, h, b, t : Context(g) /\ g.mode = "MODELVIEW" /\ View(g, b, t) /\ h = Exec(g, PushMatrix) =>
    /\ Context(h) /\ SamePicture(h, g) /\ h.mode = "MODELVIEW"
    /\ View(h, Append(b, t), t) /\ h.stack.PROJECTION = g.stack.PROJECTION
<1> SUFFICES ASSUME NEW g, NEW h, NEW b, NEW t, Context(g), g.mode = "MODELVIEW", View(g, b, t),
                    h = Exec(g, PushMatrix)
             PROVE  /\ Context(h) /\ SamePicture(h, g) /\ h.mode = "MODELVIEW"
                    /\ View(h, Append(b, t), t) /\ h.stack.PROJECTION = g.stack.PROJECTION
  OBVIOUS
<1>1. IsList(b) /\ g.stack.MODELVIEW = Append(b, t)
  BY DEF View
<1>2. IsList(Append(b, t)) /\ Last(Append(b, t)) = t /\ Len(Append(b, t)) \in Nat
  BY <1>1, ListAppend DEF IsList
<1> DEFINE s == Append(Append(b, t), t)
<1>3. IsStack(s)
  BY <1>2, ListAppend DEF IsStack
<1>4. h = Restacked(g, s)
  <2>1. h = [g EXCEPT !.stack[g.mode] = Append(@, Last(@))]
    BY DEF Exec, PushMatrix
  <2>2. g.stack[g.mode] = Append(b, t)
    BY <1>1
  <2>3. h = [g EXCEPT !.stack[g.mode] = Append(g.stack[g.mode], Last(g.stack[g.mode]))]
    BY <2>1 DEF Context
  <2> QED BY <1>2, <2>2, <2>3 DEF Restacked
<1> HIDE DEF s
<1>5. /\ Context(h) /\ SamePicture(h, g) /\ h.mode = g.mode
      /\ h.stack.MODELVIEW = s /\ h.stack.PROJECTION = g.stack.PROJECTION
  BY <1>3, <1>4, StackReplaced
<1> QED BY <1>2, <1>5 DEF View, s

LEMMA DoesPop ==
  \A g, h, b, t, u : Context(g) /\ g.mode = "MODELVIEW" /\ View(g, Append(b, t), u) /\ IsList(b)
                     /\ h = Exec(g, PopMatrix) =>
    /\ Context(h) /\ SamePicture(h, g) /\ h.mode = "MODELVIEW"
    /\ View(h, b, t) /\ h.stack.PROJECTION = g.stack.PROJECTION
<1> SUFFICES ASSUME NEW g, NEW h, NEW b, NEW t, NEW u, Context(g), g.mode = "MODELVIEW",
                    View(g, Append(b, t), u), IsList(b), h = Exec(g, PopMatrix)
             PROVE  /\ Context(h) /\ SamePicture(h, g) /\ h.mode = "MODELVIEW"
                    /\ View(h, b, t) /\ h.stack.PROJECTION = g.stack.PROJECTION
  OBVIOUS
<1> DEFINE s == Append(b, t)
<1>1. IsList(s) /\ IsStack(s) /\ Len(s) \in Nat \ {0}
  BY ListAppend DEF IsStack, IsList
<1>2. g.stack.MODELVIEW = Append(s, u)
  BY DEF View
<1> HIDE DEF s
<1>3. Front(Append(s, u)) = s /\ Len(Append(s, u)) > 1
  <2>1. Len(Append(s, u)) = Len(s) + 1
    BY <1>1, ListAppend
  <2> QED BY <1>1, <2>1, ListAppend
<1>4. h = Restacked(g, s)
  <2>1. h = [g EXCEPT !.stack[g.mode] = IF Len(@) > 1 THEN Front(@) ELSE @]
    BY DEF Exec, PopMatrix
  <2>2. g.stack[g.mode] = Append(s, u)
    BY <1>2
  <2>3. h = [g EXCEPT !.stack[g.mode] = IF Len(g.stack[g.mode]) > 1 THEN Front(g.stack[g.mode])
                                        ELSE g.stack[g.mode]]
    BY <2>1 DEF Context
  <2> QED BY <1>3, <2>2, <2>3 DEF Restacked
<1>5. /\ Context(h) /\ SamePicture(h, g) /\ h.mode = g.mode
      /\ h.stack.MODELVIEW = s /\ h.stack.PROJECTION = g.stack.PROJECTION
  BY <1>1, <1>4, StackReplaced
<1> QED BY <1>5 DEF View, s

LEMMA DoesMult ==
  \A g, h, b, t, x : Context(g) /\ g.mode = "MODELVIEW" /\ View(g, b, t) /\ h = Exec(g, MultMatrix(x)) =>
    /\ Context(h) /\ SamePicture(h, g) /\ h.mode = "MODELVIEW"
    /\ View(h, b, Append(t, x)) /\ h.stack.PROJECTION = g.stack.PROJECTION
<1> SUFFICES ASSUME NEW g, NEW h, NEW b, NEW t, NEW x, Context(g), g.mode = "MODELVIEW",
                    View(g, b, t), h = Exec(g, MultMatrix(x))
             PROVE  /\ Context(h) /\ SamePicture(h, g) /\ h.mode = "MODELVIEW"
                    /\ View(h, b, Append(t, x)) /\ h.stack.PROJECTION = g.stack.PROJECTION
  OBVIOUS
<1>1. IsList(b) /\ g.stack.MODELVIEW = Append(b, t)
  BY DEF View
<1>2. Front(Append(b, t)) = b /\ Last(Append(b, t)) = t
  BY <1>1, ListAppend
<1> DEFINE s == Append(b, Append(t, x))
<1>3. IsStack(s)
  <2>1. IsList(s) /\ Len(s) = Len(b) + 1
    BY <1>1, ListAppend
  <2> QED BY <1>1, <2>1 DEF IsStack, IsList
<1>4. h = Restacked(g, s)
  <2>1. h = [g EXCEPT !.stack[g.mode] = Append(Front(@), Append(Last(@), x))]
    BY DEF Exec, MultMatrix
  <2>2. g.stack[g.mode] = Append(b, t)
    BY <1>1
  <2>3. h = [g EXCEPT !.stack[g.mode] = Append(Front(g.stack[g.mode]), Append(Last(g.stack[g.mode]), x))]
    BY <2>1 DEF Context
  <2> QED BY <1>2, <2>2, <2>3 DEF Restacked
<1> HIDE DEF s
<1>5. /\ Context(h) /\ SamePicture(h, g) /\ h.mode = g.mode
      /\ h.stack.MODELVIEW = s /\ h.stack.PROJECTION = g.stack.PROJECTION
  BY <1>3, <1>4, StackReplaced
<1> QED BY <1>1, <1>5 DEF View, s

LEMMA DoesLoadIdentity ==
  \A g, h, b, t : Context(g) /\ g.mode = "MODELVIEW" /\ View(g, b, t) /\ h = Exec(g, LoadIdentity) =>
    /\ Context(h) /\ SamePicture(h, g) /\ h.mode = "MODELVIEW"
    /\ View(h, b, <<>>) /\ h.stack.PROJECTION = g.stack.PROJECTION
<1> SUFFICES ASSUME NEW g, NEW h, NEW b, NEW t, Context(g), g.mode = "MODELVIEW",
                    View(g, b, t), h = Exec(g, LoadIdentity)
             PROVE  /\ Context(h) /\ SamePicture(h, g) /\ h.mode = "MODELVIEW"
                    /\ View(h, b, <<>>) /\ h.stack.PROJECTION = g.stack.PROJECTION
  OBVIOUS
<1>1. IsList(b) /\ g.stack.MODELVIEW = Append(b, t)
  BY DEF View
<1>2. Front(Append(b, t)) = b
  BY <1>1, ListAppend
<1> DEFINE s == Append(b, <<>>)
<1>3. IsStack(s)
  <2>1. IsList(s) /\ Len(s) = Len(b) + 1
    BY <1>1, ListAppend
  <2> QED BY <1>1, <2>1 DEF IsStack, IsList
<1>4. h = Restacked(g, s)
  <2>1. h = [g EXCEPT !.stack[g.mode] = Append(Front(@), <<>>)]
    BY DEF Exec, LoadIdentity
  <2>2. g.stack[g.mode] = Append(b, t)
    BY <1>1
  <2>3. h = [g EXCEPT !.stack[g.mode] = Append(Front(g.stack[g.mode]), <<>>)]
    BY <2>1 DEF Context
  <2> QED BY <1>2, <2>2, <2>3 DEF Restacked
<1> HIDE DEF s
<1>5. /\ Context(h) /\ SamePicture(h, g) /\ h.mode = g.mode
      /\ h.stack.MODELVIEW = s /\ h.stack.PROJECTION = g.stack.PROJECTION
  BY <1>3, <1>4, StackReplaced
<1> QED BY <1>1, <1>5 DEF View, s

(* The projection is only loaded and multiplied.                           *)
LEMMA DoesLoadProjection ==
  \A g, h, b, t : Context(g) /\ g.mode = "PROJECTION" /\ Projection(g, b, t) /\ h = Exec(g, LoadIdentity) =>
    /\ Context(h) /\ SamePicture(h, g) /\ h.mode = "PROJECTION"
    /\ Projection(h, b, <<>>) /\ h.stack.MODELVIEW = g.stack.MODELVIEW
<1> SUFFICES ASSUME NEW g, NEW h, NEW b, NEW t, Context(g), g.mode = "PROJECTION",
                    Projection(g, b, t), h = Exec(g, LoadIdentity)
             PROVE  /\ Context(h) /\ SamePicture(h, g) /\ h.mode = "PROJECTION"
                    /\ Projection(h, b, <<>>) /\ h.stack.MODELVIEW = g.stack.MODELVIEW
  OBVIOUS
<1>1. IsList(b) /\ g.stack.PROJECTION = Append(b, t)
  BY DEF Projection
<1>2. Front(Append(b, t)) = b
  BY <1>1, ListAppend
<1> DEFINE s == Append(b, <<>>)
<1>3. IsStack(s)
  <2>1. IsList(s) /\ Len(s) = Len(b) + 1
    BY <1>1, ListAppend
  <2> QED BY <1>1, <2>1 DEF IsStack, IsList
<1>4. h = Restacked(g, s)
  <2>1. h = [g EXCEPT !.stack[g.mode] = Append(Front(@), <<>>)]
    BY DEF Exec, LoadIdentity
  <2>2. g.stack[g.mode] = Append(b, t)
    BY <1>1
  <2>3. h = [g EXCEPT !.stack[g.mode] = Append(Front(g.stack[g.mode]), <<>>)]
    BY <2>1 DEF Context
  <2> QED BY <1>2, <2>2, <2>3 DEF Restacked
<1> HIDE DEF s
<1>5. /\ Context(h) /\ SamePicture(h, g) /\ h.mode = g.mode
      /\ h.stack.PROJECTION = s /\ h.stack.MODELVIEW = g.stack.MODELVIEW
  BY <1>3, <1>4, StackReplaced
<1> QED BY <1>1, <1>5 DEF Projection, s

LEMMA DoesMultProjection ==
  \A g, h, b, t, x : Context(g) /\ g.mode = "PROJECTION" /\ Projection(g, b, t) /\ h = Exec(g, MultMatrix(x)) =>
    /\ Context(h) /\ SamePicture(h, g) /\ h.mode = "PROJECTION"
    /\ Projection(h, b, Append(t, x)) /\ h.stack.MODELVIEW = g.stack.MODELVIEW
<1> SUFFICES ASSUME NEW g, NEW h, NEW b, NEW t, NEW x, Context(g), g.mode = "PROJECTION",
                    Projection(g, b, t), h = Exec(g, MultMatrix(x))
             PROVE  /\ Context(h) /\ SamePicture(h, g) /\ h.mode = "PROJECTION"
                    /\ Projection(h, b, Append(t, x)) /\ h.stack.MODELVIEW = g.stack.MODELVIEW
  OBVIOUS
<1>1. IsList(b) /\ g.stack.PROJECTION = Append(b, t)
  BY DEF Projection
<1>2. Front(Append(b, t)) = b /\ Last(Append(b, t)) = t
  BY <1>1, ListAppend
<1> DEFINE s == Append(b, Append(t, x))
<1>3. IsStack(s)
  <2>1. IsList(s) /\ Len(s) = Len(b) + 1
    BY <1>1, ListAppend
  <2> QED BY <1>1, <2>1 DEF IsStack, IsList
<1>4. h = Restacked(g, s)
  <2>1. h = [g EXCEPT !.stack[g.mode] = Append(Front(@), Append(Last(@), x))]
    BY DEF Exec, MultMatrix
  <2>2. g.stack[g.mode] = Append(b, t)
    BY <1>1
  <2>3. h = [g EXCEPT !.stack[g.mode] = Append(Front(g.stack[g.mode]), Append(Last(g.stack[g.mode]), x))]
    BY <2>1 DEF Context
  <2> QED BY <1>2, <2>2, <2>3 DEF Restacked
<1> HIDE DEF s
<1>5. /\ Context(h) /\ SamePicture(h, g) /\ h.mode = g.mode
      /\ h.stack.PROJECTION = s /\ h.stack.MODELVIEW = g.stack.MODELVIEW
  BY <1>3, <1>4, StackReplaced
<1> QED BY <1>1, <1>5 DEF Projection, s

-----------------------------------------------------------------------------
(* The picture                                                             *)

Part(obj, of, name) == [obj |-> obj, of |-> of, name |-> name]

(* What depends on the switch of the depth test, and the projection a part *)
(* is drawn in.                                                            *)
WithDepth(part) == ~OfPanel(part) /\ ~(part.of = "flame" /\ part.obj \in PlayerID)
ProjOf(part) == IF OfPanel(part) THEN <<<<"ortho">>>> ELSE <<<<"perspective">>>>

Good(d) ==
  /\ d.texture = TextureOf(d.part)
  /\ "DEPTH_TEST" \in d.on <=> WithDepth(d.part)
  /\ d.view = PlaceOf(d.part) /\ d.proj = ProjOf(d.part)

(* When the look of a part is good.                                        *)
Suits(g, part) ==
  /\ (IF "TEXTURE_2D" \in g.on THEN g.texture ELSE NoTexture) = TextureOf(part)
  /\ "DEPTH_TEST" \in g.on <=> WithDepth(part)
  /\ Top(g, "MODELVIEW") = PlaceOf(part) /\ Top(g, "PROJECTION") = ProjOf(part)

Fine(pic) == \A i \in 1 .. Len(pic) : Good(pic[i])

(* The parts that show an object, and how many there are.                  *)
Shows(part, id, of) == part.obj = id /\ part.of = of /\ part.name \in {"flame", "mark"}
Counted == {"flame", "vertical", "horizontal"}
Count(pic, id, of) == Cardinality({i \in 1 .. Len(pic) : Shows(pic[i].part, id, of)})

SameCounts(h, g) ==
  \A i : \A of \in Counted : Count(h.drawn, i, of) = Count(g.drawn, i, of)
(* An object is shown once more than before, and no other.                 *)
ShowsOnce(h, g, id) ==
  \A i : \A of \in Counted : Count(h.drawn, i, of) =
    Count(g.drawn, i, of) + (IF i = id /\ of = "flame" THEN 1 ELSE 0)

PanelOnTop(pic) ==
  \A i, j \in 1 .. Len(pic) : OfPanel(pic[i].part) /\ j > i => OfPanel(pic[j].part)
NoPanel(pic) == \A i \in 1 .. Len(pic) : ~OfPanel(pic[i].part)

LEMMA LookIsGood ==
  \A g, part : Suits(g, part) => Good(Look(g, part))
<1> SUFFICES ASSUME NEW g, NEW part, Suits(g, part) PROVE Good(Look(g, part))
  OBVIOUS
<1> DEFINE d == Look(g, part)
<1>1. /\ d.part = part /\ d.texture = IF "TEXTURE_2D" \in g.on THEN g.texture ELSE NoTexture
      /\ d.view = Top(g, "MODELVIEW") /\ d.proj = Top(g, "PROJECTION")
  BY DEF Look
<1>2. "DEPTH_TEST" \in d.on <=> "DEPTH_TEST" \in g.on
  BY DEF Look
<1> HIDE DEF d
<1>3. Good(d)
  BY <1>1, <1>2 DEF Suits, Good
<1> QED BY <1>3 DEF d

LEMMA PictureFine ==
  \A pic, d : IsList(pic) /\ Fine(pic) /\ Good(d) => Fine(Append(pic, d))
<1> SUFFICES ASSUME NEW pic, NEW d, IsList(pic), Fine(pic), Good(d) PROVE Fine(Append(pic, d))
  OBVIOUS
<1>1. \A i \in 1 .. Len(pic) + 1 : i \in 1 .. Len(pic) \/ i = Len(pic) + 1
  BY DEF IsList
<1> QED BY <1>1, ListAppend DEF Fine

LEMMA PicturePanel ==
  \A pic, d : IsList(pic) =>
    /\ PanelOnTop(pic) /\ OfPanel(d.part) => PanelOnTop(Append(pic, d))
    /\ NoPanel(pic) /\ ~OfPanel(d.part) => NoPanel(Append(pic, d))
<1> SUFFICES ASSUME NEW pic, NEW d, IsList(pic)
             PROVE  /\ PanelOnTop(pic) /\ OfPanel(d.part) => PanelOnTop(Append(pic, d))
                    /\ NoPanel(pic) /\ ~OfPanel(d.part) => NoPanel(Append(pic, d))
  OBVIOUS
<1>1. \A i \in 1 .. Len(pic) + 1 : i \in 1 .. Len(pic) \/ i = Len(pic) + 1
  BY DEF IsList
<1>2. Len(pic) \in Nat
  BY DEF IsList
<1> QED BY <1>1, <1>2, ListAppend DEF PanelOnTop, NoPanel

LEMMA PictureCount ==
  \A pic, d, id, of : IsList(pic) =>
    /\ Count(pic, id, of) \in Nat
    /\ Count(Append(pic, d), id, of) =
         Count(pic, id, of) + (IF Shows(d.part, id, of) THEN 1 ELSE 0)
<1> SUFFICES ASSUME NEW pic, NEW d, NEW id, NEW of, IsList(pic)
             PROVE  /\ Count(pic, id, of) \in Nat
                    /\ Count(Append(pic, d), id, of) =
                         Count(pic, id, of) + (IF Shows(d.part, id, of) THEN 1 ELSE 0)
  OBVIOUS
<1> DEFINE n == Len(pic)
           S == {i \in 1 .. n : Shows(pic[i].part, id, of)}
           T == {i \in 1 .. n + 1 : Shows(Append(pic, d)[i].part, id, of)}
<1>1. n \in Nat
  BY DEF IsList
<1>2. IsFiniteSet(S) /\ n + 1 \notin S
  <2>1. IsFiniteSet(1 .. n) /\ S \subseteq 1 .. n
    BY <1>1, FS_Interval
  <2> QED BY <1>1, <2>1, FS_Subset
<1>3. Append(pic, d)[n + 1] = d /\ \A i \in 1 .. n : Append(pic, d)[i] = pic[i]
  BY ListAppend
<1>4. T = IF Shows(d.part, id, of) THEN S \cup {n + 1} ELSE S
  <2>1. \A i : i \in 1 .. n + 1 <=> i \in 1 .. n \/ i = n + 1
    BY <1>1
  <2>2. n + 1 \notin 1 .. n
    BY <1>1
  <2> QED BY <1>3, <2>1, <2>2
<1>5. Count(pic, id, of) = Cardinality(S) /\ Count(Append(pic, d), id, of) = Cardinality(T)
  BY ListAppend DEF Count
<1> HIDE DEF S, T
<1>6. Cardinality(S) \in Nat
  BY <1>2, FS_CardinalityType
<1>7. Cardinality(S \cup {n + 1}) = Cardinality(S) + 1
  BY <1>2, FS_AddElement
<1> QED BY <1>4, <1>5, <1>6, <1>7

-----------------------------------------------------------------------------
(* What the drawing functions do                                           *)

(* The states that running a list goes through.                            *)
TraceOf(g, s) == CHOOSE a : Trace(g, s, a)

LEMMA Traced ==
  \A g, s : IsList(s) => Trace(g, s, TraceOf(g, s)) /\ Run(g, s) = TraceOf(g, s)[Len(s)]
<1> SUFFICES ASSUME NEW g, NEW s, IsList(s)
             PROVE  Trace(g, s, TraceOf(g, s)) /\ Run(g, s) = TraceOf(g, s)[Len(s)]
  OBVIOUS
<1>1. Len(s) \in Nat
  BY DEF IsList
<1>2. \E a : Trace(g, s, a)
  BY <1>1, RunTrace
<1>3. Trace(g, s, TraceOf(g, s))
  BY <1>2 DEF TraceOf
<1> QED BY <1>1, <1>3, TraceUnique

(* The state that a flame leaves as it was, or not.                        *)
AfterFlame(g, h) ==
  /\ Context(h) /\ SameMatrices(h, g) /\ h.fill = g.fill
  /\ h.on = g.on \ {"BLEND", "ALPHA_TEST", "TEXTURE_2D"}
  /\ h.color = [rgb |-> Plain("white"), a |-> 7] /\ h.blend = "over"
  /\ h.diffuse = IF Tracking(g) THEN Plain("white") ELSE g.diffuse

(* The state p in which a part is drawn, after g.                          *)
DrawnIn(p, g, on, rgb, a) ==
  /\ p.on = on /\ p.color = [rgb |-> rgb, a |-> a]
  /\ p.stack = g.stack /\ p.fill = g.fill

FlameIn(p, g, id, a) ==
  /\ DrawnIn(p, g, g.on \cup {"BLEND", "ALPHA_TEST", "TEXTURE_2D"}, Plain("white"), a)
  /\ p.texture = texid("flame", id) /\ p.blend = "over" /\ p.alpha = "GREATER_HALF"

LEMMA FlameCalls ==
  ASSUME NEW g, NEW h, NEW id, Context(g), h = Run(g, FlameRender(id))
  PROVE  /\ AfterFlame(g, h)
         /\ \E p, q :
              /\ FlameIn(p, g, id, 10) /\ FlameIn(q, g, id, 7)
              /\ h.drawn = Append(Append(g.drawn, Look(p, Part(id, "flame", "nozzle"))),
                                  Look(q, Part(id, "flame", "flame")))
<1> DEFINE s1 == <<Enable("BLEND"), BlendFunc("over"), Enable("ALPHA_TEST"),
                   AlphaFunc("GREATER_HALF"), Enable("TEXTURE_2D")>>
           s2 == <<BindTexture(texid("flame", id))>>
           s3 == <<Color(Plain("white"), 10), Draw(id, "flame", "nozzle"),
                   Color(Plain("white"), 7), Draw(id, "flame", "flame"),
                   Disable("BLEND"), Disable("ALPHA_TEST"), Disable("TEXTURE_2D")>>
<1>1. FlameRender(id) = (s1 \o s2) \o s3
  BY DEF FlameRender, FlameBind
<1>2. IsList(s1) /\ Len(s1) = 5 /\ IsList(s2) /\ Len(s2) = 1 /\ IsList(s3) /\ Len(s3) = 7
  BY DEF IsList
<1>3. h = Run(Run(Run(g, s1), s2), s3)
  <2> HIDE DEF s1, s2, s3
  <2> QED BY <1>1, <1>2, Concatenated, RunConcat
<1> DEFINE a == TraceOf(g, s1)
           b == TraceOf(a[5], s2)
           c == TraceOf(b[1], s3)
<1>4. Trace(g, s1, a) /\ Run(g, s1) = a[5]
  <2> HIDE DEF s1, b, c
  <2> QED BY <1>2, Traced
<1>5. Trace(a[5], s2, b) /\ Run(a[5], s2) = b[1]
  <2> HIDE DEF s2, a, c
  <2> QED BY <1>2, Traced
<1>6. Trace(b[1], s3, c) /\ Run(b[1], s3) = c[7]
  <2> HIDE DEF s3, a, b
  <2> QED BY <1>2, Traced
<1> HIDE DEF a, b, c
<1>7. /\ a[1] = Exec(g, Enable("BLEND")) /\ a[2] = Exec(a[1], BlendFunc("over"))
      /\ a[3] = Exec(a[2], Enable("ALPHA_TEST")) /\ a[4] = Exec(a[3], AlphaFunc("GREATER_HALF"))
      /\ a[5] = Exec(a[4], Enable("TEXTURE_2D"))
  BY <1>4, <1>2 DEF Trace
<1>8. b[1] = Exec(a[5], BindTexture(texid("flame", id)))
  BY <1>5, <1>2 DEF Trace
<1>9. /\ c[1] = Exec(b[1], Color(Plain("white"), 10)) /\ c[2] = Exec(c[1], Draw(id, "flame", "nozzle"))
      /\ c[3] = Exec(c[2], Color(Plain("white"), 7)) /\ c[4] = Exec(c[3], Draw(id, "flame", "flame"))
      /\ c[5] = Exec(c[4], Disable("BLEND")) /\ c[6] = Exec(c[5], Disable("ALPHA_TEST"))
      /\ c[7] = Exec(c[6], Disable("TEXTURE_2D"))
  BY <1>6, <1>2 DEF Trace
<1>10. h = c[7]
  BY <1>3, <1>4, <1>5, <1>6
<1>11. {"BLEND", "ALPHA_TEST", "TEXTURE_2D"} \subseteq Capability
  BY DEF Capability
<1>12. /\ Enabled(g, a[1], "BLEND") /\ Blended(a[1], a[2], "over") /\ Enabled(a[2], a[3], "ALPHA_TEST")
       /\ AlphaTested(a[3], a[4], "GREATER_HALF") /\ Enabled(a[4], a[5], "TEXTURE_2D") /\ Context(a[5])
  BY <1>7, <1>11, DoesEnable, DoesBlendFunc, DoesAlphaFunc
<1>13. /\ Bound(a[5], b[1], texid("flame", id)) /\ Colored(b[1], c[1], Plain("white"), 10)
       /\ Drawn(c[1], c[2], id, "flame", "nozzle") /\ Colored(c[2], c[3], Plain("white"), 7)
       /\ Drawn(c[3], c[4], id, "flame", "flame") /\ Context(c[1]) /\ Context(c[4])
  BY <1>8, <1>9, <1>12, DoesBindTexture, DoesColor, DoesDraw
<1>14. /\ Disabled(c[4], c[5], "BLEND") /\ Disabled(c[5], c[6], "ALPHA_TEST")
       /\ Disabled(c[6], h, "TEXTURE_2D") /\ Context(h)
  BY <1>9, <1>10, <1>11, <1>13, DoesDisable
<1>15. /\ SameMatrices(a[5], g) /\ a[5].fill = g.fill /\ a[5].blend = "over"
       /\ a[5].on = g.on \cup {"BLEND", "ALPHA_TEST", "TEXTURE_2D"} /\ a[5].alpha = "GREATER_HALF"
       /\ a[5].diffuse = g.diffuse /\ a[5].drawn = g.drawn
  BY <1>12 DEF Enabled, Blended, AlphaTested, SameMatrices, SameColours, SameFunctions
<1>16. /\ SameMatrices(c[4], g) /\ c[4].fill = g.fill /\ c[4].blend = "over"
       /\ c[4].on = a[5].on /\ c[4].color = [rgb |-> Plain("white"), a |-> 7]
  BY <1>13, <1>15 DEF Bound, Colored, Drawn, SameMatrices, SameColours, SameFunctions
<1>17. FlameIn(c[1], g, id, 10) /\ FlameIn(c[3], g, id, 7)
  BY <1>13, <1>15
     DEF Bound, Colored, Drawn, SameMatrices, SameColours, SameFunctions, FlameIn, DrawnIn
<1>18. h.drawn = Append(Append(g.drawn, Look(c[1], Part(id, "flame", "nozzle"))),
                        Look(c[3], Part(id, "flame", "flame")))
  BY <1>13, <1>14, <1>15 DEF Bound, Colored, Drawn, Disabled, Part
<1>19. c[4].diffuse = IF Tracking(g) THEN Plain("white") ELSE g.diffuse
  BY <1>13, <1>15 DEF Bound, Colored, Drawn, SameColours, Tracking
<1>20. AfterFlame(g, h)
  BY <1>14, <1>15, <1>16, <1>19 DEF Disabled, SameMatrices, SameColours, SameFunctions, AfterFlame
<1> QED BY <1>17, <1>18, <1>20

(* A picture of the world so far.                                          *)
World(pic) == Fine(pic) /\ NoPanel(pic)

(* A part of the world in its place is added to the picture.               *)
LEMMA PictureWorld ==
  \A pic, g, part : IsList(pic) /\ World(pic) /\ Suits(g, part) /\ ~OfPanel(part) =>
    World(Append(pic, Look(g, part)))
<1>1. \A g, part : Look(g, part).part = part
  BY DEF Look
<1> QED BY <1>1, LookIsGood, PictureFine, PicturePanel DEF World

Places(g, part) == Top(g, "MODELVIEW") = PlaceOf(part) /\ Top(g, "PROJECTION") = ProjOf(part)

LEMMA FlameDraws ==
  ASSUME NEW g, NEW h, NEW id, Context(g), h = Run(g, FlameRender(id)), World(g.drawn),
         \A name : Places(g, Part(id, "flame", name)),
         "DEPTH_TEST" \in g.on <=> id \notin PlayerID
  PROVE  /\ AfterFlame(g, h) /\ World(h.drawn)
         /\ ShowsOnce(h, g, id)
<1>1. AfterFlame(g, h)
  BY FlameCalls
<1> DEFINE nozzle == Part(id, "flame", "nozzle")
           flame == Part(id, "flame", "flame")
<1>2. PICK p, q : /\ FlameIn(p, g, id, 10) /\ FlameIn(q, g, id, 7)
                  /\ h.drawn = Append(Append(g.drawn, Look(p, nozzle)), Look(q, flame))
  BY FlameCalls
<1>3. ASSUME NEW r, NEW a, FlameIn(r, g, id, a), NEW name
      PROVE  Suits(r, Part(id, "flame", name)) /\ ~OfPanel(Part(id, "flame", name))
  <2> DEFINE part == Part(id, "flame", name)
  <2>1. part.of = "flame" /\ part.obj = id
    BY DEF Part
  <2>2. Places(g, part)
    OBVIOUS
  <2> HIDE DEF part
  <2>3. ~OfPanel(part) /\ (WithDepth(part) <=> id \notin PlayerID) /\ TextureOf(part) = texid("flame", id)
    BY <2>1 DEF OfPanel, WithDepth, TextureOf
  <2>4. "TEXTURE_2D" \in r.on /\ ("DEPTH_TEST" \in r.on <=> "DEPTH_TEST" \in g.on)
        /\ r.texture = texid("flame", id) /\ r.stack = g.stack
    BY <1>3 DEF FlameIn, DrawnIn
  <2>5. Top(r, "MODELVIEW") = PlaceOf(part) /\ Top(r, "PROJECTION") = ProjOf(part)
    BY <2>2, <2>4 DEF Places, Top
  <2>6. Suits(r, part)
    BY <2>3, <2>4, <2>5 DEF Suits
  <2> QED BY <2>3, <2>6 DEF part
<1>4. IsList(g.drawn)
  BY DEF Context
<1>5. IsList(Append(g.drawn, Look(p, nozzle)))
  BY <1>4, ListAppend
<1>6. World(h.drawn)
  <2>1. World(Append(g.drawn, Look(p, nozzle)))
    BY <1>2, <1>3, <1>4, PictureWorld
  <2> QED BY <1>2, <1>3, <1>5, <2>1, PictureWorld
<1>7. ASSUME NEW i, NEW of \in Counted
      PROVE  Count(h.drawn, i, of) =
               Count(g.drawn, i, of) + (IF i = id /\ of = "flame" THEN 1 ELSE 0)
  <2>1. Look(p, nozzle).part = nozzle /\ Look(q, flame).part = flame
    BY DEF Look
  <2>2. ~Shows(nozzle, i, of) /\ (Shows(flame, i, of) <=> i = id /\ of = "flame")
    BY DEF Shows, Part
  <2> HIDE DEF nozzle, flame
  <2> QED BY <1>2, <1>4, <1>5, <2>1, <2>2, PictureCount
<1> QED BY <1>1, <1>6, <1>7 DEF ShowsOnce

LEMMA TopIs ==
  \A g, b, t : /\ View(g, b, t) => Top(g, "MODELVIEW") = t
               /\ Projection(g, b, t) => Top(g, "PROJECTION") = t
<1> SUFFICES ASSUME NEW g, NEW b, NEW t
             PROVE  /\ View(g, b, t) => Top(g, "MODELVIEW") = t
                    /\ Projection(g, b, t) => Top(g, "PROJECTION") = t
  OBVIOUS
<1>1. IsList(b) => Last(Append(b, t)) = t
  BY ListAppend
<1> QED BY <1>1 DEF View, Projection, Top

(* A missile without its flame.                                            *)
MissileBody(id) ==
  <<Color(Plain("steel"), 10), Draw(id, "missile", "body"),
    Color(Plain("pink"), 10), Draw(id, "missile", "cone"),
    Color(Plain("red"), 10), Draw(id, "missile", "fins"), Enable("BLEND"),
    Color(Plain("black"), 10), Draw(id, "missile", "smoke"), Color(Plain("grey"), 0),
    Disable("TEXTURE_2D")>>

(* The states its four parts are drawn in, and the picture after them.     *)
MissileIn(p, q, r, s, g) ==
  /\ DrawnIn(p, g, g.on, Plain("steel"), 10) /\ DrawnIn(q, g, g.on, Plain("pink"), 10)
  /\ DrawnIn(r, g, g.on, Plain("red"), 10)
  /\ DrawnIn(s, g, g.on \cup {"BLEND"}, Plain("black"), 10) /\ s.blend = g.blend
MissileParts(pic, id, p, q, r, s) ==
  Append(Append(Append(Append(pic, Look(p, Part(id, "missile", "body"))),
                       Look(q, Part(id, "missile", "cone"))),
                Look(r, Part(id, "missile", "fins"))),
         Look(s, Part(id, "missile", "smoke")))

LEMMA MissileBodyCalls ==
  ASSUME NEW g, NEW h, NEW id, Context(g), "TEXTURE_2D" \notin g.on, h = Run(g, MissileBody(id))
  PROVE  /\ Context(h) /\ SameMatrices(h, g) /\ SameFunctions(h, g) /\ h.on = g.on \cup {"BLEND"}
         /\ \E p, q, r, s : /\ MissileIn(p, q, r, s, g)
                            /\ h.drawn = MissileParts(g.drawn, id, p, q, r, s)
<1> DEFINE s1 == MissileBody(id)
           a == TraceOf(g, s1)
<1>1. IsList(s1) /\ Len(s1) = 11
  BY DEF IsList, MissileBody
<1>2. Trace(g, s1, a) /\ h = a[11]
  <2> HIDE DEF s1
  <2> QED BY <1>1, Traced DEF s1
<1> HIDE DEF a
<1>3. /\ a[1] = Exec(g, Color(Plain("steel"), 10)) /\ a[2] = Exec(a[1], Draw(id, "missile", "body"))
      /\ a[3] = Exec(a[2], Color(Plain("pink"), 10)) /\ a[4] = Exec(a[3], Draw(id, "missile", "cone"))
      /\ a[5] = Exec(a[4], Color(Plain("red"), 10)) /\ a[6] = Exec(a[5], Draw(id, "missile", "fins"))
      /\ a[7] = Exec(a[6], Enable("BLEND")) /\ a[8] = Exec(a[7], Color(Plain("black"), 10))
      /\ a[9] = Exec(a[8], Draw(id, "missile", "smoke")) /\ a[10] = Exec(a[9], Color(Plain("grey"), 0))
      /\ a[11] = Exec(a[10], Disable("TEXTURE_2D"))
  BY <1>2, <1>1 DEF Trace, MissileBody
<1>4. {"BLEND", "TEXTURE_2D"} \subseteq Capability
  BY DEF Capability
<1>5. /\ Colored(g, a[1], Plain("steel"), 10) /\ Drawn(a[1], a[2], id, "missile", "body")
      /\ Colored(a[2], a[3], Plain("pink"), 10) /\ Drawn(a[3], a[4], id, "missile", "cone")
      /\ Colored(a[4], a[5], Plain("red"), 10) /\ Drawn(a[5], a[6], id, "missile", "fins")
      /\ Context(a[6])
  BY <1>3, DoesColor, DoesDraw
<1>6. /\ Enabled(a[6], a[7], "BLEND") /\ Colored(a[7], a[8], Plain("black"), 10)
      /\ Drawn(a[8], a[9], id, "missile", "smoke") /\ Colored(a[9], a[10], Plain("grey"), 0)
      /\ Disabled(a[10], h, "TEXTURE_2D") /\ Context(h)
  BY <1>2, <1>3, <1>4, <1>5, DoesEnable, DoesDisable, DoesColor, DoesDraw
<1>7. /\ DrawnIn(a[1], g, g.on, Plain("steel"), 10) /\ DrawnIn(a[3], g, g.on, Plain("pink"), 10)
      /\ DrawnIn(a[5], g, g.on, Plain("red"), 10)
      /\ SameMatrices(a[6], g) /\ SameFunctions(a[6], g) /\ a[6].on = g.on
  BY <1>5 DEF Colored, Drawn, SameMatrices, SameFunctions, DrawnIn
<1>8. /\ DrawnIn(a[8], g, g.on \cup {"BLEND"}, Plain("black"), 10) /\ a[8].blend = g.blend
      /\ SameMatrices(h, g) /\ SameFunctions(h, g) /\ h.on = g.on \cup {"BLEND"}
  BY <1>6, <1>7 DEF Enabled, Disabled, Colored, Drawn, SameMatrices, SameFunctions, DrawnIn
<1>9. h.drawn = MissileParts(g.drawn, id, a[1], a[3], a[5], a[8])
  BY <1>5, <1>6 DEF Enabled, Disabled, Colored, Drawn, Part, MissileParts
<1>10. MissileIn(a[1], a[3], a[5], a[8], g)
  BY <1>7, <1>8 DEF MissileIn
<1> QED BY <1>6, <1>8, <1>9, <1>10

LEMMA MissileBodyDraws ==
  ASSUME NEW g, NEW h, NEW id, Context(g), h = Run(g, MissileBody(id)), World(g.drawn),
         "TEXTURE_2D" \notin g.on, "DEPTH_TEST" \in g.on,
         \A name : Places(g, Part(id, "missile", name))
  PROVE  World(h.drawn) /\ SameCounts(h, g)
<1>1. PICK p, q, r, s : /\ MissileIn(p, q, r, s, g)
                        /\ h.drawn = MissileParts(g.drawn, id, p, q, r, s)
  BY MissileBodyCalls
<1>2. /\ "TEXTURE_2D" \notin p.on /\ "DEPTH_TEST" \in p.on /\ p.stack = g.stack
      /\ "TEXTURE_2D" \notin q.on /\ "DEPTH_TEST" \in q.on /\ q.stack = g.stack
      /\ "TEXTURE_2D" \notin r.on /\ "DEPTH_TEST" \in r.on /\ r.stack = g.stack
      /\ "TEXTURE_2D" \notin s.on /\ "DEPTH_TEST" \in s.on /\ s.stack = g.stack
  BY <1>1 DEF MissileIn, DrawnIn
<1>3. ASSUME NEW x, "TEXTURE_2D" \notin x.on, "DEPTH_TEST" \in x.on, x.stack = g.stack, NEW name
      PROVE  Suits(x, Part(id, "missile", name)) /\ ~OfPanel(Part(id, "missile", name))
  <2> DEFINE part == Part(id, "missile", name)
  <2>1. part.of = "missile"
    BY DEF Part
  <2>2. Places(g, part)
    OBVIOUS
  <2> HIDE DEF part
  <2>3. ~OfPanel(part) /\ WithDepth(part) /\ TextureOf(part) = NoTexture
    BY <2>1 DEF OfPanel, WithDepth, TextureOf
  <2>4. Top(x, "MODELVIEW") = PlaceOf(part) /\ Top(x, "PROJECTION") = ProjOf(part)
    BY <1>3, <2>2 DEF Places, Top
  <2>5. Suits(x, part)
    BY <1>3, <2>3, <2>4 DEF Suits
  <2> QED BY <2>3, <2>5 DEF part
<1> DEFINE d1 == Look(p, Part(id, "missile", "body"))
           d2 == Look(q, Part(id, "missile", "cone"))
           d3 == Look(r, Part(id, "missile", "fins"))
           d4 == Look(s, Part(id, "missile", "smoke"))
           p1 == Append(g.drawn, d1)
           p2 == Append(p1, d2)
           p3 == Append(p2, d3)
<1>4. h.drawn = Append(p3, d4)
  BY <1>1 DEF MissileParts
<1>5. IsList(g.drawn) /\ IsList(p1) /\ IsList(p2) /\ IsList(p3)
  <2>1. IsList(g.drawn)
    BY DEF Context
  <2>2. IsList(p1)
    BY <2>1, ListAppend
  <2>3. IsList(p2)
    BY <2>2, ListAppend
  <2> QED BY <2>1, <2>2, <2>3, ListAppend
<1>6. World(h.drawn)
  <2>1. World(p1)
    BY <1>2, <1>3, <1>5, PictureWorld
  <2>2. World(p2)
    <3> HIDE DEF p1
    <3> QED BY <1>2, <1>3, <1>5, <2>1, PictureWorld
  <2>3. World(p3)
    <3> HIDE DEF p2
    <3> QED BY <1>2, <1>3, <1>5, <2>2, PictureWorld
  <2>4. World(Append(p3, d4))
    <3> HIDE DEF p3
    <3> QED BY <1>2, <1>3, <1>5, <2>3, PictureWorld
  <2> QED BY <1>4, <2>4
<1>7. ASSUME NEW i, NEW of \in Counted PROVE Count(h.drawn, i, of) = Count(g.drawn, i, of)
  <2>1. /\ ~Shows(d1.part, i, of) /\ ~Shows(d2.part, i, of)
        /\ ~Shows(d3.part, i, of) /\ ~Shows(d4.part, i, of)
    BY DEF Look, Shows, Part
  <2> HIDE DEF d1, d2, d3, d4
  <2>2. Count(p1, i, of) = Count(g.drawn, i, of) /\ Count(g.drawn, i, of) \in Nat
    BY <1>5, <2>1, PictureCount
  <2>3. Count(p2, i, of) = Count(p1, i, of)
    <3> HIDE DEF p1
    <3> QED BY <1>5, <2>1, <2>2, PictureCount
  <2>4. Count(p3, i, of) = Count(p2, i, of)
    <3> HIDE DEF p2
    <3> QED BY <1>5, <2>1, <2>2, <2>3, PictureCount
  <2>5. Count(Append(p3, d4), i, of) = Count(p3, i, of)
    <3> HIDE DEF p3
    <3> QED BY <1>5, <2>1, <2>2, <2>3, <2>4, PictureCount
  <2> QED BY <1>4, <2>2, <2>3, <2>4, <2>5
<1> QED BY <1>6, <1>7 DEF SameCounts

LEMMA FlameIsList == \A id : IsList(FlameRender(id))
<1> SUFFICES ASSUME NEW id PROVE IsList(FlameRender(id))
  OBVIOUS
<1> DEFINE s1 == <<Enable("BLEND"), BlendFunc("over"), Enable("ALPHA_TEST"),
                   AlphaFunc("GREATER_HALF"), Enable("TEXTURE_2D")>>
           s3 == <<Color(Plain("white"), 10), Draw(id, "flame", "nozzle"),
                   Color(Plain("white"), 7), Draw(id, "flame", "flame"),
                   Disable("BLEND"), Disable("ALPHA_TEST"), Disable("TEXTURE_2D")>>
<1>1. IsList(s1) /\ IsList(FlameBind(id)) /\ IsList(s3)
  BY DEF IsList, FlameBind
<1>2. FlameRender(id) = (s1 \o FlameBind(id)) \o s3
  BY DEF FlameRender
<1> HIDE DEF s1, s3
<1> QED BY <1>1, <1>2, Concatenated

LEMMA SameList ==
  ASSUME NEW s, NEW t, IsList(s), IsList(t), Len(s) = Len(t), \A i \in 1 .. Len(s) : s[i] = t[i]
  PROVE  s = t
BY DEF IsList

LEMMA Tuples ==
  /\ \A x : Append(<<>>, x) = <<x>>
  /\ \A x, y : Append(<<x>>, y) = <<x, y>>
  /\ \A x, y, z : Append(<<x, y>>, z) = <<x, y, z>>
<1>1. ASSUME NEW x PROVE Append(<<>>, x) = <<x>>
  OBVIOUS
<1>2. ASSUME NEW x, NEW y PROVE Append(<<x>>, y) = <<x, y>>
  <2> DEFINE s == <<x>>
             t == <<x, y>>
  <2>1. IsList(s) /\ Len(s) = 1 /\ s[1] = x /\ IsList(t) /\ Len(t) = 2 /\ t[1] = x /\ t[2] = y
    BY DEF IsList
  <2> HIDE DEF s, t
  <2>2. \A i \in 1 .. 2 : Append(s, y)[i] = t[i]
    <3>1. \A i \in 1 .. 2 : i = 1 \/ i = 2
      OBVIOUS
    <3>2. Append(s, y)[1] = x /\ Append(s, y)[2] = y
      BY <2>1, ListAppend
    <3> QED BY <2>1, <3>1, <3>2
  <2>3. IsList(Append(s, y)) /\ Len(Append(s, y)) = 2
    <3>1. IsList(s)
      BY <2>1
    <3>2. IsList(Append(s, y)) /\ Len(Append(s, y)) = Len(s) + 1
      BY <3>1, ListAppend, Zenon
    <3> QED BY <2>1, <3>2
  <2> QED BY <2>1, <2>2, <2>3, SameList DEF s, t
<1>3. ASSUME NEW x, NEW y, NEW z PROVE Append(<<x, y>>, z) = <<x, y, z>>
  <2> DEFINE s == <<x, y>>
             t == <<x, y, z>>
  <2>1. /\ IsList(s) /\ Len(s) = 2 /\ s[1] = x /\ s[2] = y
        /\ IsList(t) /\ Len(t) = 3 /\ t[1] = x /\ t[2] = y /\ t[3] = z
    BY DEF IsList
  <2> HIDE DEF s, t
  <2>2. \A i \in 1 .. 3 : Append(s, z)[i] = t[i]
    <3>1. \A i \in 1 .. 3 : i = 1 \/ i = 2 \/ i = 3
      OBVIOUS
    <3>2. Append(s, z)[1] = x /\ Append(s, z)[2] = y /\ Append(s, z)[3] = z
      <4>1. 1 \in 1 .. 2 /\ 2 \in 1 .. 2 /\ 2 + 1 = 3
        OBVIOUS
      <4>2. IsList(s)
        BY <2>1
      <4>3. Append(s, z)[Len(s) + 1] = z /\ \A i \in 1 .. Len(s) : Append(s, z)[i] = s[i]
        BY <4>2, ListAppend, Zenon
      <4> QED BY <2>1, <4>1, <4>3
    <3> QED BY <2>1, <3>1, <3>2
  <2>3. IsList(Append(s, z)) /\ Len(Append(s, z)) = 3
    <3>1. IsList(Append(s, z)) /\ Len(Append(s, z)) = Len(s) + 1
      BY <2>1, ListAppend
    <3> QED BY <2>1, <3>1
  <2> QED BY <2>1, <2>2, <2>3, SameList DEF s, t
<1> QED BY <1>1, <1>2, <1>3

(* The place of an object, in the camera's view.                           *)
Object(id) == <<followCam, At(id), YawPitch(id)>>

LEMMA ObjectIs ==
  \A id : Append(Append(<<followCam>>, At(id)), YawPitch(id)) = Object(id)
<1> SUFFICES ASSUME NEW id
             PROVE  Append(Append(<<followCam>>, At(id)), YawPitch(id)) = Object(id)
  OBVIOUS
<1>1. Append(<<followCam>>, At(id)) = <<followCam, At(id)>>
  BY Tuples
<1> QED BY <1>1, Tuples DEF Object

(* Before and after the drawing of an object.                              *)
InCamera(g) ==
  /\ Context(g) /\ g.mode = "MODELVIEW" /\ View(g, <<>>, <<followCam>>)
  /\ Projection(g, <<>>, <<<<"perspective">>>>)

(* m is the state in which a missile's body is drawn, after g.             *)
MissileFrom(m, g, id) ==
  /\ Context(m) /\ m.mode = "MODELVIEW" /\ Top(m, "MODELVIEW") = Object(id)
  /\ m.stack.PROJECTION = g.stack.PROJECTION
  /\ m.on = (g.on \ {"BLEND", "TEXTURE_2D"}) \cup {"DEPTH_TEST"}
  /\ SameColours(m, g) /\ SameFunctions(m, g) /\ m.drawn = g.drawn

LEMMA MissileCalls ==
  ASSUME NEW g, NEW h, NEW id, InCamera(g), h = Run(g, MissileRender(id))
  PROVE  \E m : /\ MissileFrom(m, g, id) /\ InCamera(h)
                /\ SamePicture(h, Run(Run(m, MissileBody(id)), FlameRender(id)))
                /\ h.stack.PROJECTION = g.stack.PROJECTION
<1> DEFINE s1 == <<PushMatrix, MultMatrix(At(id)), Disable("BLEND"), MultMatrix(YawPitch(id)),
                   PushMatrix>>
           s2 == MissileStart
           s3 == MissileBody(id)
           s4 == FlameRender(id)
           s5 == MissileDone
<1>1. MissileRender(id) = (((s1 \o s2) \o s3) \o s4) \o s5
  BY DEF MissileRender, MissileBody
<1>2. /\ IsList(s1) /\ Len(s1) = 5 /\ IsList(s2) /\ Len(s2) = 2 /\ IsList(s3)
      /\ IsList(s5) /\ Len(s5) = 2
  BY DEF IsList, MissileStart, MissileBody, MissileDone
<1>3. IsList(s4)
  BY FlameIsList
<1> DEFINE a == TraceOf(g, s1)
           b == TraceOf(a[5], s2)
           k == Run(Run(b[2], s3), s4)
           e == TraceOf(k, s5)
<1>4. h = Run(Run(Run(Run(Run(g, s1), s2), s3), s4), s5)
  <2> HIDE DEF s1, s2, s3, s4, s5
  <2>1. IsList(s1 \o s2) /\ IsList((s1 \o s2) \o s3) /\ IsList(((s1 \o s2) \o s3) \o s4)
    BY <1>2, <1>3, Concatenated
  <2> QED BY <1>1, <1>2, <1>3, <2>1, RunConcat
<1>5. Trace(g, s1, a) /\ Run(g, s1) = a[5]
  <2> HIDE DEF s1, b, e, k
  <2> QED BY <1>2, Traced
<1>6. Trace(a[5], s2, b) /\ Run(a[5], s2) = b[2]
  <2> HIDE DEF s2, a, e, k
  <2> QED BY <1>2, Traced
<1>7. Trace(k, s5, e) /\ h = e[2]
  <2>1. Trace(k, s5, e) /\ Run(k, s5) = e[2]
    <3> HIDE DEF s5, a, b, k
    <3> QED BY <1>2, Traced
  <2> QED BY <1>4, <1>5, <1>6, <2>1
<1>8. /\ a[1] = Exec(g, PushMatrix) /\ a[2] = Exec(a[1], MultMatrix(At(id)))
      /\ a[3] = Exec(a[2], Disable("BLEND")) /\ a[4] = Exec(a[3], MultMatrix(YawPitch(id)))
      /\ a[5] = Exec(a[4], PushMatrix)
  <2> HIDE DEF a, b, k, e
  <2> QED BY <1>5, <1>2 DEF Trace
<1>9. b[1] = Exec(a[5], Enable("DEPTH_TEST")) /\ b[2] = Exec(b[1], Disable("TEXTURE_2D"))
  <2> HIDE DEF a, b, k, e
  <2> QED BY <1>6, <1>2 DEF Trace, MissileStart
<1>10. e[1] = Exec(k, PopMatrix) /\ h = Exec(e[1], PopMatrix)
  <2> HIDE DEF a, b, k, e
  <2> QED BY <1>7, <1>2 DEF Trace, MissileDone
<1>11. {"BLEND", "DEPTH_TEST", "TEXTURE_2D"} \subseteq Capability
  BY DEF Capability
<1> DEFINE cam == <<followCam>>
           c1 == Append(<<>>, cam)
           at == Append(cam, At(id))
<1>12. IsList(<<>>) /\ IsList(c1) /\ IsList(Append(c1, Object(id)))
  BY ListAppend DEF IsList
<1> HIDE DEF a, b, e, c1, at, cam
<1>13. /\ Context(a[2]) /\ SamePicture(a[2], g) /\ a[2].mode = "MODELVIEW" /\ View(a[2], c1, at)
       /\ a[2].stack.PROJECTION = g.stack.PROJECTION
  <2>1. /\ Context(a[1]) /\ SamePicture(a[1], g) /\ a[1].mode = "MODELVIEW" /\ View(a[1], c1, cam)
        /\ a[1].stack.PROJECTION = g.stack.PROJECTION
    BY <1>8, DoesPush DEF InCamera, c1, cam
  <2>2. /\ Context(a[2]) /\ SamePicture(a[2], a[1]) /\ a[2].mode = "MODELVIEW" /\ View(a[2], c1, at)
        /\ a[2].stack.PROJECTION = a[1].stack.PROJECTION
    BY <1>8, <2>1, DoesMult DEF at
  <2> QED BY <2>1, <2>2 DEF SamePicture, SameColours, SameFunctions
<1>14. Context(a[3]) /\ Disabled(a[2], a[3], "BLEND") /\ View(a[3], c1, at) /\ a[3].mode = "MODELVIEW"
  <2>1. Context(a[3]) /\ Disabled(a[2], a[3], "BLEND")
    BY <1>8, <1>11, <1>13, DoesDisable
  <2> QED BY <1>13, <2>1 DEF Disabled, SameMatrices, View
<1>15. /\ Context(a[5]) /\ SamePicture(a[5], a[3]) /\ a[5].mode = "MODELVIEW"
       /\ View(a[5], Append(c1, Object(id)), Object(id))
       /\ a[5].stack.PROJECTION = a[3].stack.PROJECTION
  <2>1. /\ Context(a[4]) /\ SamePicture(a[4], a[3]) /\ a[4].mode = "MODELVIEW"
        /\ View(a[4], c1, Object(id)) /\ a[4].stack.PROJECTION = a[3].stack.PROJECTION
    <3>1. Append(at, YawPitch(id)) = Object(id)
      BY ObjectIs DEF at, cam
    <3>2. /\ Context(a[4]) /\ SamePicture(a[4], a[3]) /\ a[4].mode = "MODELVIEW"
          /\ View(a[4], c1, Append(at, YawPitch(id))) /\ a[4].stack.PROJECTION = a[3].stack.PROJECTION
      BY <1>8, <1>14, DoesMult
    <3> QED BY <3>1, <3>2
  <2>2. /\ Context(a[5]) /\ SamePicture(a[5], a[4]) /\ a[5].mode = "MODELVIEW"
        /\ View(a[5], Append(c1, Object(id)), Object(id))
        /\ a[5].stack.PROJECTION = a[4].stack.PROJECTION
    BY <1>8, <2>1, DoesPush
  <2> QED BY <2>1, <2>2 DEF SamePicture, SameColours, SameFunctions
<1>16. Context(b[2]) /\ Enabled(a[5], b[1], "DEPTH_TEST") /\ Disabled(b[1], b[2], "TEXTURE_2D")
  BY <1>9, <1>11, <1>15, DoesEnable, DoesDisable
<1>17. MissileFrom(b[2], g, id) /\ b[2].stack = a[5].stack
  <2>1. b[2].stack = a[5].stack /\ b[2].mode = a[5].mode
    BY <1>16 DEF Enabled, Disabled, SameMatrices
  <2>2. Top(b[2], "MODELVIEW") = Object(id)
    BY <1>15, <2>1, TopIs DEF Top
  <2>3. b[2].on = (g.on \ {"BLEND", "TEXTURE_2D"}) \cup {"DEPTH_TEST"}
    BY <1>13, <1>14, <1>15, <1>16 DEF Enabled, Disabled, SamePicture
  <2>4. SameColours(b[2], g) /\ SameFunctions(b[2], g) /\ b[2].drawn = g.drawn
    BY <1>13, <1>14, <1>15, <1>16
       DEF Enabled, Disabled, SamePicture, SameColours, SameFunctions
  <2>5. b[2].stack.PROJECTION = g.stack.PROJECTION
    BY <1>13, <1>14, <1>15, <2>1 DEF Disabled, SameMatrices
  <2> QED BY <1>15, <1>16, <2>1, <2>2, <2>3, <2>4, <2>5 DEF MissileFrom
<1>18. Context(k) /\ SameMatrices(k, b[2])
  <2> DEFINE n == Run(b[2], MissileBody(id))
  <2>1. Context(n) /\ SameMatrices(n, b[2])
    <3>1. "TEXTURE_2D" \notin b[2].on
      BY <1>17 DEF MissileFrom
    <3> QED BY <1>16, <3>1, MissileBodyCalls
  <2>2. Context(k) /\ SameMatrices(k, n)
    <3> HIDE DEF n
    <3>1. k = Run(n, FlameRender(id))
      BY DEF n
    <3> HIDE DEF k
    <3> QED BY <2>1, <3>1, FlameCalls DEF AfterFlame
  <2> QED BY <2>1, <2>2 DEF SameMatrices
<1> HIDE DEF k
<1>19. /\ Context(h) /\ SamePicture(h, k) /\ h.mode = "MODELVIEW" /\ View(h, <<>>, cam)
       /\ h.stack.PROJECTION = g.stack.PROJECTION
  <2>1. k.mode = "MODELVIEW" /\ View(k, Append(c1, Object(id)), Object(id))
        /\ k.stack.PROJECTION = g.stack.PROJECTION
    BY <1>15, <1>17, <1>18 DEF SameMatrices, MissileFrom, View
  <2>2. /\ Context(e[1]) /\ SamePicture(e[1], k) /\ e[1].mode = "MODELVIEW"
        /\ View(e[1], c1, Object(id)) /\ e[1].stack.PROJECTION = k.stack.PROJECTION
    BY <1>10, <1>12, <1>18, <2>1, DoesPop
  <2>3. View(e[1], Append(<<>>, cam), Object(id))
    BY <2>2 DEF c1
  <2>4. /\ Context(h) /\ SamePicture(h, e[1]) /\ h.mode = "MODELVIEW" /\ View(h, <<>>, cam)
        /\ h.stack.PROJECTION = e[1].stack.PROJECTION
    BY <1>10, <1>12, <2>2, <2>3, DoesPop
  <2> QED BY <2>1, <2>2, <2>4 DEF SamePicture, SameColours, SameFunctions
<1>20. InCamera(h)
  BY <1>19 DEF InCamera, Projection, cam
<1> QED BY <1>17, <1>19, <1>20 DEF k

(* Between two drawing functions of the world.                             *)
Quiet(g) == g.on \cap {"TEXTURE_2D", "BLEND", "ALPHA_TEST", "CULL_FACE"} = {}
Ready(g) == InCamera(g) /\ Quiet(g) /\ World(g.drawn)

LEMMA MissileDraws ==
  ASSUME NEW g, NEW h, NEW id, Ready(g), id \notin PlayerID, h = Run(g, MissileRender(id))
  PROVE  Ready(h) /\ ShowsOnce(h, g, id)
<1>1. PICK m : /\ MissileFrom(m, g, id) /\ InCamera(h)
               /\ SamePicture(h, Run(Run(m, MissileBody(id)), FlameRender(id)))
  BY MissileCalls DEF Ready
<1> DEFINE n == Run(m, MissileBody(id))
           k == Run(n, FlameRender(id))
<1>2. /\ Context(m) /\ Top(m, "MODELVIEW") = Object(id) /\ Top(m, "PROJECTION") = <<<<"perspective">>>>
      /\ "TEXTURE_2D" \notin m.on /\ "DEPTH_TEST" \in m.on /\ World(m.drawn)
  <2>1. Top(g, "PROJECTION") = <<<<"perspective">>>>
    BY TopIs DEF Ready, InCamera
  <2> QED BY <1>1, <2>1 DEF MissileFrom, Ready, Top
<1>3. /\ Context(n) /\ SameMatrices(n, m) /\ n.on = m.on \cup {"BLEND"} /\ World(n.drawn)
      /\ SameCounts(n, g)
  <2>1. \A name : Places(m, Part(id, "missile", name))
    <3> SUFFICES ASSUME NEW name PROVE Places(m, Part(id, "missile", name))
      OBVIOUS
    <3> DEFINE part == Part(id, "missile", name)
    <3>1. part.of = "missile" /\ part.obj = id
      BY DEF Part
    <3> HIDE DEF part
    <3>2. PlaceOf(part) = Object(id) /\ ProjOf(part) = <<<<"perspective">>>>
      BY <3>1 DEF PlaceOf, ProjOf, OfPanel, Object
    <3>3. Places(m, part)
      BY <1>2, <3>2 DEF Places
    <3> QED BY <3>3 DEF part
  <2>2. World(n.drawn) /\ SameCounts(n, m)
    BY <1>2, <2>1, MissileBodyDraws
  <2>3. m.drawn = g.drawn
    BY <1>1 DEF MissileFrom
  <2> QED BY <1>2, <2>2, <2>3, MissileBodyCalls DEF SameCounts
<1> HIDE DEF n
<1>4. /\ AfterFlame(n, k) /\ World(k.drawn)
      /\ ShowsOnce(k, n, id)
  <2>1. \A name : Places(n, Part(id, "flame", name))
    <3> SUFFICES ASSUME NEW name PROVE Places(n, Part(id, "flame", name))
      OBVIOUS
    <3> DEFINE part == Part(id, "flame", name)
    <3>1. part.of = "flame" /\ part.obj = id
      BY DEF Part
    <3> HIDE DEF part
    <3>2. PlaceOf(part) = Object(id) /\ ProjOf(part) = <<<<"perspective">>>>
      BY <3>1 DEF PlaceOf, ProjOf, OfPanel, Object
    <3>3. Places(n, part)
      BY <1>2, <1>3, <3>2 DEF Places, SameMatrices, Top
    <3> QED BY <3>3 DEF part
  <2>2. "DEPTH_TEST" \in n.on <=> id \notin PlayerID
    BY <1>2, <1>3
  <2> QED BY <1>3, <2>1, <2>2, FlameDraws
<1> HIDE DEF k
<1>5. h.on = k.on /\ h.drawn = k.drawn
  BY <1>1 DEF SamePicture, k, n
<1>6. Quiet(h)
  BY <1>1, <1>3, <1>4, <1>5 DEF AfterFlame, MissileFrom, Quiet, Ready
<1>7. ShowsOnce(h, g, id)
  BY <1>3, <1>4, <1>5 DEF ShowsOnce, SameCounts
<1> QED BY <1>1, <1>4, <1>5, <1>6, <1>7 DEF Ready

-----------------------------------------------------------------------------
(* The aircraft's model                                                    *)

(* What a mesh leaves behind.                                              *)
AfterMesh(g, h, m) ==
  /\ Context(h) /\ SameMatrices(h, g) /\ h.texture = g.texture
  /\ h.blend = g.blend /\ h.alpha = g.alpha
  /\ h.fill = IF mesh[m].wireframe THEN "line" ELSE "fill"
  /\ h.on = (g.on \ {"CULL_FACE", "LIGHTING", "COLOR_MATERIAL"})
              \cup (IF mesh[m].twosided THEN {"CULL_FACE"} ELSE {})
              \cup (IF mesh[m].normals THEN {"LIGHTING"} ELSE {})
              \cup (IF mesh[m].colors THEN {"COLOR_MATERIAL"} ELSE {})
  /\ h.color = IF mesh[m].colors THEN [rgb |-> <<"vertex", m>>, a |-> 10] ELSE g.color
  /\ h.diffuse = IF mesh[m].colors THEN <<"vertex", m>>
                 ELSE IF Tracking(g) THEN g.diffuse ELSE <<"material", m>>

LEMMA MeshCalls ==
  ASSUME NEW g, NEW h, NEW id, NEW m, Context(g), mesh[m] \in MeshKind,
         h = Run(g, RenderMesh(id, m))
  PROVE  AfterMesh(g, h, m) /\ h.drawn = Append(g.drawn, Look(h, Part(id, "model", m)))
<1> DEFINE s1 == apply_material(m)
           s2 == <<LightIfNormals(m), TrackIfColors(m)>>
           s3 == IF mesh[m].colors THEN <<Color(<<"vertex", m>>, 10)>> ELSE <<>>
           s4 == <<Draw(id, "model", m)>>
<1>1. RenderMesh(id, m) = ((s1 \o s2) \o s3) \o s4
  BY DEF RenderMesh
<1>2. /\ IsList(s1) /\ Len(s1) = 3 /\ IsList(s2) /\ Len(s2) = 2 /\ IsList(s3)
      /\ IsList(s4) /\ Len(s4) = 1
  BY DEF IsList, apply_material
<1> DEFINE a == TraceOf(g, s1)
           b == TraceOf(a[3], s2)
           k == Run(b[2], s3)
<1>3. h = Run(Run(Run(Run(g, s1), s2), s3), s4)
  <2> HIDE DEF s1, s2, s3, s4
  <2>1. IsList(s1 \o s2) /\ IsList((s1 \o s2) \o s3)
    BY <1>2, Concatenated
  <2> QED BY <1>1, <1>2, <2>1, RunConcat
<1>4. Trace(g, s1, a) /\ Run(g, s1) = a[3]
  <2> HIDE DEF s1, b, k
  <2> QED BY <1>2, Traced
<1>5. Trace(a[3], s2, b) /\ Run(a[3], s2) = b[2]
  <2> HIDE DEF s2, a, k
  <2> QED BY <1>2, Traced
<1>6. h = Exec(k, Draw(id, "model", m))
  <2> DEFINE e == TraceOf(k, s4)
  <2>1. Trace(k, s4, e) /\ Run(k, s4) = e[1]
    <3> HIDE DEF s4, a, b, k
    <3> QED BY <1>2, Traced
  <2>2. h = e[1]
    BY <1>3, <1>4, <1>5, <2>1
  <2> HIDE DEF a, b, k, e
  <2> QED BY <1>2, <2>1, <2>2 DEF Trace
<1>7. /\ a[1] = Exec(g, Diffuse(<<"material", m>>))
      /\ a[2] = Exec(a[1], PolygonMode(IF mesh[m].wireframe THEN "line" ELSE "fill"))
      /\ a[3] = Exec(a[2], IF mesh[m].twosided THEN Enable("CULL_FACE") ELSE Disable("CULL_FACE"))
  <2> HIDE DEF a, b, k
  <2> QED BY <1>4, <1>2 DEF Trace, apply_material
<1>8. b[1] = Exec(a[3], LightIfNormals(m)) /\ b[2] = Exec(b[1], TrackIfColors(m))
  <2> HIDE DEF a, b, k
  <2> QED BY <1>5, <1>2 DEF Trace
<1> HIDE DEF a, b
<1>9. mesh[m].colors => k = Exec(b[2], Color(<<"vertex", m>>, 10))
  <2> SUFFICES ASSUME mesh[m].colors PROVE k = Exec(b[2], Color(<<"vertex", m>>, 10))
    OBVIOUS
  <2> DEFINE e == TraceOf(b[2], s3)
  <2>1. s3 = <<Color(<<"vertex", m>>, 10)>> /\ Len(s3) = 1
    OBVIOUS
  <2>2. IsList(s3) /\ Len(s3) = 1
    BY <1>2, <2>1
  <2>3. Trace(b[2], s3, e) /\ Run(b[2], s3) = e[1]
    <3> HIDE DEF s1, s2, s3, s4
    <3> QED BY <2>2, Traced
  <2> HIDE DEF e
  <2> QED BY <2>1, <2>3 DEF Trace
<1>10. ~mesh[m].colors => k = b[2]
  BY EmptyRun
<1> HIDE DEF k
<1>11. {"CULL_FACE", "LIGHTING", "COLOR_MATERIAL"} \subseteq Capability
  BY DEF Capability
<1>12. /\ Diffused(g, a[1], <<"material", m>>) /\ Context(a[2])
       /\ Filled(a[1], a[2], IF mesh[m].wireframe THEN "line" ELSE "fill")
  BY <1>7, DoesDiffuse, DoesPolygonMode
<1>13. /\ Switched(a[2], a[3], "CULL_FACE", mesh[m].twosided)
       /\ Switched(a[3], b[1], "LIGHTING", mesh[m].normals)
       /\ Switched(b[1], b[2], "COLOR_MATERIAL", mesh[m].colors) /\ Context(b[2])
  <2>1. Switched(a[2], a[3], "CULL_FACE", mesh[m].twosided) /\ Context(a[3])
    <3>1. /\ a[3] = Exec(a[2], IF mesh[m].twosided THEN Enable("CULL_FACE") ELSE Disable("CULL_FACE"))
          /\ Context(a[2]) /\ "CULL_FACE" \in Capability
      BY <1>7, <1>11, <1>12
    <3>2. CASE mesh[m].twosided
      <4>1. Context(a[3]) /\ Enabled(a[2], a[3], "CULL_FACE")
        BY <3>1, <3>2, DoesEnable
      <4> QED BY <3>2, <4>1 DEF Enabled, Switched
    <3>3. CASE ~mesh[m].twosided
      <4>1. Context(a[3]) /\ Disabled(a[2], a[3], "CULL_FACE")
        BY <3>1, <3>3, DoesDisable
      <4> QED BY <3>3, <4>1 DEF Disabled, Switched, SameColours
    <3> QED BY <3>2, <3>3
  <2>2. Switched(a[3], b[1], "LIGHTING", mesh[m].normals) /\ Context(b[1])
    BY <1>8, <1>11, <2>1, DoesSwitch DEF LightIfNormals
  <2>3. Switched(b[1], b[2], "COLOR_MATERIAL", mesh[m].colors) /\ Context(b[2])
    BY <1>8, <1>11, <2>2, DoesSwitch DEF TrackIfColors
  <2> QED BY <2>1, <2>2, <2>3
<1>14. Context(k) /\ mesh[m].colors => Colored(b[2], k, <<"vertex", m>>, 10)
  BY <1>9, <1>10, <1>13, DoesColor
<1>15. Context(k) /\ Context(h) /\ Drawn(k, h, id, "model", m)
  BY <1>6, <1>9, <1>10, <1>13, DoesColor, DoesDraw
<1>16. /\ SameMatrices(b[2], g) /\ b[2].texture = g.texture /\ b[2].blend = g.blend
       /\ b[2].alpha = g.alpha /\ b[2].fill = IF mesh[m].wireframe THEN "line" ELSE "fill"
       /\ b[2].color = g.color /\ b[2].drawn = g.drawn
  BY <1>12, <1>13 DEF Diffused, Filled, Switched, SameMatrices, SameColours, SameFunctions
<1>17. b[2].on = (g.on \ {"CULL_FACE", "LIGHTING", "COLOR_MATERIAL"})
              \cup (IF mesh[m].twosided THEN {"CULL_FACE"} ELSE {})
              \cup (IF mesh[m].normals THEN {"LIGHTING"} ELSE {})
              \cup (IF mesh[m].colors THEN {"COLOR_MATERIAL"} ELSE {})
  <2>1. a[2].on = g.on
    BY <1>12 DEF Diffused, Filled
  <2> QED BY <1>13, <2>1 DEF Switched
<1>18. ~mesh[m].colors => b[2].diffuse = IF Tracking(g) THEN g.diffuse ELSE <<"material", m>>
  BY <1>12, <1>13 DEF Diffused, Filled, Switched, SameColours
<1>19. AfterMesh(g, k, m) /\ k.drawn = g.drawn
  <2>1. CASE mesh[m].colors
    <3>1. Tracking(b[2])
      BY <1>17, <2>1 DEF Tracking
    <3> QED BY <1>14, <1>15, <1>16, <1>17, <2>1, <3>1
            DEF Colored, SameMatrices, SameFunctions, AfterMesh
  <2>2. CASE ~mesh[m].colors
    BY <1>10, <1>15, <1>16, <1>17, <1>18, <2>2 DEF AfterMesh
  <2> QED BY <2>1, <2>2
<1>20. AfterMesh(g, h, m)
  BY <1>15, <1>19 DEF Drawn, SameMatrices, SameColours, SameFunctions, AfterMesh
<1>21. Look(h, Part(id, "model", m)) = Look(k, Part(id, "model", m))
  BY <1>15 DEF Drawn, SameMatrices, SameColours, SameFunctions, Look, Top
<1> QED BY <1>15, <1>19, <1>20, <1>21 DEF Drawn, Part

(* The tree of nodes: a height, greater than that of each child.           *)
Height(height) ==
  /\ height \in [Node -> 0 .. Cardinality(Node)]
  /\ \A nd \in Node : \A i \in DOMAIN children[nd] :
       children[nd][i] \in Node /\ height[children[nd][i]] < height[nd]

LEMMA HasHeight == Cardinality(Node) \in Nat /\ \E height : Height(height)
<1>1. Cardinality(Node) \in Nat
  BY HierarchyAssumption, FS_CardinalityType
<1>2. \A nd \in Node : \A i \in DOMAIN children[nd] : children[nd][i] \in Node
  <2> SUFFICES ASSUME NEW nd \in Node, NEW i \in DOMAIN children[nd] PROVE children[nd][i] \in Node
    OBVIOUS
  <2>1. children[nd] \in Seq(Node)
    BY RendererAssumption
  <2> QED BY <2>1
<1>3. PICK height \in [Node -> 0 .. Cardinality(Node)] :
        \A nd \in Node : \A i \in DOMAIN children[nd] : height[children[nd][i]] < height[nd]
  BY HierarchyAssumption
<1>4. Height(height)
  BY <1>2, <1>3 DEF Height
<1> QED BY <1>1, <1>4

(* The calls for a node, when r has those for its children.                *)
NodeStart(nd) == <<PushMatrix, MultMatrix(<<"node", nd>>)>>
MeshesOf(id, nd) == [i \in DOMAIN meshes[nd] |-> RenderMesh(id, meshes[nd][i])]
ChildrenOf(r, nd) == [i \in DOMAIN children[nd] |-> r[children[nd][i]]]
NodeCalls(id, r, nd) ==
  NodeStart(nd) \o FlattenSeq(MeshesOf(id, nd)) \o FlattenSeq(ChildrenOf(r, nd)) \o <<PopMatrix>>

Renders(id, r) == r = [nd \in Node |-> NodeCalls(id, r, nd)]

LEMMA RendersNode ==
  ASSUME NEW id
  PROVE  \E r : Renders(id, r) /\ recursive_render(id) = r[root]
<1>1. Cardinality(Node) \in Nat
  BY HasHeight
<1>2. PICK height : Height(height)
  BY HasHeight
<1> DEFINE N == Cardinality(Node) + 1
           Below(k, r) == \A nd \in Node : height[nd] < k => r[nd] = NodeCalls(id, r, nd)
           J == {k \in 0 .. N : \E r : Below(k, r)}
<1>3. 0 \in J
  <2> DEFINE r == [nd \in Node |-> <<>>]
  <2>1. \A nd \in Node : ~(height[nd] < 0)
    BY <1>1, <1>2 DEF Height
  <2>2. \E e : Below(0, e)
    <3>1. Below(0, r)
      BY <2>1
    <3> QED BY <3>1
  <2>3. 0 \in 0 .. N
    BY <1>1
  <2> HIDE DEF Below, N
  <2> QED BY <2>2, <2>3
<1>4. ASSUME NEW k \in 1 .. N, k - 1 \in J PROVE k \in J
  <2>1. PICK r : Below(k - 1, r)
    BY <1>4
  <2> DEFINE q == [nd \in Node |-> IF height[nd] < k - 1 THEN r[nd] ELSE NodeCalls(id, r, nd)]
  <2>2. ASSUME NEW nd \in Node, height[nd] < k PROVE q[nd] = NodeCalls(id, q, nd)
    <3>1. \A i \in DOMAIN children[nd] : q[children[nd][i]] = r[children[nd][i]]
      <4> SUFFICES ASSUME NEW i \in DOMAIN children[nd]
                   PROVE  q[children[nd][i]] = r[children[nd][i]]
        OBVIOUS
      <4>1. children[nd][i] \in Node /\ height[children[nd][i]] < height[nd]
            /\ height[children[nd][i]] \in Int /\ height[nd] \in Int
        BY <1>1, <1>2 DEF Height
      <4>2. height[children[nd][i]] < k - 1
        BY <2>2, <4>1
      <4> QED BY <4>1, <4>2
    <3>2. ChildrenOf(q, nd) = ChildrenOf(r, nd)
      <4> HIDE DEF q
      <4> QED BY <3>1 DEF ChildrenOf
    <3>3. NodeCalls(id, q, nd) = NodeCalls(id, r, nd)
      <4> HIDE DEF q
      <4> QED BY <3>2 DEF NodeCalls
    <3>4. q[nd] = NodeCalls(id, r, nd)
      <4>1. height[nd] < k - 1 => r[nd] = NodeCalls(id, r, nd)
        BY <2>1
      <4> QED BY <4>1
    <3> QED BY <3>3, <3>4
  <2>3. \E e : Below(k, e)
    <3>1. Below(k, q)
      <4> HIDE DEF q
      <4> QED BY <2>2
    <3> QED BY <3>1
  <2> HIDE DEF Below
  <2> QED BY <2>3
<1>5. N \in J
  <2>1. N \in Nat /\ N \in 0 .. N
    BY <1>1
  <2> HIDE DEF J, N
  <2> QED BY <1>3, <1>4, <2>1, Climb
<1>6. PICK r : Below(N, r)
  BY <1>5
<1> DEFINE q == [nd \in Node |-> r[nd]]
<1>7. Renders(id, q)
  <2>1. ASSUME NEW nd \in Node PROVE q[nd] = NodeCalls(id, q, nd)
    <3>1. height[nd] < N
      BY <1>1, <1>2 DEF Height
    <3>2. \A i \in DOMAIN children[nd] : children[nd][i] \in Node
      BY <1>2 DEF Height
    <3>3. ChildrenOf(q, nd) = ChildrenOf(r, nd)
      BY <3>2 DEF ChildrenOf
    <3>4. q[nd] = r[nd] /\ r[nd] = NodeCalls(id, r, nd)
      BY <1>6, <3>1
    <3> HIDE DEF q
    <3> QED BY <3>3, <3>4 DEF NodeCalls
  <2>2. q = [nd \in Node |-> q[nd]]
    OBVIOUS
  <2> HIDE DEF q
  <2> QED BY <2>1, <2>2 DEF Renders
<1> DEFINE f == CHOOSE f : Renders(id, f)
<1>8. Renders(id, f)
  <2>1. \E e : Renders(id, e)
    <3> HIDE DEF q
    <3> QED BY <1>7
  <2> QED BY <2>1
<1>9. recursive_render(id) = f[root]
  BY DEF recursive_render, Renders, NodeCalls, NodeStart, MeshesOf, ChildrenOf
<1> HIDE DEF f
<1> QED BY <1>8, <1>9

Parents(nd) == {p \in Node : nd \in ToSet(children[p])}
PathStep(f, nd) ==
  Append(IF Parents(nd) = {} THEN <<>> ELSE f[CHOOSE p \in Parents(nd) : TRUE], <<"node", nd>>)

LEMMA PathIs == \A nd \in Node : PathTo[nd] = PathStep(PathTo, nd) /\ IsList(PathTo[nd])
<1>1. Cardinality(Node) \in Nat
  BY HasHeight
<1>2. PICK height : Height(height)
  BY HasHeight
<1> DEFINE C == Cardinality(Node)
           N == C + 1
           Above(k, f) == \A nd \in Node : height[nd] > C - k => f[nd] = PathStep(f, nd)
           J == {k \in 0 .. N : \E f : Above(k, f)}
<1>3. 0 \in J
  <2> DEFINE f == [nd \in Node |-> <<>>]
  <2>1. \A nd \in Node : ~(height[nd] > C - 0)
    BY <1>1, <1>2 DEF Height
  <2>2. \E e : Above(0, e)
    <3>1. Above(0, f)
      BY <2>1
    <3> QED BY <3>1
  <2>3. 0 \in 0 .. N
    BY <1>1
  <2> HIDE DEF Above, N
  <2> QED BY <2>2, <2>3
<1>4. ASSUME NEW nd \in Node, Parents(nd) # {}
      PROVE  /\ (CHOOSE p \in Parents(nd) : TRUE) \in Node
             /\ height[CHOOSE p \in Parents(nd) : TRUE] > height[nd]
  <2> DEFINE p == CHOOSE p \in Parents(nd) : TRUE
  <2>1. p \in Parents(nd)
    BY <1>4
  <2> HIDE DEF p
  <2>2. p \in Node /\ \E i \in DOMAIN children[p] : children[p][i] = nd
    <3>1. p \in Node /\ nd \in ToSet(children[p])
      BY <2>1 DEF Parents
    <3> QED BY <3>1 DEF ToSet
  <2>3. height[nd] < height[p] /\ height[nd] \in Int /\ height[p] \in Int
    BY <1>1, <1>2, <2>2 DEF Height
  <2>4. p \in Node /\ height[p] > height[nd]
    BY <2>2, <2>3
  <2> QED BY <2>4 DEF p
<1>5. ASSUME NEW k \in 1 .. N, k - 1 \in J PROVE k \in J
  <2>1. PICK f : Above(k - 1, f)
    BY <1>5
  <2> DEFINE q == [nd \in Node |-> IF height[nd] > C - (k - 1) THEN f[nd] ELSE PathStep(f, nd)]
  <2>2. ASSUME NEW nd \in Node, height[nd] > C - k
        PROVE  q[nd] = PathStep(q, nd)
    <3> DEFINE p == CHOOSE p \in Parents(nd) : TRUE
    <3>1. Parents(nd) # {} => p \in Node /\ height[p] > C - (k - 1) /\ q[p] = f[p]
      <4> SUFFICES ASSUME Parents(nd) # {}
                   PROVE  p \in Node /\ height[p] > C - (k - 1) /\ q[p] = f[p]
        OBVIOUS
      <4>1. p \in Node /\ height[p] > height[nd]
        BY <1>4
      <4> HIDE DEF p
      <4>2. height[p] > C - (k - 1)
        <5>1. height[p] \in Int /\ height[nd] \in Int
          BY <1>1, <1>2, <4>1 DEF Height
        <5> QED BY <1>1, <2>2, <4>1, <5>1
      <4> QED BY <2>1, <4>1, <4>2
    <3> HIDE DEF p, q
    <3>2. PathStep(q, nd) = PathStep(f, nd)
      BY <3>1 DEF PathStep, p
    <3>3. q[nd] = PathStep(f, nd)
      <4>1. height[nd] > C - (k - 1) => f[nd] = PathStep(f, nd)
        BY <2>1
      <4> QED BY <4>1 DEF q
    <3> QED BY <3>2, <3>3
  <2>3. \E e : Above(k, e)
    <3>1. Above(k, q)
      <4> HIDE DEF q
      <4> QED BY <2>2
    <3> QED BY <3>1
  <2> HIDE DEF Above
  <2> QED BY <2>3
<1>6. N \in J
  <2>1. N \in Nat /\ N \in 0 .. N
    BY <1>1
  <2> HIDE DEF J, N
  <2> QED BY <1>3, <1>5, <2>1, Climb
<1>7. PICK f : Above(N, f)
  BY <1>6
<1> DEFINE q == [nd \in Node |-> f[nd]]
           Paths(e) == e = [nd \in Node |-> PathStep(e, nd)]
<1>8. Paths(q)
  <2>1. ASSUME NEW nd \in Node PROVE q[nd] = PathStep(q, nd)
    <3>1. height[nd] > C - N
      BY <1>1, <1>2 DEF Height
    <3>2. f[nd] = PathStep(f, nd)
      BY <1>7, <3>1
    <3>3. Parents(nd) # {} => (CHOOSE p \in Parents(nd) : TRUE) \in Node
      BY <1>4
    <3>4. PathStep(q, nd) = PathStep(f, nd)
      BY <3>3 DEF PathStep
    <3> QED BY <3>2, <3>4
  <2>2. q = [nd \in Node |-> q[nd]]
    OBVIOUS
  <2> HIDE DEF q
  <2> QED BY <2>1, <2>2
<1>9. Paths(PathTo)
  <2>1. \E e : Paths(e)
    <3> HIDE DEF q, Paths
    <3> QED BY <1>8
  <2>2. PathTo = CHOOSE e : Paths(e)
    BY DEF PathTo, PathStep, Parents
  <2> HIDE DEF Paths
  <2> QED BY <2>1, <2>2
<1>10. \A nd \in Node : PathTo[nd] = PathStep(PathTo, nd)
  BY <1>9
<1> DEFINE K == {k \in 0 .. N : \A nd \in Node : height[nd] > C - k => IsList(PathTo[nd])}
<1>11. 0 \in K
  <2>1. \A nd \in Node : ~(height[nd] > C - 0)
    BY <1>1, <1>2 DEF Height
  <2> QED BY <1>1, <2>1
<1>12. ASSUME NEW k \in 1 .. N, k - 1 \in K PROVE k \in K
  <2>1. ASSUME NEW nd \in Node, height[nd] > C - k PROVE IsList(PathTo[nd])
    <3> DEFINE p == CHOOSE p \in Parents(nd) : TRUE
    <3>1. Parents(nd) # {} => IsList(PathTo[p])
      <4> SUFFICES ASSUME Parents(nd) # {} PROVE IsList(PathTo[p])
        OBVIOUS
      <4>1. p \in Node /\ height[p] > height[nd]
        BY <1>4
      <4> HIDE DEF p
      <4>2. height[p] > C - (k - 1)
        <5>1. height[p] \in Int /\ height[nd] \in Int
          BY <1>1, <1>2, <4>1 DEF Height
        <5> QED BY <1>1, <2>1, <4>1, <5>1
      <4> QED BY <1>12, <4>1, <4>2
    <3> HIDE DEF p
    <3>2. IsList(IF Parents(nd) = {} THEN <<>> ELSE PathTo[p])
      BY <3>1, EmptyRun
    <3>3. PathTo[nd] = Append(IF Parents(nd) = {} THEN <<>> ELSE PathTo[p], <<"node", nd>>)
      BY <1>10 DEF PathStep, p
    <3> QED BY <3>2, <3>3, ListAppend
  <2> QED BY <2>1
<1>13. N \in K
  <2>1. N \in Nat /\ N \in 0 .. N
    BY <1>1
  <2> HIDE DEF K, N
  <2> QED BY <1>11, <1>12, <2>1, Climb
<1>14. \A nd \in Node : IsList(PathTo[nd])
  <2>1. \A nd \in Node : height[nd] > C - N
    BY <1>1, <1>2 DEF Height
  <2> QED BY <1>13, <2>1
<1> QED BY <1>10, <1>14

LEMMA PathDown ==
  /\ PathTo[root] = <<<<"node", root>>>>
  /\ \A nd \in Node : \A i \in DOMAIN children[nd] :
       PathTo[children[nd][i]] = Append(PathTo[nd], <<"node", children[nd][i]>>)
<1>1. PathTo[root] = <<<<"node", root>>>>
  <2>1. Parents(root) = {} /\ root \in Node
    BY HierarchyAssumption, RendererAssumption DEF Parents
  <2> QED BY <2>1, PathIs, Tuples DEF PathStep
<1>2. ASSUME NEW nd \in Node, NEW i \in DOMAIN children[nd]
      PROVE  PathTo[children[nd][i]] = Append(PathTo[nd], <<"node", children[nd][i]>>)
  <2> DEFINE c == children[nd][i]
  <2>1. c \in Node
    <3>1. children[nd] \in Seq(Node)
      BY RendererAssumption
    <3> QED BY <3>1
  <2>2. nd \in Parents(c)
    BY DEF Parents, ToSet
  <2>3. \A p \in Parents(c) : p = nd
    <3> SUFFICES ASSUME NEW p \in Parents(c) PROVE p = nd
      OBVIOUS
    <3>1. p \in Node /\ \E j \in DOMAIN children[p] : children[p][j] = c
      BY DEF Parents, ToSet
    <3> QED BY <3>1, HierarchyAssumption
  <2> HIDE DEF c
  <2>4. (CHOOSE p \in Parents(c) : TRUE) = nd
    BY <2>2, <2>3
  <2>5. PathTo[c] = Append(PathTo[nd], <<"node", c>>)
    BY <2>1, <2>2, <2>4, PathIs DEF PathStep
  <2> QED BY <2>5 DEF c
<1> QED BY <1>1, <1>2

(* In the model, and what drawing some of it changes.                      *)
Material == {"CULL_FACE", "LIGHTING", "COLOR_MATERIAL"}

InModel(g) ==
  /\ Context(g) /\ g.mode = "MODELVIEW" /\ Top(g, "PROJECTION") = <<<<"perspective">>>>
  /\ "TEXTURE_2D" \notin g.on /\ "DEPTH_TEST" \in g.on /\ World(g.drawn)

Rendered(g, h) ==
  /\ Context(h) /\ SameMatrices(h, g) /\ h.texture = g.texture
  /\ h.blend = g.blend /\ h.alpha = g.alpha /\ h.on \ Material = g.on \ Material
  /\ World(h.drawn) /\ SameCounts(h, g)

LEMMA RenderedOn ==
  \A g, h, k : /\ InModel(g) => Rendered(g, g)
               /\ InModel(g) /\ Rendered(g, h) => InModel(h)
               /\ Rendered(g, h) /\ Rendered(h, k) => Rendered(g, k)
<1>1. \A g : InModel(g) => Rendered(g, g)
  BY DEF InModel, Rendered, SameMatrices, SameCounts
<1>2. ASSUME NEW g, NEW h, InModel(g), Rendered(g, h) PROVE InModel(h)
  <2>1. "TEXTURE_2D" \notin h.on /\ "DEPTH_TEST" \in h.on
    BY <1>2 DEF InModel, Rendered, Material
  <2> QED BY <1>2, <2>1 DEF InModel, Rendered, SameMatrices, Top
<1>3. \A g, h, k : Rendered(g, h) /\ Rendered(h, k) => Rendered(g, k)
  BY DEF Rendered, SameMatrices, SameCounts
<1> QED BY <1>1, <1>2, <1>3

(* The place of a part of an aircraft at a node.                           *)
AtNode(id, nd) == Append(Object(id), Roll(id)) \o PathTo[nd]

LEMMA ModelPath ==
  ASSUME NEW s, NEW t, NEW x, IsList(s), IsList(t)
  PROVE  Append(s \o t, x) = s \o Append(t, x)
<1>1. /\ IsList(s \o t) /\ Len(s \o t) = Len(s) + Len(t) /\ IsList(Append(t, x))
      /\ Len(Append(t, x)) = Len(t) + 1 /\ Len(s) \in Nat /\ Len(t) \in Nat
  BY Concatenated, ListAppend DEF IsList
<1> DEFINE u == Append(s \o t, x)
           v == s \o Append(t, x)
           n == Len(s) + Len(t)
<1>2. IsList(u) /\ Len(u) = n + 1 /\ IsList(v) /\ Len(v) = n + 1
  <2>1. IsList(v) /\ Len(v) = Len(s) + Len(Append(t, x))
    BY <1>1, Concatenated
  <2>2. IsList(u) /\ Len(u) = Len(s \o t) + 1
    BY <1>1, ListAppend
  <2> QED BY <1>1, <2>1, <2>2
<1>3. ASSUME NEW i \in 1 .. n + 1 PROVE u[i] = v[i]
  <2>1. CASE i \in 1 .. Len(s)
    <3>1. u[i] = (s \o t)[i]
      BY <1>1, <2>1, ListAppend
    <3>2. (s \o t)[i] = s[i]
      BY <2>1, Concatenated
    <3>3. v[i] = s[i]
      BY <1>1, <2>1, Concatenated
    <3> QED BY <3>1, <3>2, <3>3
  <2>2. CASE i \notin 1 .. Len(s) /\ i # n + 1
    <3> DEFINE j == i - Len(s)
    <3>1. j \in 1 .. Len(t) /\ j \in 1 .. Len(Append(t, x)) /\ i = Len(s) + j /\ i \in 1 .. Len(s \o t)
      BY <1>1, <2>2
    <3> HIDE DEF j
    <3>2. u[i] = (s \o t)[i]
      BY <1>1, <3>1, ListAppend
    <3>3. (s \o t)[Len(s) + j] = t[j]
      BY <3>1, Concatenated
    <3>4. v[Len(s) + j] = Append(t, x)[j]
      BY <1>1, <3>1, Concatenated
    <3>5. Append(t, x)[j] = t[j]
      BY <3>1, ListAppend
    <3> QED BY <3>1, <3>2, <3>3, <3>4, <3>5
  <2>3. CASE i = n + 1
    <3>1. u[n + 1] = x
      BY <1>1, ListAppend
    <3>2. Len(Append(t, x)) \in 1 .. Len(Append(t, x)) /\ Len(s) + Len(Append(t, x)) = n + 1
      BY <1>1
    <3>3. v[Len(s) + Len(Append(t, x))] = Append(t, x)[Len(Append(t, x))]
      BY <1>1, <3>2, Concatenated
    <3>4. Append(t, x)[Len(t) + 1] = x
      BY ListAppend
    <3> QED BY <1>1, <2>3, <3>1, <3>2, <3>3, <3>4
  <2> QED BY <2>1, <2>2, <2>3
<1> HIDE DEF u, v, n
<1>4. u = v
  BY <1>2, <1>3, SameList
<1> QED BY <1>4 DEF u, v

LEMMA MeshPlace ==
  ASSUME NEW nd \in Node, NEW i \in DOMAIN meshes[nd], NEW id
  PROVE  PlaceOf(Part(id, "model", meshes[nd][i])) = AtNode(id, nd)
<1> DEFINE m == meshes[nd][i]
           Holds(n) == n \in Node /\ m \in ToSet(meshes[n])
<1>1. m \in ToSet(meshes[nd])
  BY DEF ToSet
<1>2. \A n : Holds(n) => n = nd
  <2> SUFFICES ASSUME NEW n, Holds(n) PROVE n = nd
    OBVIOUS
  <2>1. PICK j \in DOMAIN meshes[n] : meshes[n][j] = m
    BY DEF ToSet
  <2> QED BY <2>1, HierarchyAssumption
<1>3. (CHOOSE n \in Node : m \in ToSet(meshes[n])) = nd
  BY <1>1, <1>2
<1> DEFINE part == Part(id, "model", m)
<1>4. part.of = "model" /\ part.obj = id /\ part.name = m
  BY DEF Part
<1> HIDE DEF part, m
<1>5. PlaceOf(part) = AtNode(id, nd)
  BY <1>3, <1>4 DEF PlaceOf, AtNode, Object
<1> QED BY <1>5 DEF part, m

LEMMA MeshDraws ==
  ASSUME NEW g, NEW h, NEW id, NEW nd \in Node, NEW i \in DOMAIN meshes[nd],
         mesh[meshes[nd][i]] \in MeshKind, InModel(g), Top(g, "MODELVIEW") = AtNode(id, nd),
         h = Run(g, RenderMesh(id, meshes[nd][i]))
  PROVE  Rendered(g, h)
<1> DEFINE m == meshes[nd][i]
           part == Part(id, "model", m)
<1>1. PlaceOf(part) = AtNode(id, nd)
  BY MeshPlace
<1>2. part.of = "model" /\ part.obj = id /\ part.name = m
  BY DEF Part
<1>3. AfterMesh(g, h, m) /\ h.drawn = Append(g.drawn, Look(h, part))
  BY MeshCalls DEF InModel
<1> HIDE DEF part, m
<1>4. /\ ~OfPanel(part) /\ WithDepth(part) /\ TextureOf(part) = NoTexture
      /\ ProjOf(part) = <<<<"perspective">>>>
  BY <1>2 DEF OfPanel, WithDepth, TextureOf, ProjOf
<1>5. h.on \ Material = g.on \ Material
  BY <1>3 DEF AfterMesh, Material
<1>6. "TEXTURE_2D" \notin h.on /\ "DEPTH_TEST" \in h.on
  BY <1>5 DEF InModel, Material
<1>7. Top(h, "MODELVIEW") = PlaceOf(part) /\ Top(h, "PROJECTION") = ProjOf(part)
  BY <1>1, <1>3, <1>4 DEF AfterMesh, SameMatrices, Top, InModel
<1>8. Suits(h, part)
  BY <1>4, <1>6, <1>7 DEF Suits
<1>9. IsList(g.drawn)
  BY DEF InModel, Context
<1>10. World(h.drawn)
  BY <1>3, <1>4, <1>8, <1>9, PictureWorld DEF InModel
<1>11. ASSUME NEW k, NEW of \in Counted PROVE Count(h.drawn, k, of) = Count(g.drawn, k, of)
  <2>1. Look(h, part).part = part
    BY DEF Look
  <2>2. ~Shows(part, k, of)
    BY <1>2 DEF Shows, Counted
  <2> QED BY <1>3, <1>9, <2>1, <2>2, PictureCount
<1> QED BY <1>3, <1>5, <1>10, <1>11 DEF AfterMesh, Rendered, SameCounts

LEMMA MeshCallsAreList == \A id, m : IsList(RenderMesh(id, m))
<1> SUFFICES ASSUME NEW id, NEW m PROVE IsList(RenderMesh(id, m))
  OBVIOUS
<1> DEFINE s1 == apply_material(m)
           s2 == <<LightIfNormals(m), TrackIfColors(m)>>
           s3 == IF mesh[m].colors THEN <<Color(<<"vertex", m>>, 10)>> ELSE <<>>
           s4 == <<Draw(id, "model", m)>>
<1>1. IsList(s1) /\ IsList(s2) /\ IsList(s3) /\ IsList(s4)
  BY DEF IsList, apply_material
<1>2. RenderMesh(id, m) = ((s1 \o s2) \o s3) \o s4
  BY DEF RenderMesh
<1> HIDE DEF s1, s2, s3, s4
<1>3. IsList(s1 \o s2) /\ IsList((s1 \o s2) \o s3)
  BY <1>1, Concatenated
<1> QED BY <1>1, <1>2, <1>3, Concatenated

KnownMeshes == \A m \in Mesh : mesh[m] \in MeshKind

(* All meshes of a node.                                                   *)
LEMMA MeshesDraw ==
  ASSUME NEW g, NEW h, NEW id, NEW nd \in Node, KnownMeshes, InModel(g),
         Top(g, "MODELVIEW") = AtNode(id, nd), h = Run(g, FlattenSeq(MeshesOf(id, nd)))
  PROVE  Rendered(g, h) /\ IsList(FlattenSeq(MeshesOf(id, nd)))
<1> DEFINE ss == MeshesOf(id, nd)
           N == Len(meshes[nd])
<1>1. N \in Nat /\ DOMAIN meshes[nd] = 1 .. N /\ \A i \in 1 .. N : meshes[nd][i] \in Mesh
  <2>1. meshes[nd] \in Seq(Mesh)
    BY HierarchyAssumption
  <2> QED BY <2>1
<1>2. IsList(ss) /\ Len(ss) = N /\ \A i \in 1 .. N : ss[i] = RenderMesh(id, meshes[nd][i])
  BY <1>1 DEF MeshesOf, IsList
<1> HIDE DEF ss
<1>3. \A i \in 1 .. Len(ss) : IsList(ss[i])
  BY <1>2, MeshCallsAreList
<1>4. PICK a : /\ a[0] = g /\ \A n \in 1 .. N : a[n] = Run(a[n - 1], ss[n])
               /\ Run(g, FlattenSeq(ss)) = a[N] /\ IsList(FlattenSeq(ss))
  <2> HIDE DEF N
  <2> QED BY <1>2, <1>3, RunFlatten
<1> DEFINE J == {n \in 0 .. N : Rendered(g, a[n])}
<1>5. 0 \in J
  BY <1>1, <1>4, RenderedOn
<1>6. ASSUME NEW n \in 1 .. N, n - 1 \in J PROVE n \in J
  <2>1. Rendered(g, a[n - 1])
    BY <1>6
  <2>2. InModel(a[n - 1]) /\ Top(a[n - 1], "MODELVIEW") = AtNode(id, nd)
    <3>1. InModel(a[n - 1])
      BY <2>1, RenderedOn
    <3> QED BY <2>1, <3>1 DEF Rendered, SameMatrices, Top
  <2>3. a[n] = Run(a[n - 1], RenderMesh(id, meshes[nd][n])) /\ mesh[meshes[nd][n]] \in MeshKind
    BY <1>1, <1>2, <1>4 DEF KnownMeshes
  <2>4. Rendered(a[n - 1], a[n])
    BY <1>1, <2>2, <2>3, MeshDraws
  <2>5. Rendered(g, a[n])
    BY <2>1, <2>4, RenderedOn
  <2> QED BY <2>5
<1>7. N \in J
  <2>1. N \in 0 .. N
    BY <1>1
  <2> HIDE DEF J, N
  <2> QED BY <1>1, <1>5, <1>6, <2>1, Climb
<1> QED BY <1>4, <1>7 DEF ss

(* A node with all below it, at any height.                                *)
NodeDone(id, r, nd) ==
  /\ IsList(r[nd])
  /\ \A g, b, t :
       InModel(g) /\ View(g, b, t) /\ Append(t, <<"node", nd>>) = AtNode(id, nd) =>
         Rendered(g, Run(g, r[nd]))

LEMMA NodeDraws ==
  ASSUME NEW id, NEW r, Renders(id, r), NEW nd \in Node, KnownMeshes,
         \A i \in DOMAIN children[nd] : NodeDone(id, r, children[nd][i])
  PROVE  NodeDone(id, r, nd)
<1> DEFINE s1 == NodeStart(nd)
           s2 == FlattenSeq(MeshesOf(id, nd))
           ss == ChildrenOf(r, nd)
           s3 == FlattenSeq(ss)
           s4 == <<PopMatrix>>
           N == Len(children[nd])
<1>1. r[nd] = ((s1 \o s2) \o s3) \o s4
  BY DEF Renders, NodeCalls
<1>2. /\ N \in Nat /\ DOMAIN children[nd] = 1 .. N
      /\ \A i \in 1 .. N : children[nd][i] \in Node
  <2>1. children[nd] \in Seq(Node)
    BY RendererAssumption
  <2> QED BY <2>1
<1>3. IsList(s1) /\ Len(s1) = 2 /\ IsList(s4) /\ Len(s4) = 1
  BY DEF IsList, NodeStart
<1>4. IsList(ss) /\ Len(ss) = N /\ \A i \in 1 .. N : ss[i] = r[children[nd][i]]
  BY <1>2 DEF ChildrenOf, IsList
<1>5. \A i \in 1 .. Len(ss) : IsList(ss[i])
  BY <1>2, <1>4 DEF NodeDone
<1>6. IsList(s2)
  <2> DEFINE ms == MeshesOf(id, nd)
             M == Len(meshes[nd])
  <2>1. M \in Nat /\ DOMAIN meshes[nd] = 1 .. M
    <3>1. meshes[nd] \in Seq(Mesh)
      BY HierarchyAssumption
    <3> QED BY <3>1
  <2>2. IsList(ms) /\ Len(ms) = M /\ \A i \in 1 .. M : ms[i] = RenderMesh(id, meshes[nd][i])
    BY <2>1 DEF MeshesOf, IsList
  <2> HIDE DEF ms
  <2>3. \A i \in 1 .. Len(ms) : IsList(ms[i])
    BY <2>2, MeshCallsAreList
  <2> QED BY <2>2, <2>3, RunFlatten DEF ms
<1>7. IsList(s3)
  <2> HIDE DEF ss
  <2> QED BY <1>4, <1>5, RunFlatten
<1>8. IsList(r[nd]) /\ IsList(s1 \o s2) /\ IsList((s1 \o s2) \o s3)
  <2> HIDE DEF s1, s2, s3, s4
  <2>1. IsList(s1 \o s2)
    BY <1>3, <1>6, Concatenated
  <2>2. IsList((s1 \o s2) \o s3)
    BY <1>7, <2>1, Concatenated
  <2> QED BY <1>1, <1>3, <2>1, <2>2, Concatenated
<1>9. ASSUME NEW g, NEW b, NEW t, InModel(g), View(g, b, t),
             Append(t, <<"node", nd>>) = AtNode(id, nd)
      PROVE  Rendered(g, Run(g, r[nd]))
  <2> DEFINE p == Run(g, s1)
             q == Run(p, s2)
             u == Run(q, s3)
             h == Run(u, s4)
  <2>1. Run(g, r[nd]) = h
    <3> HIDE DEF s1, s2, s3, s4
    <3> QED BY <1>1, <1>3, <1>6, <1>7, <1>8, RunConcat
  <2>2. /\ Context(p) /\ SamePicture(p, g) /\ p.mode = "MODELVIEW"
        /\ View(p, Append(b, t), AtNode(id, nd)) /\ p.stack.PROJECTION = g.stack.PROJECTION
    <3> DEFINE a == TraceOf(g, s1)
    <3>1. Trace(g, s1, a) /\ p = a[2]
      <4> HIDE DEF s1
      <4> QED BY <1>3, Traced
    <3> HIDE DEF a, p
    <3>2. a[1] = Exec(g, PushMatrix) /\ p = Exec(a[1], MultMatrix(<<"node", nd>>))
      BY <1>3, <3>1 DEF Trace, NodeStart
    <3>3. /\ Context(a[1]) /\ SamePicture(a[1], g) /\ a[1].mode = "MODELVIEW"
          /\ View(a[1], Append(b, t), t) /\ a[1].stack.PROJECTION = g.stack.PROJECTION
      BY <1>9, <3>2, DoesPush DEF InModel
    <3>4. /\ Context(p) /\ SamePicture(p, a[1]) /\ p.mode = "MODELVIEW"
          /\ View(p, Append(b, t), Append(t, <<"node", nd>>))
          /\ p.stack.PROJECTION = a[1].stack.PROJECTION
      BY <3>2, <3>3, DoesMult
    <3> QED BY <1>9, <3>3, <3>4 DEF SamePicture, SameColours, SameFunctions
  <2>3. InModel(p) /\ Top(p, "MODELVIEW") = AtNode(id, nd)
    <3> HIDE DEF p
    <3>1. Top(p, "MODELVIEW") = AtNode(id, nd)
      BY <2>2, TopIs
    <3> QED BY <1>9, <2>2, <3>1 DEF InModel, SamePicture, Top
  <2>4. Rendered(p, q)
    <3> HIDE DEF p
    <3> QED BY <2>3, MeshesDraw
  <2> HIDE DEF p, q
  <2>5. InModel(q) /\ View(q, Append(b, t), AtNode(id, nd))
    <3>1. InModel(q)
      BY <2>3, <2>4, RenderedOn
    <3> QED BY <2>2, <2>4, <3>1 DEF Rendered, SameMatrices, View
  <2>6. Rendered(q, u)
    <3>1. PICK a : /\ a[0] = q /\ \A n \in 1 .. N : a[n] = Run(a[n - 1], ss[n])
                   /\ Run(q, FlattenSeq(ss)) = a[N]
      <4> HIDE DEF ss, N
      <4> QED BY <1>4, <1>5, RunFlatten
    <3> DEFINE J == {n \in 0 .. N : Rendered(q, a[n])}
    <3>2. 0 \in J
      BY <1>2, <2>5, <3>1, RenderedOn
    <3>3. ASSUME NEW n \in 1 .. N, n - 1 \in J PROVE n \in J
      <4> DEFINE c == children[nd][n]
      <4>1. Rendered(q, a[n - 1])
        BY <3>3
      <4>2. InModel(a[n - 1]) /\ View(a[n - 1], Append(b, t), AtNode(id, nd))
        <5>1. InModel(a[n - 1])
          BY <2>5, <4>1, RenderedOn
        <5> QED BY <2>5, <4>1, <5>1 DEF Rendered, SameMatrices, View
      <4>3. NodeDone(id, r, c) /\ a[n] = Run(a[n - 1], r[c])
        BY <1>2, <1>4, <3>1
      <4>4. Append(AtNode(id, nd), <<"node", c>>) = AtNode(id, c)
        <5>1. PathTo[c] = Append(PathTo[nd], <<"node", c>>)
          BY <1>2, PathDown
        <5> HIDE DEF c
        <5>2. IsList(Append(Object(id), Roll(id)))
          <6>1. IsList(Object(id))
            BY DEF IsList, Object
          <6> QED BY <6>1, ListAppend
        <5>3. IsList(PathTo[nd])
          BY PathIs
        <5>4. Append(AtNode(id, nd), <<"node", c>>)
                = Append(Object(id), Roll(id)) \o Append(PathTo[nd], <<"node", c>>)
          <6> DEFINE o == Append(Object(id), Roll(id))
                     path == PathTo[nd]
                     x == <<"node", c>>
          <6>1. AtNode(id, nd) = o \o path
            BY DEF AtNode
          <6>2. IsList(o) /\ IsList(path)
            BY <5>2, <5>3
          <6> HIDE DEF o, path, x
          <6>3. Append(o \o path, x) = o \o Append(path, x)
            BY <6>2, ModelPath
          <6> QED BY <6>1, <6>3 DEF o, path, x
        <5> QED BY <5>1, <5>4 DEF AtNode
      <4> HIDE DEF c
      <4>5. Rendered(a[n - 1], a[n])
        BY <4>2, <4>3, <4>4 DEF NodeDone
      <4>6. Rendered(q, a[n])
        BY <4>1, <4>5, RenderedOn
      <4> QED BY <4>6
    <3>4. N \in J
      <4>1. N \in 0 .. N
        BY <1>2
      <4> HIDE DEF J, N
      <4> QED BY <1>2, <3>2, <3>3, <4>1, Climb
    <3> QED BY <3>1, <3>4
  <2> HIDE DEF u
  <2>7. /\ Context(h) /\ SamePicture(h, u) /\ h.mode = "MODELVIEW" /\ View(h, b, t)
        /\ h.stack.PROJECTION = u.stack.PROJECTION
    <3> DEFINE a == TraceOf(u, s4)
    <3>1. Trace(u, s4, a) /\ h = a[1]
      <4> HIDE DEF s4
      <4> QED BY <1>3, Traced
    <3> HIDE DEF a, h
    <3>2. h = Exec(u, PopMatrix)
      BY <1>3, <3>1 DEF Trace
    <3>3. Context(u) /\ u.mode = "MODELVIEW" /\ View(u, Append(b, t), AtNode(id, nd))
      BY <2>5, <2>6 DEF Rendered, SameMatrices, View, InModel
    <3>4. IsList(b)
      BY <1>9 DEF View
    <3> QED BY <3>2, <3>3, <3>4, DoesPop
  <2> HIDE DEF h
  <2>8. SameMatrices(h, g)
    <3>1. h.stack.MODELVIEW = g.stack.MODELVIEW
      BY <1>9, <2>7 DEF View
    <3>2. h.stack.PROJECTION = g.stack.PROJECTION
      BY <2>2, <2>4, <2>6, <2>7 DEF Rendered, SameMatrices
    <3> QED BY <1>9, <2>7, <3>1, <3>2 DEF SameMatrices, Context, InModel
  <2>9. Rendered(p, u)
    BY <2>4, <2>6, RenderedOn
  <2>10. Rendered(g, h)
    BY <2>2, <2>7, <2>8, <2>9
       DEF Rendered, SamePicture, SameColours, SameFunctions, SameCounts
  <2> QED BY <2>1, <2>10
<1> QED BY <1>8, <1>9 DEF NodeDone

LEMMA NoneAfter == \A s : IsList(s) => s \o <<>> = s
<1> SUFFICES ASSUME NEW s, IsList(s) PROVE s \o <<>> = s
  OBVIOUS
<1>1. IsList(<<>>) /\ Len(<<>>) = 0 /\ Len(s) \in Nat
  BY DEF IsList
<1>2. IsList(s \o <<>>) /\ Len(s \o <<>>) = Len(s) + 0 /\ \A i \in 1 .. Len(s) : (s \o <<>>)[i] = s[i]
  BY <1>1, Concatenated
<1> DEFINE t == s \o <<>>
<1>3. IsList(t) /\ Len(t) = Len(s) /\ \A i \in 1 .. Len(t) : t[i] = s[i]
  BY <1>1, <1>2
<1> HIDE DEF t
<1>4. t = s
  BY <1>3, SameList
<1> QED BY <1>4 DEF t

LEMMA ModelDraws ==
  ASSUME NEW id, KnownMeshes
  PROVE  /\ IsList(recursive_render(id))
         /\ \A g, b : InModel(g) /\ View(g, b, Append(Object(id), Roll(id))) =>
              Rendered(g, Run(g, recursive_render(id)))
<1>1. PICK r : Renders(id, r) /\ recursive_render(id) = r[root]
  BY RendersNode
<1>2. Cardinality(Node) \in Nat
  BY HasHeight
<1>3. PICK height : Height(height)
  BY HasHeight
<1> DEFINE N == Cardinality(Node) + 1
           J == {k \in 0 .. N : \A nd \in Node : height[nd] < k => NodeDone(id, r, nd)}
<1>4. 0 \in J
  BY <1>2, <1>3 DEF Height
<1>5. ASSUME NEW k \in 1 .. N, k - 1 \in J PROVE k \in J
  <2>1. ASSUME NEW nd \in Node, height[nd] < k PROVE NodeDone(id, r, nd)
    <3>1. ASSUME NEW i \in DOMAIN children[nd] PROVE NodeDone(id, r, children[nd][i])
      <4>1. children[nd][i] \in Node /\ height[children[nd][i]] < height[nd]
            /\ height[children[nd][i]] \in Int /\ height[nd] \in Int
        BY <1>2, <1>3 DEF Height
      <4>2. height[children[nd][i]] < k - 1
        BY <2>1, <4>1
      <4> QED BY <1>5, <4>1, <4>2
    <3> QED BY <1>1, <3>1, NodeDraws
  <2> QED BY <2>1
<1>6. N \in J
  <2>1. N \in Nat /\ N \in 0 .. N
    BY <1>2
  <2> HIDE DEF J, N
  <2> QED BY <1>4, <1>5, <2>1, Climb
<1>7. NodeDone(id, r, root)
  <2>1. root \in Node /\ height[root] < N
    BY <1>2, <1>3, RendererAssumption DEF Height
  <2> QED BY <1>6, <2>1
<1>8. Append(Append(Object(id), Roll(id)), <<"node", root>>) = AtNode(id, root)
  <2> DEFINE o == Append(Object(id), Roll(id))
             x == <<"node", root>>
  <2>1. AtNode(id, root) = o \o <<x>>
    BY PathDown DEF AtNode
  <2>2. IsList(o) /\ IsList(<<>>)
    <3>1. IsList(Object(id)) /\ IsList(<<>>)
      BY DEF IsList, Object
    <3> QED BY <3>1, ListAppend
  <2> HIDE DEF o, x
  <2>3. o \o <<>> = o /\ Append(o \o <<>>, x) = o \o Append(<<>>, x) /\ Append(<<>>, x) = <<x>>
    BY <2>2, NoneAfter, ModelPath, Tuples
  <2>4. Append(o, x) = AtNode(id, root)
    BY <2>1, <2>3
  <2> QED BY <2>4 DEF o, x
<1> QED BY <1>1, <1>7, <1>8 DEF NodeDone

ModelLights == {"LIGHTING", "LIGHT0", "NORMALIZE"}

SwitchedTo(g, h, on) ==
  /\ Context(h) /\ SameMatrices(h, g) /\ SameFunctions(h, g) /\ SameColours(h, g)
  /\ h.texture = g.texture /\ h.drawn = g.drawn /\ h.on = on
ModelOn(g, h)  == SwitchedTo(g, h, g.on \cup {"CULL_FACE", "DEPTH_TEST"} \cup ModelLights)
ModelOff(g, h) == SwitchedTo(g, h, g.on \ ({"CULL_FACE", "DEPTH_TEST"} \cup ModelLights))

LEMMA ModelSwitchesOn ==
  ASSUME NEW g, NEW h, Context(g),
         h = Run(g, <<Enable("CULL_FACE"), Enable("LIGHTING"), Enable("LIGHT0"),
                      Enable("DEPTH_TEST"), Enable("NORMALIZE")>>)
  PROVE  ModelOn(g, h)
<1> DEFINE s == <<Enable("CULL_FACE"), Enable("LIGHTING"), Enable("LIGHT0"),
                  Enable("DEPTH_TEST"), Enable("NORMALIZE")>>
           a == TraceOf(g, s)
<1>1. IsList(s) /\ Len(s) = 5
  BY DEF IsList
<1>2. Trace(g, s, a) /\ h = a[5]
  <2>1. h = Run(g, s)
    OBVIOUS
  <2> HIDE DEF s
  <2> QED BY <1>1, <2>1, Traced
<1> HIDE DEF a
<1>3. /\ a[1] = Exec(g, Enable("CULL_FACE")) /\ a[2] = Exec(a[1], Enable("LIGHTING"))
      /\ a[3] = Exec(a[2], Enable("LIGHT0")) /\ a[4] = Exec(a[3], Enable("DEPTH_TEST"))
      /\ a[5] = Exec(a[4], Enable("NORMALIZE"))
  BY <1>1, <1>2 DEF Trace
<1>4. {"CULL_FACE", "LIGHTING", "LIGHT0", "DEPTH_TEST", "NORMALIZE"} \subseteq Capability
  BY DEF Capability
<1>5. /\ Enabled(g, a[1], "CULL_FACE") /\ Enabled(a[1], a[2], "LIGHTING")
      /\ Enabled(a[2], a[3], "LIGHT0") /\ Enabled(a[3], a[4], "DEPTH_TEST")
      /\ Enabled(a[4], h, "NORMALIZE") /\ Context(h)
  BY <1>2, <1>3, <1>4, DoesEnable
<1>6. SameMatrices(h, g) /\ SameFunctions(h, g) /\ h.texture = g.texture /\ h.drawn = g.drawn
  BY <1>5 DEF Enabled, SameMatrices, SameFunctions
<1>7. SameColours(h, g)
  BY <1>5 DEF Enabled, SameColours
<1>8. h.on = g.on \cup {"CULL_FACE", "DEPTH_TEST"} \cup ModelLights
  BY <1>5 DEF Enabled, ModelLights
<1> QED BY <1>5, <1>6, <1>7, <1>8 DEF ModelOn, SwitchedTo

LEMMA ModelSwitchesOff ==
  ASSUME NEW g, NEW h, Context(g), h = Run(g, ModelDone)
  PROVE  ModelOff(g, h)
<1> DEFINE s == ModelDone
           a == TraceOf(g, s)
<1>1. IsList(s) /\ Len(s) = 5
  BY DEF IsList, ModelDone
<1>2. Trace(g, s, a) /\ h = a[5]
  <2>1. h = Run(g, s)
    OBVIOUS
  <2> HIDE DEF s
  <2> QED BY <1>1, <2>1, Traced
<1> HIDE DEF a
<1>3. /\ a[1] = Exec(g, Disable("LIGHT0")) /\ a[2] = Exec(a[1], Disable("LIGHTING"))
      /\ a[3] = Exec(a[2], Disable("DEPTH_TEST")) /\ a[4] = Exec(a[3], Disable("NORMALIZE"))
      /\ a[5] = Exec(a[4], Disable("CULL_FACE"))
  BY <1>1, <1>2 DEF Trace, ModelDone
<1>4. {"CULL_FACE", "LIGHTING", "LIGHT0", "DEPTH_TEST", "NORMALIZE"} \subseteq Capability
  BY DEF Capability
<1>5. /\ Disabled(g, a[1], "LIGHT0") /\ Disabled(a[1], a[2], "LIGHTING")
      /\ Disabled(a[2], a[3], "DEPTH_TEST") /\ Disabled(a[3], a[4], "NORMALIZE")
      /\ Disabled(a[4], h, "CULL_FACE") /\ Context(h)
  BY <1>2, <1>3, <1>4, DoesDisable
<1>6. /\ SameMatrices(h, g) /\ SameFunctions(h, g) /\ SameColours(h, g)
      /\ h.texture = g.texture /\ h.drawn = g.drawn
  BY <1>5 DEF Disabled, SameMatrices, SameFunctions, SameColours
<1>7. h.on = g.on \ ({"CULL_FACE", "DEPTH_TEST"} \cup ModelLights)
  BY <1>5 DEF Disabled, ModelLights
<1> QED BY <1>5, <1>6, <1>7 DEF ModelOff, SwitchedTo

Rolled(id) == Append(Object(id), Roll(id))

PlayerStart(id) ==
  <<PushMatrix, MultMatrix(At(id)), PushMatrix, MultMatrix(YawPitch(id)),
    PushMatrix, MultMatrix(Roll(id)), PushMatrix>>

(* The matrices below an aircraft's.                                       *)
Cam      == <<followCam>>
Below(id) ==
  Append(Append(Append(Append(<<>>, Cam), Append(Cam, At(id))), Object(id)), Rolled(id))

LEMMA PlayerStarts ==
  ASSUME NEW g, NEW m, NEW id, InCamera(g), m = Run(g, PlayerStart(id))
  PROVE  /\ Context(m) /\ SamePicture(m, g) /\ m.mode = "MODELVIEW"
         /\ View(m, Below(id), Rolled(id)) /\ m.stack.PROJECTION = g.stack.PROJECTION
<1> DEFINE s == PlayerStart(id)
           a == TraceOf(g, s)
<1>1. IsList(s) /\ Len(s) = 7
  BY DEF IsList, PlayerStart
<1>2. Trace(g, s, a) /\ m = a[7]
  <2>1. m = Run(g, s)
    OBVIOUS
  <2> HIDE DEF s
  <2> QED BY <1>1, <2>1, Traced
<1> HIDE DEF a
<1>3. /\ a[1] = Exec(g, PushMatrix) /\ a[2] = Exec(a[1], MultMatrix(At(id)))
      /\ a[3] = Exec(a[2], PushMatrix) /\ a[4] = Exec(a[3], MultMatrix(YawPitch(id)))
      /\ a[5] = Exec(a[4], PushMatrix) /\ a[6] = Exec(a[5], MultMatrix(Roll(id)))
      /\ a[7] = Exec(a[6], PushMatrix)
  BY <1>1, <1>2 DEF Trace, PlayerStart
<1> DEFINE at == Append(Cam, At(id))
           o  == Object(id)
           ro == Rolled(id)
           b1 == Append(<<>>, Cam)
           b2 == Append(b1, at)
           b3 == Append(b2, o)
<1>4. Append(at, YawPitch(id)) = o /\ Append(o, Roll(id)) = ro /\ Below(id) = Append(b3, ro)
  BY ObjectIs DEF Cam, Rolled, Below
<1>5. /\ Context(g) /\ g.mode = "MODELVIEW" /\ View(g, <<>>, Cam)
  BY DEF InCamera, Cam
<1> HIDE DEF at, o, ro, b1, b2, b3
<1>6. /\ Context(a[2]) /\ SamePicture(a[2], g) /\ a[2].mode = "MODELVIEW"
      /\ View(a[2], b1, at) /\ a[2].stack.PROJECTION = g.stack.PROJECTION
  <2>1. /\ Context(a[1]) /\ SamePicture(a[1], g) /\ a[1].mode = "MODELVIEW"
        /\ View(a[1], b1, Cam) /\ a[1].stack.PROJECTION = g.stack.PROJECTION
    BY <1>3, <1>5, DoesPush DEF b1
  <2>2. /\ Context(a[2]) /\ SamePicture(a[2], a[1]) /\ a[2].mode = "MODELVIEW"
        /\ View(a[2], b1, at) /\ a[2].stack.PROJECTION = a[1].stack.PROJECTION
    BY <1>3, <2>1, DoesMult DEF at
  <2> QED BY <2>1, <2>2 DEF SamePicture, SameColours, SameFunctions
<1>7. /\ Context(a[4]) /\ SamePicture(a[4], a[2]) /\ a[4].mode = "MODELVIEW"
      /\ View(a[4], b2, o) /\ a[4].stack.PROJECTION = a[2].stack.PROJECTION
  <2>1. /\ Context(a[3]) /\ SamePicture(a[3], a[2]) /\ a[3].mode = "MODELVIEW"
        /\ View(a[3], b2, at) /\ a[3].stack.PROJECTION = a[2].stack.PROJECTION
    BY <1>3, <1>6, DoesPush DEF b2
  <2>2. /\ Context(a[4]) /\ SamePicture(a[4], a[3]) /\ a[4].mode = "MODELVIEW"
        /\ View(a[4], b2, Append(at, YawPitch(id))) /\ a[4].stack.PROJECTION = a[3].stack.PROJECTION
    BY <1>3, <2>1, DoesMult
  <2> QED BY <1>4, <2>1, <2>2 DEF SamePicture, SameColours, SameFunctions
<1>8. /\ Context(a[6]) /\ SamePicture(a[6], a[4]) /\ a[6].mode = "MODELVIEW"
      /\ View(a[6], b3, ro) /\ a[6].stack.PROJECTION = a[4].stack.PROJECTION
  <2>1. /\ Context(a[5]) /\ SamePicture(a[5], a[4]) /\ a[5].mode = "MODELVIEW"
        /\ View(a[5], b3, o) /\ a[5].stack.PROJECTION = a[4].stack.PROJECTION
    BY <1>3, <1>7, DoesPush DEF b3
  <2>2. /\ Context(a[6]) /\ SamePicture(a[6], a[5]) /\ a[6].mode = "MODELVIEW"
        /\ View(a[6], b3, Append(o, Roll(id))) /\ a[6].stack.PROJECTION = a[5].stack.PROJECTION
    BY <1>3, <2>1, DoesMult
  <2> QED BY <1>4, <2>1, <2>2 DEF SamePicture, SameColours, SameFunctions
<1>9. /\ Context(a[7]) /\ SamePicture(a[7], a[6]) /\ a[7].mode = "MODELVIEW"
      /\ View(a[7], Append(b3, ro), ro) /\ a[7].stack.PROJECTION = a[6].stack.PROJECTION
  BY <1>3, <1>8, DoesPush
<1>10. SamePicture(a[7], g)
  BY <1>6, <1>7, <1>8, <1>9 DEF SamePicture, SameColours, SameFunctions
<1> QED BY <1>2, <1>4, <1>6, <1>7, <1>8, <1>9, <1>10 DEF ro

LEMMA PlayerEnds ==
  ASSUME NEW g, NEW h, NEW id, Context(g), g.mode = "MODELVIEW", View(g, Below(id), Rolled(id)),
         h = Run(g, <<PopMatrix, PopMatrix, PopMatrix, PopMatrix>>)
  PROVE  /\ Context(h) /\ SamePicture(h, g) /\ h.mode = "MODELVIEW"
         /\ View(h, <<>>, Cam) /\ h.stack.PROJECTION = g.stack.PROJECTION
<1> DEFINE s == <<PopMatrix, PopMatrix, PopMatrix, PopMatrix>>
           a == TraceOf(g, s)
<1>1. IsList(s) /\ Len(s) = 4
  BY DEF IsList
<1>2. Trace(g, s, a) /\ h = a[4]
  <2>1. h = Run(g, s)
    OBVIOUS
  <2> HIDE DEF s
  <2> QED BY <1>1, <2>1, Traced
<1> HIDE DEF a
<1>3. /\ a[1] = Exec(g, PopMatrix) /\ a[2] = Exec(a[1], PopMatrix)
      /\ a[3] = Exec(a[2], PopMatrix) /\ a[4] = Exec(a[3], PopMatrix)
  BY <1>1, <1>2 DEF Trace
<1> DEFINE at == Append(Cam, At(id))
           b1 == Append(<<>>, Cam)
           b2 == Append(b1, at)
           b3 == Append(b2, Object(id))
<1>4. Below(id) = Append(b3, Rolled(id))
  BY DEF Below
<1>5. IsList(<<>>) /\ IsList(b1) /\ IsList(b2) /\ IsList(b3)
  <2>1. IsList(<<>>)
    BY DEF IsList
  <2>2. IsList(b1)
    BY <2>1, ListAppend
  <2>3. IsList(b2)
    BY <2>2, ListAppend
  <2> QED BY <2>1, <2>2, <2>3, ListAppend
<1> HIDE DEF b3
<1>6. /\ Context(a[1]) /\ SamePicture(a[1], g) /\ a[1].mode = "MODELVIEW"
      /\ View(a[1], b3, Rolled(id)) /\ a[1].stack.PROJECTION = g.stack.PROJECTION
  BY <1>3, <1>4, <1>5, DoesPop
<1> HIDE DEF b2
<1>7. /\ Context(a[2]) /\ SamePicture(a[2], a[1]) /\ a[2].mode = "MODELVIEW"
      /\ View(a[2], b2, Object(id)) /\ a[2].stack.PROJECTION = a[1].stack.PROJECTION
  BY <1>3, <1>5, <1>6, DoesPop DEF b3
<1> HIDE DEF b1, at
<1>8. /\ Context(a[3]) /\ SamePicture(a[3], a[2]) /\ a[3].mode = "MODELVIEW"
      /\ View(a[3], b1, at) /\ a[3].stack.PROJECTION = a[2].stack.PROJECTION
  BY <1>3, <1>5, <1>7, DoesPop DEF b2
<1>9. /\ Context(a[4]) /\ SamePicture(a[4], a[3]) /\ a[4].mode = "MODELVIEW"
      /\ View(a[4], <<>>, Cam) /\ a[4].stack.PROJECTION = a[3].stack.PROJECTION
  BY <1>3, <1>5, <1>8, DoesPop DEF b1
<1>10. SamePicture(a[4], g)
  BY <1>6, <1>7, <1>8, <1>9 DEF SamePicture, SameColours, SameFunctions
<1> QED BY <1>2, <1>6, <1>7, <1>8, <1>9, <1>10


(* The states that drawing an aircraft goes through: at its place, with    *)
(* its model's switches on, after the model, after them, after its flame.  *)
ModelStart == <<Enable("CULL_FACE"), Enable("LIGHTING"), Enable("LIGHT0"),
                Enable("DEPTH_TEST"), Enable("NORMALIZE")>>
FourPops == <<PopMatrix, PopMatrix, PopMatrix, PopMatrix>>
PlayerVia(g, h, id, m, p, q, u, k) ==
  /\ m = Run(g, PlayerStart(id)) /\ p = Run(m, ModelStart)
  /\ q = Run(p, recursive_render(id)) /\ u = Run(q, ModelDone)
  /\ k = Run(u, FlameRender(id)) /\ h = Run(k, FourPops)

LEMMA PlayerCalls ==
  ASSUME NEW g, NEW h, NEW id, KnownMeshes, h = Run(g, PlayerRender(id))
  PROVE  \E m, p, q, u, k : PlayerVia(g, h, id, m, p, q, u, k)
<1> DEFINE s1 == PlayerStart(id)
           s2 == ModelStart
           s3 == recursive_render(id)
           s4 == ModelDone
           s5 == FlameRender(id)
           s6 == FourPops
<1>1. PlayerRender(id) = ((s1 \o ((s2 \o s3) \o s4)) \o s5) \o s6
  BY DEF PlayerRender, StaticModelRender, PlayerStart, ModelStart, FourPops
<1>2. IsList(s1) /\ IsList(s2) /\ IsList(s4) /\ IsList(s6)
  BY DEF IsList, PlayerStart, ModelStart, ModelDone, FourPops
<1>3. IsList(s3) /\ IsList(s5)
  BY ModelDraws, FlameIsList
<1> DEFINE m == Run(g, s1)
           p == Run(m, s2)
           q == Run(p, s3)
           u == Run(q, s4)
           k == Run(u, s5)
<1> HIDE DEF s1, s2, s3, s4, s5, s6
<1>4. IsList(s2 \o s3) /\ IsList((s2 \o s3) \o s4) /\ IsList(s1 \o ((s2 \o s3) \o s4))
      /\ IsList((s1 \o ((s2 \o s3) \o s4)) \o s5)
  <2>1. IsList(s2 \o s3)
    BY <1>2, <1>3, Concatenated
  <2>2. IsList((s2 \o s3) \o s4)
    BY <1>2, <2>1, Concatenated
  <2>3. IsList(s1 \o ((s2 \o s3) \o s4))
    BY <1>2, <2>2, Concatenated
  <2> QED BY <1>3, <2>1, <2>2, <2>3, Concatenated
<1>5. Run(m, (s2 \o s3) \o s4) = u
  BY <1>2, <1>3, <1>4, RunConcat
<1>6. Run(g, (s1 \o ((s2 \o s3) \o s4)) \o s5) = k
  BY <1>2, <1>3, <1>4, <1>5, RunConcat
<1>7. h = Run(k, s6)
  BY <1>1, <1>2, <1>4, <1>6, RunConcat
<1>8. PlayerVia(g, h, id, m, p, q, u, k)
  BY <1>7 DEF PlayerVia, s1, s2, s3, s4, s5, s6
<1> QED BY <1>8

LEMMA PlayerSteps ==
  ASSUME NEW g, NEW h, NEW id, NEW m, NEW p, NEW q, NEW u, NEW k,
         KnownMeshes, Ready(g), id \in PlayerID, PlayerVia(g, h, id, m, p, q, u, k)
  PROVE  /\ Context(m) /\ SamePicture(m, g) /\ ModelOn(m, p) /\ Rendered(p, q) /\ ModelOff(q, u)
         /\ AfterFlame(u, k) /\ World(k.drawn) /\ ShowsOnce(k, u, id)
         /\ InCamera(h) /\ SamePicture(h, k)
<1>1. /\ Context(m) /\ SamePicture(m, g) /\ m.mode = "MODELVIEW"
      /\ View(m, Below(id), Rolled(id)) /\ m.stack.PROJECTION = g.stack.PROJECTION
  BY PlayerStarts DEF PlayerVia, Ready
<1>2. ModelOn(m, p)
  BY <1>1, ModelSwitchesOn DEF PlayerVia, ModelStart
<1>3. InModel(p) /\ View(p, Below(id), Rolled(id))
  <2>1. Top(g, "PROJECTION") = <<<<"perspective">>>>
    BY TopIs DEF Ready, InCamera
  <2>2. Top(p, "PROJECTION") = <<<<"perspective">>>>
    BY <1>1, <1>2, <2>1 DEF ModelOn, SwitchedTo, SameMatrices, Top
  <2>3. "TEXTURE_2D" \notin p.on /\ "DEPTH_TEST" \in p.on
    BY <1>1, <1>2 DEF ModelOn, SwitchedTo, SamePicture, ModelLights, Ready, Quiet
  <2>4. World(p.drawn)
    BY <1>1, <1>2 DEF ModelOn, SwitchedTo, SamePicture, Ready
  <2> QED BY <1>1, <1>2, <2>2, <2>3, <2>4 DEF ModelOn, SwitchedTo, SameMatrices, View, InModel
<1>4. Rendered(p, q)
  BY <1>3, ModelDraws DEF PlayerVia, Rolled
<1>5. ModelOff(q, u)
  BY <1>4, ModelSwitchesOff DEF PlayerVia, Rendered
<1>6. Context(u) /\ World(u.drawn) /\ "DEPTH_TEST" \notin u.on /\ u.mode = "MODELVIEW"
      /\ View(u, Below(id), Rolled(id)) /\ Top(u, "PROJECTION") = <<<<"perspective">>>>
  BY <1>3, <1>4, <1>5 DEF ModelOff, SwitchedTo, Rendered, InModel, SameMatrices, View, Top
<1>7. AfterFlame(u, k) /\ World(k.drawn) /\ ShowsOnce(k, u, id)
  <2>1. \A name : Places(u, Part(id, "flame", name))
    <3> SUFFICES ASSUME NEW name PROVE Places(u, Part(id, "flame", name))
      OBVIOUS
    <3> DEFINE part == Part(id, "flame", name)
    <3>1. part.of = "flame" /\ part.obj = id
      BY DEF Part
    <3> HIDE DEF part
    <3>2. PlaceOf(part) = Rolled(id) /\ ProjOf(part) = <<<<"perspective">>>>
      BY <3>1 DEF PlaceOf, ProjOf, OfPanel, Object, Rolled
    <3>3. Top(u, "MODELVIEW") = Rolled(id)
      BY <1>6, TopIs
    <3>4. Places(u, part)
      BY <1>6, <3>2, <3>3 DEF Places
    <3> QED BY <3>4 DEF part
  <2> QED BY <1>6, <2>1, FlameDraws DEF PlayerVia
<1>8. Context(k) /\ k.mode = "MODELVIEW" /\ View(k, Below(id), Rolled(id))
  BY <1>6, <1>7 DEF AfterFlame, SameMatrices, View
<1>9. /\ Context(h) /\ SamePicture(h, k) /\ h.mode = "MODELVIEW"
      /\ View(h, <<>>, Cam) /\ h.stack.PROJECTION = k.stack.PROJECTION
  BY <1>8, PlayerEnds DEF PlayerVia, FourPops
<1>10. h.stack.PROJECTION = g.stack.PROJECTION
  BY <1>1, <1>2, <1>4, <1>5, <1>7, <1>9
     DEF ModelOn, ModelOff, SwitchedTo, Rendered, AfterFlame, SameMatrices
<1>11. InCamera(h)
  BY <1>9, <1>10 DEF InCamera, Projection, Ready, Cam
<1> QED BY <1>1, <1>2, <1>4, <1>5, <1>7, <1>9, <1>11

LEMMA PlayerDraws ==
  ASSUME NEW g, NEW h, NEW id, KnownMeshes, Ready(g), id \in PlayerID, h = Run(g, PlayerRender(id))
  PROVE  Ready(h) /\ ShowsOnce(h, g, id)
<1>1. PICK m, p, q, u, k : PlayerVia(g, h, id, m, p, q, u, k)
  BY PlayerCalls
<1>2. /\ Context(m) /\ SamePicture(m, g) /\ ModelOn(m, p) /\ Rendered(p, q) /\ ModelOff(q, u)
      /\ AfterFlame(u, k) /\ World(k.drawn) /\ ShowsOnce(k, u, id)
      /\ InCamera(h) /\ SamePicture(h, k)
  BY <1>1, PlayerSteps
<1>3. Quiet(h)
  <2>1. u.on \cap {"TEXTURE_2D", "BLEND", "ALPHA_TEST", "CULL_FACE"} = {}
    <3>1. m.on = g.on /\ p.on = m.on \cup {"CULL_FACE", "DEPTH_TEST"} \cup ModelLights
          /\ q.on \ Material = p.on \ Material
          /\ u.on = q.on \ ({"CULL_FACE", "DEPTH_TEST"} \cup ModelLights)
      BY <1>2 DEF SamePicture, ModelOn, ModelOff, SwitchedTo, Rendered
    <3> QED BY <3>1 DEF Ready, Quiet, Material, ModelLights
  <2>2. h.on = u.on \ {"BLEND", "ALPHA_TEST", "TEXTURE_2D"}
    BY <1>2 DEF SamePicture, AfterFlame
  <2> QED BY <2>1, <2>2 DEF Quiet
<1>4. World(h.drawn)
  BY <1>2 DEF SamePicture
<1>5. SameCounts(u, g)
  <2>1. p.drawn = g.drawn /\ u.drawn = q.drawn /\ SameCounts(q, p)
    BY <1>2 DEF SamePicture, ModelOn, ModelOff, SwitchedTo, Rendered
  <2> QED BY <2>1 DEF SameCounts
<1>6. ShowsOnce(h, g, id)
  BY <1>2, <1>5 DEF SameCounts, ShowsOnce, SamePicture
<1> QED BY <1>2, <1>3, <1>4, <1>6 DEF Ready


LEMMA ObjectDraws ==
  ASSUME NEW g, NEW h, NEW id, KnownMeshes, Ready(g), h = Run(g, ObjectRender(id))
  PROVE  Ready(h) /\ ShowsOnce(h, g, id)
BY PlayerDraws, MissileDraws DEF ObjectRender

-----------------------------------------------------------------------------
(* The beginning of a frame                                                *)

(* A part of the world that shows no object is added to the picture.       *)
LEMMA DrawsPart ==
  ASSUME NEW g, NEW h, NEW obj, NEW of, NEW name, Context(g), World(g.drawn),
         Suits(g, Part(obj, of, name)), ~OfPanel(Part(obj, of, name)), name \notin {"flame", "mark"},
         Drawn(g, h, obj, of, name)
  PROVE  World(h.drawn) /\ SameCounts(h, g)
<1> DEFINE part == Part(obj, of, name)
<1>1. h.drawn = Append(g.drawn, Look(g, part)) /\ part.name = name /\ IsList(g.drawn)
  BY DEF Drawn, Part, Context
<1>2. Suits(g, part) /\ ~OfPanel(part)
  OBVIOUS
<1> HIDE DEF part
<1>3. Look(g, part).part = part
  BY DEF Look
<1>4. \A i, of1 : ~Shows(part, i, of1)
  BY <1>1 DEF Shows
<1>5. World(h.drawn)
  BY <1>1, <1>2, PictureWorld
<1>6. \A i, of1 : Count(h.drawn, i, of1) = Count(g.drawn, i, of1)
  BY <1>1, <1>3, <1>4, PictureCount
<1> QED BY <1>5, <1>6 DEF SameCounts

(* Between two frames.                                                     *)
Single(s) == Len(s) = 1
Idle(g) ==
  /\ Context(g) /\ g.mode = "MODELVIEW" /\ Quiet(g)
  /\ Single(g.stack.MODELVIEW) /\ Single(g.stack.PROJECTION)

LEMMA SingleIs ==
  ASSUME NEW s, IsStack(s), Single(s)
  PROVE  \E t : s = Append(<<>>, t)
<1> DEFINE t == <<s[1]>>
<1>1. IsList(t) /\ Len(t) = 1 /\ t[1] = s[1]
  BY DEF IsList
<1>2. IsList(s) /\ Len(s) = 1
  BY DEF IsStack, Single
<1>3. t = Append(<<>>, s[1])
  BY Tuples
<1> HIDE DEF t
<1>4. \A i \in 1 .. Len(s) : s[i] = t[i]
  <2>1. \A i \in 1 .. 1 : i = 1
    OBVIOUS
  <2> QED BY <1>1, <1>2, <2>1
<1>5. s = t
  BY <1>1, <1>2, <1>4, SameList
<1> QED BY <1>3, <1>5

FrameStart == SetView \o CameraUpdate \o DepthOn

LEMMA FrameStarts ==
  ASSUME NEW g, NEW h, Idle(g), h = Run(g, FrameStart)
  PROVE  /\ InCamera(h) /\ h.on = g.on \cup {"DEPTH_TEST"} /\ h.texture = g.texture
         /\ SameColours(h, g) /\ SameFunctions(h, g) /\ h.drawn = g.drawn
<1> DEFINE s1 == SetView
           s2 == CameraUpdate
           s3 == DepthOn
<1>1. /\ IsList(s1) /\ Len(s1) = 5 /\ IsList(s2) /\ Len(s2) = 1 /\ IsList(s3) /\ Len(s3) = 1
  BY DEF IsList, SetView, CameraUpdate, DepthOn
<1> DEFINE a == TraceOf(g, s1)
           b == TraceOf(a[5], s2)
           c == TraceOf(b[1], s3)
<1>2. h = Run(Run(Run(g, s1), s2), s3)
  <2> HIDE DEF s1, s2, s3
  <2>1. IsList(s1 \o s2)
    BY <1>1, Concatenated
  <2>2. h = Run(g, (s1 \o s2) \o s3)
    BY DEF FrameStart, s1, s2, s3
  <2> QED BY <1>1, <2>1, <2>2, RunConcat
<1>3. Trace(g, s1, a) /\ Run(g, s1) = a[5]
  <2> HIDE DEF s1, b, c
  <2> QED BY <1>1, Traced
<1>4. Trace(a[5], s2, b) /\ Run(a[5], s2) = b[1]
  <2> HIDE DEF s2, a, c
  <2> QED BY <1>1, Traced
<1>5. Trace(b[1], s3, c) /\ Run(b[1], s3) = c[1]
  <2> HIDE DEF s3, a, b
  <2> QED BY <1>1, Traced
<1> HIDE DEF a, b, c
<1>6. /\ a[1] = Exec(g, MatrixMode("PROJECTION")) /\ a[2] = Exec(a[1], LoadIdentity)
      /\ a[3] = Exec(a[2], MultMatrix(<<"perspective">>)) /\ a[4] = Exec(a[3], MatrixMode("MODELVIEW"))
      /\ a[5] = Exec(a[4], LoadIdentity)
  BY <1>1, <1>3 DEF Trace, SetView
<1>7. b[1] = Exec(a[5], MultMatrix(followCam))
  BY <1>1, <1>4 DEF Trace, CameraUpdate
<1>8. c[1] = Exec(b[1], Enable("DEPTH_TEST")) /\ h = c[1]
  BY <1>1, <1>2, <1>3, <1>4, <1>5 DEF Trace, DepthOn
<1>9. PICK t : g.stack.MODELVIEW = Append(<<>>, t)
  BY SingleIs DEF Idle, Context
<1>10. PICK v : g.stack.PROJECTION = Append(<<>>, v)
  BY SingleIs DEF Idle, Context
<1>11. View(g, <<>>, t) /\ Projection(g, <<>>, v) /\ Context(g)
  BY <1>9, <1>10, EmptyRun DEF View, Projection, Idle
<1> DEFINE x == <<"perspective">>
<1>12. Append(<<>>, x) = <<x>> /\ Append(<<>>, followCam) = <<followCam>>
  BY Tuples
<1> HIDE DEF x
<1>13. /\ Context(a[1]) /\ SamePicture(a[1], g) /\ a[1].mode = "PROJECTION" /\ a[1].stack = g.stack
  BY <1>6, <1>11, DoesMatrixMode
<1>14. /\ Context(a[2]) /\ SamePicture(a[2], a[1]) /\ a[2].mode = "PROJECTION"
       /\ Projection(a[2], <<>>, <<>>) /\ a[2].stack.MODELVIEW = a[1].stack.MODELVIEW
  <2>1. Projection(a[1], <<>>, v)
    BY <1>11, <1>13 DEF Projection
  <2> QED BY <1>6, <1>13, <2>1, DoesLoadProjection
<1>15. /\ Context(a[3]) /\ SamePicture(a[3], a[2]) /\ a[3].mode = "PROJECTION"
       /\ Projection(a[3], <<>>, <<x>>) /\ a[3].stack.MODELVIEW = a[2].stack.MODELVIEW
  <2>1. /\ Context(a[3]) /\ SamePicture(a[3], a[2]) /\ a[3].mode = "PROJECTION"
        /\ Projection(a[3], <<>>, Append(<<>>, x)) /\ a[3].stack.MODELVIEW = a[2].stack.MODELVIEW
    <3> DEFINE e == <<>>
    <3>1. a[3] = Exec(a[2], MultMatrix(x)) /\ Projection(a[2], <<>>, e)
      BY <1>6, <1>14 DEF x
    <3> HIDE DEF e
    <3>2. /\ Context(a[3]) /\ SamePicture(a[3], a[2]) /\ a[3].mode = "PROJECTION"
          /\ Projection(a[3], <<>>, Append(e, x)) /\ a[3].stack.MODELVIEW = a[2].stack.MODELVIEW
      BY <1>14, <3>1, DoesMultProjection
    <3> QED BY <3>2 DEF e
  <2> QED BY <1>12, <2>1
<1>16. Context(a[4]) /\ SamePicture(a[4], a[3]) /\ a[4].mode = "MODELVIEW" /\ a[4].stack = a[3].stack
  BY <1>6, <1>15, DoesMatrixMode
<1>17. /\ Context(a[5]) /\ SamePicture(a[5], a[4]) /\ a[5].mode = "MODELVIEW"
       /\ View(a[5], <<>>, <<>>) /\ a[5].stack.PROJECTION = a[4].stack.PROJECTION
  <2>1. View(a[4], <<>>, t)
    BY <1>11, <1>13, <1>14, <1>15, <1>16 DEF View
  <2> QED BY <1>6, <1>16, <2>1, DoesLoadIdentity
<1>18. /\ Context(b[1]) /\ SamePicture(b[1], a[5]) /\ b[1].mode = "MODELVIEW"
       /\ View(b[1], <<>>, <<followCam>>) /\ b[1].stack.PROJECTION = a[5].stack.PROJECTION
  <2>1. /\ Context(b[1]) /\ SamePicture(b[1], a[5]) /\ b[1].mode = "MODELVIEW"
        /\ View(b[1], <<>>, Append(<<>>, followCam)) /\ b[1].stack.PROJECTION = a[5].stack.PROJECTION
    BY <1>7, <1>17, DoesMult
  <2> QED BY <1>12, <2>1
<1>19. Context(h) /\ Enabled(b[1], h, "DEPTH_TEST")
  <2>1. "DEPTH_TEST" \in Capability
    BY DEF Capability
  <2> QED BY <1>8, <1>18, <2>1, DoesEnable
<1>20. SamePicture(b[1], g)
  BY <1>13, <1>14, <1>15, <1>16, <1>17, <1>18 DEF SamePicture, SameColours, SameFunctions
<1>21. InCamera(h)
  <2>1. Projection(b[1], <<>>, <<x>>)
    BY <1>15, <1>16, <1>17, <1>18 DEF Projection
  <2> QED BY <1>18, <1>19, <2>1 DEF Enabled, SameMatrices, View, Projection, InCamera, x
<1> QED BY <1>19, <1>20, <1>21 DEF Enabled, SamePicture, SameColours, SameFunctions


(* The scenery is drawn in the camera's view.                              *)
InScene(g) == InCamera(g) /\ "DEPTH_TEST" \in g.on /\ World(g.drawn)

(* What drawing with a texture changes.                                    *)
Textured(g, h) ==
  /\ Context(h) /\ SameMatrices(h, g) /\ SameFunctions(h, g) /\ SameColours(h, g)
  /\ h.on = g.on /\ World(h.drawn) /\ SameCounts(h, g)

(* What the sky and the terrain leave behind.                              *)
AfterScenery(g, h) ==
  /\ InScene(h) /\ SameFunctions(h, g) /\ h.on = g.on \ {"TEXTURE_2D", "CULL_FACE"}
  /\ h.color.rgb = Plain("white")
  /\ h.diffuse = (IF Tracking(g) THEN Plain("white") ELSE g.diffuse)
  /\ SameCounts(h, g)

(* A face or the ground, when its texture is bound.                        *)
LEMMA SceneryPart ==
  ASSUME NEW g, NEW p, NEW h, NEW of \in {"sky", "terrain"}, NEW name, InScene(g),
         "TEXTURE_2D" \in g.on, name \notin {"flame", "mark"},
         Bound(g, p, TextureOf(Part(None, of, name))), Context(p), Context(h),
         Drawn(p, h, None, of, name)
  PROVE  Textured(g, h)
<1> DEFINE part == Part(None, of, name)
<1>1. part.of = of /\ part.obj = None
  BY DEF Part
<1>2. p.texture = TextureOf(part)
  BY DEF Bound
<1> HIDE DEF part
<1>3. /\ ~OfPanel(part) /\ WithDepth(part) /\ ProjOf(part) = <<<<"perspective">>>>
      /\ PlaceOf(part) = <<followCam>>
  BY <1>1 DEF OfPanel, WithDepth, ProjOf, PlaceOf
<1>4. Top(p, "MODELVIEW") = <<followCam>> /\ Top(p, "PROJECTION") = <<<<"perspective">>>>
  <2>1. Top(g, "MODELVIEW") = <<followCam>> /\ Top(g, "PROJECTION") = <<<<"perspective">>>>
    BY TopIs DEF InScene, InCamera
  <2> QED BY <2>1 DEF Bound, SameMatrices, Top
<1>5. "TEXTURE_2D" \in p.on /\ "DEPTH_TEST" \in p.on /\ p.drawn = g.drawn /\ World(p.drawn)
  BY DEF Bound, InScene
<1>6. Suits(p, part)
  BY <1>2, <1>3, <1>4, <1>5 DEF Suits
<1>7. World(h.drawn) /\ SameCounts(h, p)
  BY <1>3, <1>5, <1>6, DrawsPart DEF part
<1> QED BY <1>5, <1>7 DEF Bound, Drawn, SameMatrices, SameFunctions, SameColours, SameCounts, Textured

LEMMA TexturedOn ==
  \A g, h, k : /\ InScene(g) /\ Textured(g, h) => InScene(h)
               /\ Textured(g, h) /\ Textured(h, k) => Textured(g, k)
<1>1. \A g, h : InScene(g) /\ Textured(g, h) => InScene(h)
  BY DEF InScene, Textured, InCamera, SameMatrices, View, Projection
<1>2. \A g, h, k : Textured(g, h) /\ Textured(h, k) => Textured(g, k)
  BY DEF Textured, SameMatrices, SameFunctions, SameColours, SameCounts
<1> QED BY <1>1, <1>2

SkyFaces ==
  [i \in DOMAIN SkyFace |-> <<BindTexture(texid(SkyFace[i], 0)), Draw(None, "sky", SkyFace[i])>>]

LEMMA SkyFacesDraw ==
  ASSUME NEW g, NEW h, InScene(g), "TEXTURE_2D" \in g.on, h = Run(g, FlattenSeq(SkyFaces))
  PROVE  Textured(g, h) /\ IsList(FlattenSeq(SkyFaces))
<1>1. IsList(SkyFaces) /\ Len(SkyFaces) = 5
      /\ \A i \in 1 .. 5 : SkyFaces[i] = <<BindTexture(texid(SkyFace[i], 0)), Draw(None, "sky", SkyFace[i])>>
  BY DEF SkyFaces, SkyFace, IsList
<1>2. \A i \in 1 .. 5 : IsList(SkyFaces[i]) /\ Len(SkyFaces[i]) = 2
  <2>1. \A u, v : IsList(<<u, v>>) /\ Len(<<u, v>>) = 2
    BY DEF IsList
  <2> QED BY <1>1, <2>1
<1>3. PICK a : /\ a[0] = g /\ \A n \in 1 .. 5 : a[n] = Run(a[n - 1], SkyFaces[n])
               /\ h = a[5] /\ IsList(FlattenSeq(SkyFaces))
  <2> DEFINE N == Len(SkyFaces)
  <2>1. IsList(SkyFaces) /\ \A i \in 1 .. N : IsList(SkyFaces[i])
    BY <1>1, <1>2
  <2>2. PICK a : /\ a[0] = g /\ \A n \in 1 .. N : a[n] = Run(a[n - 1], SkyFaces[n])
                 /\ Run(g, FlattenSeq(SkyFaces)) = a[N] /\ IsList(FlattenSeq(SkyFaces))
    BY <2>1, RunFlatten
  <2>3. N = 5
    BY <1>1
  <2> HIDE DEF N
  <2> QED BY <2>2, <2>3
<1> DEFINE J == {n \in 0 .. 5 : Textured(g, a[n])}
<1>4. 0 \in J
  BY <1>3 DEF Textured, InScene, InCamera, SameMatrices, SameFunctions, SameColours, SameCounts
<1>5. ASSUME NEW n \in 1 .. 5, n - 1 \in J PROVE n \in J
  <2> DEFINE s == SkyFaces[n]
             c == TraceOf(a[n - 1], s)
             face == SkyFace[n]
  <2>1. Textured(g, a[n - 1]) /\ InScene(a[n - 1]) /\ "TEXTURE_2D" \in a[n - 1].on
    <3>1. Textured(g, a[n - 1])
      BY <1>5
    <3> QED BY <3>1, TexturedOn DEF Textured
  <2>2. Trace(a[n - 1], s, c) /\ a[n] = c[2]
    <3>1. IsList(s) /\ Len(s) = 2 /\ a[n] = Run(a[n - 1], s)
      BY <1>2, <1>3
    <3> HIDE DEF s
    <3> QED BY <3>1, Traced
  <2>3. s = <<BindTexture(texid(face, 0)), Draw(None, "sky", face)>> /\ Len(s) = 2
    BY <1>1, <1>2
  <2>4. face \in {"front", "back", "top", "left", "right"}
    <3>1. n = 1 \/ n = 2 \/ n = 3 \/ n = 4 \/ n = 5
      OBVIOUS
    <3> QED BY <3>1 DEF SkyFace
  <2> HIDE DEF c, s, face
  <2>5. c[1] = Exec(a[n - 1], BindTexture(texid(face, 0))) /\ a[n] = Exec(c[1], Draw(None, "sky", face))
    BY <2>2, <2>3 DEF Trace
  <2>6. Bound(a[n - 1], c[1], texid(face, 0)) /\ Context(c[1])
        /\ Drawn(c[1], a[n], None, "sky", face) /\ Context(a[n])
    <3>1. Bound(a[n - 1], c[1], texid(face, 0)) /\ Context(c[1])
      BY <2>1, <2>5, DoesBindTexture DEF Textured
    <3> QED BY <2>5, <3>1, DoesDraw
  <2>7. TextureOf(Part(None, "sky", face)) = texid(face, 0)
    BY DEF TextureOf, Part
  <2>8. face \notin {"flame", "mark"}
    BY <2>4
  <2>9. Textured(a[n - 1], a[n])
    BY <2>1, <2>6, <2>7, <2>8, SceneryPart
  <2> QED BY <2>1, <2>9, TexturedOn
<1>6. 5 \in J
  <2>1. 5 \in 0 .. 5 /\ 5 \in Nat
    OBVIOUS
  <2> HIDE DEF J
  <2> QED BY <1>4, <1>5, <2>1, Climb
<1> QED BY <1>3, <1>6

LEMMA SkyDraws ==
  ASSUME NEW g, NEW h, InScene(g), h = Run(g, SkyBoxRender)
  PROVE  AfterScenery(g, h) /\ IsList(SkyBoxRender)
<1> DEFINE s1 == <<Color(Plain("white"), 0), Enable("CULL_FACE"), Enable("TEXTURE_2D")>>
           s2 == FlattenSeq(SkyFaces)
           s3 == <<Disable("TEXTURE_2D"), Disable("CULL_FACE")>>
<1>1. SkyBoxRender = (s1 \o s2) \o s3
  BY DEF SkyBoxRender, SkyFaces
<1>2. IsList(s1) /\ Len(s1) = 3 /\ IsList(s3) /\ Len(s3) = 2
  BY DEF IsList
<1> DEFINE a == TraceOf(g, s1)
           k == Run(a[3], s2)
           e == TraceOf(k, s3)
<1>3. Trace(g, s1, a) /\ Run(g, s1) = a[3]
  <2> HIDE DEF s1, k, e
  <2> QED BY <1>2, Traced
<1>4. Trace(k, s3, e) /\ Run(k, s3) = e[2]
  <2> HIDE DEF s3, a, k
  <2> QED BY <1>2, Traced
<1> HIDE DEF a, e
<1>5. /\ a[1] = Exec(g, Color(Plain("white"), 0)) /\ a[2] = Exec(a[1], Enable("CULL_FACE"))
      /\ a[3] = Exec(a[2], Enable("TEXTURE_2D"))
  BY <1>2, <1>3 DEF Trace
<1>6. e[1] = Exec(k, Disable("TEXTURE_2D")) /\ e[2] = Exec(e[1], Disable("CULL_FACE"))
  <2> HIDE DEF k
  <2> QED BY <1>2, <1>4 DEF Trace
<1>7. {"TEXTURE_2D", "CULL_FACE"} \subseteq Capability
  BY DEF Capability
<1>8. /\ Colored(g, a[1], Plain("white"), 0) /\ Enabled(a[1], a[2], "CULL_FACE")
      /\ Enabled(a[2], a[3], "TEXTURE_2D") /\ Context(a[3])
  BY <1>5, <1>7, DoesColor, DoesEnable DEF InScene, InCamera
<1>9. InScene(a[3]) /\ "TEXTURE_2D" \in a[3].on /\ a[3].on = g.on \cup {"CULL_FACE", "TEXTURE_2D"}
  <2>1. SameMatrices(a[3], g) /\ a[3].drawn = g.drawn /\ a[3].on = g.on \cup {"CULL_FACE", "TEXTURE_2D"}
    BY <1>8 DEF Colored, Enabled, SameMatrices
  <2> QED BY <1>8, <2>1 DEF InScene, InCamera, SameMatrices, View, Projection
<1>10. Textured(a[3], k) /\ IsList(s2)
  <2> HIDE DEF a
  <2> QED BY <1>9, SkyFacesDraw
<1>11. h = e[2] /\ IsList(SkyBoxRender)
  <2> HIDE DEF s1, s2, s3
  <2>1. IsList(s1 \o s2) /\ IsList((s1 \o s2) \o s3)
    <3>1. IsList(s1 \o s2)
      BY <1>2, <1>10, Concatenated
    <3> QED BY <1>2, <3>1, Concatenated
  <2> QED BY <1>1, <1>2, <1>3, <1>4, <1>10, <2>1, RunConcat
<1> HIDE DEF k
<1>12. Disabled(k, e[1], "TEXTURE_2D") /\ Disabled(e[1], h, "CULL_FACE") /\ Context(h)
  BY <1>6, <1>7, <1>10, <1>11, DoesDisable DEF Textured
<1>13. /\ h.color = [rgb |-> Plain("white"), a |-> 0]
       /\ h.diffuse = (IF Tracking(g) THEN Plain("white") ELSE g.diffuse)
  BY <1>8, <1>10, <1>12 DEF Colored, Enabled, Disabled, Textured, SameColours
<1>14. SameFunctions(h, g) /\ SameMatrices(h, g) /\ h.drawn = k.drawn
  BY <1>8, <1>10, <1>12 DEF Colored, Enabled, Disabled, Textured, SameFunctions, SameMatrices
<1>15. h.on = g.on \ {"TEXTURE_2D", "CULL_FACE"}
  BY <1>9, <1>10, <1>12 DEF Disabled, Textured
<1>16. SameCounts(h, g)
  <2>1. a[3].drawn = g.drawn
    BY <1>8 DEF Colored, Enabled
  <2> QED BY <1>10, <1>14, <2>1 DEF Textured, SameCounts
<1>17. InScene(h)
  BY <1>10, <1>12, <1>14, <1>15 DEF InScene, InCamera, SameMatrices, View, Projection, Textured
<1> QED BY <1>11, <1>13, <1>14, <1>15, <1>16, <1>17 DEF AfterScenery


LEMMA TerrainDraws ==
  ASSUME NEW g, NEW h, InScene(g), h = Run(g, TerrainRender)
  PROVE  AfterScenery(g, h) /\ IsList(TerrainRender)
<1> DEFINE s1 == <<Enable("CULL_FACE"), Enable("TEXTURE_2D"), BindTexture(texid("grass", 0))>>
           s2 == TerrainList
           s3 == <<Disable("TEXTURE_2D"), Disable("CULL_FACE")>>
<1>1. TerrainRender = (s1 \o s2) \o s3
  BY DEF TerrainRender
<1>2. IsList(s1) /\ Len(s1) = 3 /\ IsList(s2) /\ Len(s2) = 4 /\ IsList(s3) /\ Len(s3) = 2
  BY DEF IsList, TerrainList
<1> DEFINE a == TraceOf(g, s1)
           b == TraceOf(a[3], s2)
           e == TraceOf(b[4], s3)
<1>3. Trace(g, s1, a) /\ Run(g, s1) = a[3]
  <2> HIDE DEF s1, b, e
  <2> QED BY <1>2, Traced
<1>4. Trace(a[3], s2, b) /\ Run(a[3], s2) = b[4]
  <2> HIDE DEF s2, a, e
  <2> QED BY <1>2, Traced
<1>5. Trace(b[4], s3, e) /\ Run(b[4], s3) = e[2]
  <2> HIDE DEF s3, a, b
  <2> QED BY <1>2, Traced
<1> HIDE DEF a, b, e
<1>6. h = e[2] /\ IsList(TerrainRender)
  <2> HIDE DEF s1, s2, s3
  <2>1. IsList(s1 \o s2) /\ IsList((s1 \o s2) \o s3)
    <3>1. IsList(s1 \o s2)
      BY <1>2, Concatenated
    <3> QED BY <1>2, <3>1, Concatenated
  <2> QED BY <1>1, <1>2, <1>3, <1>4, <1>5, <2>1, RunConcat
<1>7. /\ a[1] = Exec(g, Enable("CULL_FACE")) /\ a[2] = Exec(a[1], Enable("TEXTURE_2D"))
      /\ a[3] = Exec(a[2], BindTexture(texid("grass", 0)))
  BY <1>2, <1>3 DEF Trace
<1>8. /\ b[1] = Exec(a[3], Color(Plain("white"), 10)) /\ b[2] = Exec(b[1], Enable("TEXTURE_2D"))
      /\ b[3] = Exec(b[2], BindTexture(texid("grass", 0)))
      /\ b[4] = Exec(b[3], Draw(None, "terrain", "ground"))
  BY <1>2, <1>4 DEF Trace, TerrainList
<1>9. e[1] = Exec(b[4], Disable("TEXTURE_2D")) /\ h = Exec(e[1], Disable("CULL_FACE"))
  BY <1>2, <1>5, <1>6 DEF Trace
<1>10. {"TEXTURE_2D", "CULL_FACE"} \subseteq Capability
  BY DEF Capability
<1>11. /\ Enabled(g, a[1], "CULL_FACE") /\ Enabled(a[1], a[2], "TEXTURE_2D")
       /\ Bound(a[2], a[3], texid("grass", 0)) /\ Context(a[3])
  BY <1>7, <1>10, DoesEnable, DoesBindTexture DEF InScene, InCamera
<1>12. /\ Colored(a[3], b[1], Plain("white"), 10) /\ Enabled(b[1], b[2], "TEXTURE_2D") /\ Context(b[2])
       /\ Bound(b[2], b[3], texid("grass", 0)) /\ Context(b[3])
       /\ Drawn(b[3], b[4], None, "terrain", "ground") /\ Context(b[4])
  BY <1>8, <1>10, <1>11, DoesEnable, DoesBindTexture, DoesColor, DoesDraw
<1>13. Disabled(b[4], e[1], "TEXTURE_2D") /\ Disabled(e[1], h, "CULL_FACE") /\ Context(h)
  BY <1>9, <1>10, <1>12, DoesDisable
<1>14. InScene(b[2]) /\ b[2].on = g.on \cup {"CULL_FACE", "TEXTURE_2D"} /\ b[2].drawn = g.drawn
  <2>1. SameMatrices(b[2], g) /\ b[2].drawn = g.drawn /\ b[2].on = g.on \cup {"CULL_FACE", "TEXTURE_2D"}
    BY <1>11, <1>12 DEF Colored, Enabled, Bound, SameMatrices
  <2> QED BY <1>12, <2>1 DEF InScene, InCamera, SameMatrices, View, Projection
<1>15. Textured(b[2], b[4])
  <2>1. TextureOf(Part(None, "terrain", "ground")) = texid("grass", 0)
    BY DEF TextureOf, Part
  <2>2. "TEXTURE_2D" \in b[2].on
    BY <1>14
  <2> QED BY <1>12, <1>14, <2>1, <2>2, SceneryPart
<1>16. /\ h.color.rgb = Plain("white")
       /\ h.diffuse = (IF Tracking(g) THEN Plain("white") ELSE g.diffuse)
  <2>1. h.color = [rgb |-> Plain("white"), a |-> 10]
    BY <1>12, <1>13, <1>15 DEF Colored, Enabled, Disabled, Textured, SameColours
  <2>2. Tracking(a[3]) <=> Tracking(g)
    BY <1>11 DEF Enabled, Bound, Tracking
  <2> QED BY <1>11, <1>12, <1>13, <1>15, <2>1, <2>2
          DEF Colored, Enabled, Disabled, Bound, Textured, SameColours
<1>17. SameFunctions(h, g) /\ SameMatrices(h, g) /\ h.drawn = b[4].drawn
  BY <1>11, <1>12, <1>13, <1>15
     DEF Colored, Enabled, Disabled, Bound, Textured, SameFunctions, SameMatrices
<1>18. h.on = g.on \ {"TEXTURE_2D", "CULL_FACE"}
  BY <1>13, <1>14, <1>15 DEF Disabled, Textured
<1>19. SameCounts(h, g)
  BY <1>14, <1>15, <1>17 DEF Textured, SameCounts
<1>20. InScene(h)
  BY <1>13, <1>15, <1>17, <1>18 DEF InScene, InCamera, SameMatrices, View, Projection, Textured
<1> QED BY <1>6, <1>16, <1>17, <1>18, <1>19, <1>20 DEF AfterScenery

LEMMA FogRuns ==
  ASSUME NEW g, NEW h, Context(g), h = Run(g, RenderFog)
  PROVE  /\ Context(h) /\ h.on = (IF disableFog THEN g.on ELSE g.on \cup {"FOG"})
         /\ SameMatrices(h, g) /\ SameColours(h, g) /\ SameFunctions(h, g)
         /\ h.texture = g.texture /\ h.drawn = g.drawn /\ IsList(RenderFog)
<1>1. CASE disableFog
  <2>1. RenderFog = <<>>
    BY <1>1 DEF RenderFog
  <2>2. h = g /\ IsList(RenderFog)
    BY <2>1, EmptyRun
  <2> QED BY <1>1, <2>2 DEF SameMatrices, SameColours, SameFunctions
<1>2. CASE ~disableFog
  <2> DEFINE s == <<Enable("FOG")>>
             a == TraceOf(g, s)
  <2>1. RenderFog = s
    BY <1>2 DEF RenderFog
  <2>2. IsList(s) /\ Len(s) = 1
    BY DEF IsList
  <2>3. Trace(g, s, a) /\ h = a[1]
    <3> HIDE DEF s
    <3> QED BY <2>1, <2>2, Traced
  <2> HIDE DEF a
  <2>4. h = Exec(g, Enable("FOG"))
    BY <2>2, <2>3 DEF Trace
  <2>5. "FOG" \in Capability
    BY DEF Capability
  <2>6. Context(h) /\ Enabled(g, h, "FOG")
    BY <2>4, <2>5, DoesEnable
  <2> QED BY <1>2, <2>1, <2>2, <2>6 DEF Enabled, SameColours
<1> QED BY <1>1, <1>2

(* The states at the beginning of a frame: with nothing drawn, in the      *)
(* camera's view, after the sky, with fog.                                 *)
Cleared(g) == [g EXCEPT !.drawn = <<>>]
FrameVia(g, h, c, m, p, q) ==
  /\ c = Cleared(g) /\ m = Run(c, FrameStart) /\ p = Run(m, SkyBoxRender)
  /\ q = Run(p, RenderFog) /\ h = Run(q, TerrainRender)

Nothing(h) == \A i : \A of \in Counted : Count(h.drawn, i, of) = 0

LEMMA FrameSteps ==
  ASSUME NEW g, NEW h, NEW c, NEW m, NEW p, NEW q, Idle(g), FrameVia(g, h, c, m, p, q)
  PROVE  /\ Idle(c) /\ c.on = g.on /\ SameColours(c, g) /\ SameFunctions(c, g)
         /\ InScene(m) /\ Quiet(m) /\ m.on = c.on \cup {"DEPTH_TEST"}
         /\ SameColours(m, c) /\ SameFunctions(m, c) /\ m.drawn = <<>>
         /\ AfterScenery(m, p) /\ AfterScenery(q, h) /\ InScene(q)
         /\ q.on = (IF disableFog THEN p.on ELSE p.on \cup {"FOG"})
         /\ SameColours(q, p) /\ SameFunctions(q, p) /\ q.drawn = p.drawn
         /\ Nothing(m) /\ Ready(h) /\ Nothing(h)
<1>1. Idle(c) /\ c.on = g.on /\ SameColours(c, g) /\ SameFunctions(c, g) /\ c.drawn = <<>>
  <2>1. c = [g EXCEPT !.drawn = <<>>]
    BY DEF FrameVia, Cleared
  <2>2. /\ c = [on |-> c.on, color |-> c.color, diffuse |-> c.diffuse, fill |-> c.fill,
                blend |-> c.blend, alpha |-> c.alpha, texture |-> c.texture,
                mode |-> c.mode, stack |-> c.stack, drawn |-> c.drawn]
        /\ c.on = g.on /\ c.color = g.color /\ c.diffuse = g.diffuse
        /\ c.blend = g.blend /\ c.alpha = g.alpha /\ c.fill = g.fill
        /\ c.mode = g.mode /\ c.stack = g.stack /\ c.drawn = <<>>
    BY <2>1 DEF Context, Idle
  <2> QED BY <2>2, EmptyRun DEF Idle, Context, Tracking, Quiet, SameColours, SameFunctions
<1>2. /\ InCamera(m) /\ m.on = c.on \cup {"DEPTH_TEST"} /\ m.texture = c.texture
      /\ SameColours(m, c) /\ SameFunctions(m, c) /\ m.drawn = c.drawn
  BY <1>1, FrameStarts DEF FrameVia
<1>3. World(m.drawn) /\ Nothing(m)
  <2>1. Len(m.drawn) = 0
    BY <1>1, <1>2
  <2>2. 1 .. 0 = {}
    OBVIOUS
  <2>3. \A i, of : {j \in 1 .. 0 : Shows(m.drawn[j].part, i, of)} = {}
    BY <2>2
  <2> QED BY <2>1, <2>2, <2>3, FS_EmptySet DEF World, Fine, NoPanel, Nothing, Count
<1>4. InScene(m) /\ Quiet(m)
  BY <1>1, <1>2, <1>3 DEF InScene, Idle, Quiet
<1>5. AfterScenery(m, p)
  BY <1>4, SkyDraws DEF FrameVia
<1>6. /\ Context(q) /\ q.on = (IF disableFog THEN p.on ELSE p.on \cup {"FOG"})
      /\ SameMatrices(q, p) /\ SameColours(q, p) /\ SameFunctions(q, p)
      /\ q.drawn = p.drawn
  <2>1. Context(p) /\ q = Run(p, RenderFog)
    BY <1>5 DEF AfterScenery, InScene, InCamera, FrameVia
  <2> QED BY <2>1, FogRuns
<1>7. InScene(q)
  BY <1>5, <1>6 DEF AfterScenery, InScene, InCamera, SameMatrices, View, Projection
<1>8. AfterScenery(q, h)
  BY <1>7, TerrainDraws DEF FrameVia
<1>9. Quiet(h)
  <2>1. /\ h.on = q.on \ {"TEXTURE_2D", "CULL_FACE"} /\ p.on = m.on \ {"TEXTURE_2D", "CULL_FACE"}
        /\ q.on \subseteq p.on \cup {"FOG"}
    BY <1>5, <1>6, <1>8 DEF AfterScenery
  <2> QED BY <1>4, <2>1 DEF Quiet
<1>10. Ready(h)
  BY <1>8, <1>9 DEF AfterScenery, InScene, Ready
<1>11. Nothing(h)
  BY <1>3, <1>5, <1>6, <1>8 DEF AfterScenery, SameCounts, Nothing
<1> QED BY <1>1, <1>2, <1>3, <1>4, <1>5, <1>6, <1>7, <1>8, <1>10, <1>11

FrameCallsAll == FrameStart \o SkyBoxRender \o RenderFog \o TerrainRender

LEMMA FrameCalls ==
  ASSUME NEW g, NEW h, Idle(g), h = Run(Cleared(g), FrameCallsAll)
  PROVE  \E c, m, p, q : FrameVia(g, h, c, m, p, q)
<1> DEFINE s1 == FrameStart
           s2 == SkyBoxRender
           s3 == RenderFog
           s4 == TerrainRender
           c == Cleared(g)
           m == Run(c, s1)
           p == Run(m, s2)
           q == Run(p, s3)
           k == Run(q, s4)
<1>1. FrameVia(g, k, c, m, p, q)
  BY DEF FrameVia
<1>2. InScene(m) /\ AfterScenery(m, p) /\ InScene(q)
  <2> HIDE DEF k, c, m, p, q
  <2> QED BY <1>1, FrameSteps
<1>3. IsList(s2) /\ IsList(s3) /\ IsList(s4)
  BY <1>2, SkyDraws, FogRuns, TerrainDraws DEF AfterScenery, InScene, InCamera
<1>4. IsList(s1)
  <2>1. IsList(SetView) /\ IsList(CameraUpdate) /\ IsList(DepthOn)
    BY DEF IsList, SetView, CameraUpdate, DepthOn
  <2>2. IsList(SetView \o CameraUpdate)
    BY <2>1, Concatenated
  <2> QED BY <2>1, <2>2, Concatenated DEF FrameStart
<1>5. h = Run(c, ((s1 \o s2) \o s3) \o s4)
  BY DEF FrameCallsAll
<1> HIDE DEF s1, s2, s3, s4
<1>6. IsList(s1 \o s2)
  BY <1>3, <1>4, Concatenated
<1>7. IsList((s1 \o s2) \o s3)
  BY <1>3, <1>6, Concatenated
<1>8. h = k
  BY <1>3, <1>4, <1>5, <1>6, <1>7, RunConcat
<1> QED BY <1>1, <1>8

LEMMA FrameDraws ==
  ASSUME NEW g, NEW h, Idle(g), h = Run(Cleared(g), FrameCallsAll)
  PROVE  Ready(h) /\ Nothing(h)
<1>1. PICK c, m, p, q : FrameVia(g, h, c, m, p, q)
  BY FrameCalls
<1> QED BY <1>1, FrameSteps


-----------------------------------------------------------------------------
(* The panel                                                               *)

PanelPic(pic) == Fine(pic) /\ PanelOnTop(pic)

(* The object that a part shows is shown once more.                        *)
CountsPart(h, g, obj, of, name) ==
  \A i, c : Count(h.drawn, i, c) =
    Count(g.drawn, i, c) + (IF i = obj /\ c = of /\ name \in {"flame", "mark"} THEN 1 ELSE 0)

LEMMA DrawsPanelPart ==
  ASSUME NEW g, NEW h, NEW obj, NEW of, NEW name, Context(g), PanelPic(g.drawn),
         Suits(g, Part(obj, of, name)), OfPanel(Part(obj, of, name)), Drawn(g, h, obj, of, name)
  PROVE  PanelPic(h.drawn) /\ CountsPart(h, g, obj, of, name)
<1> DEFINE part == Part(obj, of, name)
<1>1. h.drawn = Append(g.drawn, Look(g, part)) /\ IsList(g.drawn)
  BY DEF Drawn, Part, Context
<1>2. Suits(g, part) /\ OfPanel(part)
  OBVIOUS
<1>3. part.obj = obj /\ part.of = of /\ part.name = name
  BY DEF Part
<1> HIDE DEF part
<1>4. Look(g, part).part = part
  BY DEF Look
<1>5. PanelPic(h.drawn)
  BY <1>1, <1>2, <1>4, LookIsGood, PictureFine, PicturePanel DEF PanelPic
<1>6. ASSUME NEW i, NEW c
      PROVE  Count(h.drawn, i, c) =
              Count(g.drawn, i, c)
                + (IF i = obj /\ c = of /\ name \in {"flame", "mark"} THEN 1 ELSE 0)
  <2>1. Shows(part, i, c) <=> i = obj /\ c = of /\ name \in {"flame", "mark"}
    BY <1>3 DEF Shows
  <2> QED BY <1>1, <1>4, <2>1, PictureCount
<1> QED BY <1>5, <1>6 DEF CountsPart

(* While the panel is drawn: without the depth test, in its own view.      *)
Ortho == <<<<"ortho">>>>
InPanel(g, b, t) ==
  /\ Context(g) /\ g.mode = "MODELVIEW" /\ View(g, b, t) /\ Projection(g, <<>>, Ortho)
  /\ "DEPTH_TEST" \notin g.on /\ PanelPic(g.drawn)

(* What drawing the panel's parts changes.                                 *)
Laid(g, h) ==
  /\ Context(h) /\ SameMatrices(h, g) /\ SameFunctions(h, g)
  /\ PanelPic(h.drawn) /\ SameCounts(h, g)

LEMMA PanelSuits ==
  ASSUME NEW g, NEW b, NEW t, NEW part, InPanel(g, b, t), OfPanel(part), PlaceOf(part) = t,
         (IF "TEXTURE_2D" \in g.on THEN g.texture ELSE NoTexture) = TextureOf(part)
  PROVE  Suits(g, part)
<1>1. Top(g, "MODELVIEW") = t /\ Top(g, "PROJECTION") = Ortho
  BY TopIs DEF InPanel
<1>2. ~WithDepth(part) /\ ProjOf(part) = Ortho
  BY DEF WithDepth, ProjOf, Ortho
<1> QED BY <1>1, <1>2 DEF Suits, InPanel

(* A part of the panel that marks no object.                               *)
LEMMA PanelPart ==
  ASSUME NEW g, NEW h, NEW b, NEW t, NEW obj, NEW of, NEW name, InPanel(g, b, t),
         Drawn(g, h, obj, of, name), Context(h), OfPanel(Part(obj, of, name)),
         PlaceOf(Part(obj, of, name)) = t, name \notin {"flame", "mark"},
         (IF "TEXTURE_2D" \in g.on THEN g.texture ELSE NoTexture) = TextureOf(Part(obj, of, name))
  PROVE  InPanel(h, b, t) /\ Laid(g, h)
<1> DEFINE part == Part(obj, of, name)
<1>1. Suits(g, part)
  <2>1. /\ OfPanel(part) /\ PlaceOf(part) = t
        /\ (IF "TEXTURE_2D" \in g.on THEN g.texture ELSE NoTexture) = TextureOf(part)
    OBVIOUS
  <2> HIDE DEF part
  <2> QED BY <2>1, PanelSuits
<1>2. /\ PanelPic(h.drawn)
      /\ \A i, c : Count(h.drawn, i, c) = Count(g.drawn, i, c) + 0
  <2>1. Context(g) /\ PanelPic(g.drawn) /\ Suits(g, Part(obj, of, name)) /\ OfPanel(Part(obj, of, name))
    BY <1>1 DEF InPanel
  <2>2. PanelPic(h.drawn) /\ CountsPart(h, g, obj, of, name)
    BY <2>1, DrawsPanelPart
  <2> QED BY <2>2 DEF CountsPart
<1>3. SameCounts(h, g)
  <2>1. \A i, c : Count(g.drawn, i, c) \in Nat
    BY PictureCount DEF InPanel, Context
  <2> QED BY <1>2, <2>1 DEF SameCounts
<1>4. Laid(g, h)
  BY <1>2, <1>3 DEF Laid, Drawn
<1> QED BY <1>2, <1>4 DEF InPanel, Laid, Drawn, SameMatrices, View, Projection

(* Another state with the same matrices and the same picture.              *)
LEMMA StaysInPanel ==
  ASSUME NEW g, NEW h, NEW b, NEW t, InPanel(g, b, t), Context(h), SameMatrices(h, g),
         "DEPTH_TEST" \notin h.on, h.drawn = g.drawn
  PROVE  InPanel(h, b, t)
BY DEF InPanel, SameMatrices, View, Projection

RadarPlace(radar) ==
  IF radar = "vertical" THEN <<<<"place", "vertical">>>>
  ELSE <<<<"place", "horizontal">>, <<"heading">>>>
RadarBelow(radar) ==
  IF radar = "vertical" THEN Append(Append(<<>>, Cam), <<>>)
  ELSE Append(Append(Append(<<>>, Cam), <<>>), <<<<"place", "horizontal">>>>)
PanelBelow == Append(<<>>, Cam)

RadarAt(radar) == <<PushMatrix, MultMatrix(<<"place", radar>>)>>

LEMMA RadarStarts ==
  ASSUME NEW g, NEW h, NEW radar \in {"vertical", "horizontal"}, InPanel(g, PanelBelow, <<>>),
         h = Run(Run(g, RadarAt(radar)), Heading(radar))
  PROVE  /\ InPanel(h, RadarBelow(radar), RadarPlace(radar)) /\ SamePicture(h, g)
<1> DEFINE s == RadarAt(radar)
           a == TraceOf(g, s)
           x == <<"place", radar>>
<1>1. IsList(s) /\ Len(s) = 2
  BY DEF IsList, RadarAt
<1>2. Trace(g, s, a) /\ Run(g, s) = a[2]
  <2> HIDE DEF s
  <2> QED BY <1>1, Traced
<1> HIDE DEF a
<1>3. a[1] = Exec(g, PushMatrix) /\ a[2] = Exec(a[1], MultMatrix(x))
  BY <1>1, <1>2 DEF Trace, RadarAt
<1> HIDE DEF x
<1>4. Append(<<>>, x) = <<x>>
  BY Tuples
<1>5. /\ Context(a[1]) /\ SamePicture(a[1], g) /\ a[1].mode = "MODELVIEW"
      /\ View(a[1], Append(PanelBelow, <<>>), <<>>) /\ a[1].stack.PROJECTION = g.stack.PROJECTION
  BY <1>3, DoesPush DEF InPanel
<1>6. /\ Context(a[2]) /\ SamePicture(a[2], a[1]) /\ a[2].mode = "MODELVIEW"
      /\ View(a[2], Append(PanelBelow, <<>>), <<x>>) /\ a[2].stack.PROJECTION = a[1].stack.PROJECTION
  <2> DEFINE e == <<>>
  <2>1. /\ View(a[1], Append(PanelBelow, e), e) /\ Append(e, x) = <<x>>
        /\ Context(a[1]) /\ a[1].mode = "MODELVIEW" /\ a[2] = Exec(a[1], MultMatrix(x))
    BY <1>3, <1>4, <1>5
  <2> DEFINE b == Append(PanelBelow, e)
  <2> HIDE DEF b, e
  <2>2. /\ Context(a[2]) /\ SamePicture(a[2], a[1]) /\ a[2].mode = "MODELVIEW"
        /\ View(a[2], b, Append(e, x))
        /\ a[2].stack.PROJECTION = a[1].stack.PROJECTION
    <3>1. /\ Context(a[1]) /\ a[1].mode = "MODELVIEW" /\ View(a[1], b, e)
          /\ a[2] = Exec(a[1], MultMatrix(x))
      BY <2>1 DEF b
    <3>2. \A p, q, y : /\ Context(p) /\ p.mode = "MODELVIEW" /\ View(p, b, e)
                       /\ q = Exec(p, MultMatrix(y))
                       => /\ Context(q) /\ SamePicture(q, p) /\ q.mode = "MODELVIEW"
                          /\ View(q, b, Append(e, y))
                          /\ q.stack.PROJECTION = p.stack.PROJECTION
      BY DoesMult
    <3> QED BY <3>1, <3>2
  <2> QED BY <2>1, <2>2 DEF b, e
<1>7. SamePicture(a[2], g) /\ a[2].stack.PROJECTION = g.stack.PROJECTION
  BY <1>5, <1>6 DEF SamePicture, SameColours, SameFunctions
<1>8. CASE radar = "vertical"
  <2>1. h = a[2]
    BY <1>2, <1>8, EmptyRun DEF Heading
  <2>2. View(h, RadarBelow(radar), RadarPlace(radar))
    BY <1>6, <1>8, <2>1 DEF RadarBelow, RadarPlace, x, PanelBelow
  <2> QED BY <1>6, <1>7, <2>1, <2>2 DEF InPanel, Projection, SamePicture
<1>9. CASE radar = "horizontal"
  <2> DEFINE s2 == <<PushMatrix, MultMatrix(<<"heading">>)>>
             c == TraceOf(a[2], s2)
             y == <<"heading">>
  <2>1. Heading(radar) = s2
    BY <1>9 DEF Heading
  <2>2. IsList(s2) /\ Len(s2) = 2
    BY DEF IsList
  <2>3. Trace(a[2], s2, c) /\ h = c[2]
    <3> HIDE DEF s2
    <3> QED BY <1>2, <2>1, <2>2, Traced
  <2> HIDE DEF c
  <2>4. c[1] = Exec(a[2], PushMatrix) /\ c[2] = Exec(c[1], MultMatrix(y))
    BY <2>2, <2>3 DEF Trace
  <2> HIDE DEF y
  <2>5. /\ Context(c[1]) /\ SamePicture(c[1], a[2]) /\ c[1].mode = "MODELVIEW"
        /\ View(c[1], Append(Append(PanelBelow, <<>>), <<x>>), <<x>>)
        /\ c[1].stack.PROJECTION = a[2].stack.PROJECTION
    BY <1>6, <2>4, DoesPush
  <2>6. /\ Context(h) /\ SamePicture(h, c[1]) /\ h.mode = "MODELVIEW"
        /\ View(h, Append(Append(PanelBelow, <<>>), <<x>>), Append(<<x>>, y))
        /\ h.stack.PROJECTION = c[1].stack.PROJECTION
    BY <2>3, <2>4, <2>5, DoesMult
  <2>7. Append(<<x>>, y) = <<x, y>>
    BY Tuples
  <2>8. View(h, RadarBelow(radar), RadarPlace(radar))
    BY <1>9, <2>6, <2>7 DEF RadarBelow, RadarPlace, x, y, PanelBelow
  <2>9. SamePicture(h, g) /\ h.stack.PROJECTION = g.stack.PROJECTION
    BY <1>7, <2>5, <2>6 DEF SamePicture, SameColours, SameFunctions
  <2> QED BY <2>6, <2>8, <2>9 DEF InPanel, Projection, SamePicture
<1> QED BY <1>8, <1>9


RadarScreen(radar) ==
  <<Enable("TEXTURE_2D"), Enable("BLEND"), Color(Plain("white"), 7),
    BindTexture(texid("radarbg", radar)), Draw(None, radar, "screen"),
    Disable("TEXTURE_2D"), Disable("BLEND"),
    Enable("BLEND"), Color(Plain("green"), 10), Draw(None, radar, "glow"),
    Disable("BLEND"), Color(Plain("green"), 10), Draw(None, radar, "line")>>

(* What is left of a colour that everything is drawn in.                   *)
Painted(g, h, rgb) ==
  h.color.rgb = rgb /\ h.diffuse = (IF Tracking(g) THEN rgb ELSE g.diffuse)

LEMMA RadarScreens ==
  ASSUME NEW g, NEW h, NEW radar \in {"vertical", "horizontal"}, NEW b,
         InPanel(g, b, RadarPlace(radar)), h = Run(g, RadarScreen(radar))
  PROVE  /\ InPanel(h, b, RadarPlace(radar)) /\ Laid(g, h)
         /\ h.on = g.on \ {"TEXTURE_2D", "BLEND"} /\ Painted(g, h, Plain("green"))
<1> DEFINE s == RadarScreen(radar)
           a == TraceOf(g, s)
           t == RadarPlace(radar)
<1>1. IsList(s) /\ Len(s) = 13
  BY DEF IsList, RadarScreen
<1>2. Trace(g, s, a) /\ h = a[13]
  <2>1. h = Run(g, s)
    OBVIOUS
  <2> HIDE DEF s
  <2> QED BY <1>1, <2>1, Traced
<1> HIDE DEF a
<1>3. /\ a[1] = Exec(g, Enable("TEXTURE_2D")) /\ a[2] = Exec(a[1], Enable("BLEND"))
      /\ a[3] = Exec(a[2], Color(Plain("white"), 7))
      /\ a[4] = Exec(a[3], BindTexture(texid("radarbg", radar)))
      /\ a[5] = Exec(a[4], Draw(None, radar, "screen")) /\ a[6] = Exec(a[5], Disable("TEXTURE_2D"))
      /\ a[7] = Exec(a[6], Disable("BLEND")) /\ a[8] = Exec(a[7], Enable("BLEND"))
      /\ a[9] = Exec(a[8], Color(Plain("green"), 10)) /\ a[10] = Exec(a[9], Draw(None, radar, "glow"))
      /\ a[11] = Exec(a[10], Disable("BLEND")) /\ a[12] = Exec(a[11], Color(Plain("green"), 10))
      /\ a[13] = Exec(a[12], Draw(None, radar, "line"))
  BY <1>1, <1>2 DEF Trace, RadarScreen
<1>4. {"BLEND", "TEXTURE_2D"} \subseteq Capability
  BY DEF Capability
<1>5. /\ Enabled(g, a[1], "TEXTURE_2D") /\ Enabled(a[1], a[2], "BLEND")
      /\ Colored(a[2], a[3], Plain("white"), 7) /\ Bound(a[3], a[4], texid("radarbg", radar))
      /\ Context(a[4]) /\ Drawn(a[4], a[5], None, radar, "screen") /\ Context(a[5])
  BY <1>3, <1>4, DoesEnable, DoesColor, DoesBindTexture, DoesDraw DEF InPanel
<1>6. /\ Disabled(a[5], a[6], "TEXTURE_2D") /\ Disabled(a[6], a[7], "BLEND")
      /\ Enabled(a[7], a[8], "BLEND") /\ Colored(a[8], a[9], Plain("green"), 10)
      /\ Context(a[9]) /\ Drawn(a[9], a[10], None, radar, "glow") /\ Context(a[10])
  BY <1>3, <1>4, <1>5, DoesEnable, DoesDisable, DoesColor, DoesDraw
<1>7. /\ Disabled(a[10], a[11], "BLEND") /\ Colored(a[11], a[12], Plain("green"), 10)
      /\ Context(a[12]) /\ Drawn(a[12], h, None, radar, "line") /\ Context(h)
  BY <1>2, <1>3, <1>4, <1>6, DoesDisable, DoesColor, DoesDraw
<1>8. ASSUME NEW name
      PROVE  /\ OfPanel(Part(None, radar, name)) /\ PlaceOf(Part(None, radar, name)) = t
             /\ TextureOf(Part(None, radar, name)) =
                  (IF name = "screen" THEN texid("radarbg", radar) ELSE NoTexture)
  <2> DEFINE part == Part(None, radar, name)
  <2>1. part.of = radar /\ part.name = name
    BY DEF Part
  <2> HIDE DEF part
  <2>2. CASE radar = "vertical"
    <3>1. part.of = "vertical"
      BY <2>1, <2>2
    <3>2. OfPanel(part) /\ PlaceOf(part) = t
          /\ TextureOf(part) = (IF name = "screen" THEN texid("radarbg", radar) ELSE NoTexture)
      BY <2>1, <2>2, <3>1 DEF OfPanel, PlaceOf, TextureOf, RadarPlace
    <3> QED BY <3>2 DEF part
  <2>3. CASE radar = "horizontal"
    <3>1. part.of = "horizontal"
      BY <2>1, <2>3
    <3>2. OfPanel(part) /\ PlaceOf(part) = t
          /\ TextureOf(part) = (IF name = "screen" THEN texid("radarbg", radar) ELSE NoTexture)
      BY <2>1, <2>3, <3>1 DEF OfPanel, PlaceOf, TextureOf, RadarPlace
    <3> QED BY <3>2 DEF part
  <2> QED BY <2>2, <2>3
<1> HIDE DEF t
<1>9. InPanel(a[4], b, t) /\ InPanel(a[5], b, t) /\ Laid(a[4], a[5])
  <2>1. SameMatrices(a[4], g) /\ a[4].drawn = g.drawn /\ a[4].on = g.on \cup {"TEXTURE_2D", "BLEND"}
    BY <1>5 DEF Enabled, Colored, Bound, SameMatrices
  <2>2. InPanel(a[4], b, t)
    BY <1>5, <2>1, StaysInPanel DEF InPanel, t
  <2>3. "TEXTURE_2D" \in a[4].on /\ a[4].texture = texid("radarbg", radar)
    BY <1>5, <2>1 DEF Bound
  <2> QED BY <1>5, <1>8, <2>2, <2>3, PanelPart
<1>10. InPanel(a[9], b, t) /\ InPanel(a[10], b, t) /\ Laid(a[9], a[10])
  <2>1. SameMatrices(a[9], a[5]) /\ a[9].drawn = a[5].drawn
        /\ "TEXTURE_2D" \notin a[9].on /\ "DEPTH_TEST" \notin a[9].on
    BY <1>6, <1>9 DEF Enabled, Disabled, Colored, SameMatrices, InPanel
  <2>2. InPanel(a[9], b, t)
    BY <1>6, <1>9, <2>1, StaysInPanel
  <2> QED BY <1>6, <1>8, <2>1, <2>2, PanelPart
<1>11. InPanel(a[12], b, t) /\ InPanel(h, b, t) /\ Laid(a[12], h)
  <2>1. SameMatrices(a[12], a[10]) /\ a[12].drawn = a[10].drawn
        /\ "TEXTURE_2D" \notin a[12].on /\ "DEPTH_TEST" \notin a[12].on
    BY <1>6, <1>7, <1>10 DEF Enabled, Disabled, Colored, Drawn, SameMatrices, InPanel
  <2>2. InPanel(a[12], b, t)
    BY <1>7, <1>10, <2>1, StaysInPanel
  <2> QED BY <1>7, <1>8, <2>1, <2>2, PanelPart
<1>12. SameMatrices(h, g) /\ SameFunctions(h, g)
  BY <1>5, <1>6, <1>7 DEF Enabled, Disabled, Colored, Bound, Drawn, SameMatrices, SameFunctions
<1>13. SameCounts(h, g)
  <2>1. a[4].drawn = g.drawn /\ a[9].drawn = a[5].drawn /\ a[12].drawn = a[10].drawn
    BY <1>5, <1>6, <1>7 DEF Enabled, Disabled, Colored, Bound
  <2> QED BY <1>9, <1>10, <1>11, <2>1 DEF Laid, SameCounts
<1>14. h.on = g.on \ {"TEXTURE_2D", "BLEND"}
  <2>1. a[5].on = g.on \cup {"TEXTURE_2D", "BLEND"}
    BY <1>5 DEF Enabled, Colored, Bound, Drawn
  <2>2. a[10].on = (a[5].on \ {"TEXTURE_2D"}) \cup {"BLEND"}
    BY <1>6 DEF Enabled, Disabled, Colored, Drawn
  <2>3. h.on = a[10].on \ {"BLEND"}
    BY <1>7 DEF Disabled, Colored, Drawn
  <2> QED BY <2>1, <2>2, <2>3
<1>15. Painted(g, h, Plain("green"))
  <2>1. h.color = [rgb |-> Plain("green"), a |-> 10]
    BY <1>7 DEF Colored, Drawn, SameColours
  <2>2. CASE Tracking(g)
    <3>1. Tracking(h)
      BY <1>14, <2>2 DEF Tracking
    <3> QED BY <1>7, <2>1, <2>2, <3>1 DEF Context, Painted
  <2>3. CASE ~Tracking(g)
    <3>1. ~Tracking(a[2]) /\ a[5].diffuse = g.diffuse /\ ~Tracking(a[5])
      BY <1>5, <2>3 DEF Enabled, Colored, Bound, Drawn, SameColours, Tracking
    <3>2. a[10].diffuse = a[5].diffuse /\ ~Tracking(a[10])
      BY <1>6, <3>1 DEF Enabled, Disabled, Colored, Drawn, SameColours, Tracking
    <3>3. h.diffuse = a[10].diffuse
      BY <1>7, <3>2 DEF Disabled, Colored, Drawn, SameColours, Tracking
    <3> QED BY <2>1, <2>3, <3>1, <3>2, <3>3 DEF Painted
  <2> QED BY <2>2, <2>3
<1>16. Laid(g, h)
  BY <1>7, <1>11, <1>12, <1>13 DEF Laid
<1> QED BY <1>11, <1>14, <1>15, <1>16 DEF t


Distinct(s) == IsList(s) /\ \A i, j \in 1 .. Len(s) : s[i] = s[j] => i = j

(* The first n objects of the panel's list are marked on a radar.          *)
Marked(g, h, radar, n) ==
  \A i : \A of \in Counted : Count(h.drawn, i, of) =
    Count(g.drawn, i, of)
      + (IF of = radar /\ \E j \in 1 .. n : objList[j] = i THEN 1 ELSE 0)

(* What the marks change.                                                  *)
MarksDone(g, h) ==
  /\ Context(h) /\ SameMatrices(h, g) /\ SameFunctions(h, g) /\ SameColours(h, g)
  /\ h.texture = g.texture /\ h.on = g.on /\ PanelPic(h.drawn)

LEMMA MarksDraw ==
  ASSUME NEW g, NEW h, NEW radar \in {"vertical", "horizontal"}, NEW b, Distinct(objList),
         InPanel(g, b, RadarPlace(radar)), "TEXTURE_2D" \notin g.on, h = Run(g, Marks(radar))
  PROVE  MarksDone(g, h) /\ Marked(g, h, radar, Len(objList)) /\ IsList(Marks(radar))
<1> DEFINE s == Marks(radar)
           N == Len(objList)
           a == TraceOf(g, s)
           t == RadarPlace(radar)
<1>1. N \in Nat /\ DOMAIN objList = 1 .. N
  BY DEF Distinct, IsList
<1>2. IsList(s) /\ Len(s) = N /\ \A i \in 1 .. N : s[i] = Draw(objList[i], radar, "mark")
  BY <1>1 DEF IsList, Marks
<1>3. Trace(g, s, a) /\ h = a[N]
  <2>1. h = Run(g, s)
    OBVIOUS
  <2> HIDE DEF s, N
  <2> QED BY <1>2, <2>1, Traced
<1> HIDE DEF a
<1>4. a[0] = g /\ \A n \in 1 .. N : a[n] = Exec(a[n - 1], Draw(objList[n], radar, "mark"))
  <2> HIDE DEF s, N
  <2> QED BY <1>2, <1>3 DEF Trace
<1>5. \A obj : /\ OfPanel(Part(obj, radar, "mark")) /\ PlaceOf(Part(obj, radar, "mark")) = t
               /\ TextureOf(Part(obj, radar, "mark")) = NoTexture
  <2> SUFFICES ASSUME NEW obj
               PROVE  /\ OfPanel(Part(obj, radar, "mark")) /\ PlaceOf(Part(obj, radar, "mark")) = t
                      /\ TextureOf(Part(obj, radar, "mark")) = NoTexture
    OBVIOUS
  <2> DEFINE part == Part(obj, radar, "mark")
  <2>1. part.of = radar /\ part.name = "mark"
    BY DEF Part
  <2> HIDE DEF part
  <2>2. CASE radar = "vertical"
    <3>1. part.of = "vertical"
      BY <2>1, <2>2
    <3>2. OfPanel(part) /\ PlaceOf(part) = t /\ TextureOf(part) = NoTexture
      BY <2>1, <2>2, <3>1 DEF OfPanel, PlaceOf, TextureOf, RadarPlace
    <3> QED BY <3>2 DEF part
  <2>3. CASE radar = "horizontal"
    <3>1. part.of = "horizontal"
      BY <2>1, <2>3
    <3>2. OfPanel(part) /\ PlaceOf(part) = t /\ TextureOf(part) = NoTexture
      BY <2>1, <2>3, <3>1 DEF OfPanel, PlaceOf, TextureOf, RadarPlace
    <3> QED BY <3>2 DEF part
  <2> QED BY <2>2, <2>3
<1> HIDE DEF t
<1> DEFINE J == {n \in 0 .. N : MarksDone(g, a[n]) /\ Marked(g, a[n], radar, n)}
<1>6. 0 \in J
  <2>1. \A i, of : Count(g.drawn, i, of) \in Nat
    BY PictureCount DEF InPanel, Context
  <2>2. 1 .. 0 = {}
    OBVIOUS
  <2>3. MarksDone(g, g)
    BY DEF MarksDone, InPanel, SameMatrices, SameFunctions, SameColours
  <2>4. Marked(g, g, radar, 0)
    BY <2>1, <2>2 DEF Marked
  <2> QED BY <1>1, <1>4, <2>3, <2>4
<1>7. ASSUME NEW n \in 1 .. N, n - 1 \in J PROVE n \in J
  <2> DEFINE p == a[n - 1]
             q == a[n]
             id == objList[n]
  <2>1. MarksDone(g, p) /\ Marked(g, p, radar, n - 1)
    BY <1>7
  <2>2. q = Exec(p, Draw(id, radar, "mark"))
    BY <1>4
  <2> HIDE DEF p, q
  <2>3. Drawn(p, q, id, radar, "mark") /\ Context(q) /\ Context(p)
    <3> HIDE DEF id
    <3> QED BY <2>1, <2>2, DoesDraw DEF MarksDone
  <2>4. InPanel(p, b, t)
    BY <2>1 DEF MarksDone, InPanel, SameMatrices, View, Projection, t
  <2>5. Suits(p, Part(id, radar, "mark"))
    <3> DEFINE part == Part(id, radar, "mark")
    <3>1. OfPanel(part) /\ PlaceOf(part) = t /\ TextureOf(part) = NoTexture
      BY <1>5
    <3> HIDE DEF part
    <3>2. (IF "TEXTURE_2D" \in p.on THEN p.texture ELSE NoTexture) = TextureOf(part)
      BY <2>1, <3>1 DEF MarksDone
    <3>3. Suits(p, part)
      BY <2>4, <3>1, <3>2, PanelSuits
    <3> QED BY <3>3 DEF part
  <2>6. /\ PanelPic(q.drawn)
        /\ \A i, c : Count(q.drawn, i, c) =
             Count(p.drawn, i, c) + (IF i = id /\ c = radar THEN 1 ELSE 0)
    <3>1. PanelPic(q.drawn) /\ CountsPart(q, p, id, radar, "mark")
      <4> DEFINE name == "mark"
      <4>1. OfPanel(Part(id, radar, name)) /\ PanelPic(p.drawn) /\ Context(p)
            /\ Suits(p, Part(id, radar, name)) /\ Drawn(p, q, id, radar, name)
        BY <1>5, <2>1, <2>3, <2>5 DEF MarksDone
      <4> HIDE DEF id, name
      <4>2. PanelPic(q.drawn) /\ CountsPart(q, p, id, radar, name)
        BY <4>1, DrawsPanelPart
      <4> QED BY <4>2 DEF name
    <3> QED BY <3>1 DEF CountsPart
  <2>7. MarksDone(g, q)
    BY <2>1, <2>3, <2>6 DEF MarksDone, Drawn, SameMatrices, SameFunctions, SameColours
  <2>8. ASSUME NEW i, NEW of \in Counted
        PROVE  Count(q.drawn, i, of) =
                 Count(g.drawn, i, of)
                   + (IF of = radar /\ \E j \in 1 .. n : objList[j] = i THEN 1 ELSE 0)
    <3>1. (\E j \in 1 .. n : objList[j] = i) <=> (\E j \in 1 .. n - 1 : objList[j] = i) \/ i = id
      <4>1. \A j : j \in 1 .. n <=> j \in 1 .. n - 1 \/ j = n
        BY <1>1
      <4> QED BY <4>1
    <3>2. i = id => ~\E j \in 1 .. n - 1 : objList[j] = i
      <4>1. \A j \in 1 .. n - 1 : j \in 1 .. N /\ j # n
        BY <1>1
      <4> QED BY <4>1 DEF Distinct
    <3>3. Count(g.drawn, i, of) \in Nat
      BY PictureCount DEF InPanel, Context
    <3>4. Count(p.drawn, i, of) =
            Count(g.drawn, i, of)
              + (IF of = radar /\ \E j \in 1 .. n - 1 : objList[j] = i THEN 1 ELSE 0)
      BY <2>1 DEF Marked
    <3>5. Count(q.drawn, i, of) = Count(p.drawn, i, of) + (IF i = id /\ of = radar THEN 1 ELSE 0)
      BY <2>6
    <3> DEFINE before == \E j \in 1 .. n - 1 : objList[j] = i
               upto == \E j \in 1 .. n : objList[j] = i
               new == i = id
    <3>6. (upto <=> before \/ new) /\ (new => ~before)
      BY <3>1, <3>2
    <3>7. Count(p.drawn, i, of) = Count(g.drawn, i, of) + (IF of = radar /\ before THEN 1 ELSE 0)
      BY <3>4
    <3>8. Count(q.drawn, i, of) = Count(p.drawn, i, of) + (IF new /\ of = radar THEN 1 ELSE 0)
      BY <3>5
    <3>9. Count(q.drawn, i, of) = Count(g.drawn, i, of) + (IF of = radar /\ upto THEN 1 ELSE 0)
      <4> HIDE DEF before, upto, new
      <4>1. CASE of = radar /\ before
        BY <3>3, <3>6, <3>7, <3>8, <4>1
      <4>2. CASE of = radar /\ new
        BY <3>3, <3>6, <3>7, <3>8, <4>2
      <4>3. CASE ~(of = radar /\ before) /\ ~(of = radar /\ new)
        BY <3>3, <3>6, <3>7, <3>8, <4>3
      <4> QED BY <4>1, <4>2, <4>3
    <3> QED BY <3>9
  <2>9. Marked(g, q, radar, n)
    BY <2>8 DEF Marked
  <2> QED BY <2>7, <2>9 DEF q
<1>8. N \in J
  <2>1. N \in 0 .. N
    BY <1>1
  <2> HIDE DEF J, N
  <2> QED BY <1>1, <1>6, <1>7, <2>1, Climb
<1> QED BY <1>2, <1>3, <1>8


HeadingEnd(radar) == IF radar = "horizontal" THEN <<PopMatrix>> ELSE <<>>

LEMMA PanelPop ==
  ASSUME NEW g, NEW h, NEW b, NEW t, NEW u, InPanel(g, Append(b, t), u), IsList(b),
         h = Run(g, <<PopMatrix>>)
  PROVE  InPanel(h, b, t) /\ SamePicture(h, g)
<1> DEFINE s == <<PopMatrix>>
           a == TraceOf(g, s)
<1>1. IsList(s) /\ Len(s) = 1
  BY DEF IsList
<1>2. Trace(g, s, a) /\ h = a[1]
  <2>1. h = Run(g, s)
    OBVIOUS
  <2> HIDE DEF s
  <2> QED BY <1>1, <2>1, Traced
<1> HIDE DEF a
<1>3. h = Exec(g, PopMatrix)
  BY <1>1, <1>2 DEF Trace
<1>4. /\ Context(h) /\ SamePicture(h, g) /\ h.mode = "MODELVIEW"
      /\ View(h, b, t) /\ h.stack.PROJECTION = g.stack.PROJECTION
  BY <1>3, DoesPop DEF InPanel
<1> QED BY <1>4 DEF InPanel, Projection, SamePicture

LEMMA RadarEnds ==
  ASSUME NEW g, NEW h, NEW radar \in {"vertical", "horizontal"},
         InPanel(g, RadarBelow(radar), RadarPlace(radar)),
         h = Run(Run(g, HeadingEnd(radar)), <<PopMatrix>>)
  PROVE  InPanel(h, PanelBelow, <<>>) /\ SamePicture(h, g)
<1>1. IsList(<<>>) /\ IsList(PanelBelow) /\ IsList(Append(PanelBelow, <<>>))
  <2>1. IsList(<<>>)
    BY DEF IsList
  <2>2. IsList(PanelBelow)
    BY <2>1, ListAppend DEF PanelBelow
  <2> QED BY <2>1, <2>2, ListAppend
<1>2. CASE radar = "vertical"
  <2>1. Run(g, HeadingEnd(radar)) = g
    BY <1>2, EmptyRun DEF HeadingEnd
  <2>2. InPanel(g, Append(PanelBelow, <<>>), RadarPlace(radar))
    BY <1>2 DEF RadarBelow, PanelBelow
  <2> QED BY <1>1, <2>1, <2>2, PanelPop
<1>3. CASE radar = "horizontal"
  <2> DEFINE p == Run(g, HeadingEnd(radar))
             x == <<<<"place", "horizontal">>>>
  <2>1. p = Run(g, <<PopMatrix>>)
    BY <1>3 DEF HeadingEnd
  <2>2. InPanel(g, Append(Append(PanelBelow, <<>>), x), RadarPlace(radar))
    BY <1>3 DEF RadarBelow, PanelBelow
  <2> HIDE DEF p, x
  <2>3. InPanel(p, Append(PanelBelow, <<>>), x) /\ SamePicture(p, g)
    BY <1>1, <2>1, <2>2, PanelPop
  <2>4. InPanel(h, PanelBelow, <<>>) /\ SamePicture(h, p)
    BY <1>1, <2>3, PanelPop DEF p
  <2> QED BY <2>3, <2>4 DEF SamePicture, SameColours, SameFunctions
<1> QED BY <1>2, <1>3

(* What a radar changes.                                                   *)
RadarDone(g, h, radar) ==
  /\ InPanel(h, PanelBelow, <<>>) /\ h.on = g.on \ {"TEXTURE_2D", "BLEND"}
  /\ SameFunctions(h, g) /\ Painted(g, h, Plain("green"))
  /\ Marked(g, h, radar, Len(objList))

RadarVia(g, h, radar, m, p, q) ==
  /\ m = Run(Run(g, RadarAt(radar)), Heading(radar)) /\ p = Run(m, RadarScreen(radar))
  /\ q = Run(p, Marks(radar)) /\ h = Run(Run(q, HeadingEnd(radar)), <<PopMatrix>>)

LEMMA RadarSteps ==
  ASSUME NEW g, NEW h, NEW radar \in {"vertical", "horizontal"}, NEW m, NEW p, NEW q,
         Distinct(objList), InPanel(g, PanelBelow, <<>>), RadarVia(g, h, radar, m, p, q)
  PROVE  /\ SamePicture(m, g) /\ InPanel(p, RadarBelow(radar), RadarPlace(radar))
         /\ "TEXTURE_2D" \notin p.on /\ RadarDone(g, h, radar)
<1>1. InPanel(m, RadarBelow(radar), RadarPlace(radar)) /\ SamePicture(m, g)
  BY RadarStarts DEF RadarVia
<1>2. /\ InPanel(p, RadarBelow(radar), RadarPlace(radar)) /\ Laid(m, p)
      /\ p.on = m.on \ {"TEXTURE_2D", "BLEND"} /\ Painted(m, p, Plain("green"))
  BY <1>1, RadarScreens DEF RadarVia
<1>3. MarksDone(p, q) /\ Marked(p, q, radar, Len(objList))
  BY <1>2, MarksDraw DEF RadarVia
<1>4. InPanel(q, RadarBelow(radar), RadarPlace(radar))
  BY <1>2, <1>3 DEF MarksDone, InPanel, SameMatrices, View, Projection
<1>5. InPanel(h, PanelBelow, <<>>) /\ SamePicture(h, q)
  BY <1>4, RadarEnds DEF RadarVia
<1>6. h.on = g.on \ {"TEXTURE_2D", "BLEND"} /\ SameFunctions(h, g)
  BY <1>1, <1>2, <1>3, <1>5 DEF SamePicture, MarksDone, Laid, SameFunctions
<1>7. Painted(g, h, Plain("green"))
  <2>1. Painted(g, p, Plain("green"))
    BY <1>1, <1>2 DEF SamePicture, SameColours, Painted, Tracking
  <2> QED BY <1>3, <1>5, <2>1 DEF SamePicture, MarksDone, SameColours, Painted
<1>8. Marked(g, h, radar, Len(objList))
  BY <1>1, <1>2, <1>3, <1>5 DEF SamePicture, Laid, SameCounts, Marked
<1> QED BY <1>1, <1>2, <1>5, <1>6, <1>7, <1>8 DEF RadarDone

LEMMA RadarCalls ==
  ASSUME NEW g, NEW h, NEW radar \in {"vertical", "horizontal"}, Distinct(objList),
         InPanel(g, PanelBelow, <<>>), h = Run(g, RadarRender(radar))
  PROVE  IsList(RadarRender(radar)) /\ \E m, p, q : RadarVia(g, h, radar, m, p, q)
<1> DEFINE s1 == RadarAt(radar)
           s2 == Heading(radar)
           s3 == RadarScreen(radar)
           s4 == Marks(radar)
           s5 == HeadingEnd(radar)
           s6 == <<PopMatrix>>
           m == Run(Run(g, s1), s2)
           p == Run(m, s3)
           q == Run(p, s4)
           k == Run(Run(q, s5), s6)
<1>1. RadarRender(radar) = ((((s1 \o s2) \o s3) \o s4) \o s5) \o s6
  BY DEF RadarRender, RadarAt, RadarScreen, HeadingEnd
<1>2. IsList(s1) /\ IsList(s2) /\ IsList(s3) /\ IsList(s5) /\ IsList(s6)
  <2>1. IsList(s1) /\ IsList(s3) /\ IsList(s6)
    BY DEF IsList, RadarAt, RadarScreen
  <2>2. IsList(s2)
    <3>1. IsList(<<>>) /\ IsList(<<PushMatrix, MultMatrix(<<"heading">>)>>)
      BY DEF IsList
    <3> QED BY <3>1 DEF Heading
  <2>3. IsList(s5)
    <3>1. IsList(<<>>) /\ IsList(<<PopMatrix>>)
      BY DEF IsList
    <3> QED BY <3>1 DEF HeadingEnd
  <2> QED BY <2>1, <2>2, <2>3
<1>3. RadarVia(g, k, radar, m, p, q)
  BY DEF RadarVia
<1>4. IsList(s4)
  <2>1. InPanel(p, RadarBelow(radar), RadarPlace(radar)) /\ "TEXTURE_2D" \notin p.on
    <3> HIDE DEF k, m, p, q
    <3> QED BY <1>3, RadarSteps
  <2> HIDE DEF p
  <2> QED BY <2>1, MarksDraw
<1> HIDE DEF s1, s2, s3, s4, s5, s6
<1>5. IsList(s1 \o s2)
  BY <1>2, Concatenated
<1>6. IsList((s1 \o s2) \o s3)
  BY <1>2, <1>5, Concatenated
<1>7. IsList(((s1 \o s2) \o s3) \o s4)
  BY <1>4, <1>6, Concatenated
<1>8. IsList((((s1 \o s2) \o s3) \o s4) \o s5)
  BY <1>2, <1>7, Concatenated
<1>9. IsList(RadarRender(radar))
  BY <1>1, <1>2, <1>8, Concatenated
<1>10. h = k
  <2>1. Run(g, s1 \o s2) = m
    BY <1>2, RunConcat
  <2>2. Run(g, (s1 \o s2) \o s3) = p
    BY <1>2, <1>5, <2>1, RunConcat
  <2>3. Run(g, ((s1 \o s2) \o s3) \o s4) = q
    BY <1>4, <1>6, <2>2, RunConcat
  <2>4. Run(g, (((s1 \o s2) \o s3) \o s4) \o s5) = Run(q, s5)
    BY <1>2, <1>7, <2>3, RunConcat
  <2> QED BY <1>1, <1>2, <1>8, <2>4, RunConcat
<1> QED BY <1>3, <1>9, <1>10

LEMMA RadarDraws ==
  ASSUME NEW g, NEW h, NEW radar \in {"vertical", "horizontal"}, Distinct(objList),
         InPanel(g, PanelBelow, <<>>), h = Run(g, RadarRender(radar))
  PROVE  RadarDone(g, h, radar) /\ IsList(RadarRender(radar))
<1>1. IsList(RadarRender(radar)) /\ \E m, p, q : RadarVia(g, h, radar, m, p, q)
  BY RadarCalls
<1> QED BY <1>1, RadarSteps

LEMMA TextDraws ==
  ASSUME NEW g, NEW h, NEW b, NEW t, t = <<>>, InPanel(g, b, t), h = Run(g, RenderTextObject)
  PROVE  /\ InPanel(h, b, t) /\ Context(h) /\ SameMatrices(h, g) /\ SameCounts(h, g)
         /\ h.on = g.on \ {"BLEND", "ALPHA_TEST", "TEXTURE_2D"}
         /\ SameColours(h, g) /\ h.fill = g.fill /\ h.blend = "over" /\ IsList(RenderTextObject)
<1> DEFINE s == RenderTextObject
           a == TraceOf(g, s)
<1>1. IsList(s) /\ Len(s) = 10
  BY DEF IsList, RenderTextObject
<1>2. Trace(g, s, a) /\ h = a[10]
  <2>1. h = Run(g, s)
    OBVIOUS
  <2> HIDE DEF s
  <2> QED BY <1>1, <2>1, Traced
<1> HIDE DEF a
<1>3. /\ a[1] = Exec(g, Enable("ALPHA_TEST")) /\ a[2] = Exec(a[1], Enable("BLEND"))
      /\ a[3] = Exec(a[2], BlendFunc("over")) /\ a[4] = Exec(a[3], AlphaFunc("GEQUAL_ZERO"))
      /\ a[5] = Exec(a[4], Enable("TEXTURE_2D")) /\ a[6] = Exec(a[5], BindTexture(fpsTexture))
      /\ a[7] = Exec(a[6], Draw(None, "panel", "text")) /\ a[8] = Exec(a[7], Disable("BLEND"))
      /\ a[9] = Exec(a[8], Disable("ALPHA_TEST")) /\ a[10] = Exec(a[9], Disable("TEXTURE_2D"))
  BY <1>1, <1>2 DEF Trace, RenderTextObject
<1>4. {"BLEND", "ALPHA_TEST", "TEXTURE_2D"} \subseteq Capability
  BY DEF Capability
<1>5. /\ Enabled(g, a[1], "ALPHA_TEST") /\ Enabled(a[1], a[2], "BLEND")
      /\ Blended(a[2], a[3], "over") /\ AlphaTested(a[3], a[4], "GEQUAL_ZERO") /\ Context(a[4])
  BY <1>3, <1>4, DoesEnable, DoesBlendFunc, DoesAlphaFunc DEF InPanel
<1>6. /\ Enabled(a[4], a[5], "TEXTURE_2D") /\ Bound(a[5], a[6], fpsTexture) /\ Context(a[6])
      /\ Drawn(a[6], a[7], None, "panel", "text") /\ Context(a[7])
  BY <1>3, <1>4, <1>5, DoesEnable, DoesBindTexture, DoesDraw
<1>7. /\ Disabled(a[7], a[8], "BLEND") /\ Disabled(a[8], a[9], "ALPHA_TEST")
      /\ Disabled(a[9], h, "TEXTURE_2D") /\ Context(h)
  BY <1>2, <1>3, <1>4, <1>6, DoesDisable
<1>8. /\ SameMatrices(a[6], g) /\ a[6].drawn = g.drawn /\ a[6].texture = fpsTexture
      /\ a[6].on = g.on \cup {"BLEND", "ALPHA_TEST", "TEXTURE_2D"}
      /\ SameColours(a[6], g) /\ a[6].fill = g.fill /\ a[6].blend = "over"
  BY <1>5, <1>6 DEF Enabled, Blended, AlphaTested, Bound, SameMatrices, SameColours, SameFunctions
<1>9. InPanel(a[6], b, t)
  <2>1. "DEPTH_TEST" \notin a[6].on
    BY <1>8 DEF InPanel
  <2> QED BY <1>6, <1>8, <2>1, StaysInPanel
<1>10. InPanel(a[7], b, t) /\ Laid(a[6], a[7])
  <2> DEFINE part == Part(None, "panel", "text")
  <2>1. part.of = "panel" /\ part.name = "text"
    BY DEF Part
  <2> HIDE DEF part
  <2>2. OfPanel(part) /\ PlaceOf(part) = t /\ TextureOf(part) = fpsTexture
    BY <2>1 DEF OfPanel, PlaceOf, TextureOf
  <2>3. (IF "TEXTURE_2D" \in a[6].on THEN a[6].texture ELSE NoTexture) = TextureOf(part)
    BY <1>8, <2>2
  <2>4. OfPanel(Part(None, "panel", "text")) /\ PlaceOf(Part(None, "panel", "text")) = t
        /\ (IF "TEXTURE_2D" \in a[6].on THEN a[6].texture ELSE NoTexture)
             = TextureOf(Part(None, "panel", "text"))
    BY <2>2, <2>3 DEF part
  <2>5. "text" \notin {"flame", "mark"}
    OBVIOUS
  <2> DEFINE of == "panel"
             name == "text"
  <2> HIDE DEF of, name
  <2>6. /\ InPanel(a[6], b, t) /\ Drawn(a[6], a[7], None, of, name) /\ Context(a[7])
        /\ OfPanel(Part(None, of, name)) /\ PlaceOf(Part(None, of, name)) = t
        /\ name \notin {"flame", "mark"}
        /\ (IF "TEXTURE_2D" \in a[6].on THEN a[6].texture ELSE NoTexture)
             = TextureOf(Part(None, of, name))
    BY <1>6, <1>9, <2>4, <2>5 DEF of, name
  <2> QED BY <2>6, PanelPart
<1>11. SameMatrices(h, a[7]) /\ h.drawn = a[7].drawn
       /\ h.on = a[7].on \ {"BLEND", "ALPHA_TEST", "TEXTURE_2D"}
       /\ SameColours(h, a[7]) /\ SameFunctions(h, a[7])
  BY <1>7 DEF Disabled, SameMatrices, SameColours, SameFunctions
<1>12. InPanel(h, b, t)
  BY <1>7, <1>10, <1>11, StaysInPanel DEF InPanel
<1>13. SameCounts(h, g)
  BY <1>8, <1>10, <1>11 DEF Laid, SameCounts
<1>14. h.on = g.on \ {"BLEND", "ALPHA_TEST", "TEXTURE_2D"}
  <2>1. a[7].on = a[6].on
    BY <1>6 DEF Drawn
  <2> QED BY <1>8, <1>11, <2>1
<1>15. SameMatrices(h, g) /\ SameColours(h, g) /\ h.fill = g.fill /\ h.blend = "over"
  BY <1>6, <1>8, <1>11 DEF Drawn, SameMatrices, SameColours, SameFunctions
<1> QED BY <1>1, <1>7, <1>12, <1>13, <1>14, <1>15

(* A text of its own for the panel binds a new texture, no more.           *)
LEMMA SetsText ==
  ASSUME NEW g, NEW h, NEW new, Context(g), h = Run(g, SetText(new))
  PROVE  /\ Context(h) /\ h.on = g.on /\ SameColours(h, g) /\ SameFunctions(h, g)
         /\ SameMatrices(h, g) /\ h.drawn = g.drawn /\ IsList(SetText(new))
<1>1. CASE new
  <2> DEFINE s == createTexture
             a == TraceOf(g, s)
  <2>1. IsList(s) /\ Len(s) = 1
    BY DEF IsList, createTexture
  <2>2. Trace(g, s, a) /\ h = a[1]
    <3>1. h = Run(g, s)
      BY <1>1 DEF SetText
    <3> HIDE DEF s
    <3> QED BY <2>1, <3>1, Traced
  <2> HIDE DEF a
  <2>3. h = Exec(g, BindTexture(fpsTexture))
    BY <2>1, <2>2 DEF Trace, createTexture
  <2>4. Context(h) /\ Bound(g, h, fpsTexture)
    BY <2>3, DoesBindTexture
  <2> QED BY <1>1, <2>1, <2>4 DEF Bound, SetText
<1>2. CASE ~new
  BY <1>2, EmptyRun DEF SetText, SameColours, SameFunctions, SameMatrices
<1> QED BY <1>1, <1>2

PanelStart ==
  <<Disable("DEPTH_TEST"), PushMatrix, MatrixMode("PROJECTION"), LoadIdentity,
    MultMatrix(<<"ortho">>), MatrixMode("MODELVIEW"), LoadIdentity,
    Disable("TEXTURE_2D"), Color(Plain("white"), 10), Draw(None, "panel", "line")>>

(* The state in which the panel's line is drawn.                           *)
LineIn(p, g, h) ==
  /\ Context(p) /\ p.on = g.on \ {"DEPTH_TEST", "TEXTURE_2D"} /\ SameFunctions(p, g)
  /\ p.color.rgb = Plain("white") /\ p.drawn = g.drawn /\ Drawn(p, h, None, "panel", "line")

(* In its view the panel starts with a line.                               *)
LEMMA PanelStarts ==
  ASSUME NEW g, NEW h, InCamera(g), PanelPic(g.drawn), h = Run(g, PanelStart)
  PROVE  /\ InPanel(h, PanelBelow, <<>>) /\ SameCounts(h, g) /\ IsList(PanelStart)
         /\ h.on = g.on \ {"DEPTH_TEST", "TEXTURE_2D"} /\ SameFunctions(h, g)
         /\ Painted(g, h, Plain("white")) /\ \E p : LineIn(p, g, h)
<1> DEFINE s == PanelStart
           a == TraceOf(g, s)
           x == <<"ortho">>
           e == <<>>
<1>1. IsList(s) /\ Len(s) = 10
  BY DEF IsList, PanelStart
<1>2. Trace(g, s, a) /\ h = a[10]
  <2>1. h = Run(g, s)
    OBVIOUS
  <2> HIDE DEF s
  <2> QED BY <1>1, <2>1, Traced
<1> HIDE DEF a
<1>3. /\ a[1] = Exec(g, Disable("DEPTH_TEST")) /\ a[2] = Exec(a[1], PushMatrix)
      /\ a[3] = Exec(a[2], MatrixMode("PROJECTION")) /\ a[4] = Exec(a[3], LoadIdentity)
      /\ a[5] = Exec(a[4], MultMatrix(x)) /\ a[6] = Exec(a[5], MatrixMode("MODELVIEW"))
      /\ a[7] = Exec(a[6], LoadIdentity) /\ a[8] = Exec(a[7], Disable("TEXTURE_2D"))
      /\ a[9] = Exec(a[8], Color(Plain("white"), 10)) /\ a[10] = Exec(a[9], Draw(None, "panel", "line"))
  BY <1>1, <1>2 DEF Trace, PanelStart
<1>4. {"DEPTH_TEST", "TEXTURE_2D"} \subseteq Capability
  BY DEF Capability
<1>5. Append(e, x) = Ortho /\ View(g, e, Cam) /\ Projection(g, e, <<<<"perspective">>>>) /\ Context(g)
      /\ g.mode = "MODELVIEW"
  <2>1. Append(<<>>, x) = <<x>>
    BY Tuples
  <2> QED BY <2>1 DEF Ortho, InCamera, Cam
<1>6. PanelBelow = Append(e, Cam)
  BY DEF PanelBelow
<1> HIDE DEF x
<1>7. Context(a[1]) /\ Disabled(g, a[1], "DEPTH_TEST")
  BY <1>3, <1>4, <1>5, DoesDisable
<1>8. View(a[1], e, Cam) /\ Projection(a[1], e, <<<<"perspective">>>>) /\ a[1].mode = "MODELVIEW"
  BY <1>5, <1>7 DEF Disabled, SameMatrices, View, Projection
<1> DEFINE z == <<<<"perspective">>>>
<1>9. /\ a[2] = Exec(a[1], PushMatrix) /\ View(a[1], e, Cam) /\ Projection(a[1], e, z)
      /\ a[3] = Exec(a[2], MatrixMode("PROJECTION")) /\ a[4] = Exec(a[3], LoadIdentity)
      /\ a[5] = Exec(a[4], MultMatrix(x)) /\ a[6] = Exec(a[5], MatrixMode("MODELVIEW"))
      /\ a[7] = Exec(a[6], LoadIdentity)
  BY <1>3, <1>8
<1>10. InPanel(h, PanelBelow, e) <=> InPanel(h, PanelBelow, <<>>)
  OBVIOUS
<1>11. \A p, q, b, t : Context(p) /\ p.mode = "PROJECTION" /\ Projection(p, b, t) /\ q = Exec(p, LoadIdentity) =>
         /\ Context(q) /\ SamePicture(q, p) /\ q.mode = "PROJECTION"
         /\ Projection(q, b, e) /\ q.stack.MODELVIEW = p.stack.MODELVIEW
  BY DoesLoadProjection
<1>12. \A p, q, b, t : Context(p) /\ p.mode = "MODELVIEW" /\ View(p, b, t) /\ q = Exec(p, LoadIdentity) =>
         /\ Context(q) /\ SamePicture(q, p) /\ q.mode = "MODELVIEW"
         /\ View(q, b, e) /\ q.stack.PROJECTION = p.stack.PROJECTION
  BY DoesLoadIdentity
<1>13. e = <<>>
  OBVIOUS
<1> HIDE DEF e, z, s
<1>14. /\ Context(a[2]) /\ SamePicture(a[2], a[1]) /\ a[2].mode = "MODELVIEW"
       /\ View(a[2], Append(e, Cam), Cam) /\ a[2].stack.PROJECTION = a[1].stack.PROJECTION
  BY <1>7, <1>8, <1>9, DoesPush
<1>15. Context(a[3]) /\ SamePicture(a[3], a[2]) /\ a[3].mode = "PROJECTION" /\ a[3].stack = a[2].stack
  BY <1>9, <1>14, DoesMatrixMode
<1>16. /\ Context(a[4]) /\ SamePicture(a[4], a[3]) /\ a[4].mode = "PROJECTION"
       /\ Projection(a[4], e, e) /\ a[4].stack.MODELVIEW = a[3].stack.MODELVIEW
  <2>1. Projection(a[3], e, z)
    BY <1>9, <1>14, <1>15 DEF Projection
  <2> QED BY <1>9, <1>11, <1>15, <2>1
<1>17. /\ Context(a[5]) /\ SamePicture(a[5], a[4]) /\ a[5].mode = "PROJECTION"
       /\ Projection(a[5], e, Append(e, x)) /\ a[5].stack.MODELVIEW = a[4].stack.MODELVIEW
  BY <1>9, <1>16, DoesMultProjection
<1>18. Context(a[6]) /\ SamePicture(a[6], a[5]) /\ a[6].mode = "MODELVIEW" /\ a[6].stack = a[5].stack
  BY <1>9, <1>17, DoesMatrixMode
<1>19. /\ Context(a[7]) /\ SamePicture(a[7], a[6]) /\ a[7].mode = "MODELVIEW"
       /\ View(a[7], Append(e, Cam), e) /\ a[7].stack.PROJECTION = a[6].stack.PROJECTION
  <2>1. View(a[6], Append(e, Cam), Cam)
    BY <1>14, <1>15, <1>16, <1>17, <1>18 DEF View
  <2> QED BY <1>9, <1>12, <1>18, <2>1
<1>20. SamePicture(a[7], a[1]) /\ Projection(a[7], e, Ortho)
  <2>1. Projection(a[7], e, Ortho)
    BY <1>5, <1>17, <1>18, <1>19 DEF Projection
  <2>2. SamePicture(a[7], a[1])
    BY <1>14, <1>15, <1>16, <1>17, <1>18, <1>19 DEF SamePicture, SameColours, SameFunctions
  <2> QED BY <2>1, <2>2
<1>21. /\ Disabled(a[7], a[8], "TEXTURE_2D") /\ Colored(a[8], a[9], Plain("white"), 10) /\ Context(a[9])
       /\ Drawn(a[9], h, None, "panel", "line") /\ Context(h)
  BY <1>2, <1>3, <1>4, <1>19, DoesDisable, DoesColor, DoesDraw
<1>22. /\ SameMatrices(a[9], a[7]) /\ a[9].drawn = g.drawn /\ SameFunctions(a[9], g)
       /\ a[9].on = g.on \ {"DEPTH_TEST", "TEXTURE_2D"}
  <2>1. a[7].on = g.on \ {"DEPTH_TEST"} /\ a[7].drawn = g.drawn /\ SameFunctions(a[7], g)
    BY <1>7, <1>20 DEF SamePicture, Disabled, SameFunctions
  <2> QED BY <1>21, <2>1 DEF Disabled, Colored, SameMatrices, SameFunctions
<1>23. InPanel(a[9], PanelBelow, e)
  <2>1. View(a[9], Append(e, Cam), e) /\ Projection(a[9], e, Ortho) /\ a[9].mode = "MODELVIEW"
    BY <1>19, <1>20, <1>22 DEF SameMatrices, View, Projection
  <2>2. Projection(a[9], <<>>, Ortho) /\ PanelPic(a[9].drawn) /\ "DEPTH_TEST" \notin a[9].on
    BY <1>13, <1>22, <2>1
  <2> QED BY <1>6, <1>21, <2>1, <2>2 DEF InPanel
<1>24. InPanel(h, PanelBelow, e) /\ Laid(a[9], h)
  <2> DEFINE of == "panel"
             name == "line"
             part == Part(None, of, name)
  <2>1. part.of = "panel" /\ part.name = "line"
    BY DEF Part
  <2> HIDE DEF part
  <2>2. OfPanel(part) /\ PlaceOf(part) = e /\ TextureOf(part) = NoTexture
    BY <1>13, <2>1 DEF OfPanel, PlaceOf, TextureOf
  <2>3. (IF "TEXTURE_2D" \in a[9].on THEN a[9].texture ELSE NoTexture) = TextureOf(part)
    BY <1>22, <2>2
  <2>4. name \notin {"flame", "mark"} /\ Drawn(a[9], h, None, of, name)
    BY <1>21
  <2> HIDE DEF of, name
  <2>5. /\ InPanel(a[9], PanelBelow, e) /\ Drawn(a[9], h, None, of, name) /\ Context(h)
        /\ OfPanel(Part(None, of, name)) /\ PlaceOf(Part(None, of, name)) = e
        /\ name \notin {"flame", "mark"}
        /\ (IF "TEXTURE_2D" \in a[9].on THEN a[9].texture ELSE NoTexture)
             = TextureOf(Part(None, of, name))
    BY <1>21, <1>23, <2>2, <2>3, <2>4 DEF part
  <2> QED BY <2>5, PanelPart
<1>25. SameCounts(h, g)
  BY <1>22, <1>24 DEF Laid, SameCounts
<1>26. h.on = g.on \ {"DEPTH_TEST", "TEXTURE_2D"} /\ SameFunctions(h, g)
  BY <1>21, <1>22 DEF Drawn, SameFunctions
<1>27. Painted(g, h, Plain("white"))
  <2>1. (Tracking(a[8]) <=> Tracking(g)) /\ a[8].diffuse = g.diffuse
    BY <1>7, <1>20, <1>21 DEF Disabled, SamePicture, SameColours, Tracking
  <2>2. h.color = [rgb |-> Plain("white"), a |-> 10] /\ h.diffuse = IF Tracking(a[8]) THEN Plain("white") ELSE a[8].diffuse
    BY <1>21 DEF Colored, Drawn, SameColours
  <2> QED BY <2>1, <2>2 DEF Painted
<1>28. LineIn(a[9], g, h)
  BY <1>21, <1>22 DEF LineIn, Colored
<1> QED BY <1>1, <1>10, <1>24, <1>25, <1>26, <1>27, <1>28 DEF s

PanelVia(g, h, new, n, m, p, q, u) ==
  /\ n = Run(g, SetText(new)) /\ m = Run(n, PanelStart)
  /\ p = Run(m, RadarRender("vertical")) /\ q = Run(p, RadarRender("horizontal"))
  /\ u = Run(q, RenderTextObject) /\ h = Run(u, <<PopMatrix>>)

(* Every object of the panel's list is marked on both radars.              *)
MarkedOnBoth(g, h) ==
  \A i : \A of \in Counted : Count(h.drawn, i, of) =
    Count(g.drawn, i, of)
      + (IF of # "flame" /\ \E j \in 1 .. Len(objList) : objList[j] = i THEN 1 ELSE 0)

LEMMA WorldPanel ==
  \A pic : World(pic) => PanelPic(pic)
BY DEF World, PanelPic, NoPanel, PanelOnTop

(* The matrices after the panel: one of each.                              *)
LEMMA LastPop ==
  ASSUME NEW g, NEW h, InPanel(g, PanelBelow, <<>>), Quiet(g), h = Run(g, <<PopMatrix>>)
  PROVE  Idle(h) /\ SamePicture(h, g)
<1> DEFINE e == <<>>
<1>1. IsList(e) /\ Len(e) = 0 /\ InPanel(g, Append(e, Cam), e)
  BY DEF IsList, PanelBelow
<1>2. \A x : Len(Append(e, x)) = 1
  BY <1>1, ListAppend
<1>3. InPanel(h, e, Cam) /\ SamePicture(h, g)
  <2> HIDE DEF e
  <2> QED BY <1>1, PanelPop
<1>4. h.stack.MODELVIEW = Append(e, Cam) /\ h.stack.PROJECTION = Append(e, Ortho)
      /\ Context(h) /\ h.mode = "MODELVIEW"
  BY <1>3 DEF InPanel, View, Projection
<1>5. Quiet(h)
  BY <1>3 DEF SamePicture, Quiet
<1> QED BY <1>2, <1>3, <1>4, <1>5 DEF Idle, Single

LEMMA PanelSteps ==
  ASSUME NEW g, NEW h, NEW new, NEW n, NEW m, NEW p, NEW q, NEW u,
         Distinct(objList), Ready(g), PanelVia(g, h, new, n, m, p, q, u)
  PROVE  /\ InCamera(n) /\ n.on = g.on /\ SameColours(n, g) /\ SameFunctions(n, g) /\ n.drawn = g.drawn
         /\ InPanel(m, PanelBelow, <<>>) /\ m.on = n.on \ {"DEPTH_TEST", "TEXTURE_2D"}
         /\ SameFunctions(m, n) /\ Painted(n, m, Plain("white"))
         /\ RadarDone(m, p, "vertical") /\ RadarDone(p, q, "horizontal")
         /\ InPanel(u, PanelBelow, <<>>) /\ u.on = q.on \ {"BLEND", "ALPHA_TEST", "TEXTURE_2D"}
         /\ SameColours(u, q) /\ u.fill = q.fill /\ u.blend = "over"
         /\ Idle(h) /\ SamePicture(h, u) /\ PanelPic(h.drawn) /\ MarkedOnBoth(g, h)
<1>1. /\ Context(n) /\ n.on = g.on /\ SameColours(n, g) /\ SameFunctions(n, g)
      /\ SameMatrices(n, g) /\ n.drawn = g.drawn
  BY SetsText DEF Ready, InCamera, PanelVia
<1>2. InCamera(n) /\ PanelPic(n.drawn)
  BY <1>1, WorldPanel DEF Ready, InCamera, SameMatrices, View, Projection
<1>3. /\ InPanel(m, PanelBelow, <<>>) /\ SameCounts(m, n)
      /\ m.on = n.on \ {"DEPTH_TEST", "TEXTURE_2D"} /\ SameFunctions(m, n)
      /\ Painted(n, m, Plain("white"))
  BY <1>2, PanelStarts DEF PanelVia
<1>4. RadarDone(m, p, "vertical")
  BY <1>3, RadarDraws DEF PanelVia
<1>5. RadarDone(p, q, "horizontal")
  <2>1. InPanel(p, PanelBelow, <<>>)
    BY <1>4 DEF RadarDone
  <2> QED BY <2>1, RadarDraws DEF PanelVia
<1>6. /\ InPanel(u, PanelBelow, <<>>) /\ SameCounts(u, q)
      /\ u.on = q.on \ {"BLEND", "ALPHA_TEST", "TEXTURE_2D"}
      /\ SameColours(u, q) /\ u.fill = q.fill /\ u.blend = "over"
  <2> DEFINE t == <<>>
  <2>1. InPanel(q, PanelBelow, t) /\ t = <<>> /\ u = Run(q, RenderTextObject)
    BY <1>5 DEF RadarDone, PanelVia
  <2> HIDE DEF t
  <2>2. /\ InPanel(u, PanelBelow, t) /\ SameCounts(u, q)
        /\ u.on = q.on \ {"BLEND", "ALPHA_TEST", "TEXTURE_2D"}
        /\ SameColours(u, q) /\ u.fill = q.fill /\ u.blend = "over"
    BY <2>1, TextDraws
  <2> QED BY <2>2 DEF t
<1>7. Quiet(u)
  <2>1. "CULL_FACE" \notin g.on /\ u.on \subseteq g.on
    BY <1>1, <1>3, <1>4, <1>5, <1>6 DEF Ready, Quiet, RadarDone
  <2> QED BY <1>6, <2>1 DEF Quiet
<1>8. Idle(h) /\ SamePicture(h, u)
  BY <1>6, <1>7, LastPop DEF PanelVia
<1>9. PanelPic(h.drawn)
  BY <1>6, <1>8 DEF SamePicture, InPanel
<1>10. MarkedOnBoth(g, h)
  <2> SUFFICES ASSUME NEW i, NEW of \in Counted
               PROVE  Count(h.drawn, i, of) =
                        Count(g.drawn, i, of)
                          + (IF of # "flame" /\ \E j \in 1 .. Len(objList) : objList[j] = i
                             THEN 1 ELSE 0)
    BY DEF MarkedOnBoth
  <2> DEFINE listed == \E j \in 1 .. Len(objList) : objList[j] = i
  <2>1. Count(m.drawn, i, of) = Count(g.drawn, i, of) /\ Count(h.drawn, i, of) = Count(q.drawn, i, of)
    BY <1>1, <1>3, <1>6, <1>8 DEF SameCounts, SamePicture
  <2>2. Count(p.drawn, i, of) = Count(m.drawn, i, of) + (IF of = "vertical" /\ listed THEN 1 ELSE 0)
    BY <1>4 DEF RadarDone, Marked
  <2>3. Count(q.drawn, i, of) = Count(p.drawn, i, of) + (IF of = "horizontal" /\ listed THEN 1 ELSE 0)
    BY <1>5 DEF RadarDone, Marked
  <2>4. Count(g.drawn, i, of) \in Nat
    BY PictureCount DEF Ready, InCamera, Context
  <2>5. Count(h.drawn, i, of) = Count(g.drawn, i, of) + (IF of # "flame" /\ listed THEN 1 ELSE 0)
    <3> HIDE DEF listed
    <3>1. of = "flame" \/ of = "vertical" \/ of = "horizontal"
      BY DEF Counted
    <3>2. CASE of = "flame"
      BY <2>1, <2>2, <2>3, <2>4, <3>2
    <3>3. CASE of = "vertical"
      BY <2>1, <2>2, <2>3, <2>4, <3>3
    <3>4. CASE of = "horizontal"
      BY <2>1, <2>2, <2>3, <2>4, <3>4
    <3> QED BY <3>1, <3>2, <3>3, <3>4
  <2> QED BY <2>5
<1> QED BY <1>1, <1>2, <1>3, <1>4, <1>5, <1>6, <1>8, <1>9, <1>10

LEMMA PanelCalls ==
  ASSUME NEW g, NEW h, NEW new, Distinct(objList), Ready(g), h = Run(g, SetText(new) \o PanelRender)
  PROVE  \E n, m, p, q, u : PanelVia(g, h, new, n, m, p, q, u)
<1> DEFINE s1 == SetText(new)
           s2 == PanelStart
           s3 == RadarRender("vertical")
           s4 == RadarRender("horizontal")
           s5 == RenderTextObject
           s6 == <<PopMatrix>>
           n == Run(g, s1)
           m == Run(n, s2)
           p == Run(m, s3)
           q == Run(p, s4)
           u == Run(q, s5)
           k == Run(u, s6)
<1>1. PanelRender = (((s2 \o s3) \o s4) \o s5) \o s6
  BY DEF PanelRender, PanelStart
<1>2. PanelVia(g, k, new, n, m, p, q, u)
  BY DEF PanelVia
<1>3. Context(g) /\ InCamera(n) /\ PanelPic(n.drawn) /\ InPanel(m, PanelBelow, <<>>)
      /\ InPanel(p, PanelBelow, <<>>) /\ InPanel(q, PanelBelow, <<>>)
  <2> HIDE DEF n, m, p, q, u, k
  <2> QED BY <1>2, PanelSteps, WorldPanel DEF RadarDone, Ready, InCamera
<1>4. IsList(s1) /\ IsList(s6)
  <2>1. IsList(s1)
    BY <1>3, SetsText
  <2> QED BY <2>1 DEF IsList
<1>5. IsList(s2)
  <2> HIDE DEF n
  <2> QED BY <1>3, PanelStarts
<1>6. IsList(s3) /\ IsList(s4)
  <2> HIDE DEF m, p
  <2> QED BY <1>3, RadarDraws
<1>7. IsList(s5)
  BY DEF IsList, RenderTextObject
<1>8. h = Run(g, s1 \o ((((s2 \o s3) \o s4) \o s5) \o s6))
  BY <1>1
<1> HIDE DEF s1, s2, s3, s4, s5, s6
<1>9. IsList(s2 \o s3)
  BY <1>5, <1>6, Concatenated
<1>10. IsList((s2 \o s3) \o s4)
  BY <1>6, <1>9, Concatenated
<1>11. IsList(((s2 \o s3) \o s4) \o s5)
  BY <1>7, <1>10, Concatenated
<1>12. IsList((((s2 \o s3) \o s4) \o s5) \o s6)
  BY <1>4, <1>11, Concatenated
<1>13. h = k
  <2>1. h = Run(n, (((s2 \o s3) \o s4) \o s5) \o s6)
    BY <1>4, <1>8, <1>12, RunConcat
  <2>2. Run(n, s2 \o s3) = p
    BY <1>5, <1>6, RunConcat
  <2>3. Run(n, (s2 \o s3) \o s4) = q
    BY <1>6, <1>9, <2>2, RunConcat
  <2>4. Run(n, ((s2 \o s3) \o s4) \o s5) = u
    BY <1>7, <1>10, <2>3, RunConcat
  <2> QED BY <1>4, <1>11, <2>1, <2>4, RunConcat
<1> QED BY <1>2, <1>13

LEMMA PanelDraws ==
  ASSUME NEW g, NEW h, NEW new, Distinct(objList), Ready(g), h = Run(g, SetText(new) \o PanelRender)
  PROVE  Idle(h) /\ PanelPic(h.drawn) /\ MarkedOnBoth(g, h)
<1>1. PICK n, m, p, q, u : PanelVia(g, h, new, n, m, p, q, u)
  BY PanelCalls
<1> QED BY <1>1, PanelSteps

-----------------------------------------------------------------------------
(* Loading                                                                 *)

(* Loading a texture changes only what is bound.                           *)
Loaded(g, h) ==
  /\ Context(h) /\ h.on = g.on /\ SameColours(h, g) /\ SameFunctions(h, g)
  /\ SameMatrices(h, g) /\ h.drawn = g.drawn

LEMMA Loads ==
  \A g, h, file, user : Context(g) /\ h = Run(g, LoadTexture(file, user)) =>
    Loaded(g, h) /\ IsList(LoadTexture(file, user))
<1> SUFFICES ASSUME NEW g, NEW h, NEW file, NEW user, Context(g), h = Run(g, LoadTexture(file, user))
             PROVE  Loaded(g, h) /\ IsList(LoadTexture(file, user))
  OBVIOUS
<1>1. CASE file \in MissingFile
  BY <1>1, EmptyRun DEF LoadTexture, Loaded, SameColours, SameFunctions, SameMatrices
<1>2. CASE file \notin MissingFile
  <2> DEFINE t == <<file, user>>
             s == <<BindTexture(t)>>
             a == TraceOf(g, s)
  <2>1. IsList(s) /\ Len(s) = 1
    BY DEF IsList
  <2>2. LoadTexture(file, user) = s
    BY <1>2 DEF LoadTexture
  <2>3. Trace(g, s, a) /\ h = a[1]
    <3>1. h = Run(g, s)
      BY <2>2
    <3> HIDE DEF s
    <3> QED BY <2>1, <3>1, Traced
  <2> HIDE DEF a, t
  <2>4. h = Exec(g, BindTexture(t))
    BY <2>1, <2>3 DEF Trace
  <2>5. Context(h) /\ Bound(g, h, t)
    BY <2>4, DoesBindTexture
  <2> QED BY <2>1, <2>2, <2>5 DEF Bound, Loaded
<1> QED BY <1>1, <1>2

(* Before the first frame.                                                 *)
Began(g) ==
  /\ Context(g) /\ g.on \subseteq {"LIGHTING", "LIGHT0", "DEPTH_TEST", "NORMALIZE"}
  /\ SameColours(g, GLInitial) /\ SameFunctions(g, GLInitial) /\ SameMatrices(g, GLInitial)
  /\ g.drawn = <<>>

LEMMA BeganLoaded ==
  \A g, h : Began(g) /\ Loaded(g, h) => Began(h)
BY DEF Began, Loaded, SameColours, SameFunctions, SameMatrices

LEMMA LoadsSky ==
  ASSUME NEW g, NEW h, Began(g), h = Run(g, SkyBoxLoad)
  PROVE  Began(h) /\ IsList(SkyBoxLoad)
<1> DEFINE ss == [i \in DOMAIN skybox_fn |-> LoadTexture(skybox_fn[i], 0)]
           N == Len(ss)
<1>1. IsList(ss) /\ N = 6 /\ \A i \in 1 .. 6 : ss[i] = LoadTexture(skybox_fn[i], 0)
  BY DEF skybox_fn, IsList
<1>2. \A i \in 1 .. N : IsList(ss[i])
  <2>1. \A k, f, u : k = Run(g, LoadTexture(f, u)) => IsList(LoadTexture(f, u))
    BY Loads DEF Began
  <2>2. \A f, u : IsList(LoadTexture(f, u))
    BY <2>1
  <2>3. \A i \in 1 .. N : i \in 1 .. 6
    BY <1>1
  <2> HIDE DEF ss, N
  <2> QED BY <1>1, <2>2, <2>3
<1>3. SkyBoxLoad = FlattenSeq(ss)
  BY DEF SkyBoxLoad
<1>4. PICK a : /\ a[0] = g /\ \A n \in 1 .. N : a[n] = Run(a[n - 1], ss[n])
               /\ h = a[N] /\ IsList(FlattenSeq(ss))
  <2>1. IsList(ss) /\ (\A i \in 1 .. N : IsList(ss[i])) /\ h = Run(g, FlattenSeq(ss))
    BY <1>1, <1>2, <1>3
  <2> HIDE DEF ss
  <2> QED BY <2>1, RunFlatten
<1>5. \A n \in 1 .. 6 : a[n] = Run(a[n - 1], LoadTexture(skybox_fn[n], 0))
  BY <1>1, <1>4
<1>6. h = a[6] /\ IsList(SkyBoxLoad)
  BY <1>1, <1>3, <1>4
<1> HIDE DEF ss, N
<1> DEFINE J == {n \in 0 .. 6 : Began(a[n])}
<1>7. 0 \in J
  BY <1>4
<1>8. ASSUME NEW n \in 1 .. 6, n - 1 \in J PROVE n \in J
  <2>1. Began(a[n - 1])
    BY <1>8
  <2>2. Loaded(a[n - 1], a[n])
    BY <1>5, <2>1, Loads DEF Began
  <2> QED BY <2>1, <2>2, BeganLoaded
<1>9. 6 \in J
  <2>1. 6 \in 0 .. 6 /\ 6 \in Nat
    OBVIOUS
  <2> HIDE DEF J
  <2> QED BY <1>7, <1>8, <2>1, Climb
<1> QED BY <1>6, <1>9

LEMMA LoadsModel ==
  ASSUME NEW g, NEW h, Began(g), h = Run(g, LoadModel)
  PROVE  Began(h)
<1> DEFINE s == LoadModel
           a == TraceOf(g, s)
<1>1. IsList(s) /\ Len(s) = 6
  BY DEF IsList, LoadModel
<1>2. Trace(g, s, a) /\ h = a[6]
  <2>1. h = Run(g, s)
    OBVIOUS
  <2> HIDE DEF s
  <2> QED BY <1>1, <2>1, Traced
<1> HIDE DEF a
<1>3. /\ a[1] = Exec(g, Disable("TEXTURE_2D")) /\ a[2] = Exec(a[1], Disable("BLEND"))
      /\ a[3] = Exec(a[2], Enable("LIGHTING")) /\ a[4] = Exec(a[3], Enable("LIGHT0"))
      /\ a[5] = Exec(a[4], Enable("DEPTH_TEST")) /\ a[6] = Exec(a[5], Enable("NORMALIZE"))
  BY <1>1, <1>2 DEF Trace, LoadModel
<1>4. {"TEXTURE_2D", "BLEND", "LIGHTING", "LIGHT0", "DEPTH_TEST", "NORMALIZE"} \subseteq Capability
  BY DEF Capability
<1>5. /\ Disabled(g, a[1], "TEXTURE_2D") /\ Disabled(a[1], a[2], "BLEND")
      /\ Enabled(a[2], a[3], "LIGHTING") /\ Context(a[3])
  BY <1>3, <1>4, DoesEnable, DoesDisable DEF Began
<1>6. /\ Enabled(a[3], a[4], "LIGHT0") /\ Enabled(a[4], a[5], "DEPTH_TEST")
      /\ Enabled(a[5], a[6], "NORMALIZE") /\ Context(a[6])
  BY <1>3, <1>4, <1>5, DoesEnable
<1>7. /\ Context(a[6]) /\ SameColours(a[6], g) /\ SameFunctions(a[6], g)
      /\ SameMatrices(a[6], g) /\ a[6].drawn = g.drawn
  BY <1>5, <1>6 DEF Enabled, Disabled, SameColours, SameFunctions, SameMatrices
<1>8. a[6].on \subseteq g.on \cup {"LIGHTING", "LIGHT0", "DEPTH_TEST", "NORMALIZE"}
  BY <1>5, <1>6 DEF Enabled, Disabled
<1> QED BY <1>2, <1>7, <1>8 DEF Began, SameColours, SameFunctions, SameMatrices

LEMMA LoadsModels ==
  ASSUME NEW g, NEW h, Began(g), h = Run(g, loadModels)
  PROVE  Began(h) /\ IsList(loadModels)
<1> DEFINE Load(f) == IF f \in MissingFile THEN <<>> ELSE LoadModel
           ss == [i \in DOMAIN strModelMap |-> Load(strModelMap[i])]
           N == Len(ss)
<1>1. IsList(ss) /\ N = 2 /\ \A i \in 1 .. 2 : ss[i] = Load(strModelMap[i])
  BY DEF strModelMap, IsList
<1>2. \A f : IsList(Load(f))
  <2>1. IsList(LoadModel) /\ IsList(<<>>)
    BY DEF IsList, LoadModel
  <2> QED BY <2>1
<1>3. loadModels = FlattenSeq(ss)
  BY DEF loadModels
<1>4. PICK a : /\ a[0] = g /\ \A n \in 1 .. N : a[n] = Run(a[n - 1], ss[n])
               /\ h = a[N] /\ IsList(FlattenSeq(ss))
  <2>1. \A i \in 1 .. N : IsList(ss[i])
    BY <1>1, <1>2
  <2> HIDE DEF ss, Load
  <2> QED BY <1>1, <1>3, <2>1, RunFlatten
<1>5. \A n \in 1 .. 2 : a[n] = Run(a[n - 1], Load(strModelMap[n]))
  BY <1>1, <1>4
<1>6. h = a[2] /\ IsList(loadModels)
  BY <1>1, <1>3, <1>4
<1> HIDE DEF ss, N
<1>7. \A p, q, f : Began(p) /\ q = Run(p, Load(f)) => Began(q)
  BY LoadsModel, EmptyRun
<1>8. Began(a[1]) /\ Began(a[2])
  <2>1. a[1] = Run(a[0], Load(strModelMap[1])) /\ a[2] = Run(a[1], Load(strModelMap[2]))
    BY <1>5
  <2> HIDE DEF Load
  <2> QED BY <1>4, <1>7, <2>1
<1> QED BY <1>6, <1>8

LEMMA Initially == Context(GLInitial) /\ Began(GLInitial)
<1>1. IsList(<<<<>>>>) /\ Len(<<<<>>>>) = 1 /\ IsList(<<>>)
  BY DEF IsList
<1>2. GLInitial =
        [on |-> GLInitial.on, color |-> GLInitial.color, diffuse |-> GLInitial.diffuse,
         fill |-> GLInitial.fill, blend |-> GLInitial.blend, alpha |-> GLInitial.alpha,
         texture |-> GLInitial.texture, mode |-> GLInitial.mode, stack |-> GLInitial.stack,
         drawn |-> GLInitial.drawn]
  BY DEF GLInitial
<1>3. /\ GLInitial.on = {} /\ GLInitial.mode = "MODELVIEW" /\ GLInitial.drawn = <<>>
      /\ GLInitial.stack = [MODELVIEW |-> <<<<>>>>, PROJECTION |-> <<<<>>>>]
  BY DEF GLInitial
<1>4. Context(GLInitial)
  <2>1. IsStack(GLInitial.stack.MODELVIEW) /\ IsStack(GLInitial.stack.PROJECTION)
    BY <1>1, <1>3 DEF IsStack
  <2> QED BY <1>1, <1>2, <1>3, <2>1 DEF Context, Tracking
<1> QED BY <1>3, <1>4 DEF Began, SameColours, SameFunctions, SameMatrices

LEMMA BeganIdle ==
  ASSUME NEW g, Began(g)
  PROVE  Idle(g) /\ PanelPic(g.drawn) /\ Nothing(g)
<1>1. GLInitial.mode = "MODELVIEW" /\ GLInitial.stack = [MODELVIEW |-> <<<<>>>>, PROJECTION |-> <<<<>>>>]
  BY DEF GLInitial
<1>2. Single(g.stack.MODELVIEW) /\ Single(g.stack.PROJECTION) /\ g.mode = "MODELVIEW"
  BY <1>1 DEF Began, SameMatrices, Single
<1>3. Quiet(g)
  BY DEF Began, Quiet
<1>4. Len(g.drawn) = 0 /\ 1 .. 0 = {}
  BY DEF Began
<1>5. \A i, of : {j \in 1 .. 0 : Shows(g.drawn[j].part, i, of)} = {}
  BY <1>4
<1> QED BY <1>2, <1>3, <1>4, <1>5, FS_EmptySet DEF Idle, Began, PanelPic, Fine, PanelOnTop, Nothing, Count

(* initGame, up to the first frame.                                        *)
LEMMA GameBegins ==
  ASSUME NEW h, h = Run(GLInitial, Initialize \o NewPanel \o loadModels \o NewPlayer(localPlayerID))
  PROVE  Began(h)
<1> DEFINE s1 == LoadTexture("grass", 0)
           s2 == SkyBoxLoad
           s3 == NewRadarMap("horizontal")
           s4 == NewRadarMap("vertical")
           s5 == SetText(TRUE)
           s6 == loadModels
           s7 == NewPlayer(localPlayerID)
           a1 == Run(GLInitial, s1)
           a2 == Run(a1, s2)
           a3 == Run(a2, s3)
           a4 == Run(a3, s4)
           a5 == Run(a4, s5)
           a6 == Run(a5, s6)
           a7 == Run(a6, s7)
<1>1. Initialize \o NewPanel \o loadModels \o NewPlayer(localPlayerID)
        = (((s1 \o s2) \o ((s3 \o s4) \o s5)) \o s6) \o s7
  BY DEF Initialize, NewPanel
<1>2. Began(a1) /\ IsList(s1)
  <2>1. Loaded(GLInitial, a1) /\ IsList(s1)
    BY Initially, Loads
  <2> HIDE DEF s1
  <2> QED BY <2>1, Initially, BeganLoaded
<1>3. Began(a2) /\ IsList(s2)
  <2> HIDE DEF a1
  <2> QED BY <1>2, LoadsSky
<1>4. Began(a3) /\ IsList(s3)
  <2> HIDE DEF a2
  <2>1. Loaded(a2, a3) /\ IsList(s3)
    BY <1>3, Loads DEF Began, NewRadarMap
  <2> HIDE DEF a3
  <2> QED BY <1>3, <2>1, BeganLoaded
<1>5. Began(a4) /\ IsList(s4)
  <2> HIDE DEF a3
  <2>1. Loaded(a3, a4) /\ IsList(s4)
    BY <1>4, Loads DEF Began, NewRadarMap
  <2> HIDE DEF a4
  <2> QED BY <1>4, <2>1, BeganLoaded
<1>6. Began(a5) /\ IsList(s5)
  <2> HIDE DEF a4
  <2>1. Loaded(a4, a5) /\ IsList(s5)
    BY <1>5, SetsText DEF Began, Loaded
  <2> HIDE DEF a5
  <2> QED BY <1>5, <2>1, BeganLoaded
<1>7. Began(a6) /\ IsList(s6)
  <2> HIDE DEF a5
  <2> QED BY <1>6, LoadsModels
<1>8. Began(a7) /\ IsList(s7)
  <2> HIDE DEF a6
  <2>1. Loaded(a6, a7) /\ IsList(s7)
    BY <1>7, Loads DEF Began, NewPlayer, NewFlame
  <2> HIDE DEF a7
  <2> QED BY <1>7, <2>1, BeganLoaded
<1>9. h = a7
  <2>1. h = Run(GLInitial, (((s1 \o s2) \o ((s3 \o s4) \o s5)) \o s6) \o s7)
    BY <1>1
  <2> DEFINE g == GLInitial
  <2> HIDE DEF s1, s2, s3, s4, s5, s6, s7, g
  <2>2. IsList(s1 \o s2) /\ IsList(s3 \o s4)
    BY <1>2, <1>3, <1>4, <1>5, Concatenated
  <2>3. IsList((s3 \o s4) \o s5)
    BY <1>6, <2>2, Concatenated
  <2>4. IsList((s1 \o s2) \o ((s3 \o s4) \o s5))
    BY <2>2, <2>3, Concatenated
  <2>5. IsList(((s1 \o s2) \o ((s3 \o s4) \o s5)) \o s6)
    BY <1>7, <2>4, Concatenated
  <2>6. Run(g, s1 \o s2) = a2
    BY <1>2, <1>3, RunConcat DEF g
  <2>7. Run(a2, (s3 \o s4) \o s5) = a5
    BY <1>4, <1>5, <1>6, <2>2, RunConcat
  <2>8. Run(g, (s1 \o s2) \o ((s3 \o s4) \o s5)) = a5
    BY <2>2, <2>3, <2>6, <2>7, RunConcat
  <2>9. Run(g, ((s1 \o s2) \o ((s3 \o s4) \o s5)) \o s6) = a6
    BY <1>7, <2>4, <2>8, RunConcat
  <2>10. h = Run(g, (((s1 \o s2) \o ((s3 \o s4) \o s5)) \o s6) \o s7)
    BY <2>1 DEF g
  <2> QED BY <1>8, <2>5, <2>9, <2>10, RunConcat
<1> QED BY <1>8, <1>9

-----------------------------------------------------------------------------
(* The main loop                                                           *)

(* The engine's and the panel's list have the same objects, each once.     *)
ListsMatch ==
  /\ Distinct(objList) /\ renderList = objList
  /\ \A id : id \in objects <=> \E j \in 1 .. Len(objList) : objList[j] = id

(* Between two frames each radar has marked what was shown.                *)
BothShown(g) ==
  \A i : \A radar \in {"vertical", "horizontal"} :
    Count(g.drawn, i, radar) = Count(g.drawn, i, "flame")
Between == Idle(gl) /\ PanelPic(gl.drawn) /\ BothShown(gl)

(* Within a frame the first objects of the list are drawn, once each, and  *)
(* renobj is the rest.                                                     *)
ShownUpTo(g, list, n) ==
  \A i : /\ Count(g.drawn, i, "flame") = IF \E j \in 1 .. n : list[j] = i THEN 1 ELSE 0
         /\ \A radar \in {"vertical", "horizontal"} : Count(g.drawn, i, radar) = 0
RestOf(rest, list, n) ==
  /\ n \in 0 .. Len(list) /\ Len(rest) = Len(list) - n
  /\ \A i \in 1 .. Len(rest) : rest[i] = list[n + i]
Within ==
  /\ Ready(gl)
  /\ \E n \in Nat : RestOf(renobj, renderList, n) /\ ShownUpTo(gl, renderList, n)

FrameInv ==
  /\ TypeOK /\ ListsMatch
  /\ phase # "objects" => Between
  /\ phase = "objects" => Within

LEMMA Prepended ==
  ASSUME NEW list, IsList(list), NEW id, NEW new, new = AddObject(list, id)
  PROVE  /\ IsList(new) /\ Len(new) = Len(list) + 1 /\ new[1] = id
         /\ \A j \in 1 .. Len(list) : new[1 + j] = list[j]
<1> DEFINE s == <<id>>
<1>1. IsList(s) /\ Len(s) = 1 /\ s[1] = id
  BY DEF IsList
<1>2. new = s \o list
  BY DEF AddObject
<1> HIDE DEF s
<1> DEFINE M == Len(s)
<1>3. /\ IsList(s \o list) /\ Len(s \o list) = M + Len(list)
      /\ \A i \in 1 .. M : (s \o list)[i] = s[i]
      /\ \A i \in 1 .. Len(list) : (s \o list)[M + i] = list[i]
  <2>1. IsList(s) /\ IsList(list)
    BY <1>1
  <2> QED BY <2>1, Concatenated
<1>4. Len(list) \in Nat /\ M = 1 /\ 1 \in 1 .. 1
  BY <1>1 DEF IsList
<1> HIDE DEF M
<1> QED BY <1>1, <1>2, <1>3, <1>4

LEMMA PrependedDistinct ==
  ASSUME NEW list, Distinct(list), NEW id, ~\E j \in 1 .. Len(list) : list[j] = id,
         NEW new, new = AddObject(list, id)
  PROVE  /\ Distinct(new)
         /\ \A i : (\E j \in 1 .. Len(new) : new[j] = i) <=> (\E j \in 1 .. Len(list) : list[j] = i) \/ i = id
<1> DEFINE N == Len(list)
<1>1. /\ IsList(new) /\ Len(new) = N + 1 /\ new[1] = id /\ N \in Nat
      /\ \A j \in 1 .. N : new[1 + j] = list[j]
  BY Prepended DEF Distinct, IsList
<1>2. \A j \in 1 .. N + 1 : j = 1 \/ (j - 1 \in 1 .. N /\ new[j] = list[j - 1])
  <2> SUFFICES ASSUME NEW j \in 1 .. N + 1, j # 1 PROVE j - 1 \in 1 .. N /\ new[j] = list[j - 1]
    OBVIOUS
  <2>1. j - 1 \in 1 .. N /\ 1 + (j - 1) = j
    BY <1>1
  <2> QED BY <1>1, <2>1
<1>3. \A j \in 1 .. N : 1 + j \in 1 .. N + 1 /\ 1 \in 1 .. N + 1
  BY <1>1
<1>4. 1 \in 1 .. N + 1
  BY <1>1
<1>5. \A i, j \in 1 .. N + 1 : new[i] = new[j] => i = j
  <2> SUFFICES ASSUME NEW i \in 1 .. N + 1, NEW j \in 1 .. N + 1, new[i] = new[j] PROVE i = j
    OBVIOUS
  <2>1. CASE i = 1 /\ j = 1
    BY <2>1
  <2>2. CASE i = 1 /\ j # 1
    BY <1>1, <1>2, <2>2
  <2>3. CASE i # 1 /\ j = 1
    BY <1>1, <1>2, <2>3
  <2>4. CASE i # 1 /\ j # 1
    <3>1. i - 1 \in 1 .. N /\ j - 1 \in 1 .. N /\ list[i - 1] = list[j - 1]
      BY <1>2, <2>4
    <3>2. i - 1 = j - 1
      BY <3>1 DEF Distinct
    <3> QED BY <1>1, <3>2
  <2> QED BY <2>1, <2>2, <2>3, <2>4
<1>6. Distinct(new)
  BY <1>1, <1>5 DEF Distinct
<1>7. ASSUME NEW i
      PROVE  (\E j \in 1 .. N + 1 : new[j] = i) <=> (\E j \in 1 .. N : list[j] = i) \/ i = id
  <2>1. ASSUME NEW j \in 1 .. N + 1, new[j] = i
        PROVE  (\E k \in 1 .. N : list[k] = i) \/ i = id
    BY <1>1, <1>2, <2>1
  <2>2. ASSUME NEW j \in 1 .. N, list[j] = i PROVE \E k \in 1 .. N + 1 : new[k] = i
    <3>1. new[1 + j] = i /\ 1 + j \in 1 .. N + 1
      BY <1>1, <1>3, <2>2
    <3> QED BY <3>1
  <2>3. i = id => \E k \in 1 .. N + 1 : new[k] = i
    BY <1>1, <1>4
  <2> QED BY <2>1, <2>2, <2>3
<1> QED BY <1>1, <1>6, <1>7

LEMMA InitFrame == Init => FrameInv
<1> SUFFICES ASSUME Init PROVE FrameInv
  OBVIOUS
<1>1. Began(gl)
  <2>1. gl = Run(GLInitial, Initialize \o NewPanel \o loadModels \o NewPlayer(localPlayerID))
    BY DEF Init
  <2> QED BY <2>1, GameBegins
<1>2. Between
  BY <1>1, BeganIdle DEF Between, BothShown, Nothing, Counted
<1>3. TypeOK
  <2>1. gl.on \subseteq Capability
    BY <1>1 DEF Began, Context
  <2>2. mesh \in [Mesh -> MeshKind]
    BY RendererAssumption DEF Init
  <2>3. localPlayerID \in ObjectID
    BY RendererAssumption DEF ObjectID
  <2>4. 0 \in 0 .. FpsInterval - 1
    BY RendererAssumption
  <2>5. renderList \in Seq(ObjectID) /\ objList \in Seq(ObjectID) /\ renobj \in Seq(ObjectID)
    <3>1. <<localPlayerID>> \in Seq(ObjectID) /\ <<>> \in Seq(ObjectID)
      BY <2>3
    <3> QED BY <3>1 DEF Init
  <2>6. objects \subseteq ObjectID /\ phase = "events" /\ renderCount = 0 /\ frame = 0
    BY <2>3 DEF Init
  <2> QED BY <2>1, <2>2, <2>4, <2>5, <2>6 DEF TypeOK
<1>4. ListsMatch
  <2> DEFINE s == <<localPlayerID>>
  <2>1. IsList(s) /\ Len(s) = 1 /\ s[1] = localPlayerID
    BY DEF IsList
  <2>2. objList = s /\ renderList = s /\ objects = {localPlayerID}
    BY DEF Init
  <2> HIDE DEF s
  <2>3. \A j : j \in 1 .. 1 <=> j = 1
    OBVIOUS
  <2>4. Distinct(s)
    BY <2>1, <2>3 DEF Distinct
  <2>5. \A id : id \in {localPlayerID} <=> \E j \in 1 .. Len(s) : s[j] = id
    <3> DEFINE N == Len(s)
    <3>1. N = 1 /\ s[1] = localPlayerID
      BY <2>1
    <3> HIDE DEF N
    <3>2. \A id : id = localPlayerID => 1 \in 1 .. N /\ s[1] = id
      BY <3>1
    <3>3. \A id : \A j \in 1 .. N : s[j] = id => id = localPlayerID
      BY <2>3, <3>1
    <3> QED BY <3>2, <3>3 DEF N
  <2> QED BY <2>2, <2>4, <2>5 DEF ListsMatch
<1>5. phase = "events"
  BY DEF Init
<1> QED BY <1>2, <1>3, <1>4, <1>5 DEF FrameInv

LEMMA KnowsMeshes == TypeOK => KnownMeshes
BY DEF TypeOK, KnownMeshes

(* An object that an update adds.                                          *)
LEMMA UpdateKeepsFrame ==
  ASSUME FrameInv, NEW id \in ObjectID, UpdateObject(id)
  PROVE  FrameInv'
<1>1. phase = "events" /\ id \notin objects /\ Between /\ TypeOK /\ ListsMatch
  BY DEF UpdateObject, IsNew, FrameInv
<1>2. UNCHANGED <<renobj, renderCount, frame, mesh, looks>>
  BY DEF UpdateObject
<1>3. CASE /\ phase' = "aborted"
           /\ UNCHANGED <<gl, listVars>>
  <2>1. TypeOK'
    BY <1>1, <1>2, <1>3 DEF TypeOK, listVars
  <2>2. ListsMatch' /\ Between'
    BY <1>1, <1>3 DEF ListsMatch, Between, BothShown, listVars
  <2> QED BY <1>3, <2>1, <2>2 DEF FrameInv
<1>4. CASE NewObject(id, NewFlame(id)) /\ UNCHANGED phase
  <2>1. Loaded(gl, gl')
    <3>1. gl' = Run(gl, LoadTexture("flame", id)) /\ Context(gl)
      BY <1>1, <1>4 DEF NewObject, NewFlame, Between, Idle
    <3> QED BY <3>1, Loads
  <2>2. Between'
    BY <1>1, <2>1 DEF Between, Loaded, Idle, Quiet, SameMatrices, BothShown
  <2>3. ListsMatch'
    <3>1. Distinct(objList) /\ ~\E j \in 1 .. Len(objList) : objList[j] = id
      BY <1>1 DEF ListsMatch
    <3>2. objList' = AddObject(objList, id) /\ renderList' = objList' /\ objects' = objects \cup {id}
      BY <1>1, <1>4 DEF NewObject, ListsMatch
    <3>3. /\ Distinct(objList')
          /\ \A i : (\E j \in 1 .. Len(objList') : objList'[j] = i)
                      <=> (\E j \in 1 .. Len(objList) : objList[j] = i) \/ i = id
      <4> DEFINE list == objList
                 new == objList'
      <4>1. Distinct(list) /\ (~\E j \in 1 .. Len(list) : list[j] = id) /\ new = AddObject(list, id)
        BY <3>1, <3>2
      <4> HIDE DEF list, new
      <4>2. /\ Distinct(new)
            /\ \A i : (\E j \in 1 .. Len(new) : new[j] = i)
                        <=> (\E j \in 1 .. Len(list) : list[j] = i) \/ i = id
        BY <4>1, PrependedDistinct
      <4> QED BY <4>2 DEF list, new
    <3> QED BY <1>1, <3>2, <3>3 DEF ListsMatch
  <2>4. TypeOK'
    <3>1. gl'.on \subseteq Capability /\ objects' \subseteq ObjectID
      BY <1>1, <1>4, <2>1 DEF Loaded, Context, NewObject, TypeOK
    <3>2. renderList' \in Seq(ObjectID) /\ objList' \in Seq(ObjectID)
      <4>1. <<id>> \in Seq(ObjectID)
        OBVIOUS
      <4>2. \A s \in Seq(ObjectID) : AddObject(s, id) \in Seq(ObjectID)
        BY <4>1 DEF AddObject
      <4> QED BY <1>1, <1>4, <4>2 DEF NewObject, TypeOK
    <3> QED BY <1>1, <1>2, <1>4, <3>1, <3>2 DEF TypeOK
  <2> QED BY <1>1, <1>4, <2>2, <2>3, <2>4 DEF FrameInv
<1> QED BY <1>3, <1>4 DEF UpdateObject, NewPlayer, NewMissile

LEMMA BeginKeepsFrame ==
  ASSUME FrameInv, BeginFrame
  PROVE  FrameInv'
<1>1. /\ TypeOK /\ ListsMatch /\ Between /\ phase' = "objects" /\ renobj' = renderList
      /\ UNCHANGED <<listVars, renderCount, mesh, looks>>
  BY DEF FrameInv, BeginFrame
<1>2. Ready(gl') /\ Nothing(gl')
  <2>1. gl' = Run([gl EXCEPT !.drawn = <<>>],
                  SetView \o CameraUpdate \o DepthOn \o SkyBoxRender \o RenderFog \o TerrainRender)
    BY DEF BeginFrame
  <2>2. gl' = Run(Cleared(gl), FrameCallsAll)
    BY <2>1 DEF Cleared, FrameCallsAll, FrameStart
  <2>3. Idle(gl)
    BY <1>1 DEF Between
  <2> QED BY <2>2, <2>3, FrameDraws
<1>3. RestOf(renobj', renderList', 0) /\ ShownUpTo(gl', renderList', 0)
  <2>1. renobj' = renderList' /\ Len(renderList') \in Nat
    BY <1>1 DEF listVars, ListsMatch, Distinct, IsList
  <2>2. 1 .. 0 = {} /\ \A i \in 1 .. Len(renderList') : 0 + i = i
    BY <2>1
  <2>3. RestOf(renobj', renderList', 0)
    BY <2>1, <2>2 DEF RestOf
  <2>4. ShownUpTo(gl', renderList', 0)
    BY <1>2, <2>2 DEF ShownUpTo, Nothing, Counted
  <2> QED BY <2>3, <2>4
<1>4. Within'
  BY <1>2, <1>3 DEF Within
<1>5. TypeOK'
  <2>1. gl'.on \subseteq Capability
    BY <1>2 DEF Ready, InCamera, Context
  <2>2. frame' \in 0 .. 2
    BY <1>1 DEF BeginFrame, TypeOK
  <2> QED BY <1>1, <2>1, <2>2 DEF TypeOK, listVars
<1>6. ListsMatch'
  BY <1>1 DEF ListsMatch, listVars
<1> QED BY <1>1, <1>4, <1>5, <1>6 DEF FrameInv

LEMMA ObjectKeepsFrame ==
  ASSUME FrameInv, RenderObject
  PROVE  FrameInv'
<1> DEFINE id == Head(renobj)
<1>1. /\ TypeOK /\ ListsMatch /\ Within /\ phase = "objects" /\ renobj # <<>>
      /\ gl' = Run(gl, ObjectRender(id)) /\ renobj' = Tail(renobj)
      /\ UNCHANGED <<listVars, phase, renderCount, frame, mesh, looks>>
  BY DEF FrameInv, RenderObject
<1>2. PICK n \in Nat : RestOf(renobj, renderList, n) /\ ShownUpTo(gl, renderList, n)
  BY <1>1 DEF Within
<1>3. /\ renobj \in Seq(ObjectID) /\ Len(renobj) \in Nat \ {0} /\ id = renobj[1]
      /\ renobj' \in Seq(ObjectID) /\ Len(renobj') = Len(renobj) - 1
      /\ \A i \in 1 .. Len(renobj) - 1 : renobj'[i] = renobj[i + 1]
  BY <1>1 DEF TypeOK
<1>4. Ready(gl') /\ ShowsOnce(gl', gl, id)
  <2>1. Ready(gl) /\ KnownMeshes
    BY <1>1, KnowsMeshes DEF Within
  <2> HIDE DEF id
  <2> QED BY <1>1, <2>1, ObjectDraws
<1>5. /\ n \in 0 .. Len(renderList) /\ Len(renobj) = Len(renderList) - n /\ Len(renderList) \in Nat
      /\ \A i \in 1 .. Len(renobj) : renobj[i] = renderList[n + i]
  BY <1>1, <1>2 DEF RestOf, ListsMatch, Distinct, IsList
<1>6. n + 1 \in 1 .. Len(renderList) /\ id = renderList[n + 1]
  <2>1. 1 \in 1 .. Len(renobj)
    BY <1>3
  <2> QED BY <1>3, <1>5, <2>1
<1> HIDE DEF id
<1>7. RestOf(renobj', renderList, n + 1)
  <2>1. n + 1 \in 0 .. Len(renderList) /\ Len(renobj') = Len(renderList) - (n + 1)
    BY <1>3, <1>5, <1>6
  <2>2. ASSUME NEW i \in 1 .. Len(renobj') PROVE renobj'[i] = renderList[n + 1 + i]
    <3>1. i \in 1 .. Len(renobj) - 1 /\ i + 1 \in 1 .. Len(renobj) /\ n + (i + 1) = n + 1 + i
      BY <1>3
    <3> QED BY <1>3, <1>5, <3>1
  <2> QED BY <2>1, <2>2 DEF RestOf
<1>8. ShownUpTo(gl', renderList, n + 1)
  <2> SUFFICES ASSUME NEW i
               PROVE  /\ Count(gl'.drawn, i, "flame") =
                           IF \E j \in 1 .. n + 1 : renderList[j] = i THEN 1 ELSE 0
                      /\ \A radar \in {"vertical", "horizontal"} : Count(gl'.drawn, i, radar) = 0
    BY DEF ShownUpTo
  <2>1. \A radar \in {"vertical", "horizontal"} : Count(gl'.drawn, i, radar) = 0
    BY <1>2, <1>4 DEF ShownUpTo, ShowsOnce, Counted
  <2> DEFINE before == \E j \in 1 .. n : renderList[j] = i
             upto == \E j \in 1 .. n + 1 : renderList[j] = i
  <2>2. Count(gl.drawn, i, "flame") = IF before THEN 1 ELSE 0
    BY <1>2 DEF ShownUpTo
  <2>3. Count(gl'.drawn, i, "flame") = Count(gl.drawn, i, "flame") + (IF i = id THEN 1 ELSE 0)
    BY <1>4 DEF ShowsOnce, Counted
  <2>4. upto <=> before \/ i = id
    <3>1. \A j : j \in 1 .. n + 1 <=> j \in 1 .. n \/ j = n + 1
      OBVIOUS
    <3> QED BY <1>6, <3>1
  <2>5. i = id => ~before
    <3>1. \A j \in 1 .. n : j \in 1 .. Len(renderList) /\ j # n + 1
      BY <1>5
    <3>2. \A j \in 1 .. Len(renderList) : renderList[j] = renderList[n + 1] => j = n + 1
      BY <1>1, <1>6 DEF ListsMatch, Distinct
    <3> QED BY <1>6, <3>1, <3>2
  <2> HIDE DEF before, upto
  <2>6. Count(gl'.drawn, i, "flame") = IF upto THEN 1 ELSE 0
    BY <2>2, <2>3, <2>4, <2>5
  <2> QED BY <2>1, <2>6 DEF upto
<1>9. Within'
  <2>1. renderList' = renderList /\ n + 1 \in Nat
    BY <1>1 DEF listVars
  <2> QED BY <1>4, <1>7, <1>8, <2>1 DEF Within
<1>10. TypeOK'
  <2>1. gl'.on \subseteq Capability
    BY <1>4 DEF Ready, InCamera, Context
  <2> QED BY <1>1, <1>3, <2>1 DEF TypeOK, listVars
<1>11. ListsMatch'
  BY <1>1 DEF ListsMatch, listVars
<1> QED BY <1>1, <1>9, <1>10, <1>11 DEF FrameInv

LEMMA PanelKeepsFrame ==
  ASSUME FrameInv, RenderPanel
  PROVE  FrameInv'
<1>1. /\ TypeOK /\ ListsMatch /\ Within /\ phase = "objects" /\ renobj = <<>> /\ phase' = "events"
      /\ renderCount' = NextCount(renderCount) /\ UNCHANGED <<listVars, renobj, frame, mesh>>
  BY DEF FrameInv, RenderPanel
<1>2. PICK new : gl' = Run(gl, SetText(new) \o PanelRender)
  BY DEF RenderPanel
<1>3. PICK n \in Nat : RestOf(renobj, renderList, n) /\ ShownUpTo(gl, renderList, n)
  BY <1>1 DEF Within
<1>4. n = Len(renderList)
  <2>1. Len(renobj) = 0 /\ Len(renderList) \in Nat
    BY <1>1 DEF ListsMatch, Distinct, IsList
  <2> QED BY <1>3, <2>1 DEF RestOf
<1>5. Idle(gl') /\ PanelPic(gl'.drawn) /\ MarkedOnBoth(gl, gl')
  BY <1>1, <1>2, PanelDraws DEF ListsMatch, Within
<1>6. BothShown(gl')
  <2> SUFFICES ASSUME NEW i, NEW radar \in {"vertical", "horizontal"}
               PROVE  Count(gl'.drawn, i, radar) = Count(gl'.drawn, i, "flame")
    BY DEF BothShown
  <2> DEFINE listed == \E j \in 1 .. Len(objList) : objList[j] = i
  <2>1. Count(gl.drawn, i, "flame") = (IF listed THEN 1 ELSE 0) /\ Count(gl.drawn, i, radar) = 0
    BY <1>1, <1>3, <1>4 DEF ShownUpTo, ListsMatch
  <2>2. /\ Count(gl'.drawn, i, radar) = Count(gl.drawn, i, radar) + (IF listed THEN 1 ELSE 0)
        /\ Count(gl'.drawn, i, "flame") = Count(gl.drawn, i, "flame") + 0
    BY <1>5 DEF MarkedOnBoth, Counted
  <2> HIDE DEF listed
  <2> QED BY <2>1, <2>2
<1>7. Between'
  BY <1>5, <1>6 DEF Between
<1>8. TypeOK'
  <2>1. gl'.on \subseteq Capability
    BY <1>5 DEF Idle, Context
  <2>2. renderCount' \in 0 .. FpsInterval - 1
    BY <1>1, RendererAssumption DEF TypeOK, NextCount
  <2> QED BY <1>1, <2>1, <2>2 DEF TypeOK, listVars
<1>9. ListsMatch'
  BY <1>1 DEF ListsMatch, listVars
<1> QED BY <1>1, <1>7, <1>8, <1>9 DEF FrameInv

LEMMA StutterKeepsFrame == FrameInv /\ UNCHANGED vars => FrameInv'
BY DEF FrameInv, TypeOK, ListsMatch, Between, Within, BothShown, vars, engineVars, listVars

LEMMA FrameInvariant == Spec => []FrameInv
<1>1. FrameInv /\ [Next]_vars => FrameInv'
  <2> SUFFICES ASSUME FrameInv, [Next]_vars PROVE FrameInv'
    OBVIOUS
  <2>1. CASE \E id \in ObjectID : UpdateObject(id)
    BY <2>1, UpdateKeepsFrame
  <2>2. CASE BeginFrame
    BY <2>2, BeginKeepsFrame
  <2>3. CASE RenderObject
    BY <2>3, ObjectKeepsFrame
  <2>4. CASE RenderPanel
    BY <2>4, PanelKeepsFrame
  <2>5. CASE Aborted
    BY <2>5, StutterKeepsFrame DEF Aborted
  <2>6. CASE UNCHANGED vars
    BY <2>6, StutterKeepsFrame
  <2> QED BY <2>1, <2>2, <2>3, <2>4, <2>5, <2>6 DEF Next
<1> QED BY <1>1, InitFrame, PTL DEF Spec

(* At all times the picture so far is good, and the panel is its end.      *)
LEMMA PictureIsGood ==
  FrameInv => /\ Context(gl) /\ PanelPic(gl.drawn) /\ DOMAIN gl.drawn = 1 .. Len(gl.drawn)
              /\ ToSet(gl.drawn) = {gl.drawn[i] : i \in 1 .. Len(gl.drawn)}
<1> SUFFICES ASSUME FrameInv
             PROVE  /\ Context(gl) /\ PanelPic(gl.drawn) /\ DOMAIN gl.drawn = 1 .. Len(gl.drawn)
                    /\ ToSet(gl.drawn) = {gl.drawn[i] : i \in 1 .. Len(gl.drawn)}
  OBVIOUS
<1>1. Context(gl) /\ PanelPic(gl.drawn)
  BY WorldPanel DEF FrameInv, Between, Within, Idle, Ready, InCamera
<1>2. DOMAIN gl.drawn = 1 .. Len(gl.drawn)
  BY <1>1 DEF Context, IsList
<1> QED BY <1>1, <1>2 DEF ToSet

(* The client's lists, its loop and its counters keep their types.         *)
THEOREM RendererTypeCorrect == Spec => []TypeOK
<1>1. FrameInv => TypeOK
  BY DEF FrameInv
<1> QED BY <1>1, FrameInvariant, PTL

(* Whatever was bound last, by a load or by what was drawn before, every   *)
(* part is drawn with the texture loaded for it, or with none if it has    *)
(* none (SkyBox, Terrain, ThrusterFlame, RadarMap, TextObject).            *)
THEOREM EveryPartHasItsTexture == Spec => []OwnTexture
<1>1. FrameInv => OwnTexture
  BY PictureIsGood DEF PanelPic, Fine, Good, OwnTexture
<1> QED BY <1>1, FrameInvariant, PTL

(* "This should be the last element as we disable depth buffer": the world *)
(* is drawn with the depth test except for the flames of aircraft, and the *)
(* panel is drawn last and without (RenderingEngine::render, Panel::render).*)
THEOREM DepthTestIsAsMeant == Spec => []DepthTested
<1>1. FrameInv => DepthTested
  <2> SUFFICES ASSUME FrameInv PROVE DepthTested
    OBVIOUS
  <2>1. /\ Fine(gl.drawn) /\ PanelOnTop(gl.drawn) /\ DOMAIN gl.drawn = 1 .. Len(gl.drawn)
    BY PictureIsGood DEF PanelPic
  <2>2. \A i \in 1 .. Len(gl.drawn) :
          "DEPTH_TEST" \in gl.drawn[i].on <=>
             ~OfPanel(gl.drawn[i].part) /\ ~(gl.drawn[i].part.of = "flame" /\ gl.drawn[i].part.obj \in PlayerID)
    BY <2>1 DEF Fine, Good, WithDepth
  <2>3. \A i, j \in 1 .. Len(gl.drawn) :
          OfPanel(gl.drawn[i].part) /\ j > i => OfPanel(gl.drawn[j].part)
    BY <2>1 DEF PanelOnTop
  <2> QED BY <2>1, <2>2, <2>3 DEF DepthTested
<1> QED BY <1>1, FrameInvariant, PTL

(* The pushes and pops of the sky, the terrain, every object and the panel *)
(* match: each part is drawn at its own object's place as seen from the    *)
(* camera, the panel's in its own view, and none is left on a stack when   *)
(* the frame is done (Player::render, Missile::render, Panel::render).     *)
THEOREM EveryPartIsInItsPlace == Spec => []InItsPlace
<1>1. FrameInv => InItsPlace
  <2> SUFFICES ASSUME FrameInv PROVE InItsPlace
    OBVIOUS
  <2>1. \A d \in ToSet(gl.drawn) :
          /\ d.view = PlaceOf(d.part)
          /\ d.proj = IF OfPanel(d.part) THEN <<<<"ortho">>>> ELSE <<<<"perspective">>>>
    BY PictureIsGood DEF PanelPic, Fine, Good, ProjOf
  <2>2. phase = "events" => \A m \in DOMAIN gl.stack : Len(gl.stack[m]) = 1
    BY DEF FrameInv, Between, Idle, Single, Context
  <2> QED BY <2>1, <2>2 DEF InItsPlace
<1> QED BY <1>1, FrameInvariant, PTL

(* At the end of a frame each object that the client has been told of is   *)
(* drawn exactly once, and each of the two radars has marked the same ones *)
(* as often: the engine's list and the panel's, which are filled apart     *)
(* (Game::updateObject), never differ.                                     *)
THEOREM EveryObjectIsShownOnce == Spec => []EachShownOnce
<1>1. FrameInv => EachShownOnce
  <2> SUFFICES ASSUME FrameInv PROVE EachShownOnce
    OBVIOUS
  <2>1. \A id, of : Times(id, of) = Count(gl.drawn, id, of)
    BY PictureIsGood DEF Times, Count, Shows
  <2>2. ASSUME phase = "objects", renobj = <<>>, NEW id \in objects PROVE Times(id, "flame") = 1
    <3>1. PICK n \in Nat : RestOf(renobj, renderList, n) /\ ShownUpTo(gl, renderList, n)
      BY <2>2 DEF FrameInv, Within
    <3>2. Len(renobj) = 0 /\ Len(renderList) \in Nat /\ renderList = objList
      BY <2>2 DEF FrameInv, ListsMatch, Distinct, IsList
    <3>3. n = Len(renderList)
      BY <3>1, <3>2 DEF RestOf
    <3>4. \E j \in 1 .. n : renderList[j] = id
      BY <3>2, <3>3 DEF FrameInv, ListsMatch
    <3> QED BY <2>1, <3>1, <3>4 DEF ShownUpTo
  <2>3. ASSUME phase = "events", NEW id \in objects, NEW radar \in {"vertical", "horizontal"}
        PROVE  Times(id, radar) = Times(id, "flame")
    BY <2>1, <2>3 DEF FrameInv, Between, BothShown
  <2> QED BY <2>2, <2>3 DEF EachShownOnce
<1> QED BY <1>1, FrameInvariant, PTL

-----------------------------------------------------------------------------
(* The lights of the model, and how its parts look: two runs of its calls, *)
(* side by side                                                            *)

IsModel(d) == d.part.of = "model"
FillOf(m)  == IF mesh[m].wireframe THEN "line" ELSE "fill"

(* Of the first n parts of a picture, m is the last mesh of an aircraft;   *)
(* if there is none, m is the mesh that the model draws last.              *)
LastIs(pic, n, m) ==
  \/ m = LastMesh /\ \A j \in 1 .. n : ~IsModel(pic[j])
  \/ \E j \in 1 .. n : /\ IsModel(pic[j]) /\ pic[j].part.name = m
                       /\ \A i \in j + 1 .. n : ~IsModel(pic[i])
ColorsLast(pic, n) == \E m : LastIs(pic, n, m) /\ mesh[m].colors

ModelLit(pic, i) ==
  LET d == pic[i]
      m == d.part.name
  IN  IsModel(d) =>
        /\ m \in Mesh /\ ("LIGHTING" \in d.on <=> mesh[m].normals)
        /\ mesh[m].normals /\ mesh[m].colors => d.rgb = <<"vertex", m>>
        /\ mesh[m].normals /\ ~mesh[m].colors =>
             d.rgb = <<"material", m>> \/ ColorsLast(pic, i - 1)
PicLit(pic) == \A i \in 1 .. Len(pic) : ModelLit(pic, i)
Lit(g) ==
  /\ PicLit(g.drawn)
  /\ Tracking(g) => ColorsLast(g.drawn, Len(g.drawn))

(* A part more, of an aircraft or of something else.                       *)
LEMMA LastAppended ==
  ASSUME NEW pic, NEW d, IsList(pic)
  PROVE  /\ \A n \in 0 .. Len(pic) : ColorsLast(Append(pic, d), n) <=> ColorsLast(pic, n)
         /\ ~IsModel(d) /\ ColorsLast(pic, Len(pic)) => ColorsLast(Append(pic, d), Len(pic) + 1)
         /\ IsModel(d) /\ mesh[d.part.name].colors => ColorsLast(Append(pic, d), Len(pic) + 1)
<1> DEFINE N == Len(pic)
           p == Append(pic, d)
<1>1. N \in Nat /\ p[N + 1] = d /\ \A i \in 1 .. N : p[i] = pic[i]
  BY ListAppend DEF IsList
<1> HIDE DEF N, p
<1>2. ASSUME NEW n \in 0 .. N, NEW m PROVE LastIs(p, n, m) <=> LastIs(pic, n, m)
  <2>1. \A i \in 1 .. n : p[i] = pic[i]
    BY <1>1
  <2>2. \A j \in 1 .. n : \A i \in j + 1 .. n : p[i] = pic[i]
    BY <1>1
  <2> QED BY <2>1, <2>2 DEF LastIs
<1>3. ASSUME ~IsModel(d), NEW m, LastIs(pic, N, m) PROVE LastIs(p, N + 1, m)
  <2>1. CASE m = LastMesh /\ \A j \in 1 .. N : ~IsModel(pic[j])
    <3>1. \A j \in 1 .. N + 1 : j \in 1 .. N \/ j = N + 1
      BY <1>1
    <3>2. \A j \in 1 .. N + 1 : ~IsModel(p[j])
      BY <1>1, <1>3, <2>1, <3>1
    <3> QED BY <2>1, <3>2 DEF LastIs
  <2>2. CASE \E j \in 1 .. N : /\ IsModel(pic[j]) /\ pic[j].part.name = m
                               /\ \A i \in j + 1 .. N : ~IsModel(pic[i])
    <3>1. PICK j \in 1 .. N : /\ IsModel(pic[j]) /\ pic[j].part.name = m
                              /\ \A i \in j + 1 .. N : ~IsModel(pic[i])
      BY <2>2
    <3>2. \A i \in j + 1 .. N + 1 : (i \in j + 1 .. N /\ i \in 1 .. N) \/ i = N + 1
      BY <1>1
    <3>3. \A i \in j + 1 .. N + 1 : ~IsModel(p[i])
      BY <1>1, <1>3, <3>1, <3>2
    <3>4. j \in 1 .. N + 1 /\ IsModel(p[j]) /\ p[j].part.name = m
      BY <1>1, <3>1
    <3> QED BY <3>3, <3>4 DEF LastIs
  <2> QED BY <1>3, <2>1, <2>2 DEF LastIs
<1>4. ASSUME IsModel(d) PROVE LastIs(p, N + 1, d.part.name)
  <2>1. N + 1 \in 1 .. N + 1 /\ \A i \in N + 1 + 1 .. N + 1 : FALSE
    BY <1>1
  <2> QED BY <1>1, <1>4, <2>1 DEF LastIs
<1>5. \A n \in 0 .. N : ColorsLast(p, n) <=> ColorsLast(pic, n)
  BY <1>2 DEF ColorsLast
<1>6. ~IsModel(d) /\ ColorsLast(pic, N) => ColorsLast(p, N + 1)
  BY <1>3 DEF ColorsLast
<1>7. IsModel(d) /\ mesh[d.part.name].colors => ColorsLast(p, N + 1)
  BY <1>4 DEF ColorsLast
<1> QED BY <1>5, <1>6, <1>7 DEF N, p

(* A part more is lit as meant if it is not of an aircraft, or if it is a  *)
(* mesh in the right colours.                                              *)
LEMMA LitAppended ==
  ASSUME NEW g, NEW h, NEW d, Lit(g), IsList(g.drawn), h.drawn = Append(g.drawn, d),
         Tracking(h) => ColorsLast(h.drawn, Len(h.drawn)),
         IsModel(d) =>
           /\ d.part.name \in Mesh /\ ("LIGHTING" \in d.on <=> mesh[d.part.name].normals)
           /\ mesh[d.part.name].normals /\ mesh[d.part.name].colors =>
                d.rgb = <<"vertex", d.part.name>>
           /\ mesh[d.part.name].normals /\ ~mesh[d.part.name].colors =>
                d.rgb = <<"material", d.part.name>> \/ ColorsLast(g.drawn, Len(g.drawn))
  PROVE  Lit(h)
<1> DEFINE pic == g.drawn
           p == h.drawn
           N == Len(pic)
<1>1. N \in Nat /\ Len(p) = N + 1 /\ p[N + 1] = d /\ \A i \in 1 .. N : p[i] = pic[i]
  BY ListAppend DEF IsList
<1>2. \A n \in 0 .. N : ColorsLast(p, n) <=> ColorsLast(pic, n)
  BY LastAppended
<1> HIDE DEF pic, p, N
<1>3. ASSUME NEW i \in 1 .. N PROVE ModelLit(p, i)
  <2>1. ModelLit(pic, i) /\ p[i] = pic[i] /\ (ColorsLast(p, i - 1) <=> ColorsLast(pic, i - 1))
    <3>1. i - 1 \in 0 .. N
      BY <1>1
    <3>2. ModelLit(pic, i)
      BY DEF Lit, PicLit, pic, N
    <3> QED BY <1>1, <1>2, <3>1, <3>2
  <2> QED BY <2>1 DEF ModelLit
<1>4. ModelLit(p, N + 1)
  <2>1. N \in 0 .. N /\ N + 1 - 1 = N
    BY <1>1
  <2>2. ColorsLast(pic, N) => ColorsLast(p, N + 1 - 1)
    BY <1>2, <2>1
  <2> QED BY <1>1, <2>2 DEF ModelLit, pic, N
<1>5. \A i \in 1 .. Len(p) : ModelLit(p, i)
  <2>1. \A i \in 1 .. Len(p) : i \in 1 .. N \/ i = N + 1
    BY <1>1
  <2> QED BY <1>3, <1>4, <2>1
<1> QED BY <1>5 DEF Lit, PicLit, p

(* A mesh.                                                                 *)
LEMMA MeshLit ==
  ASSUME NEW g, NEW h, NEW id, NEW m \in Mesh, KnownMeshes, Context(g), Lit(g),
         h = Run(g, RenderMesh(id, m))
  PROVE  Lit(h)
<1> DEFINE d == Look(h, Part(id, "model", m))
<1>1. mesh[m] \in MeshKind
  BY DEF KnownMeshes
<1>2. AfterMesh(g, h, m) /\ h.drawn = Append(g.drawn, d) /\ IsList(g.drawn)
  BY <1>1, MeshCalls DEF Context
<1>3. /\ mesh[m].normals \in BOOLEAN /\ mesh[m].colors \in BOOLEAN
      /\ d.part.name = m /\ IsModel(d)
      /\ d.on = h.on \ ({"COLOR_MATERIAL"} \cup IF "LIGHTING" \in h.on THEN {} ELSE {"LIGHT0", "NORMALIZE"})
      /\ d.rgb = IF "LIGHTING" \in h.on THEN h.diffuse ELSE h.color.rgb
  BY <1>1 DEF Look, Part, IsModel, MeshKind
<1> HIDE DEF d
<1>4. /\ "LIGHTING" \in h.on <=> mesh[m].normals
      /\ Tracking(h) <=> mesh[m].colors
      /\ h.diffuse = IF mesh[m].colors THEN <<"vertex", m>>
                     ELSE IF Tracking(g) THEN g.diffuse ELSE <<"material", m>>
  BY <1>2, <1>3 DEF AfterMesh, Tracking
<1>5. Tracking(h) => ColorsLast(h.drawn, Len(h.drawn))
  <2>1. Len(h.drawn) = Len(g.drawn) + 1
    BY <1>2, ListAppend
  <2> QED BY <1>2, <1>3, <1>4, <2>1, LastAppended
<1>6. "LIGHTING" \in d.on <=> mesh[m].normals
  BY <1>3, <1>4
<1>7. mesh[m].normals /\ mesh[m].colors => d.rgb = <<"vertex", m>>
  BY <1>3, <1>4
<1>8. mesh[m].normals /\ ~mesh[m].colors =>
        d.rgb = <<"material", m>> \/ ColorsLast(g.drawn, Len(g.drawn))
  BY <1>3, <1>4 DEF Lit
<1> QED BY <1>2, <1>3, <1>5, <1>6, <1>7, <1>8, LitAppended

SameLook(d, e) ==
  /\ d.on = e.on /\ d.rgb = e.rgb /\ d.a = e.a
  /\ d.blend = e.blend /\ d.alpha = e.alpha /\ d.fill = e.fill

(* A run that began in b and is in g: it has drawn meshes of X, each at    *)
(* most once, and the last of them has decided how it goes on.             *)
Since(b, g, X) ==
  LET n == Len(b.drawn)
      N == Len(g.drawn)
  IN  /\ IsList(b.drawn) /\ Context(g) /\ n <= N /\ \A i \in 1 .. n : g.drawn[i] = b.drawn[i]
      /\ \A i \in n + 1 .. N : IsModel(g.drawn[i]) /\ g.drawn[i].part.name \in X
      /\ \A i, j \in n + 1 .. N : g.drawn[i].part.name = g.drawn[j].part.name => i = j
      /\ N = n => (Tracking(g) <=> Tracking(b)) /\ g.fill = b.fill
      /\ N > n => /\ Tracking(g) <=> mesh[g.drawn[N].part.name].colors
                  /\ g.fill = FillOf(g.drawn[N].part.name)
      /\ Lit(b) => Lit(g)

(* What of the state shows in a mesh that is drawn next.                   *)
Alike(g, h) ==
  /\ g.on = h.on /\ g.color.rgb = h.color.rgb
  /\ g.on \cap {"TEXTURE_2D", "BLEND", "ALPHA_TEST"} = {}

(* Two runs, from b and from the empty picture of c, have drawn the same   *)
(* meshes, and these look the same if the states that they began in do.    *)
Twin(alike, b, c, g, h, X) ==
  /\ Since(b, g, X) /\ Since(c, h, X) /\ c.drawn = <<>>
  /\ Len(g.drawn) = Len(b.drawn) + Len(h.drawn)
  /\ \A k \in 1 .. Len(h.drawn) :
       /\ g.drawn[Len(b.drawn) + k].part.name = h.drawn[k].part.name
       /\ alike => SameLook(g.drawn[Len(b.drawn) + k], h.drawn[k])
  /\ alike => Alike(g, h)

(* What is not in a picture and not in the state of its lights does not    *)
(* matter.                                                                 *)
LEMMA SinceStays ==
  ASSUME NEW b, NEW g, NEW X, Since(b, g, X), NEW k, Context(k), SamePicture(k, g)
  PROVE  Since(b, k, X)
<1>1. k.drawn = g.drawn /\ k.fill = g.fill /\ (Tracking(k) <=> Tracking(g))
  BY DEF SamePicture, SameFunctions, Tracking
<1>2. Lit(g) <=> Lit(k)
  BY <1>1 DEF Lit
<1> QED BY <1>1, <1>2 DEF Since

LEMMA TwinStays ==
  ASSUME NEW alike, NEW b, NEW c, NEW g, NEW h, NEW X, Twin(alike, b, c, g, h, X),
         NEW p, Context(p), SamePicture(p, g), NEW q, Context(q), SamePicture(q, h)
  PROVE  Twin(alike, b, c, p, q, X)
<1>1. Since(b, p, X) /\ Since(c, q, X)
  BY SinceStays DEF Twin
<1>2. /\ p.drawn = g.drawn /\ p.on = g.on /\ p.color = g.color
      /\ q.drawn = h.drawn /\ q.on = h.on /\ q.color = h.color
  BY DEF SamePicture, SameColours
<1> QED BY <1>1, <1>2 DEF Twin, Alike

LEMMA TwinMore ==
  ASSUME NEW alike, NEW b, NEW c, NEW g, NEW h, NEW X, Twin(alike, b, c, g, h, X),
         NEW Y, X \subseteq Y
  PROVE  Twin(alike, b, c, g, h, Y)
<1>1. Since(b, g, Y) /\ Since(c, h, Y)
  BY DEF Twin, Since
<1> QED BY <1>1 DEF Twin

(* One mesh more.                                                          *)
LEMMA SinceMesh ==
  ASSUME NEW b, NEW g, NEW X, Since(b, g, X), NEW id, NEW m \in Mesh, m \notin X, KnownMeshes,
         NEW k, k = Run(g, RenderMesh(id, m))
  PROVE  Since(b, k, X \cup {m})
<1> DEFINE n == Len(b.drawn)
           N == Len(g.drawn)
           d == Look(k, Part(id, "model", m))
<1>1. mesh[m] \in MeshKind /\ Context(g) /\ IsList(g.drawn) /\ IsList(b.drawn)
  BY DEF KnownMeshes, Since, Context
<1>2. AfterMesh(g, k, m) /\ k.drawn = Append(g.drawn, d)
  BY <1>1, MeshCalls
<1>3. d.part.name = m /\ IsModel(d)
  BY DEF Look, Part, IsModel
<1> HIDE DEF d
<1>4. /\ n \in Nat /\ N \in Nat /\ n <= N /\ Len(k.drawn) = N + 1
      /\ k.drawn[N + 1] = d /\ \A i \in 1 .. N : k.drawn[i] = g.drawn[i]
  BY <1>1, <1>2, ListAppend DEF Since, IsList
<1>5. Context(k) /\ (Tracking(k) <=> mesh[m].colors) /\ k.fill = FillOf(m)
  <2>1. mesh[m].colors \in BOOLEAN
    BY <1>1 DEF MeshKind
  <2> QED BY <1>2, <2>1 DEF AfterMesh, Tracking, FillOf
<1>6. Lit(b) => Lit(k)
  BY <1>1, MeshLit DEF Since
<1>7. \A i \in n + 1 .. N + 1 : (i \in 1 .. N /\ i \in n + 1 .. N) \/ i = N + 1
  BY <1>4
<1>8. \A i \in 1 .. n : i \in 1 .. N
  BY <1>4
<1>9. \A i \in 1 .. n : k.drawn[i] = b.drawn[i]
  BY <1>4, <1>8 DEF Since
<1>10. \A i \in n + 1 .. N : IsModel(g.drawn[i]) /\ g.drawn[i].part.name \in X /\ k.drawn[i] = g.drawn[i]
  BY <1>4, <1>7 DEF Since
<1>11. \A i \in n + 1 .. N + 1 : IsModel(k.drawn[i]) /\ k.drawn[i].part.name \in X \cup {m}
  BY <1>3, <1>4, <1>7, <1>10
<1>12. ASSUME NEW i \in n + 1 .. N + 1, NEW j \in n + 1 .. N + 1,
              k.drawn[i].part.name = k.drawn[j].part.name
       PROVE  i = j
  <2>1. CASE i = N + 1
    BY <1>3, <1>4, <1>7, <1>10, <1>12, <2>1
  <2>2. CASE j = N + 1
    BY <1>3, <1>4, <1>7, <1>10, <1>12, <2>2
  <2>3. CASE i # N + 1 /\ j # N + 1
    <3>1. i \in n + 1 .. N /\ j \in n + 1 .. N
      BY <1>7, <2>3
    <3>2. g.drawn[i].part.name = g.drawn[j].part.name
      BY <1>10, <1>12, <3>1
    <3> QED BY <3>1, <3>2 DEF Since
  <2> QED BY <2>1, <2>2, <2>3
<1>13. N + 1 # n /\ n <= N + 1
  BY <1>4
<1> QED BY <1>1, <1>3, <1>4, <1>5, <1>6, <1>9, <1>11, <1>12, <1>13 DEF Since

LEMMA TwinMesh ==
  ASSUME NEW alike, NEW b, NEW c, NEW g, NEW h, NEW X, Twin(alike, b, c, g, h, X),
         NEW id, NEW jd, NEW m \in Mesh, m \notin X, KnownMeshes,
         NEW p, p = Run(g, RenderMesh(id, m)), NEW q, q = Run(h, RenderMesh(jd, m))
  PROVE  Twin(alike, b, c, p, q, X \cup {m})
<1> DEFINE n == Len(b.drawn)
           N == Len(g.drawn)
           K == Len(h.drawn)
           d == Look(p, Part(id, "model", m))
           e == Look(q, Part(jd, "model", m))
<1>1. /\ mesh[m] \in MeshKind /\ Context(g) /\ Context(h)
      /\ IsList(g.drawn) /\ IsList(h.drawn) /\ IsList(b.drawn)
  BY DEF KnownMeshes, Twin, Since, Context
<1>2. /\ AfterMesh(g, p, m) /\ p.drawn = Append(g.drawn, d)
      /\ AfterMesh(h, q, m) /\ q.drawn = Append(h.drawn, e)
  BY <1>1, MeshCalls
<1>3. Since(b, p, X \cup {m}) /\ Since(c, q, X \cup {m})
  BY SinceMesh DEF Twin
<1>4. d.part.name = m /\ e.part.name = m
  BY DEF Look, Part
<1>5. ASSUME alike PROVE Alike(p, q) /\ SameLook(d, e)
  <2>1. Alike(g, h)
    BY <1>5 DEF Twin
  <2>2. p.on = q.on /\ p.on \cap {"TEXTURE_2D", "BLEND", "ALPHA_TEST"} = {}
    BY <1>2, <2>1 DEF AfterMesh, Alike
  <2>3. p.color.rgb = q.color.rgb /\ p.fill = q.fill
    BY <1>2, <2>1 DEF AfterMesh, Alike
  <2>4. p.diffuse = q.diffuse
    <3>1. Tracking(g) <=> Tracking(h)
      BY <2>1 DEF Alike, Tracking
    <3>2. Tracking(g) => g.diffuse = h.diffuse
      BY <1>1, <2>1, <3>1 DEF Alike, Context
    <3> QED BY <1>2, <3>1, <3>2 DEF AfterMesh
  <2>5. d.on = e.on
    BY <2>2 DEF Look
  <2>6. d.rgb = e.rgb /\ d.fill = e.fill
    BY <2>2, <2>3, <2>4 DEF Look
  <2>7. d.a = e.a /\ d.blend = e.blend /\ d.alpha = e.alpha
    <3>1. "BLEND" \notin p.on /\ "ALPHA_TEST" \notin p.on /\ p.on \cap {"BLEND", "ALPHA_TEST"} = {}
      BY <2>2
    <3> QED BY <2>2, <3>1 DEF Look
  <2> QED BY <2>2, <2>3, <2>5, <2>6, <2>7 DEF Alike, SameLook
<1> HIDE DEF d, e
<1>6. /\ n \in Nat /\ N \in Nat /\ K \in Nat /\ N = n + K
      /\ Len(p.drawn) = N + 1 /\ p.drawn[N + 1] = d /\ \A i \in 1 .. N : p.drawn[i] = g.drawn[i]
      /\ Len(q.drawn) = K + 1 /\ q.drawn[K + 1] = e /\ \A i \in 1 .. K : q.drawn[i] = h.drawn[i]
  <2>1. n \in Nat /\ N \in Nat /\ K \in Nat
    BY <1>1 DEF IsList
  <2>2. N = n + K
    BY DEF Twin
  <2>3. Len(p.drawn) = N + 1 /\ p.drawn[N + 1] = d /\ \A i \in 1 .. N : p.drawn[i] = g.drawn[i]
    BY <1>1, <1>2, ListAppend
  <2>4. Len(q.drawn) = K + 1 /\ q.drawn[K + 1] = e /\ \A i \in 1 .. K : q.drawn[i] = h.drawn[i]
    BY <1>1, <1>2, ListAppend
  <2> QED BY <2>1, <2>2, <2>3, <2>4
<1>7. ASSUME NEW i \in 1 .. K + 1
      PROVE  /\ p.drawn[n + i].part.name = q.drawn[i].part.name
             /\ alike => SameLook(p.drawn[n + i], q.drawn[i])
  <2> HIDE DEF n, N
  <2>1. CASE i = K + 1
    <3>1. n + i = N + 1
      BY <1>6, <2>1
    <3> QED BY <1>4, <1>5, <1>6, <2>1, <3>1
  <2>2. CASE i \in 1 .. K
    <3>1. n + i \in 1 .. N
      BY <1>6, <2>2
    <3>2. p.drawn[n + i] = g.drawn[n + i] /\ q.drawn[i] = h.drawn[i]
      BY <1>6, <2>2, <3>1
    <3> QED BY <2>2, <3>2 DEF Twin, n
  <2> HIDE DEF K
  <2>3. i = K + 1 \/ i \in 1 .. K
    BY <1>6
  <2> QED BY <2>1, <2>2, <2>3
<1>8. Len(p.drawn) = n + Len(q.drawn) /\ c.drawn = <<>>
  <2>1. Len(p.drawn) = n + Len(q.drawn)
    <3> HIDE DEF n, N, K
    <3> QED BY <1>6
  <2> QED BY <2>1 DEF Twin
<1> QED BY <1>3, <1>5, <1>6, <1>7, <1>8 DEF Twin

(* Two sequences of calls that draw the same meshes, those of Y.           *)
Adds(s, t, Y) ==
  /\ IsList(s) /\ IsList(t)
  /\ \A alike \in BOOLEAN : \A b, c, g, h, X :
       Twin(alike, b, c, g, h, X) /\ X \cap Y = {} =>
         Twin(alike, b, c, Run(g, s), Run(h, t), X \cup Y)

LEMMA AddsMore ==
  ASSUME NEW s, NEW t, NEW Y, Adds(s, t, Y), NEW Z, Y \subseteq Z
  PROVE  Adds(s, t, Z)
<1>1. ASSUME NEW alike \in BOOLEAN, NEW b, NEW c, NEW g, NEW h, NEW X,
             Twin(alike, b, c, g, h, X), X \cap Z = {}
      PROVE  Twin(alike, b, c, Run(g, s), Run(h, t), X \cup Z)
  <2>1. Twin(alike, b, c, Run(g, s), Run(h, t), X \cup Y)
    BY <1>1 DEF Adds
  <2>2. X \cup Y \subseteq X \cup Z
    OBVIOUS
  <2> QED BY <2>1, <2>2, TwinMore
<1> QED BY <1>1 DEF Adds

LEMMA AddsConcat ==
  ASSUME NEW s, NEW t, NEW Y, Adds(s, t, Y), NEW u, NEW v, NEW Z, Adds(u, v, Z), Y \cap Z = {}
  PROVE  Adds(s \o u, t \o v, Y \cup Z)
<1>1. IsList(s) /\ IsList(t) /\ IsList(u) /\ IsList(v)
  BY DEF Adds
<1>2. ASSUME NEW alike \in BOOLEAN, NEW b, NEW c, NEW g, NEW h, NEW X,
             Twin(alike, b, c, g, h, X), X \cap (Y \cup Z) = {}
      PROVE  Twin(alike, b, c, Run(g, s \o u), Run(h, t \o v), X \cup (Y \cup Z))
  <2>1. Run(g, s \o u) = Run(Run(g, s), u) /\ Run(h, t \o v) = Run(Run(h, t), v)
    BY <1>1, RunConcat
  <2>2. Twin(alike, b, c, Run(g, s), Run(h, t), X \cup Y)
    <3>1. X \cap Y = {}
      BY <1>2
    <3> QED BY <1>2, <3>1 DEF Adds
  <2>3. Twin(alike, b, c, Run(Run(g, s), u), Run(Run(h, t), v), (X \cup Y) \cup Z)
    <3>1. (X \cup Y) \cap Z = {}
      BY <1>2
    <3> QED BY <2>2, <3>1 DEF Adds
  <2>4. (X \cup Y) \cup Z = X \cup (Y \cup Z)
    OBVIOUS
  <2> QED BY <2>1, <2>3, <2>4
<1>3. IsList(s \o u) /\ IsList(t \o v)
  BY <1>1, Concatenated
<1> QED BY <1>2, <1>3 DEF Adds

(* Many, each with meshes of its own.                                      *)
LEMMA AddsFlat ==
  ASSUME NEW ss, NEW tt, NEW N \in Nat, IsList(ss), IsList(tt), Len(ss) = N, Len(tt) = N,
         NEW Y, \A i \in 1 .. N : Adds(ss[i], tt[i], Y[i]),
         \A i, j \in 1 .. N : i # j => Y[i] \cap Y[j] = {}
  PROVE  Adds(FlattenSeq(ss), FlattenSeq(tt), UNION {Y[i] : i \in 1 .. N})
<1> DEFINE Up(n) == UNION {Y[i] : i \in 1 .. n}
<1>1. /\ \A i \in 1 .. Len(ss) : IsList(ss[i])
      /\ \A i \in 1 .. Len(tt) : IsList(tt[i])
  BY DEF Adds
<1>2. IsList(FlattenSeq(ss)) /\ IsList(FlattenSeq(tt))
  BY <1>1, RunFlatten
<1>3. Up(0) = {}
  OBVIOUS
<1>4. ASSUME NEW n \in 1 .. N PROVE Up(n) = Up(n - 1) \cup Y[n] /\ Up(n - 1) \cap Y[n] = {}
  <2>1. \A i : i \in 1 .. n <=> i \in 1 .. n - 1 \/ i = n
    OBVIOUS
  <2>2. \A i \in 1 .. n - 1 : i \in 1 .. N /\ i # n
    OBVIOUS
  <2>3. Up(n) = Up(n - 1) \cup Y[n]
    BY <2>1
  <2>4. ASSUME NEW x, x \in Up(n - 1), x \in Y[n] PROVE FALSE
    <3>1. PICK i \in 1 .. n - 1 : x \in Y[i]
      BY <2>4
    <3>2. i \in 1 .. N /\ i # n
      BY <2>2
    <3>3. Y[i] \cap Y[n] = {}
      BY <3>2
    <3> QED BY <2>4, <3>1, <3>3
  <2> QED BY <2>3, <2>4
<1> HIDE DEF Up
<1>5. ASSUME NEW alike \in BOOLEAN, NEW b, NEW c, NEW g, NEW h, NEW X,
             Twin(alike, b, c, g, h, X), X \cap Up(N) = {}
      PROVE  Twin(alike, b, c, Run(g, FlattenSeq(ss)), Run(h, FlattenSeq(tt)), X \cup Up(N))
  <2>1. PICK p : /\ p[0] = g /\ \A n \in 1 .. N : p[n] = Run(p[n - 1], ss[n])
                 /\ Run(g, FlattenSeq(ss)) = p[N]
    BY <1>1, RunFlatten
  <2>2. PICK q : /\ q[0] = h /\ \A n \in 1 .. N : q[n] = Run(q[n - 1], tt[n])
                 /\ Run(h, FlattenSeq(tt)) = q[N]
    BY <1>1, RunFlatten
  <2>3. \A n \in 1 .. N : X \cap Y[n] = {}
    <3>1. \A n \in 1 .. N : Y[n] \subseteq Up(N)
      BY DEF Up
    <3> QED BY <1>5, <3>1
  <2> DEFINE J == {n \in 0 .. N : Twin(alike, b, c, p[n], q[n], X \cup Up(n))}
  <2>4. 0 \in J
    <3>1. X \cup Up(0) = X /\ 0 \in 0 .. N
      BY <1>3
    <3> QED BY <1>5, <2>1, <2>2, <3>1
  <2>5. ASSUME NEW n \in 1 .. N, n - 1 \in J PROVE n \in J
    <3>1. Twin(alike, b, c, p[n - 1], q[n - 1], X \cup Up(n - 1))
      BY <2>5
    <3>2. (X \cup Up(n - 1)) \cap Y[n] = {} /\ (X \cup Up(n - 1)) \cup Y[n] = X \cup Up(n)
      BY <1>4, <2>3
    <3>3. Twin(alike, b, c, Run(p[n - 1], ss[n]), Run(q[n - 1], tt[n]), (X \cup Up(n - 1)) \cup Y[n])
      BY <3>1, <3>2 DEF Adds
    <3>4. n \in 0 .. N
      OBVIOUS
    <3> QED BY <2>1, <2>2, <3>2, <3>3, <3>4
  <2>6. N \in J
    <3>1. N \in 0 .. N
      OBVIOUS
    <3> HIDE DEF J
    <3> QED BY <2>4, <2>5, <3>1, Climb
  <2> QED BY <2>1, <2>2, <2>6
<1> QED BY <1>2, <1>5 DEF Adds, Up

(* A mesh, of whichever aircraft.                                          *)
LEMMA AddsMesh ==
  ASSUME NEW id, NEW jd, NEW m \in Mesh, KnownMeshes
  PROVE  Adds(RenderMesh(id, m), RenderMesh(jd, m), {m})
<1>1. ASSUME NEW alike \in BOOLEAN, NEW b, NEW c, NEW g, NEW h, NEW X,
             Twin(alike, b, c, g, h, X), X \cap {m} = {}
      PROVE  Twin(alike, b, c, Run(g, RenderMesh(id, m)), Run(h, RenderMesh(jd, m)), X \cup {m})
  <2>1. m \notin X
    BY <1>1
  <2> QED BY <1>1, <2>1, TwinMesh
<1> QED BY <1>1, MeshCallsAreList DEF Adds

(* Pushing, popping and multiplying a matrix, whatever is on the stack.    *)
LEMMA StackHasTop ==
  ASSUME NEW s, IsStack(s)
  PROVE  \E b, t : IsList(b) /\ s = Append(b, t) /\ Len(b) = Len(s) - 1
<1> DEFINE n == Len(s) - 1
           b == [i \in 1 .. n |-> s[i]]
           t == s[Len(s)]
<1>1. IsList(s) /\ Len(s) \in Nat /\ Len(s) > 0 /\ n \in Nat /\ Len(s) = n + 1
  BY DEF IsStack, IsList
<1> HIDE DEF n
<1>2. IsList(b) /\ Len(b) = n /\ \A i \in 1 .. n : b[i] = s[i]
  BY <1>1 DEF IsList
<1> HIDE DEF b, t
<1>3. /\ IsList(Append(b, t)) /\ Len(Append(b, t)) = n + 1
      /\ Append(b, t)[n + 1] = t /\ \A i \in 1 .. n : Append(b, t)[i] = b[i]
  BY <1>2, ListAppend
<1>4. \A i \in 1 .. Len(s) : i \in 1 .. n \/ i = n + 1
  BY <1>1
<1>5. t = s[n + 1]
  BY <1>1 DEF t
<1>6. \A i \in 1 .. Len(s) : s[i] = Append(b, t)[i]
  BY <1>2, <1>3, <1>4, <1>5
<1>7. s = Append(b, t)
  BY <1>1, <1>3, <1>6, SameList
<1> QED BY <1>2, <1>7 DEF n

IsMatrixCall(c) == c \in {PushMatrix, PopMatrix} \/ \E x : c = MultMatrix(x)

LEMMA DoesMatrix ==
  ASSUME NEW g, Context(g), NEW c, IsMatrixCall(c), NEW h, h = Exec(g, c)
  PROVE  Context(h) /\ SamePicture(h, g)
<1> DEFINE s == g.stack[g.mode]
<1>1. IsStack(s)
  BY DEF Context
<1>2. PICK b, t : IsList(b) /\ s = Append(b, t) /\ Len(b) = Len(s) - 1
  BY <1>1, StackHasTop
<1>3. Last(s) = t /\ Front(s) = b /\ IsList(s)
  BY <1>2, ListAppend
<1>4. CASE c = PushMatrix
  <2>1. h = [g EXCEPT !.stack[g.mode] = Append(s, Last(s))]
    BY <1>4 DEF Exec, PushMatrix, Context
  <2>2. IsStack(Append(s, Last(s)))
    <3> HIDE DEF s
    <3> QED BY <1>3, ListAppend DEF IsStack, IsList
  <2> QED BY <2>1, <2>2, StackReplaced DEF Restacked
<1>5. CASE c = PopMatrix
  <2>1. h = [g EXCEPT !.stack[g.mode] = IF Len(s) > 1 THEN Front(s) ELSE s]
    BY <1>5 DEF Exec, PopMatrix, Context
  <2>2. IsStack(IF Len(s) > 1 THEN Front(s) ELSE s)
    <3> HIDE DEF s
    <3>1. CASE Len(s) > 1
      BY <1>2, <1>3, <3>1 DEF IsStack, IsList
    <3>2. CASE ~(Len(s) > 1)
      BY <1>1, <3>2
    <3> QED BY <3>1, <3>2
  <2> QED BY <2>1, <2>2, StackReplaced DEF Restacked
<1>6. CASE \E x : c = MultMatrix(x)
  <2>1. PICK x : c = MultMatrix(x)
    BY <1>6
  <2>2. h = [g EXCEPT !.stack[g.mode] = Append(Front(s), Append(Last(s), x))]
    BY <2>1 DEF Exec, MultMatrix, Context
  <2>3. IsStack(Append(Front(s), Append(Last(s), x)))
    <3> DEFINE y == Append(Last(s), x)
    <3> HIDE DEF s, y
    <3>1. IsList(Append(b, y)) /\ Len(Append(b, y)) = Len(b) + 1 /\ Len(b) \in Nat
      BY <1>2, ListAppend DEF IsList
    <3>2. IsStack(Append(Front(s), y))
      BY <1>3, <3>1 DEF IsStack
    <3> QED BY <3>2 DEF y
  <2> QED BY <2>2, <2>3, StackReplaced DEF Restacked
<1> QED BY <1>4, <1>5, <1>6 DEF IsMatrixCall

LEMMA AddsMatrix ==
  ASSUME NEW c, IsMatrixCall(c)
  PROVE  Adds(<<c>>, <<c>>, {})
<1> DEFINE s == <<c>>
<1>1. IsList(s) /\ Len(s) = 1 /\ s[1] = c
  BY DEF IsList
<1> HIDE DEF s
<1>2. ASSUME NEW g, Context(g) PROVE Context(Run(g, s)) /\ SamePicture(Run(g, s), g)
  <2> DEFINE a == TraceOf(g, s)
  <2>1. Trace(g, s, a) /\ Run(g, s) = a[1]
    BY <1>1, Traced
  <2> HIDE DEF a
  <2>2. Run(g, s) = Exec(g, c)
    BY <1>1, <2>1 DEF Trace
  <2> QED BY <1>2, <2>2, DoesMatrix
<1>3. ASSUME NEW alike \in BOOLEAN, NEW b, NEW d, NEW g, NEW h, NEW X, Twin(alike, b, d, g, h, X)
      PROVE  Twin(alike, b, d, Run(g, s), Run(h, s), X \cup {})
  <2>1. Context(g) /\ Context(h)
    BY <1>3 DEF Twin, Since
  <2>2. Twin(alike, b, d, Run(g, s), Run(h, s), X)
    BY <1>2, <1>3, <2>1, TwinStays
  <2> QED BY <2>2
<1>4. Adds(s, s, {})
  BY <1>1, <1>3 DEF Adds
<1> QED BY <1>4 DEF s

(* The nodes below nd, itself among them: their paths begin with its path. *)
StartsWith(t, s) == Len(s) <= Len(t) /\ \A k \in 1 .. Len(s) : t[k] = s[k]
Under(nd)        == {x \in Node : StartsWith(PathTo[x], PathTo[nd])}
MeshesUnder(nd)  == UNION {ToSet(meshes[x]) : x \in Under(nd)}

LEMMA MeshOnce ==
  ASSUME NEW p \in Node, NEW q \in Node, NEW m, m \in ToSet(meshes[p]), m \in ToSet(meshes[q])
  PROVE  p = q
<1>1. PICK i \in DOMAIN meshes[p] : meshes[p][i] = m
  BY DEF ToSet
<1>2. PICK j \in DOMAIN meshes[q] : meshes[q][j] = m
  BY DEF ToSet
<1> QED BY <1>1, <1>2, HierarchyAssumption

(* What is below a child is below its parent, but not below another child. *)
LEMMA UnderChild ==
  ASSUME NEW nd \in Node, NEW i \in DOMAIN children[nd]
  PROVE  /\ children[nd][i] \in Node /\ Under(children[nd][i]) \subseteq Under(nd)
         /\ nd \notin Under(children[nd][i])
         /\ \A j \in DOMAIN children[nd] : i # j =>
              Under(children[nd][i]) \cap Under(children[nd][j]) = {}
<1> DEFINE c == children[nd][i]
           path == PathTo[nd]
           n == Len(path)
<1>1. \A j \in DOMAIN children[nd] : children[nd][j] \in Node
  <2>1. children[nd] \in Seq(Node)
    BY RendererAssumption
  <2> QED BY <2>1
<1>2. IsList(path) /\ n \in Nat
  BY PathIs DEF IsList
<1>3. ASSUME NEW j \in DOMAIN children[nd]
      PROVE  /\ Len(PathTo[children[nd][j]]) = n + 1
             /\ PathTo[children[nd][j]][n + 1] = <<"node", children[nd][j]>>
             /\ \A k \in 1 .. n : PathTo[children[nd][j]][k] = path[k]
  <2> DEFINE x == <<"node", children[nd][j]>>
  <2>1. PathTo[children[nd][j]] = Append(path, x)
    BY PathDown
  <2> HIDE DEF x, path
  <2>2. /\ Len(Append(path, x)) = n + 1 /\ Append(path, x)[n + 1] = x
        /\ \A k \in 1 .. n : Append(path, x)[k] = path[k]
    BY <1>2, ListAppend
  <2> QED BY <2>1, <2>2 DEF x
<1> HIDE DEF n, path
<1>4. ASSUME NEW x \in Under(c) PROVE x \in Under(nd)
  <2>1. /\ n + 1 <= Len(PathTo[x]) /\ Len(PathTo[x]) \in Nat
        /\ \A k \in 1 .. n + 1 : PathTo[x][k] = PathTo[c][k]
    BY <1>3, PathIs DEF Under, StartsWith, IsList
  <2>2. n <= Len(PathTo[x]) /\ \A k \in 1 .. n : PathTo[x][k] = path[k]
    BY <1>2, <1>3, <2>1
  <2>3. StartsWith(PathTo[x], path)
    BY <2>2 DEF StartsWith, n
  <2> QED BY <2>3 DEF Under, path
<1>5. nd \notin Under(c)
  BY <1>2, <1>3 DEF Under, StartsWith, n, path
<1>6. ASSUME NEW j \in DOMAIN children[nd], i # j, NEW x, x \in Under(c), x \in Under(children[nd][j])
      PROVE  FALSE
  <2>1. PathTo[x][n + 1] = <<"node", c>> /\ PathTo[x][n + 1] = <<"node", children[nd][j]>>
    <3>1. n + 1 \in 1 .. n + 1
      BY <1>2
    <3> QED BY <1>3, <1>6, <3>1 DEF Under, StartsWith
  <2>2. children[nd][i] = children[nd][j]
    BY <2>1
  <2>3. i = j
    BY <2>2, HierarchyAssumption
  <2> QED BY <1>6, <2>3
<1> QED BY <1>1, <1>4, <1>5, <1>6

LEMMA MeshesUnderChild ==
  ASSUME NEW nd \in Node
  PROVE  /\ ToSet(meshes[nd]) \subseteq MeshesUnder(nd)
         /\ \A i \in DOMAIN children[nd] :
              /\ MeshesUnder(children[nd][i]) \subseteq MeshesUnder(nd)
              /\ ToSet(meshes[nd]) \cap MeshesUnder(children[nd][i]) = {}
              /\ \A j \in DOMAIN children[nd] : i # j =>
                   MeshesUnder(children[nd][i]) \cap MeshesUnder(children[nd][j]) = {}
<1>1. nd \in Under(nd)
  <2>1. Len(PathTo[nd]) \in Nat
    BY PathIs DEF IsList
  <2> QED BY <2>1 DEF Under, StartsWith
<1>2. ToSet(meshes[nd]) \subseteq MeshesUnder(nd)
  BY <1>1 DEF MeshesUnder
<1>3. ASSUME NEW i \in DOMAIN children[nd]
      PROVE  /\ MeshesUnder(children[nd][i]) \subseteq MeshesUnder(nd)
             /\ ToSet(meshes[nd]) \cap MeshesUnder(children[nd][i]) = {}
             /\ \A j \in DOMAIN children[nd] : i # j =>
                  MeshesUnder(children[nd][i]) \cap MeshesUnder(children[nd][j]) = {}
  <2> DEFINE c == children[nd][i]
  <2>1. /\ c \in Node /\ Under(c) \subseteq Under(nd) /\ nd \notin Under(c)
        /\ \A j \in DOMAIN children[nd] : i # j => Under(c) \cap Under(children[nd][j]) = {}
    BY UnderChild
  <2> HIDE DEF c
  <2>2. MeshesUnder(c) \subseteq MeshesUnder(nd)
    BY <2>1 DEF MeshesUnder
  <2>3. ASSUME NEW m, m \in ToSet(meshes[nd]), m \in MeshesUnder(c) PROVE FALSE
    <3>1. PICK x \in Under(c) : m \in ToSet(meshes[x])
      BY <2>3 DEF MeshesUnder
    <3>2. x = nd
      BY <2>3, <3>1, MeshOnce DEF Under
    <3> QED BY <2>1, <3>1, <3>2
  <2>4. ASSUME NEW j \in DOMAIN children[nd], i # j, NEW m, m \in MeshesUnder(c),
               m \in MeshesUnder(children[nd][j])
        PROVE  FALSE
    <3>1. PICK x \in Under(c) : m \in ToSet(meshes[x])
      BY <2>4 DEF MeshesUnder
    <3>2. PICK y \in Under(children[nd][j]) : m \in ToSet(meshes[y])
      BY <2>4 DEF MeshesUnder
    <3>3. x = y
      BY <3>1, <3>2, MeshOnce DEF Under
    <3> QED BY <2>1, <2>4, <3>1, <3>2, <3>3
  <2> QED BY <2>2, <2>3, <2>4 DEF c
<1> QED BY <1>2, <1>3

(* A node: its own meshes, then those of its children.                     *)
LEMMA AddsMeshes ==
  ASSUME NEW id, NEW jd, NEW nd \in Node, KnownMeshes
  PROVE  Adds(FlattenSeq(MeshesOf(id, nd)), FlattenSeq(MeshesOf(jd, nd)), ToSet(meshes[nd]))
<1> DEFINE N == Len(meshes[nd])
           ss == MeshesOf(id, nd)
           tt == MeshesOf(jd, nd)
           Y == [i \in 1 .. N |-> {meshes[nd][i]}]
<1>1. N \in Nat /\ DOMAIN meshes[nd] = 1 .. N /\ \A i \in 1 .. N : meshes[nd][i] \in Mesh
  <2>1. meshes[nd] \in Seq(Mesh)
    BY HierarchyAssumption
  <2> QED BY <2>1
<1>2. /\ IsList(ss) /\ Len(ss) = N /\ \A i \in 1 .. N : ss[i] = RenderMesh(id, meshes[nd][i])
      /\ IsList(tt) /\ Len(tt) = N /\ \A i \in 1 .. N : tt[i] = RenderMesh(jd, meshes[nd][i])
  BY <1>1 DEF MeshesOf, IsList
<1>3. \A i \in 1 .. N : Adds(ss[i], tt[i], Y[i])
  <2> HIDE DEF ss, tt
  <2> QED BY <1>1, <1>2, AddsMesh
<1>4. \A i, j \in 1 .. N : i # j => Y[i] \cap Y[j] = {}
  <2>1. \A i, j \in 1 .. N : meshes[nd][i] = meshes[nd][j] => i = j
    BY <1>1, HierarchyAssumption
  <2> QED BY <2>1
<1>5. UNION {Y[i] : i \in 1 .. N} = ToSet(meshes[nd])
  <2>1. \A i \in 1 .. N : Y[i] = {meshes[nd][i]}
    OBVIOUS
  <2> HIDE DEF Y
  <2>2. \A x : x \in UNION {Y[i] : i \in 1 .. N} <=> \E i \in 1 .. N : x = meshes[nd][i]
    BY <2>1
  <2>3. \A x : x \in ToSet(meshes[nd]) <=> \E i \in 1 .. N : x = meshes[nd][i]
    BY <1>1 DEF ToSet
  <2> QED BY <2>2, <2>3
<1> HIDE DEF N, ss, tt, Y
<1>6. Adds(FlattenSeq(ss), FlattenSeq(tt), UNION {Y[i] : i \in 1 .. N})
  <2>1. N \in Nat /\ IsList(ss) /\ IsList(tt) /\ Len(ss) = N /\ Len(tt) = N
    BY <1>1, <1>2
  <2> QED BY <1>3, <1>4, <2>1, AddsFlat
<1> QED BY <1>5, <1>6 DEF ss, tt

LEMMA AddsNode ==
  ASSUME NEW id, NEW r, Renders(id, r), NEW jd, NEW q, Renders(jd, q), NEW nd \in Node, KnownMeshes,
         \A i \in DOMAIN children[nd] :
           Adds(r[children[nd][i]], q[children[nd][i]], MeshesUnder(children[nd][i]))
  PROVE  Adds(r[nd], q[nd], MeshesUnder(nd))
<1> DEFINE s1 == <<PushMatrix>>
           s2 == <<MultMatrix(<<"node", nd>>)>>
           s3 == FlattenSeq(MeshesOf(id, nd))
           t3 == FlattenSeq(MeshesOf(jd, nd))
           ss == ChildrenOf(r, nd)
           tt == ChildrenOf(q, nd)
           s5 == <<PopMatrix>>
           N == Len(children[nd])
           Y == [i \in 1 .. N |-> MeshesUnder(children[nd][i])]
           Z == UNION {Y[i] : i \in 1 .. N}
           M == ToSet(meshes[nd])
<1>1. N \in Nat /\ DOMAIN children[nd] = 1 .. N
  <2>1. children[nd] \in Seq(Node)
    BY RendererAssumption
  <2> QED BY <2>1
<1>2. /\ r[nd] = (((s1 \o s2) \o s3) \o FlattenSeq(ss)) \o s5
      /\ q[nd] = (((s1 \o s2) \o t3) \o FlattenSeq(tt)) \o s5
  <2>1. NodeStart(nd) = s1 \o s2
    BY DEF NodeStart
  <2> QED BY <2>1 DEF Renders, NodeCalls
<1>3. Adds(s1, s1, {}) /\ Adds(s2, s2, {}) /\ Adds(s5, s5, {})
  BY AddsMatrix DEF IsMatrixCall
<1>4. Adds(s3, t3, M)
  BY AddsMeshes
<1>5. Adds(FlattenSeq(ss), FlattenSeq(tt), Z)
  <2>1. /\ IsList(ss) /\ Len(ss) = N /\ \A i \in 1 .. N : ss[i] = r[children[nd][i]]
        /\ IsList(tt) /\ Len(tt) = N /\ \A i \in 1 .. N : tt[i] = q[children[nd][i]]
    BY <1>1 DEF ChildrenOf, IsList
  <2>2. \A i \in 1 .. N : Adds(ss[i], tt[i], Y[i])
    BY <1>1, <2>1
  <2>3. \A i, j \in 1 .. N : i # j => Y[i] \cap Y[j] = {}
    BY <1>1, MeshesUnderChild
  <2> HIDE DEF ss, tt, Y, N
  <2> QED BY <1>1, <2>1, <2>2, <2>3, AddsFlat
<1>6. M \cap Z = {} /\ M \cup Z \subseteq MeshesUnder(nd)
  <2>1. M \subseteq MeshesUnder(nd)
    BY MeshesUnderChild
  <2>2. \A i \in 1 .. N : Y[i] \subseteq MeshesUnder(nd) /\ M \cap Y[i] = {}
    BY <1>1, MeshesUnderChild
  <2> HIDE DEF Y, M, N
  <2> QED BY <2>1, <2>2
<1> HIDE DEF s1, s2, s3, t3, ss, tt, s5, N, Y, Z, M
<1>7. Adds(s1 \o s2, s1 \o s2, {} \cup {})
  BY <1>3, AddsConcat
<1>8. Adds((s1 \o s2) \o s3, (s1 \o s2) \o t3, ({} \cup {}) \cup M)
  BY <1>4, <1>7, AddsConcat
<1>9. ({} \cup {}) \cup M = M /\ Z \cap {} = {} /\ (M \cup Z) \cap {} = {} /\ (M \cup Z) \cup {} = M \cup Z
  OBVIOUS
<1>10. Adds(((s1 \o s2) \o s3) \o FlattenSeq(ss), ((s1 \o s2) \o t3) \o FlattenSeq(tt), M \cup Z)
  <2>1. Adds((s1 \o s2) \o s3, (s1 \o s2) \o t3, M)
    BY <1>8, <1>9
  <2> QED BY <1>5, <1>6, <2>1, AddsConcat
<1>11. Adds(r[nd], q[nd], (M \cup Z) \cup {})
  BY <1>2, <1>3, <1>9, <1>10, AddsConcat
<1> QED BY <1>6, <1>9, <1>11, AddsMore

(* The whole model, of whichever aircraft.                                 *)
LEMMA AddsModel ==
  ASSUME NEW id, NEW jd, KnownMeshes
  PROVE  Adds(recursive_render(id), recursive_render(jd), Mesh)
<1>1. PICK r : Renders(id, r) /\ recursive_render(id) = r[root]
  BY RendersNode
<1>2. PICK q : Renders(jd, q) /\ recursive_render(jd) = q[root]
  BY RendersNode
<1>3. PICK height : Height(height) /\ Cardinality(Node) \in Nat
  BY HasHeight
<1> DEFINE N == Cardinality(Node) + 1
           Same(nd) == Adds(r[nd], q[nd], MeshesUnder(nd))
           J == {k \in 0 .. N : \A nd \in Node : height[nd] < k => Same(nd)}
<1>4. 0 \in J
  BY <1>3 DEF Height
<1>5. ASSUME NEW k \in 1 .. N, k - 1 \in J PROVE k \in J
  <2>1. ASSUME NEW nd \in Node, height[nd] < k PROVE Same(nd)
    <3>1. ASSUME NEW i \in DOMAIN children[nd] PROVE Same(children[nd][i])
      <4>1. children[nd][i] \in Node /\ height[children[nd][i]] < height[nd]
            /\ height[children[nd][i]] \in Int /\ height[nd] \in Int
        BY <1>3 DEF Height
      <4>2. height[children[nd][i]] < k - 1
        BY <2>1, <4>1
      <4> HIDE DEF Same
      <4> QED BY <1>5, <4>1, <4>2
    <3> QED BY <1>1, <1>2, <3>1, AddsNode
  <2> HIDE DEF Same
  <2> QED BY <1>3, <2>1
<1>6. N \in J
  <2>1. N \in Nat /\ N \in 0 .. N
    BY <1>3
  <2> HIDE DEF J, N
  <2> QED BY <1>4, <1>5, <2>1, Climb
<1>7. Same(root)
  <2>1. root \in Node /\ height[root] < N
    BY <1>3, RendererAssumption DEF Height
  <2> HIDE DEF Same
  <2> QED BY <1>6, <2>1
<1>8. MeshesUnder(root) \subseteq Mesh
  BY DEF MeshesUnder, Under, Mesh
<1> QED BY <1>1, <1>2, <1>7, <1>8, AddsMore

LEMMA TwinStarts ==
  ASSUME NEW alike \in BOOLEAN, NEW b, Context(b), NEW c, Context(c), c.drawn = <<>>,
         alike => Alike(b, c)
  PROVE  Twin(alike, b, c, b, c, {})
<1>1. /\ IsList(b.drawn) /\ Len(b.drawn) \in Nat /\ IsList(c.drawn)
      /\ Len(c.drawn) = 0 /\ Len(b.drawn) = Len(b.drawn) + 0
  BY DEF Context, IsList
<1>2. Since(b, b, {}) /\ Since(c, c, {})
  BY <1>1 DEF Since
<1>3. \A k \in 1 .. Len(c.drawn) : FALSE
  BY <1>1
<1> QED BY <1>1, <1>2, <1>3 DEF Twin

(* The model's run from b, and its run from a context with nothing drawn.  *)
LEMMA TwinModel ==
  ASSUME NEW alike \in BOOLEAN, NEW b, Context(b), NEW c, Context(c), c.drawn = <<>>,
         alike => Alike(b, c), KnownMeshes, NEW id, NEW jd
  PROVE  Twin(alike, b, c, Run(b, recursive_render(id)), Run(c, recursive_render(jd)), Mesh)
<1>1. Twin(alike, b, c, b, c, {})
  BY TwinStarts
<1>2. Adds(recursive_render(id), recursive_render(jd), Mesh)
  BY AddsModel
<1>3. {} \cap Mesh = {} /\ {} \cup Mesh = Mesh
  OBVIOUS
<1> QED BY <1>1, <1>2, <1>3 DEF Adds

ModelPic   == Run(GLInitial, recursive_render(localPlayerID)).drawn
HasMesh    == Len(ModelPic) > 0
LastColors == HasMesh /\ mesh[LastMesh].colors
LastFill   == IF HasMesh THEN FillOf(LastMesh) ELSE "fill"

(* How the model leaves the lights: lit as meant, and as its last mesh     *)
(* has set them; without meshes, as they were.                             *)
LEMMA ModelLeaves ==
  ASSUME NEW g, NEW h, NEW id, KnownMeshes, Context(g), h = Run(g, recursive_render(id))
  PROVE  /\ Context(h) /\ (Lit(g) => Lit(h))
         /\ HasMesh => (Tracking(h) <=> LastColors) /\ h.fill = LastFill
         /\ ~HasMesh => (Tracking(h) <=> Tracking(g)) /\ h.fill = g.fill
<1> DEFINE c == GLInitial
           k == Run(c, recursive_render(localPlayerID))
           K == Len(ModelPic)
<1>1. Context(c) /\ c.drawn = <<>>
  BY Initially DEF Began
<1>2. Twin(FALSE, g, c, h, k, Mesh)
  <2> HIDE DEF c
  <2> QED BY <1>1, TwinModel
<1>3. k.drawn = ModelPic
  BY DEF ModelPic
<1> HIDE DEF k
<1>4. /\ IsList(g.drawn) /\ IsList(ModelPic)
      /\ Len(h.drawn) = Len(g.drawn) + K
      /\ \A i \in 1 .. K : h.drawn[Len(g.drawn) + i].part.name = ModelPic[i].part.name
  BY <1>2, <1>3 DEF Twin, Since, Context
<1>5. Len(g.drawn) \in Nat /\ K \in Nat
  BY <1>4 DEF IsList
<1>6. Context(h) /\ (Lit(g) => Lit(h))
  BY <1>2 DEF Twin, Since
<1>7. ASSUME HasMesh PROVE (Tracking(h) <=> LastColors) /\ h.fill = LastFill
  <2>1. K > 0
    BY <1>7 DEF HasMesh
  <2>2. LastMesh = ModelPic[K].part.name
    BY DEF LastMesh, ModelPic, Last
  <2>3. h.drawn[Len(h.drawn)].part.name = LastMesh /\ Len(h.drawn) > Len(g.drawn)
    <3>1. K \in 1 .. K
      BY <1>5, <2>1
    <3> HIDE DEF K
    <3> QED BY <1>4, <1>5, <2>1, <2>2, <3>1
  <2>4. (Tracking(h) <=> mesh[LastMesh].colors) /\ h.fill = FillOf(LastMesh)
    BY <1>2, <2>3 DEF Twin, Since
  <2> QED BY <1>7, <2>4 DEF LastColors, LastFill
<1>8. ASSUME ~HasMesh PROVE (Tracking(h) <=> Tracking(g)) /\ h.fill = g.fill
  <2>1. Len(h.drawn) = Len(g.drawn)
    BY <1>4, <1>5, <1>8 DEF HasMesh
  <2> QED BY <1>2, <2>1 DEF Twin, Since
<1> QED BY <1>6, <1>7, <1>8

Fog == IF disableFog THEN {} ELSE {"FOG"}

(* The state in which the model is always drawn, and what it then draws.   *)
RefState ==
  [GLInitial EXCEPT !.on = {"CULL_FACE", "LIGHTING", "LIGHT0", "DEPTH_TEST", "NORMALIZE"} \cup Fog
                             \cup (IF LastColors THEN {"COLOR_MATERIAL"} ELSE {}),
                    !.diffuse = Plain("white")]
RefPic == Run(RefState, recursive_render(localPlayerID)).drawn

AsRef(d) == \E k \in 1 .. Len(RefPic) : d.part.name = RefPic[k].part.name /\ SameLook(d, RefPic[k])

LEMMA RefContext ==
  /\ Context(RefState) /\ RefState.drawn = <<>> /\ RefState.color.rgb = Plain("white")
  /\ RefState.on = {"CULL_FACE", "LIGHTING", "LIGHT0", "DEPTH_TEST", "NORMALIZE"} \cup Fog
                     \cup (IF LastColors THEN {"COLOR_MATERIAL"} ELSE {})
<1> DEFINE on == {"CULL_FACE", "LIGHTING", "LIGHT0", "DEPTH_TEST", "NORMALIZE"} \cup Fog
                   \cup (IF LastColors THEN {"COLOR_MATERIAL"} ELSE {})
<1>1. on \subseteq Capability
  BY DEF Capability, Fog
<1>2. Context(GLInitial) /\ GLInitial.drawn = <<>> /\ GLInitial.color.rgb = Plain("white")
  BY Initially DEF Began, GLInitial
<1> HIDE DEF on
<1>3. RefState = [GLInitial EXCEPT !.on = on, !.diffuse = Plain("white")]
  BY DEF RefState, on
<1> DEFINE r == RefState
           g == GLInitial
<1>4. /\ r.on = on /\ r.color = g.color /\ r.diffuse = Plain("white") /\ r.fill = g.fill
      /\ r.blend = g.blend /\ r.alpha = g.alpha /\ r.texture = g.texture
      /\ r.mode = g.mode /\ r.stack = g.stack /\ r.drawn = g.drawn
      /\ r = [on |-> r.on, color |-> r.color, diffuse |-> r.diffuse, fill |-> r.fill,
              blend |-> r.blend, alpha |-> r.alpha, texture |-> r.texture,
              mode |-> r.mode, stack |-> r.stack, drawn |-> r.drawn]
  BY <1>3 DEF GLInitial
<1> HIDE DEF r, g
<1>5. Context(r)
  BY <1>1, <1>2, <1>4 DEF Context, g
<1> QED BY <1>2, <1>4, <1>5 DEF on, r, g

(* Each mesh is in the reference once.                                     *)
LEMMA RefOnce ==
  ASSUME KnownMeshes, NEW j \in 1 .. Len(RefPic), NEW k \in 1 .. Len(RefPic),
         RefPic[j].part.name = RefPic[k].part.name
  PROVE  j = k
<1> DEFINE c == RefState
           p == Run(c, recursive_render(localPlayerID))
<1>1. Context(c) /\ c.drawn = <<>>
  BY RefContext
<1>2. Twin(FALSE, c, c, p, p, Mesh)
  <2> HIDE DEF c
  <2> QED BY <1>1, TwinModel
<1>3. p.drawn = RefPic /\ Len(c.drawn) = 0
  BY <1>1 DEF RefPic
<1> HIDE DEF p, c
<1>4. \A i \in 1 .. Len(RefPic) : i \in 0 + 1 .. Len(RefPic)
  OBVIOUS
<1> QED BY <1>2, <1>3, <1>4 DEF Twin, Since

(* A model that begins in a state alike draws what the reference shows.    *)
LEMMA ModelAsRef ==
  ASSUME NEW g, NEW h, NEW id, KnownMeshes, Context(g), Alike(g, RefState),
         h = Run(g, recursive_render(id))
  PROVE  \A i \in 1 .. Len(h.drawn) :
           \/ i \in 1 .. Len(g.drawn) /\ h.drawn[i] = g.drawn[i]
           \/ IsModel(h.drawn[i]) /\ AsRef(h.drawn[i])
<1> DEFINE c == RefState
           p == Run(c, recursive_render(localPlayerID))
           n == Len(g.drawn)
           K == Len(RefPic)
<1>1. Context(c) /\ c.drawn = <<>>
  BY RefContext
<1>2. Twin(TRUE, g, c, h, p, Mesh)
  <2> HIDE DEF c
  <2> QED BY <1>1, TwinModel DEF c
<1>3. p.drawn = RefPic
  BY DEF RefPic
<1> HIDE DEF p, c
<1>4. IsList(g.drawn) /\ IsList(RefPic)
  BY <1>2, <1>3 DEF Twin, Since, Context
<1>5. n \in Nat /\ K \in Nat /\ Len(h.drawn) = n + K
  <2>1. n \in Nat /\ K \in Nat
    BY <1>4 DEF IsList
  <2>2. Len(h.drawn) = n + K
    BY <1>2, <1>3 DEF Twin
  <2> QED BY <2>1, <2>2
<1>6. ASSUME NEW i \in 1 .. n PROVE h.drawn[i] = g.drawn[i]
  BY <1>2 DEF Twin, Since
<1>7. ASSUME NEW k \in 1 .. K PROVE IsModel(h.drawn[n + k]) /\ AsRef(h.drawn[n + k])
  <2>1. h.drawn[n + k].part.name = RefPic[k].part.name /\ SameLook(h.drawn[n + k], RefPic[k])
    BY <1>2, <1>3 DEF Twin
  <2>2. n + k \in n + 1 .. Len(h.drawn)
    <3> HIDE DEF n, K
    <3> QED BY <1>5
  <2>3. IsModel(h.drawn[n + k])
    BY <1>2, <2>2 DEF Twin, Since
  <2> QED BY <2>1, <2>3 DEF AsRef
<1> HIDE DEF n, K
<1>8. ASSUME NEW i \in 1 .. Len(h.drawn), i \notin 1 .. n PROVE IsModel(h.drawn[i]) /\ AsRef(h.drawn[i])
  <2>1. i - n \in 1 .. K /\ n + (i - n) = i
    BY <1>5, <1>8
  <2>2. IsModel(h.drawn[n + (i - n)]) /\ AsRef(h.drawn[n + (i - n)])
    BY <1>7, <2>1
  <2> QED BY <2>1, <2>2
<1> QED BY <1>6, <1>8 DEF n

-----------------------------------------------------------------------------
(* How everything else is meant to look                                    *)

Switches == {"CULL_FACE", "TEXTURE_2D", "BLEND", "ALPHA_TEST"}

Ink(on, rgb, a, alpha) == [on |-> on, rgb |-> Plain(rgb), a |-> a, alpha |-> alpha]
Style(part) ==
  CASE part.of \in {"sky", "terrain"} -> Ink({"CULL_FACE", "TEXTURE_2D"}, "white", 10, "off")
    [] part.of = "flame" ->
         Ink({"BLEND", "ALPHA_TEST", "TEXTURE_2D"}, "white",
             IF part.name = "flame" THEN 7 ELSE 10, "GREATER_HALF")
    [] part.of = "missile" ->
         CASE part.name = "body" -> Ink({}, "steel", 10, "off")
           [] part.name = "cone" -> Ink({}, "pink", 10, "off")
           [] part.name = "fins" -> Ink({}, "red", 10, "off")
           [] OTHER              -> Ink({"BLEND"}, "black", 10, "off")
    [] part.of = "panel" ->
         IF part.name = "text"
         THEN Ink({"BLEND", "ALPHA_TEST", "TEXTURE_2D"}, "green", 10, "GEQUAL_ZERO")
         ELSE Ink({}, "white", 10, "off")
    [] OTHER ->
         CASE part.name = "screen" -> Ink({"BLEND", "TEXTURE_2D"}, "white", 7, "off")
           [] part.name = "glow"   -> Ink({"BLEND"}, "green", 10, "off")
           [] OTHER                -> Ink({}, "green", 10, "off")

(* Good says when a part has the depth test, and which texture it has.     *)
Meant(d) ==
  LET style == Style(d.part)
  IN  /\ d.on \ {"DEPTH_TEST"} = Fog \cup style.on /\ d.rgb = style.rgb /\ d.a = style.a
      /\ d.blend = (IF "BLEND" \in style.on THEN "over" ELSE "off")
      /\ d.alpha = style.alpha /\ d.fill = LastFill
AsMeant(d)    == IF IsModel(d) THEN AsRef(d) ELSE Meant(d)
AllMeant(pic) == \A i \in 1 .. Len(pic) : AsMeant(pic[i])

(* What the drawing leaves behind: always; once the fog is there; once an  *)
(* aircraft has been drawn.                                                *)
Foggy(g) == "FOG" \in g.on <=> ~disableFog
Loose(g) ==
  /\ Lit(g) /\ ("FOG" \in g.on => ~disableFog)
  /\ \/ g.fill = "fill" /\ ~Tracking(g)
     \/ g.fill = LastFill /\ (Tracking(g) <=> LastColors)
Even(g) ==
  /\ g.on \cap ModelLights = {} /\ Foggy(g) /\ g.fill = LastFill
  /\ Tracking(g) <=> LastColors
Settled(g) == Even(g) /\ g.blend = "over"
White(g)   == g.color.rgb = Plain("white")

(* A state in which a part is drawn as meant.                              *)
Inked(g, style) ==
  /\ g.on \cap Switches = style.on /\ g.color.rgb = style.rgb
  /\ style.a = (IF style.on \cap {"BLEND", "ALPHA_TEST"} = {} THEN 10 ELSE g.color.a)
  /\ style.alpha = (IF "ALPHA_TEST" \in style.on THEN g.alpha ELSE "off")
  /\ "BLEND" \in style.on => g.blend = "over"

LEMMA PartMeant ==
  ASSUME NEW g, NEW part, Even(g), g.on \subseteq Capability, Inked(g, Style(part))
  PROVE  Meant(Look(g, part))
<1> DEFINE d == Look(g, part)
           style == Style(part)
<1>1. "LIGHTING" \notin g.on /\ "LIGHT0" \notin g.on /\ "NORMALIZE" \notin g.on
  BY DEF Even, ModelLights
<1>2. /\ d.part = part /\ d.on = g.on \ ({"COLOR_MATERIAL"} \cup {"LIGHT0", "NORMALIZE"})
      /\ d.rgb = g.color.rgb /\ d.fill = g.fill
      /\ d.a = (IF g.on \cap {"BLEND", "ALPHA_TEST"} # {} THEN g.color.a ELSE 10)
      /\ d.blend = (IF "BLEND" \in g.on THEN g.blend ELSE "off")
      /\ d.alpha = (IF "ALPHA_TEST" \in g.on THEN g.alpha ELSE "off")
  BY <1>1 DEF Look
<1> HIDE DEF d, style
<1>3. Inked(g, style)
  BY DEF style
<1>4. /\ "BLEND" \in style.on <=> "BLEND" \in g.on
      /\ "ALPHA_TEST" \in style.on <=> "ALPHA_TEST" \in g.on
      /\ style.on \cap {"BLEND", "ALPHA_TEST"} = g.on \cap {"BLEND", "ALPHA_TEST"}
  BY <1>3 DEF Inked, Switches
<1>5. d.on \ {"DEPTH_TEST"} = Fog \cup style.on
  <2>1. \A c \in g.on : c \in ModelLights \cup Switches \cup {"FOG", "DEPTH_TEST", "COLOR_MATERIAL"}
    BY DEF Capability, ModelLights, Switches
  <2>2. \A c : c \in Fog <=> c = "FOG" /\ c \in g.on
    BY DEF Even, Foggy, Fog
  <2>3. \A c : c \in style.on <=> c \in g.on /\ c \in Switches
    BY <1>3 DEF Inked
  <2>4. \A c : c \in d.on \ {"DEPTH_TEST"} <=>
               c \in g.on /\ c \notin ModelLights \cup {"DEPTH_TEST", "COLOR_MATERIAL"}
    BY <1>1, <1>2 DEF ModelLights
  <2>5. \A c : c \in Switches \cup {"FOG"} => c \notin ModelLights \cup {"DEPTH_TEST", "COLOR_MATERIAL"}
    BY DEF ModelLights, Switches
  <2> QED BY <2>1, <2>2, <2>3, <2>4, <2>5
<1>6. d.rgb = style.rgb /\ d.a = style.a /\ d.alpha = style.alpha /\ d.fill = LastFill
  BY <1>2, <1>3, <1>4 DEF Inked, Even
<1>7. d.blend = (IF "BLEND" \in style.on THEN "over" ELSE "off")
  BY <1>2, <1>3, <1>4 DEF Inked
<1>8. Style(d.part) = style
  BY <1>2 DEF style
<1> QED BY <1>5, <1>6, <1>7, <1>8 DEF Meant, d

(* A picture with more parts, none of an aircraft: as well lit, and all as *)
(* meant if these are.                                                     *)
PicCarries(b, pic, more) ==
  /\ IsList(more) /\ (PicLit(pic) => PicLit(more))
  /\ ColorsLast(pic, Len(pic)) => ColorsLast(more, Len(more))
  /\ b /\ AllMeant(pic) => AllMeant(more)

LEMMA PicStays == \A b, pic : IsList(pic) => PicCarries(b, pic, pic)
BY DEF PicCarries

LEMMA PicTwice ==
  \A b, pic, q, r : PicCarries(b, pic, q) /\ PicCarries(b, q, r) => PicCarries(b, pic, r)
BY DEF PicCarries

LEMMA PicAppended ==
  ASSUME NEW b \in BOOLEAN, NEW pic, IsList(pic), NEW d, ~IsModel(d), b => Meant(d)
  PROVE  PicCarries(b, pic, Append(pic, d))
<1> DEFINE p == Append(pic, d)
           N == Len(pic)
<1>1. IsList(p) /\ N \in Nat /\ Len(p) = N + 1 /\ p[N + 1] = d /\ \A i \in 1 .. N : p[i] = pic[i]
  BY ListAppend DEF IsList
<1>2. /\ \A n \in 0 .. N : ColorsLast(p, n) <=> ColorsLast(pic, n)
      /\ ColorsLast(pic, N) => ColorsLast(p, N + 1)
  BY LastAppended
<1> HIDE DEF p, N
<1>3. \A i \in 1 .. Len(p) : (i \in 1 .. N /\ p[i] = pic[i] /\ i - 1 \in 0 .. N) \/ p[i] = d
  BY <1>1
<1>4. ASSUME PicLit(pic) PROVE PicLit(p)
  <2> SUFFICES ASSUME NEW i \in 1 .. Len(p) PROVE ModelLit(p, i)
    BY DEF PicLit
  <2>1. CASE p[i] = d
    BY <2>1 DEF ModelLit
  <2>2. CASE i \in 1 .. N /\ p[i] = pic[i] /\ i - 1 \in 0 .. N
    <3>1. ModelLit(pic, i) /\ (ColorsLast(p, i - 1) <=> ColorsLast(pic, i - 1))
      BY <1>2, <1>4, <2>2 DEF PicLit, N
    <3> QED BY <2>2, <3>1 DEF ModelLit
  <2> QED BY <1>3, <2>1, <2>2
<1>5. ASSUME b, AllMeant(pic) PROVE AllMeant(p)
  <2>1. AsMeant(d)
    BY <1>5 DEF AsMeant
  <2> QED BY <1>3, <1>5, <2>1 DEF AllMeant, N
<1> QED BY <1>1, <1>2, <1>4, <1>5 DEF PicCarries, p, N

(* Calls that change nothing of what the drawing leaves behind.            *)
LeavesLights(g, h) ==
  /\ h.fill = g.fill /\ (Tracking(h) <=> Tracking(g)) /\ ("FOG" \in h.on <=> "FOG" \in g.on)
  /\ h.on \cap ModelLights \subseteq g.on
  /\ g.blend = "over" => h.blend = "over"

Carries(g, h) ==
  /\ Loose(g) => Loose(h)
  /\ Settled(g) => Settled(h)
  /\ Settled(g) /\ AllMeant(g.drawn) => AllMeant(h.drawn)

LEMMA LeavesEven ==
  \A g, h : LeavesLights(g, h) => (Even(g) => Even(h)) /\ (Settled(g) => Settled(h))
BY DEF LeavesLights, Even, Settled, Foggy

LEMMA LeavesLoose ==
  ASSUME NEW g, NEW h, LeavesLights(g, h), NEW b, PicCarries(b, g.drawn, h.drawn), Loose(g)
  PROVE  Loose(h)
<1>1. Lit(h)
  BY DEF Loose, Lit, PicCarries, LeavesLights
<1> QED BY <1>1 DEF Loose, LeavesLights

LEMMA CarriesPicture ==
  ASSUME NEW g, NEW h, LeavesLights(g, h), PicCarries(Settled(g), g.drawn, h.drawn)
  PROVE  Carries(g, h)
<1>1. Loose(g) => Loose(h)
  BY LeavesLoose
<1>2. Settled(g) => Settled(h)
  BY LeavesEven
<1>3. Settled(g) /\ AllMeant(g.drawn) => AllMeant(h.drawn)
  BY DEF PicCarries
<1> QED BY <1>1, <1>2, <1>3 DEF Carries

LEMMA CarriesOn ==
  ASSUME NEW g, NEW h, Context(g), LeavesLights(g, h), h.drawn = g.drawn
  PROVE  Carries(g, h)
<1>1. PicCarries(Settled(g), g.drawn, h.drawn)
  BY PicStays DEF Context
<1> QED BY <1>1, CarriesPicture

LEMMA CarriesTwice ==
  \A g, h, k : Carries(g, h) /\ Carries(h, k) => Carries(g, k)
BY DEF Carries

(* A flame: it leaves the colour white and the blend function set.         *)
LEMMA FlameCarries ==
  ASSUME NEW g, NEW h, NEW id, Context(g), "CULL_FACE" \notin g.on, h = Run(g, FlameRender(id))
  PROVE  /\ Carries(g, h) /\ White(h) /\ LeavesLights(g, h)
         /\ Loose(g) => Loose(h)
         /\ Even(g) => Settled(h)
         /\ Even(g) /\ AllMeant(g.drawn) => AllMeant(h.drawn)
<1>1. AfterFlame(g, h)
  BY FlameCalls
<1> DEFINE nozzle == Part(id, "flame", "nozzle")
           flame == Part(id, "flame", "flame")
<1>2. PICK p, q : /\ FlameIn(p, g, id, 10) /\ FlameIn(q, g, id, 7)
                  /\ h.drawn = Append(Append(g.drawn, Look(p, nozzle)), Look(q, flame))
  BY FlameCalls
<1>3. /\ Style(nozzle) = Ink({"BLEND", "ALPHA_TEST", "TEXTURE_2D"}, "white", 10, "GREATER_HALF")
      /\ Style(flame) = Ink({"BLEND", "ALPHA_TEST", "TEXTURE_2D"}, "white", 7, "GREATER_HALF")
  BY DEF Style, Part
<1>4. ~IsModel(Look(p, nozzle)) /\ ~IsModel(Look(q, flame))
  BY DEF IsModel, Look, Part
<1> HIDE DEF nozzle, flame
<1>5. g.on \subseteq Capability /\ IsList(g.drawn)
  BY DEF Context
<1>6. LeavesLights(g, h) /\ White(h) /\ h.blend = "over"
  <2>1. h.on = g.on \ {"BLEND", "ALPHA_TEST", "TEXTURE_2D"} /\ h.fill = g.fill /\ h.blend = "over"
    BY <1>1 DEF AfterFlame
  <2>2. White(h)
    BY <1>1 DEF AfterFlame, White
  <2> QED BY <2>1, <2>2 DEF LeavesLights, Tracking
<1>7. ASSUME NEW k, NEW a, Even(g), FlameIn(k, g, id, a), NEW part, a \in {7, 10},
             Style(part) = Ink({"BLEND", "ALPHA_TEST", "TEXTURE_2D"}, "white", a, "GREATER_HALF")
      PROVE  Meant(Look(k, part))
  <2>1. /\ k.on = g.on \cup {"BLEND", "ALPHA_TEST", "TEXTURE_2D"} /\ k.fill = g.fill
        /\ k.color.rgb = Plain("white") /\ k.color.a = a /\ k.blend = "over" /\ k.alpha = "GREATER_HALF"
    BY <1>7 DEF FlameIn, DrawnIn
  <2>2. k.on \subseteq Capability
    BY <1>5, <2>1 DEF Capability
  <2>3. Even(k)
    BY <1>7, <2>1 DEF Even, Foggy, Tracking, ModelLights
  <2>4. k.on \cap Switches = {"BLEND", "ALPHA_TEST", "TEXTURE_2D"}
    BY <2>1 DEF Switches
  <2>5. Inked(k, Style(part))
    BY <1>7, <2>1, <2>4 DEF Inked, Ink
  <2> QED BY <2>2, <2>3, <2>5, PartMeant
<1>8. PicCarries(Even(g), g.drawn, h.drawn)
  <2> DEFINE d == Look(p, nozzle)
             e == Look(q, flame)
             b == Even(g)
  <2>1. (b => Meant(d)) /\ (b => Meant(e)) /\ b \in BOOLEAN
    BY <1>2, <1>3, <1>7 DEF Even
  <2>2. ~IsModel(d) /\ ~IsModel(e) /\ h.drawn = Append(Append(g.drawn, d), e)
    BY <1>2, <1>4
  <2> HIDE DEF d, e, b
  <2>3. PicCarries(b, g.drawn, Append(g.drawn, d)) /\ IsList(Append(g.drawn, d))
    BY <1>5, <2>1, <2>2, PicAppended, ListAppend
  <2>4. PicCarries(b, Append(g.drawn, d), Append(Append(g.drawn, d), e))
    BY <2>1, <2>2, <2>3, PicAppended
  <2>5. PicCarries(b, g.drawn, h.drawn)
    BY <2>2, <2>3, <2>4, PicTwice
  <2> QED BY <2>5 DEF b
<1>9. Loose(g) => Loose(h)
  BY <1>6, <1>8, LeavesLoose
<1>10. Even(g) => Settled(h)
  BY <1>6, LeavesEven DEF Settled
<1>11. Even(g) /\ AllMeant(g.drawn) => AllMeant(h.drawn)
  BY <1>8 DEF PicCarries
<1> QED BY <1>6, <1>9, <1>10, <1>11 DEF Carries, Settled

(* The body of a missile.                                                  *)
LEMMA BodyCarries ==
  ASSUME NEW g, NEW h, NEW id, Context(g), g.on \cap Switches = {}, h = Run(g, MissileBody(id))
  PROVE  Carries(g, h) /\ Context(h) /\ "CULL_FACE" \notin h.on
<1>1. "TEXTURE_2D" \notin g.on
  BY DEF Switches
<1>2. Context(h) /\ SameFunctions(h, g) /\ h.on = g.on \cup {"BLEND"}
  BY <1>1, MissileBodyCalls
<1> DEFINE body == Part(id, "missile", "body")
           cone == Part(id, "missile", "cone")
           fins == Part(id, "missile", "fins")
           smoke == Part(id, "missile", "smoke")
<1>3. PICK p, q, r, s :
        /\ MissileIn(p, q, r, s, g)
        /\ h.drawn = Append(Append(Append(Append(g.drawn, Look(p, body)), Look(q, cone)),
                                   Look(r, fins)), Look(s, smoke))
  BY <1>1, MissileBodyCalls DEF MissileParts
<1>4. /\ Style(body) = Ink({}, "steel", 10, "off") /\ Style(cone) = Ink({}, "pink", 10, "off")
      /\ Style(fins) = Ink({}, "red", 10, "off") /\ Style(smoke) = Ink({"BLEND"}, "black", 10, "off")
  BY DEF Style, Part
<1> DEFINE d1 == Look(p, body)
           d2 == Look(q, cone)
           d3 == Look(r, fins)
           d4 == Look(s, smoke)
<1>5. ~IsModel(d1) /\ ~IsModel(d2) /\ ~IsModel(d3) /\ ~IsModel(d4)
  BY DEF IsModel, Look, Part
<1> HIDE DEF body, cone, fins, smoke
<1>6. g.on \subseteq Capability /\ IsList(g.drawn)
  BY DEF Context
<1>7. LeavesLights(g, h)
  BY <1>2 DEF LeavesLights, SameFunctions, Tracking, ModelLights
<1>8. ASSUME NEW k, NEW rgb, Settled(g), DrawnIn(k, g, g.on, Plain(rgb), 10), NEW part,
             Style(part) = Ink({}, rgb, 10, "off")
      PROVE  Meant(Look(k, part))
  <2>1. k.on = g.on /\ k.fill = g.fill /\ k.color.rgb = Plain(rgb)
    BY <1>8 DEF DrawnIn
  <2>2. Even(k)
    BY <1>8, <2>1 DEF Settled, Even, Foggy, Tracking
  <2>3. Inked(k, Style(part))
    BY <1>8, <2>1 DEF Inked, Ink
  <2> QED BY <1>6, <2>1, <2>2, <2>3, PartMeant
<1>9. ASSUME Settled(g) PROVE Meant(d1) /\ Meant(d2) /\ Meant(d3)
  BY <1>3, <1>4, <1>8, <1>9 DEF MissileIn
<1>10. ASSUME Settled(g) PROVE Meant(d4)
  <2>1. /\ s.on = g.on \cup {"BLEND"} /\ s.fill = g.fill /\ s.color.rgb = Plain("black")
        /\ s.color.a = 10 /\ s.blend = g.blend
    BY <1>3 DEF MissileIn, DrawnIn
  <2>2. Even(s) /\ s.on \subseteq Capability /\ s.blend = "over"
    BY <1>6, <1>10, <2>1 DEF Settled, Even, Foggy, Tracking, ModelLights, Capability
  <2>3. s.on \cap Switches = {"BLEND"}
    BY <2>1 DEF Switches
  <2>4. Inked(s, Style(smoke))
    BY <1>4, <2>1, <2>2, <2>3 DEF Inked, Ink
  <2> QED BY <2>2, <2>4, PartMeant
<1>11. PicCarries(Settled(g), g.drawn, h.drawn)
  <2> DEFINE b == Settled(g)
             p1 == Append(g.drawn, d1)
             p2 == Append(p1, d2)
             p3 == Append(p2, d3)
             p4 == Append(p3, d4)
  <2>1. /\ b \in BOOLEAN /\ h.drawn = p4 /\ (b => Meant(d1)) /\ (b => Meant(d2)) /\ (b => Meant(d3))
        /\ b => Meant(d4)
    BY <1>3, <1>9, <1>10 DEF Settled
  <2> HIDE DEF d1, d2, d3, d4, b
  <2>2. IsList(p1) /\ IsList(p2) /\ IsList(p3)
    <3>1. IsList(p1)
      BY <1>6, ListAppend
    <3> HIDE DEF p1
    <3>2. IsList(p2)
      BY <3>1, ListAppend
    <3> HIDE DEF p2
    <3> QED BY <3>1, <3>2, ListAppend DEF p2
  <2>3. PicCarries(b, g.drawn, p1)
    BY <1>5, <1>6, <2>1, PicAppended
  <2>4. PicCarries(b, p1, p2)
    <3> HIDE DEF p1
    <3> QED BY <1>5, <2>1, <2>2, PicAppended
  <2>5. PicCarries(b, p2, p3)
    <3> HIDE DEF p2
    <3> QED BY <1>5, <2>1, <2>2, PicAppended
  <2>6. PicCarries(b, p3, p4)
    <3> HIDE DEF p3
    <3> QED BY <1>5, <2>1, <2>2, PicAppended
  <2>7. PicCarries(b, g.drawn, h.drawn)
    <3> HIDE DEF p1, p2, p3, p4
    <3> QED BY <2>1, <2>3, <2>4, <2>5, <2>6, PicTwice
  <2> QED BY <2>7 DEF b
<1>12. "CULL_FACE" \notin h.on
  BY <1>2 DEF Switches
<1> QED BY <1>2, <1>7, <1>11, <1>12, CarriesPicture

(* A missile, drawn where the drawing has got to.                          *)
LEMMA SameCarries ==
  ASSUME NEW g, NEW h, Context(g), SamePicture(h, g)
  PROVE  Carries(g, h) /\ LeavesLights(g, h) /\ (White(g) => White(h))
<1>1. LeavesLights(g, h) /\ h.drawn = g.drawn /\ (White(g) => White(h))
  BY DEF SamePicture, SameFunctions, SameColours, LeavesLights, Tracking, White
<1> QED BY <1>1, CarriesOn

LEMMA MissileCarries ==
  ASSUME NEW g, NEW h, NEW id, Ready(g), h = Run(g, MissileRender(id))
  PROVE  Carries(g, h) /\ White(h) /\ (Foggy(g) => Foggy(h))
<1>1. PICK m : /\ MissileFrom(m, g, id)
               /\ SamePicture(h, Run(Run(m, MissileBody(id)), FlameRender(id)))
  BY MissileCalls DEF Ready
<1> DEFINE p == Run(m, MissileBody(id))
           q == Run(p, FlameRender(id))
<1>2. /\ Context(g) /\ Context(m) /\ m.on = (g.on \ {"BLEND", "TEXTURE_2D"}) \cup {"DEPTH_TEST"}
      /\ SameFunctions(m, g) /\ m.drawn = g.drawn
  BY <1>1 DEF MissileFrom, Ready, InCamera
<1>3. m.on \cap Switches = {}
  BY <1>2 DEF Ready, Quiet, Switches
<1>4. LeavesLights(g, m)
  BY <1>2 DEF LeavesLights, SameFunctions, Tracking, ModelLights
<1>5. Carries(g, m)
  BY <1>2, <1>4, CarriesOn
<1>6. Carries(m, p) /\ Context(p) /\ "CULL_FACE" \notin p.on
  BY <1>2, <1>3, BodyCarries
<1>7. p.on = m.on \cup {"BLEND"}
  <2>1. "TEXTURE_2D" \notin m.on
    BY <1>3 DEF Switches
  <2> QED BY <1>2, <2>1, MissileBodyCalls
<1> HIDE DEF p
<1>8. Carries(p, q) /\ White(q) /\ LeavesLights(p, q) /\ Context(q)
  BY <1>6, FlameCarries, FlameCalls DEF AfterFlame
<1> HIDE DEF q
<1>9. SamePicture(h, q)
  BY <1>1 DEF p, q
<1>10. Carries(q, h) /\ White(h) /\ LeavesLights(q, h)
  BY <1>8, <1>9, SameCarries
<1>11. Carries(g, h)
  BY <1>5, <1>6, <1>8, <1>10, CarriesTwice
<1>12. Foggy(g) => Foggy(h)
  BY <1>2, <1>7, <1>8, <1>10 DEF Foggy, LeavesLights
<1> QED BY <1>10, <1>11, <1>12

(* An aircraft, drawn in the fog: whatever was drawn before, it leaves its *)
(* own lights behind, and if another had drawn before, it looks as meant.  *)
LEMMA PlayerCarries ==
  ASSUME NEW g, NEW h, NEW id \in PlayerID, KnownMeshes, Ready(g), Loose(g), Foggy(g), White(g),
         h = Run(g, PlayerRender(id))
  PROVE  /\ Loose(h) /\ Settled(h) /\ Foggy(h) /\ White(h)
         /\ Settled(g) /\ AllMeant(g.drawn) => AllMeant(h.drawn)
<1>1. PICK m, p, q, u, k : PlayerVia(g, h, id, m, p, q, u, k)
  BY PlayerCalls
<1>2. /\ Context(g) /\ Context(m) /\ SamePicture(m, g) /\ ModelOn(m, p) /\ Rendered(p, q)
      /\ ModelOff(q, u) /\ AfterFlame(u, k) /\ SamePicture(h, k)
  BY <1>1, PlayerSteps DEF Ready, InCamera
<1>3. q = Run(p, recursive_render(id)) /\ k = Run(u, FlameRender(id))
  BY <1>1 DEF PlayerVia
<1>4. /\ Context(p) /\ p.on = g.on \cup {"CULL_FACE", "DEPTH_TEST"} \cup ModelLights
      /\ p.color = g.color /\ p.fill = g.fill /\ p.drawn = g.drawn
  BY <1>2 DEF ModelOn, SwitchedTo, SamePicture, SameColours, SameFunctions
<1>5. /\ Context(q) /\ Context(u) /\ u.on = q.on \ ({"CULL_FACE", "DEPTH_TEST"} \cup ModelLights)
      /\ u.fill = q.fill /\ u.drawn = q.drawn
  BY <1>2 DEF Rendered, ModelOff, SwitchedTo, SameFunctions
<1>6. (Tracking(p) <=> Tracking(g)) /\ (Tracking(u) <=> Tracking(q))
  BY <1>4, <1>5 DEF Tracking, ModelLights
<1>7. /\ Lit(p) => Lit(q)
      /\ HasMesh => (Tracking(q) <=> LastColors) /\ q.fill = LastFill
      /\ ~HasMesh => (Tracking(q) <=> Tracking(p)) /\ q.fill = p.fill
  BY <1>3, <1>4, ModelLeaves
<1>8. Lit(u)
  BY <1>4, <1>5, <1>6, <1>7 DEF Loose, Lit
<1>9. Foggy(u)
  <2>1. q.on \ Material = p.on \ Material
    BY <1>2 DEF Rendered
  <2>2. "FOG" \in q.on <=> "FOG" \in p.on
    BY <2>1 DEF Material
  <2> QED BY <1>4, <1>5, <2>2 DEF Foggy, ModelLights
<1>10. u.fill = LastFill /\ (Tracking(u) <=> LastColors)
  <2>1. CASE HasMesh
    BY <1>5, <1>6, <1>7, <2>1
  <2>2. CASE ~HasMesh
    <3>1. LastFill = "fill" /\ ~LastColors
      BY <2>2 DEF LastFill, LastColors
    <3> QED BY <1>4, <1>5, <1>6, <1>7, <2>2, <3>1 DEF Loose
  <2> QED BY <2>1, <2>2
<1>11. Even(u) /\ Loose(u) /\ "CULL_FACE" \notin u.on
  BY <1>5, <1>8, <1>9, <1>10 DEF Even, Loose, Foggy
<1>12. /\ Loose(k) /\ Settled(k) /\ White(k) /\ (AllMeant(u.drawn) => AllMeant(k.drawn))
       /\ Context(k)
  BY <1>3, <1>5, <1>11, FlameCarries, FlameCalls DEF AfterFlame
<1>13. Loose(h) /\ Settled(h) /\ White(h) /\ (AllMeant(k.drawn) => AllMeant(h.drawn))
  BY <1>2, <1>12, SameCarries DEF Carries
<1>14. ASSUME Settled(g), AllMeant(g.drawn) PROVE AllMeant(q.drawn)
  <2>1. Alike(p, RefState)
    <3>1. p.color.rgb = RefState.color.rgb
      BY <1>4, RefContext DEF White
    <3>2. g.on \cap (ModelLights \cup Switches) = {} /\ g.on \subseteq Capability
      BY <1>2, <1>14 DEF Settled, Even, Ready, Quiet, Switches, Context
    <3>3. \A c \in Capability : c \in p.on <=> c \in RefState.on
      BY <1>4, <1>14, <3>2, RefContext
         DEF Capability, ModelLights, Switches, Settled, Even, Foggy, Fog, Tracking
    <3>4. p.on \subseteq Capability /\ RefState.on \subseteq Capability
      BY <1>4, RefContext DEF Context
    <3>5. p.on \cap {"TEXTURE_2D", "BLEND", "ALPHA_TEST"} = {}
      BY <1>4, <3>2 DEF Switches, ModelLights
    <3> QED BY <3>1, <3>3, <3>4, <3>5 DEF Alike
  <2>2. \A i \in 1 .. Len(q.drawn) :
          \/ i \in 1 .. Len(p.drawn) /\ q.drawn[i] = p.drawn[i]
          \/ IsModel(q.drawn[i]) /\ AsRef(q.drawn[i])
    BY <1>3, <1>4, <2>1, ModelAsRef
  <2> QED BY <1>4, <1>14, <2>2 DEF AllMeant, AsMeant
<1> QED BY <1>5, <1>12, <1>13, <1>14 DEF Settled, Even

-----------------------------------------------------------------------------
(* What the scenery, the panel and the loads leave behind                  *)

(* A part that is not of an aircraft's model.                              *)
LEMMA PartCarries ==
  ASSUME NEW g, NEW h, Context(g), NEW obj, NEW of, NEW name, Drawn(g, h, obj, of, name),
         of # "model", Settled(g) => Inked(g, Style(Part(obj, of, name)))
  PROVE  Carries(g, h) /\ LeavesLights(g, h)
<1> DEFINE part == Part(obj, of, name)
           d == Look(g, part)
           b == Settled(g)
<1>1. part.of = of /\ h.drawn = Append(g.drawn, d) /\ IsList(g.drawn) /\ g.on \subseteq Capability
  BY DEF Drawn, Part, Context
<1>2. LeavesLights(g, h)
  BY DEF Drawn, LeavesLights, SameFunctions, Tracking
<1>3. b => Inked(g, Style(part))
  OBVIOUS
<1> HIDE DEF part
<1>4. ~IsModel(d)
  <2>1. d.part = part
    BY DEF Look
  <2> QED BY <1>1, <2>1 DEF IsModel
<1>5. b => Meant(d)
  BY <1>1, <1>3, PartMeant DEF Settled
<1>6. PicCarries(b, g.drawn, h.drawn)
  <2>1. b \in BOOLEAN
    BY DEF Settled
  <2> HIDE DEF b, d
  <2> QED BY <1>1, <1>4, <1>5, <2>1, PicAppended
<1> QED BY <1>2, <1>6, CarriesPicture

(* A face of the sky, or the ground.                                       *)
LEMMA SceneryCarries ==
  ASSUME NEW g, NEW h, NEW of \in {"sky", "terrain"}, NEW name, Context(g),
         g.on \cap Switches = {"CULL_FACE", "TEXTURE_2D"}, White(g), Drawn(g, h, None, of, name)
  PROVE  Carries(g, h)
<1> DEFINE part == Part(None, of, name)
<1>1. Style(part) = Ink({"CULL_FACE", "TEXTURE_2D"}, "white", 10, "off")
  <2>1. part.of = of
    BY DEF Part
  <2> HIDE DEF part
  <2> QED BY <2>1 DEF Style
<1>2. Inked(g, Style(part))
  BY <1>1 DEF Inked, Ink, White
<1>3. of # "model"
  OBVIOUS
<1> QED BY <1>2, <1>3, PartCarries

LEMMA FacesCarry ==
  ASSUME NEW g, NEW h, InScene(g), g.on \cap Switches = {"CULL_FACE", "TEXTURE_2D"}, White(g),
         h = Run(g, FlattenSeq(SkyFaces))
  PROVE  Carries(g, h)
<1>1. IsList(SkyFaces) /\ Len(SkyFaces) = 5
      /\ \A i \in 1 .. 5 : SkyFaces[i] = <<BindTexture(texid(SkyFace[i], 0)), Draw(None, "sky", SkyFace[i])>>
  BY DEF SkyFaces, SkyFace, IsList
<1>2. \A i \in 1 .. 5 : IsList(SkyFaces[i]) /\ Len(SkyFaces[i]) = 2
  <2>1. \A u, v : IsList(<<u, v>>) /\ Len(<<u, v>>) = 2
    BY DEF IsList
  <2> QED BY <1>1, <2>1
<1>3. PICK a : a[0] = g /\ (\A n \in 1 .. 5 : a[n] = Run(a[n - 1], SkyFaces[n])) /\ h = a[5]
  <2> DEFINE N == Len(SkyFaces)
  <2>1. IsList(SkyFaces) /\ \A i \in 1 .. N : IsList(SkyFaces[i])
    BY <1>1, <1>2
  <2>2. PICK a : /\ a[0] = g /\ \A n \in 1 .. N : a[n] = Run(a[n - 1], SkyFaces[n])
                 /\ Run(g, FlattenSeq(SkyFaces)) = a[N] /\ IsList(FlattenSeq(SkyFaces))
    BY <2>1, RunFlatten
  <2>3. N = 5
    BY <1>1
  <2> HIDE DEF N
  <2> QED BY <2>2, <2>3
<1> DEFINE Like(k) == /\ Carries(g, k) /\ Context(k) /\ k.on = g.on /\ k.color = g.color
           J == {n \in 0 .. 5 : Like(a[n])}
<1>4. 0 \in J
  BY <1>3 DEF Carries, InScene, InCamera
<1>5. ASSUME NEW n \in 1 .. 5, n - 1 \in J PROVE n \in J
  <2> DEFINE s == SkyFaces[n]
             p == a[n - 1]
             c == TraceOf(p, s)
             face == SkyFace[n]
  <2>1. Like(p)
    BY <1>5
  <2>2. Trace(p, s, c) /\ a[n] = c[2]
    <3>1. IsList(s) /\ Len(s) = 2 /\ a[n] = Run(p, s)
      BY <1>2, <1>3
    <3> HIDE DEF s
    <3> QED BY <3>1, Traced
  <2>3. s = <<BindTexture(texid(face, 0)), Draw(None, "sky", face)>> /\ Len(s) = 2
    BY <1>1, <1>2
  <2> HIDE DEF c, s, p, face
  <2>4. c[1] = Exec(p, BindTexture(texid(face, 0))) /\ a[n] = Exec(c[1], Draw(None, "sky", face))
    BY <2>2, <2>3 DEF Trace
  <2>5. /\ Bound(p, c[1], texid(face, 0)) /\ Context(c[1])
        /\ Drawn(c[1], a[n], None, "sky", face) /\ Context(a[n])
    BY <2>1, <2>4, DoesBindTexture, DoesDraw
  <2>6. c[1].on = g.on /\ c[1].color = g.color /\ a[n].on = g.on /\ a[n].color = g.color
    BY <2>1, <2>5 DEF Bound, Drawn, SameColours
  <2>7. Carries(p, c[1])
    <3>1. LeavesLights(p, c[1]) /\ c[1].drawn = p.drawn
      BY <2>5 DEF Bound, LeavesLights, SameFunctions, Tracking
    <3> QED BY <2>1, <3>1, CarriesOn
  <2>8. Carries(c[1], a[n])
    <3> DEFINE of == "sky"
    <3>1. /\ of \in {"sky", "terrain"} /\ Drawn(c[1], a[n], None, of, face) /\ Context(c[1])
          /\ c[1].on \cap Switches = {"CULL_FACE", "TEXTURE_2D"} /\ White(c[1])
      BY <2>5, <2>6 DEF White
    <3> HIDE DEF of
    <3> QED BY <3>1, SceneryCarries
  <2>9. Carries(g, a[n])
    BY <2>1, <2>7, <2>8, CarriesTwice
  <2> QED BY <2>5, <2>6, <2>9
<1>6. 5 \in J
  <2>1. 5 \in 0 .. 5 /\ 5 \in Nat
    OBVIOUS
  <2> HIDE DEF J
  <2> QED BY <1>4, <1>5, <2>1, Climb
<1> QED BY <1>3, <1>6

LEMMA SkyCarries ==
  ASSUME NEW g, NEW h, InScene(g), Quiet(g), h = Run(g, SkyBoxRender)
  PROVE  Carries(g, h)
<1> DEFINE s1 == <<Color(Plain("white"), 0), Enable("CULL_FACE"), Enable("TEXTURE_2D")>>
           s2 == FlattenSeq(SkyFaces)
           s3 == <<Disable("TEXTURE_2D"), Disable("CULL_FACE")>>
<1>1. SkyBoxRender = (s1 \o s2) \o s3
  BY DEF SkyBoxRender, SkyFaces
<1>2. IsList(s1) /\ Len(s1) = 3 /\ IsList(s3) /\ Len(s3) = 2
  BY DEF IsList
<1> DEFINE a == TraceOf(g, s1)
           k == Run(a[3], s2)
           e == TraceOf(k, s3)
<1>3. Trace(g, s1, a) /\ Run(g, s1) = a[3]
  <2> HIDE DEF s1, k, e
  <2> QED BY <1>2, Traced
<1>4. Trace(k, s3, e) /\ Run(k, s3) = e[2]
  <2> HIDE DEF s3, a, k
  <2> QED BY <1>2, Traced
<1> HIDE DEF a, e
<1>5. /\ a[1] = Exec(g, Color(Plain("white"), 0)) /\ a[2] = Exec(a[1], Enable("CULL_FACE"))
      /\ a[3] = Exec(a[2], Enable("TEXTURE_2D"))
  BY <1>2, <1>3 DEF Trace
<1>6. e[1] = Exec(k, Disable("TEXTURE_2D")) /\ e[2] = Exec(e[1], Disable("CULL_FACE"))
  <2> HIDE DEF k
  <2> QED BY <1>2, <1>4 DEF Trace
<1>7. {"TEXTURE_2D", "CULL_FACE"} \subseteq Capability
  BY DEF Capability
<1>8. /\ Colored(g, a[1], Plain("white"), 0) /\ Enabled(a[1], a[2], "CULL_FACE")
      /\ Enabled(a[2], a[3], "TEXTURE_2D") /\ Context(a[3])
  BY <1>5, <1>7, DoesColor, DoesEnable DEF InScene, InCamera
<1>9. /\ SameMatrices(a[3], g) /\ SameFunctions(a[3], g) /\ a[3].drawn = g.drawn
      /\ a[3].on = g.on \cup {"CULL_FACE", "TEXTURE_2D"} /\ White(a[3])
  BY <1>8 DEF Colored, Enabled, SameMatrices, SameFunctions, White
<1>10. InScene(a[3]) /\ a[3].on \cap Switches = {"CULL_FACE", "TEXTURE_2D"}
  BY <1>8, <1>9 DEF InScene, InCamera, SameMatrices, View, Projection, Quiet, Switches
<1>11. Textured(a[3], k) /\ IsList(s2) /\ Carries(a[3], k)
  <2>1. "TEXTURE_2D" \in a[3].on
    BY <1>9
  <2> HIDE DEF a
  <2> QED BY <1>9, <1>10, <2>1, SkyFacesDraw, FacesCarry
<1>12. h = e[2]
  <2> HIDE DEF s1, s2, s3
  <2>1. IsList(s1 \o s2)
    BY <1>2, <1>11, Concatenated
  <2> QED BY <1>1, <1>2, <1>3, <1>4, <1>11, <2>1, RunConcat
<1> HIDE DEF k
<1>13. Disabled(k, e[1], "TEXTURE_2D") /\ Disabled(e[1], h, "CULL_FACE")
  BY <1>6, <1>7, <1>11, <1>12, DoesDisable DEF Textured
<1>14. Carries(g, a[3])
  <2>1. LeavesLights(g, a[3])
    BY <1>9 DEF LeavesLights, SameFunctions, Tracking, ModelLights
  <2> QED BY <1>9, <2>1, CarriesOn DEF InScene, InCamera
<1>15. Carries(k, h)
  <2>1. LeavesLights(k, h) /\ h.drawn = k.drawn
    BY <1>13 DEF Disabled, LeavesLights, SameFunctions, Tracking, ModelLights
  <2> QED BY <1>11, <2>1, CarriesOn DEF Textured
<1> QED BY <1>11, <1>14, <1>15, CarriesTwice

LEMMA TerrainCarries ==
  ASSUME NEW g, NEW h, InScene(g), Quiet(g), h = Run(g, TerrainRender)
  PROVE  Carries(g, h)
<1> DEFINE s1 == <<Enable("CULL_FACE"), Enable("TEXTURE_2D"), BindTexture(texid("grass", 0))>>
           s2 == TerrainList
           s3 == <<Disable("TEXTURE_2D"), Disable("CULL_FACE")>>
<1>1. TerrainRender = (s1 \o s2) \o s3
  BY DEF TerrainRender
<1>2. IsList(s1) /\ Len(s1) = 3 /\ IsList(s2) /\ Len(s2) = 4 /\ IsList(s3) /\ Len(s3) = 2
  BY DEF IsList, TerrainList
<1> DEFINE a == TraceOf(g, s1)
           b == TraceOf(a[3], s2)
           e == TraceOf(b[4], s3)
<1>3. Trace(g, s1, a) /\ Run(g, s1) = a[3]
  <2> HIDE DEF s1, b, e
  <2> QED BY <1>2, Traced
<1>4. Trace(a[3], s2, b) /\ Run(a[3], s2) = b[4]
  <2> HIDE DEF s2, a, e
  <2> QED BY <1>2, Traced
<1>5. Trace(b[4], s3, e) /\ Run(b[4], s3) = e[2]
  <2> HIDE DEF s3, a, b
  <2> QED BY <1>2, Traced
<1> HIDE DEF a, b, e
<1>6. h = e[2]
  <2> HIDE DEF s1, s2, s3
  <2>1. IsList(s1 \o s2)
    BY <1>2, Concatenated
  <2> QED BY <1>1, <1>2, <1>3, <1>4, <1>5, <2>1, RunConcat
<1>7. /\ a[1] = Exec(g, Enable("CULL_FACE")) /\ a[2] = Exec(a[1], Enable("TEXTURE_2D"))
      /\ a[3] = Exec(a[2], BindTexture(texid("grass", 0)))
  BY <1>2, <1>3 DEF Trace
<1>8. /\ b[1] = Exec(a[3], Color(Plain("white"), 10)) /\ b[2] = Exec(b[1], Enable("TEXTURE_2D"))
      /\ b[3] = Exec(b[2], BindTexture(texid("grass", 0)))
      /\ b[4] = Exec(b[3], Draw(None, "terrain", "ground"))
  BY <1>2, <1>4 DEF Trace, TerrainList
<1>9. e[1] = Exec(b[4], Disable("TEXTURE_2D")) /\ h = Exec(e[1], Disable("CULL_FACE"))
  BY <1>2, <1>5, <1>6 DEF Trace
<1>10. {"TEXTURE_2D", "CULL_FACE"} \subseteq Capability /\ Context(g)
  BY DEF Capability, InScene, InCamera
<1>11. /\ Enabled(g, a[1], "CULL_FACE") /\ Enabled(a[1], a[2], "TEXTURE_2D")
       /\ Bound(a[2], a[3], texid("grass", 0)) /\ Context(a[3])
  BY <1>7, <1>10, DoesEnable, DoesBindTexture
<1>12. /\ Colored(a[3], b[1], Plain("white"), 10) /\ Enabled(b[1], b[2], "TEXTURE_2D")
       /\ Bound(b[2], b[3], texid("grass", 0)) /\ Context(b[3])
       /\ Drawn(b[3], b[4], None, "terrain", "ground") /\ Context(b[4])
  BY <1>8, <1>10, <1>11, DoesEnable, DoesBindTexture, DoesColor, DoesDraw
<1>13. Disabled(b[4], e[1], "TEXTURE_2D") /\ Disabled(e[1], h, "CULL_FACE")
  BY <1>9, <1>10, <1>12, DoesDisable
<1>14. /\ SameFunctions(b[3], g) /\ b[3].drawn = g.drawn
       /\ b[3].on = g.on \cup {"CULL_FACE", "TEXTURE_2D"} /\ White(b[3])
  BY <1>11, <1>12 DEF Colored, Enabled, Bound, SameColours, SameFunctions, White
<1>15. Carries(g, b[3])
  <2>1. LeavesLights(g, b[3])
    BY <1>14 DEF LeavesLights, SameFunctions, Tracking, ModelLights
  <2> QED BY <1>10, <1>14, <2>1, CarriesOn
<1>16. Carries(b[3], b[4])
  <2> DEFINE of == "terrain"
             name == "ground"
  <2>1. /\ of \in {"sky", "terrain"} /\ Drawn(b[3], b[4], None, of, name) /\ Context(b[3])
        /\ b[3].on \cap Switches = {"CULL_FACE", "TEXTURE_2D"} /\ White(b[3])
    BY <1>12, <1>14 DEF Quiet, Switches
  <2> HIDE DEF of, name
  <2> QED BY <2>1, SceneryCarries
<1>17. Carries(b[4], h)
  <2>1. LeavesLights(b[4], h) /\ h.drawn = b[4].drawn
    BY <1>13 DEF Disabled, LeavesLights, SameFunctions, Tracking, ModelLights
  <2> QED BY <1>12, <2>1, CarriesOn
<1> QED BY <1>15, <1>16, <1>17, CarriesTwice

(* A new frame.                                                            *)
LEMMA ClearedCarries ==
  ASSUME NEW g, NEW c, c = Cleared(g), Context(g), Context(c)
  PROVE  /\ Loose(g) => Loose(c)
         /\ Settled(g) => Settled(c) /\ AllMeant(c.drawn)
<1>1. /\ c.on = g.on /\ c.fill = g.fill /\ c.blend = g.blend /\ c.drawn = <<>>
  BY DEF Cleared, Context
<1>2. Len(c.drawn) = 0 /\ 1 .. 0 = {}
  BY <1>1
<1>3. PicLit(c.drawn) /\ AllMeant(c.drawn)
  BY <1>2 DEF PicLit, AllMeant
<1>4. LastColors => ColorsLast(c.drawn, Len(c.drawn))
  BY <1>2 DEF LastColors, ColorsLast, LastIs
<1>5. Loose(g) => Loose(c)
  BY <1>1, <1>3, <1>4 DEF Loose, Lit, Tracking
<1>6. Settled(g) => Settled(c)
  BY <1>1 DEF Settled, Even, Foggy, Tracking
<1> QED BY <1>3, <1>5, <1>6

LEMMA FrameCarries ==
  ASSUME NEW g, NEW h, Idle(g), Loose(g), h = Run(Cleared(g), FrameCallsAll)
  PROVE  /\ Loose(h) /\ Foggy(h) /\ White(h)
         /\ Settled(g) => Settled(h) /\ AllMeant(h.drawn)
<1>1. PICK c, m, p, q : FrameVia(g, h, c, m, p, q)
  BY FrameCalls
<1>2. /\ Idle(c) /\ InScene(m) /\ Quiet(m) /\ AfterScenery(m, p) /\ AfterScenery(q, h)
      /\ InScene(q)
  BY <1>1, FrameSteps
<1>3. /\ c = Cleared(g) /\ p = Run(m, SkyBoxRender) /\ h = Run(q, TerrainRender)
      /\ Context(g) /\ Context(c) /\ Context(p)
  BY <1>1, <1>2 DEF FrameVia, Idle, AfterScenery, InScene, InCamera
<1>4. /\ m.on = c.on \cup {"DEPTH_TEST"} /\ SameFunctions(m, c) /\ m.drawn = c.drawn
      /\ q.on = (IF disableFog THEN p.on ELSE p.on \cup {"FOG"})
      /\ SameFunctions(q, p) /\ q.drawn = p.drawn
  BY <1>1, <1>2, <1>3, FrameStarts, FogRuns DEF FrameVia
<1>5. Loose(c) /\ (Settled(g) => Settled(c) /\ AllMeant(c.drawn))
  BY <1>3, ClearedCarries
<1>6. Carries(c, m)
  <2>1. LeavesLights(c, m) /\ m.drawn = c.drawn
    BY <1>4 DEF LeavesLights, SameFunctions, Tracking, ModelLights
  <2> QED BY <1>3, <2>1, CarriesOn
<1>7. Carries(m, p)
  BY <1>2, <1>3, SkyCarries
<1>8. Loose(p) /\ (Settled(g) => Settled(p) /\ AllMeant(p.drawn))
  BY <1>5, <1>6, <1>7 DEF Carries
<1>9. Loose(q) /\ Foggy(q)
  BY <1>4, <1>8 DEF Loose, Lit, Tracking, Foggy, SameFunctions
<1>10. Settled(p) => Settled(q)
  BY <1>4, <1>9 DEF Settled, Even, Tracking, SameFunctions, ModelLights
<1>11. Quiet(q)
  BY <1>2, <1>4 DEF AfterScenery, Quiet
<1>12. Carries(q, h)
  BY <1>2, <1>3, <1>11, TerrainCarries
<1>13. Foggy(h) /\ White(h)
  BY <1>2, <1>9 DEF AfterScenery, Foggy, White
<1> QED BY <1>4, <1>8, <1>9, <1>10, <1>12, <1>13 DEF Carries

(* A part of a radar.                                                      *)
LEMMA RadarPartCarries ==
  ASSUME NEW g, NEW h, NEW radar \in {"vertical", "horizontal"}, NEW obj, NEW name, Context(g),
         Drawn(g, h, obj, radar, name),
         \/ /\ name = "screen" /\ g.on \cap Switches = {"BLEND", "TEXTURE_2D"}
            /\ g.color = [rgb |-> Plain("white"), a |-> 7]
         \/ /\ name = "glow" /\ g.on \cap Switches = {"BLEND"}
            /\ g.color = [rgb |-> Plain("green"), a |-> 10]
         \/ /\ name \notin {"screen", "glow"} /\ g.on \cap Switches = {}
            /\ g.color.rgb = Plain("green")
  PROVE  Carries(g, h)
<1> DEFINE part == Part(obj, radar, name)
<1>1. Style(part) =
        CASE name = "screen" -> Ink({"BLEND", "TEXTURE_2D"}, "white", 7, "off")
          [] name = "glow"   -> Ink({"BLEND"}, "green", 10, "off")
          [] OTHER           -> Ink({}, "green", 10, "off")
  <2>1. part.of = radar /\ part.name = name
    BY DEF Part
  <2>2. radar \notin {"sky", "terrain", "flame", "missile", "panel"}
    OBVIOUS
  <2> HIDE DEF part
  <2> QED BY <2>1, <2>2 DEF Style
<1> HIDE DEF part
<1>2. ASSUME Settled(g) PROVE Inked(g, Style(part))
  <2>1. g.blend = "over"
    BY <1>2 DEF Settled
  <2>2. CASE /\ name = "screen" /\ g.on \cap Switches = {"BLEND", "TEXTURE_2D"}
             /\ g.color = [rgb |-> Plain("white"), a |-> 7]
    BY <1>1, <2>1, <2>2 DEF Inked, Ink
  <2>3. CASE /\ name = "glow" /\ g.on \cap Switches = {"BLEND"}
             /\ g.color = [rgb |-> Plain("green"), a |-> 10]
    BY <1>1, <2>1, <2>3 DEF Inked, Ink
  <2>4. CASE /\ name \notin {"screen", "glow"} /\ g.on \cap Switches = {}
             /\ g.color.rgb = Plain("green")
    BY <1>1, <2>1, <2>4 DEF Inked, Ink
  <2> QED BY <2>2, <2>3, <2>4
<1>3. radar # "model"
  OBVIOUS
<1> QED BY <1>2, <1>3, PartCarries DEF part

LEMMA ScreenCarries ==
  ASSUME NEW g, NEW h, NEW radar \in {"vertical", "horizontal"}, Context(g),
         g.on \cap Switches = {}, h = Run(g, RadarScreen(radar))
  PROVE  Carries(g, h) /\ h.color = [rgb |-> Plain("green"), a |-> 10]
<1> DEFINE s == RadarScreen(radar)
           a == TraceOf(g, s)
<1>1. IsList(s) /\ Len(s) = 13
  BY DEF IsList, RadarScreen
<1>2. Trace(g, s, a) /\ h = a[13]
  <2>1. h = Run(g, s)
    OBVIOUS
  <2> HIDE DEF s
  <2> QED BY <1>1, <2>1, Traced
<1> HIDE DEF a
<1>3. /\ a[1] = Exec(g, Enable("TEXTURE_2D")) /\ a[2] = Exec(a[1], Enable("BLEND"))
      /\ a[3] = Exec(a[2], Color(Plain("white"), 7))
      /\ a[4] = Exec(a[3], BindTexture(texid("radarbg", radar)))
      /\ a[5] = Exec(a[4], Draw(None, radar, "screen")) /\ a[6] = Exec(a[5], Disable("TEXTURE_2D"))
      /\ a[7] = Exec(a[6], Disable("BLEND")) /\ a[8] = Exec(a[7], Enable("BLEND"))
      /\ a[9] = Exec(a[8], Color(Plain("green"), 10)) /\ a[10] = Exec(a[9], Draw(None, radar, "glow"))
      /\ a[11] = Exec(a[10], Disable("BLEND")) /\ a[12] = Exec(a[11], Color(Plain("green"), 10))
      /\ a[13] = Exec(a[12], Draw(None, radar, "line"))
  BY <1>1, <1>2 DEF Trace, RadarScreen
<1>4. {"BLEND", "TEXTURE_2D"} \subseteq Capability
  BY DEF Capability
<1>5. /\ Enabled(g, a[1], "TEXTURE_2D") /\ Enabled(a[1], a[2], "BLEND")
      /\ Colored(a[2], a[3], Plain("white"), 7) /\ Bound(a[3], a[4], texid("radarbg", radar))
      /\ Context(a[4]) /\ Drawn(a[4], a[5], None, radar, "screen") /\ Context(a[5])
  BY <1>3, <1>4, DoesEnable, DoesColor, DoesBindTexture, DoesDraw
<1>6. /\ Disabled(a[5], a[6], "TEXTURE_2D") /\ Disabled(a[6], a[7], "BLEND")
      /\ Enabled(a[7], a[8], "BLEND") /\ Colored(a[8], a[9], Plain("green"), 10)
      /\ Context(a[9]) /\ Drawn(a[9], a[10], None, radar, "glow") /\ Context(a[10])
  BY <1>3, <1>4, <1>5, DoesEnable, DoesDisable, DoesColor, DoesDraw
<1>7. /\ Disabled(a[10], a[11], "BLEND") /\ Colored(a[11], a[12], Plain("green"), 10)
      /\ Context(a[12]) /\ Drawn(a[12], h, None, radar, "line")
  BY <1>2, <1>3, <1>4, <1>6, DoesDisable, DoesColor, DoesDraw
<1>8. /\ a[4].on = g.on \cup {"BLEND", "TEXTURE_2D"} /\ a[5].on = a[4].on
      /\ a[9].on = g.on \cup {"BLEND"} /\ a[10].on = a[9].on /\ a[12].on = g.on
  <2>1. a[4].on = g.on \cup {"BLEND", "TEXTURE_2D"} /\ a[5].on = a[4].on
    BY <1>5 DEF Enabled, Colored, Bound, Drawn
  <2>2. a[9].on = (a[5].on \ {"BLEND", "TEXTURE_2D"}) \cup {"BLEND"} /\ a[10].on = a[9].on
    BY <1>6 DEF Enabled, Disabled, Colored, Drawn
  <2>3. a[12].on = a[10].on \ {"BLEND"}
    BY <1>7 DEF Disabled, Colored
  <2> QED BY <2>1, <2>2, <2>3 DEF Switches
<1>9. Carries(g, a[4])
  <2>1. LeavesLights(g, a[4]) /\ a[4].drawn = g.drawn
    BY <1>5, <1>8 DEF Enabled, Colored, Bound, LeavesLights, SameFunctions, Tracking, ModelLights
  <2> QED BY <2>1, CarriesOn
<1>10. Carries(a[4], a[5])
  <2> DEFINE name == "screen"
  <2>1. Drawn(a[4], a[5], None, radar, name)
    BY <1>5
  <2>2. /\ name = "screen" /\ a[4].on \cap Switches = {"BLEND", "TEXTURE_2D"}
        /\ a[4].color = [rgb |-> Plain("white"), a |-> 7]
    BY <1>5, <1>8 DEF Colored, Bound, SameColours, Switches
  <2> HIDE DEF name
  <2> QED BY <1>5, <2>1, <2>2, RadarPartCarries
<1>11. Carries(a[5], a[9])
  <2>1. LeavesLights(a[5], a[9]) /\ a[9].drawn = a[5].drawn
    BY <1>6, <1>8
       DEF Enabled, Disabled, Colored, LeavesLights, SameFunctions, Tracking, ModelLights
  <2> QED BY <1>5, <2>1, CarriesOn
<1>12. Carries(a[9], a[10])
  <2> DEFINE name == "glow"
  <2>1. Drawn(a[9], a[10], None, radar, name)
    BY <1>6
  <2>2. /\ name = "glow" /\ a[9].on \cap Switches = {"BLEND"}
        /\ a[9].color = [rgb |-> Plain("green"), a |-> 10]
    BY <1>6, <1>8 DEF Colored, Switches
  <2> HIDE DEF name
  <2> QED BY <1>6, <2>1, <2>2, RadarPartCarries
<1>13. Carries(a[10], a[12])
  <2>1. LeavesLights(a[10], a[12]) /\ a[12].drawn = a[10].drawn
    BY <1>7, <1>8 DEF Disabled, Colored, LeavesLights, SameFunctions, Tracking, ModelLights
  <2> QED BY <1>6, <2>1, CarriesOn
<1>14. Carries(a[12], h)
  <2> DEFINE name == "line"
  <2>1. Drawn(a[12], h, None, radar, name)
    BY <1>7
  <2>2. /\ name \notin {"screen", "glow"} /\ a[12].on \cap Switches = {}
        /\ a[12].color.rgb = Plain("green")
    BY <1>7, <1>8 DEF Colored
  <2> HIDE DEF name
  <2> QED BY <1>7, <2>1, <2>2, RadarPartCarries
<1>15. h.color = [rgb |-> Plain("green"), a |-> 10]
  BY <1>7 DEF Colored, Drawn, SameColours
<1> QED BY <1>9, <1>10, <1>11, <1>12, <1>13, <1>14, <1>15, CarriesTwice

LEMMA MarksCarry ==
  ASSUME NEW g, NEW h, NEW radar \in {"vertical", "horizontal"}, IsList(objList), Context(g),
         g.on \cap Switches = {}, g.color.rgb = Plain("green"), h = Run(g, Marks(radar))
  PROVE  Carries(g, h)
<1> DEFINE s == Marks(radar)
           N == Len(objList)
           a == TraceOf(g, s)
<1>1. N \in Nat /\ DOMAIN objList = 1 .. N
  BY DEF IsList
<1>2. IsList(s) /\ Len(s) = N /\ \A i \in 1 .. N : s[i] = Draw(objList[i], radar, "mark")
  BY <1>1 DEF IsList, Marks
<1>3. Trace(g, s, a) /\ h = a[N]
  <2>1. h = Run(g, s)
    OBVIOUS
  <2> HIDE DEF s, N
  <2> QED BY <1>2, <2>1, Traced
<1> HIDE DEF a
<1>4. a[0] = g /\ \A n \in 1 .. N : a[n] = Exec(a[n - 1], Draw(objList[n], radar, "mark"))
  <2> HIDE DEF s, N
  <2> QED BY <1>2, <1>3 DEF Trace
<1> HIDE DEF N
<1> DEFINE Like(k) == Carries(g, k) /\ Context(k) /\ k.on = g.on /\ k.color = g.color
           J == {n \in 0 .. N : Like(a[n])}
<1>5. 0 \in J
  BY <1>1, <1>4 DEF Carries
<1>6. ASSUME NEW n \in 1 .. N, n - 1 \in J PROVE n \in J
  <2> DEFINE p == a[n - 1]
             q == a[n]
             id == objList[n]
             name == "mark"
  <2>1. Like(p) /\ q = Exec(p, Draw(id, radar, name)) /\ name \notin {"screen", "glow"}
    BY <1>4, <1>6
  <2> HIDE DEF p, q, id, name
  <2>2. Drawn(p, q, id, radar, name) /\ Context(q)
    BY <2>1, DoesDraw
  <2>3. Carries(p, q)
    BY <2>1, <2>2, RadarPartCarries
  <2>4. Like(q)
    BY <2>1, <2>2, <2>3, CarriesTwice DEF Drawn, SameColours
  <2> QED BY <2>4 DEF q
<1>7. N \in J
  <2>1. N \in 0 .. N
    BY <1>1
  <2> HIDE DEF J
  <2> QED BY <1>1, <1>5, <1>6, <2>1, Climb
<1> QED BY <1>3, <1>7

LEMMA RadarCarries ==
  ASSUME NEW g, NEW h, NEW radar \in {"vertical", "horizontal"}, Distinct(objList),
         InPanel(g, PanelBelow, <<>>), g.on \cap Switches = {}, h = Run(g, RadarRender(radar))
  PROVE  Carries(g, h) /\ h.color = [rgb |-> Plain("green"), a |-> 10]
<1>1. PICK m, p, q : RadarVia(g, h, radar, m, p, q)
  BY RadarCalls
<1>2. SamePicture(m, g) /\ InPanel(p, RadarBelow(radar), RadarPlace(radar)) /\ "TEXTURE_2D" \notin p.on
  BY <1>1, RadarSteps
<1>3. InPanel(m, RadarBelow(radar), RadarPlace(radar))
  BY <1>1, RadarStarts DEF RadarVia
<1>4. p = Run(m, RadarScreen(radar)) /\ q = Run(p, Marks(radar)) /\ p.on = m.on \ {"TEXTURE_2D", "BLEND"}
  BY <1>1, <1>3, RadarScreens DEF RadarVia
<1>5. MarksDone(p, q)
  BY <1>2, <1>4, MarksDraw
<1>6. SamePicture(h, q)
  <2>1. InPanel(q, RadarBelow(radar), RadarPlace(radar))
    BY <1>2, <1>5 DEF MarksDone, InPanel, SameMatrices, View, Projection
  <2> QED BY <1>1, <2>1, RadarEnds DEF RadarVia
<1>7. Context(g) /\ Context(m) /\ Context(p) /\ Context(q) /\ IsList(objList)
  BY <1>2, <1>3, <1>5 DEF InPanel, MarksDone, Distinct
<1>8. m.on \cap Switches = {} /\ p.on \cap Switches = {}
  BY <1>2, <1>4 DEF SamePicture, Switches
<1>9. Carries(g, m)
  BY <1>2, <1>7, SameCarries
<1>10. Carries(m, p) /\ p.color = [rgb |-> Plain("green"), a |-> 10]
  BY <1>4, <1>7, <1>8, ScreenCarries
<1>11. Carries(p, q)
  BY <1>4, <1>7, <1>8, <1>10, MarksCarry
<1>12. Carries(q, h)
  BY <1>6, <1>7, SameCarries
<1>13. h.color = [rgb |-> Plain("green"), a |-> 10]
  BY <1>5, <1>6, <1>10 DEF MarksDone, SamePicture, SameColours
<1> QED BY <1>9, <1>10, <1>11, <1>12, <1>13, CarriesTwice

LEMMA TextCarries ==
  ASSUME NEW g, NEW h, Context(g), g.on \cap Switches = {},
         g.color = [rgb |-> Plain("green"), a |-> 10], h = Run(g, RenderTextObject)
  PROVE  Carries(g, h)
<1> DEFINE s == RenderTextObject
           a == TraceOf(g, s)
<1>1. IsList(s) /\ Len(s) = 10
  BY DEF IsList, RenderTextObject
<1>2. Trace(g, s, a) /\ h = a[10]
  <2>1. h = Run(g, s)
    OBVIOUS
  <2> HIDE DEF s
  <2> QED BY <1>1, <2>1, Traced
<1> HIDE DEF a
<1>3. /\ a[1] = Exec(g, Enable("ALPHA_TEST")) /\ a[2] = Exec(a[1], Enable("BLEND"))
      /\ a[3] = Exec(a[2], BlendFunc("over")) /\ a[4] = Exec(a[3], AlphaFunc("GEQUAL_ZERO"))
      /\ a[5] = Exec(a[4], Enable("TEXTURE_2D")) /\ a[6] = Exec(a[5], BindTexture(fpsTexture))
      /\ a[7] = Exec(a[6], Draw(None, "panel", "text")) /\ a[8] = Exec(a[7], Disable("BLEND"))
      /\ a[9] = Exec(a[8], Disable("ALPHA_TEST")) /\ a[10] = Exec(a[9], Disable("TEXTURE_2D"))
  BY <1>1, <1>2 DEF Trace, RenderTextObject
<1>4. {"BLEND", "ALPHA_TEST", "TEXTURE_2D"} \subseteq Capability
  BY DEF Capability
<1>5. /\ Enabled(g, a[1], "ALPHA_TEST") /\ Enabled(a[1], a[2], "BLEND")
      /\ Blended(a[2], a[3], "over") /\ AlphaTested(a[3], a[4], "GEQUAL_ZERO") /\ Context(a[4])
  BY <1>3, <1>4, DoesEnable, DoesBlendFunc, DoesAlphaFunc
<1>6. /\ Enabled(a[4], a[5], "TEXTURE_2D") /\ Bound(a[5], a[6], fpsTexture) /\ Context(a[6])
      /\ Drawn(a[6], a[7], None, "panel", "text") /\ Context(a[7])
  BY <1>3, <1>4, <1>5, DoesEnable, DoesBindTexture, DoesDraw
<1>7. /\ Disabled(a[7], a[8], "BLEND") /\ Disabled(a[8], a[9], "ALPHA_TEST")
      /\ Disabled(a[9], h, "TEXTURE_2D")
  BY <1>2, <1>3, <1>4, <1>6, DoesDisable
<1>8. /\ a[6].drawn = g.drawn /\ a[6].on = g.on \cup {"BLEND", "ALPHA_TEST", "TEXTURE_2D"}
      /\ a[6].color = g.color /\ a[6].fill = g.fill
      /\ a[6].blend = "over" /\ a[6].alpha = "GEQUAL_ZERO"
  BY <1>5, <1>6 DEF Enabled, Blended, AlphaTested, Bound, SameColours, SameFunctions
<1>9. Carries(g, a[6])
  <2>1. LeavesLights(g, a[6])
    BY <1>8 DEF LeavesLights, Tracking, ModelLights
  <2> QED BY <1>8, <2>1, CarriesOn
<1>10. Carries(a[6], a[7])
  <2> DEFINE part == Part(None, "panel", "text")
             of == "panel"
             name == "text"
  <2>1. Style(part) = Ink({"BLEND", "ALPHA_TEST", "TEXTURE_2D"}, "green", 10, "GEQUAL_ZERO")
    <3>1. part.of = "panel" /\ part.name = "text"
      BY DEF Part
    <3> HIDE DEF part
    <3> QED BY <3>1 DEF Style
  <2>2. a[6].on \cap Switches = {"BLEND", "ALPHA_TEST", "TEXTURE_2D"}
    BY <1>8 DEF Switches
  <2>3. Inked(a[6], Style(part))
    BY <1>8, <2>1, <2>2 DEF Inked, Ink
  <2>4. Inked(a[6], Style(Part(None, of, name))) /\ of # "model" /\ Drawn(a[6], a[7], None, of, name)
    BY <1>6, <2>3
  <2> HIDE DEF of, name
  <2> QED BY <1>6, <2>4, PartCarries
<1>11. Carries(a[7], h)
  <2>1. LeavesLights(a[7], h) /\ h.drawn = a[7].drawn
    BY <1>7 DEF Disabled, LeavesLights, SameFunctions, Tracking, ModelLights
  <2> QED BY <1>6, <2>1, CarriesOn
<1> QED BY <1>9, <1>10, <1>11, CarriesTwice

LEMMA LineCarries ==
  ASSUME NEW p, NEW g, NEW h, Context(g), g.on \cap Switches = {}, LineIn(p, g, h)
  PROVE  Carries(g, h)
<1>1. /\ Context(p) /\ p.on = g.on \ {"DEPTH_TEST", "TEXTURE_2D"} /\ SameFunctions(p, g)
      /\ p.color.rgb = Plain("white") /\ p.drawn = g.drawn /\ Drawn(p, h, None, "panel", "line")
  BY DEF LineIn
<1>2. Carries(g, p)
  <2>1. LeavesLights(g, p)
    BY <1>1 DEF LeavesLights, SameFunctions, Tracking, ModelLights
  <2> QED BY <1>1, <2>1, CarriesOn
<1>3. Carries(p, h)
  <2> DEFINE part == Part(None, "panel", "line")
             of == "panel"
             name == "line"
  <2>1. Style(part) = Ink({}, "white", 10, "off")
    <3>1. part.of = "panel" /\ part.name = "line"
      BY DEF Part
    <3> HIDE DEF part
    <3> QED BY <3>1 DEF Style
  <2>2. Inked(p, Style(part))
    BY <1>1, <2>1 DEF Inked, Ink
  <2>3. Inked(p, Style(Part(None, of, name))) /\ of # "model" /\ Drawn(p, h, None, of, name)
    BY <1>1, <2>2
  <2> HIDE DEF of, name
  <2> QED BY <1>1, <2>3, PartCarries
<1> QED BY <1>2, <1>3, CarriesTwice

LEMMA PanelCarries ==
  ASSUME NEW g, NEW h, NEW new, Distinct(objList), Ready(g), h = Run(g, SetText(new) \o PanelRender)
  PROVE  Carries(g, h)
<1>1. PICK n, m, p, q, u : PanelVia(g, h, new, n, m, p, q, u)
  BY PanelCalls
<1> DEFINE e == <<>>
<1>2. /\ InCamera(n) /\ n.on = g.on /\ SameFunctions(n, g) /\ n.drawn = g.drawn
      /\ InPanel(m, PanelBelow, e) /\ m.on = n.on \ {"DEPTH_TEST", "TEXTURE_2D"}
      /\ RadarDone(m, p, "vertical") /\ RadarDone(p, q, "horizontal")
      /\ Idle(h) /\ SamePicture(h, u) /\ InPanel(u, PanelBelow, e)
  BY <1>1, PanelSteps
<1>3. /\ m = Run(n, PanelStart) /\ p = Run(m, RadarRender("vertical"))
      /\ q = Run(p, RadarRender("horizontal")) /\ u = Run(q, RenderTextObject)
  BY <1>1 DEF PanelVia
<1>4. InPanel(p, PanelBelow, e) /\ InPanel(q, PanelBelow, e)
  BY <1>2 DEF RadarDone
<1>5. /\ Context(g) /\ Context(n) /\ Context(m) /\ Context(p) /\ Context(q) /\ Context(u)
  BY <1>2, <1>4 DEF Ready, InCamera, InPanel
<1>6. /\ n.on \cap Switches = {} /\ m.on \cap Switches = {} /\ p.on \cap Switches = {}
      /\ q.on \cap Switches = {}
  BY <1>2 DEF Ready, Quiet, Switches, RadarDone
<1>7. Carries(g, n)
  <2>1. LeavesLights(g, n)
    BY <1>2 DEF LeavesLights, SameFunctions, Tracking
  <2> QED BY <1>2, <1>5, <2>1, CarriesOn
<1>8. Carries(n, m)
  <2>1. PanelPic(n.drawn)
    BY <1>2, WorldPanel DEF Ready
  <2>2. \E k : LineIn(k, n, m)
    BY <1>2, <1>3, <2>1, PanelStarts
  <2> QED BY <1>5, <1>6, <2>2, LineCarries
<1>9. Carries(m, p)
  BY <1>2, <1>3, <1>6, RadarCarries
<1>10. Carries(p, q) /\ q.color = [rgb |-> Plain("green"), a |-> 10]
  BY <1>3, <1>4, <1>6, RadarCarries
<1>11. Carries(q, u)
  BY <1>3, <1>5, <1>6, <1>10, TextCarries
<1>12. Carries(u, h)
  BY <1>2, <1>5, SameCarries
<1> QED BY <1>7, <1>8, <1>9, <1>10, <1>11, <1>12, CarriesTwice

(* A load changes only what is bound.                                      *)
LEMMA LoadCarries ==
  ASSUME NEW g, NEW h, Context(g), Loaded(g, h)
  PROVE  Carries(g, h)
<1>1. LeavesLights(g, h) /\ h.drawn = g.drawn
  BY DEF Loaded, SameFunctions, LeavesLights, Tracking
<1> QED BY <1>1, CarriesOn

LEMMA BeganLoose ==
  ASSUME NEW g, Began(g)
  PROVE  Loose(g)
<1>1. g.fill = "fill" /\ ~Tracking(g) /\ "FOG" \notin g.on
  BY DEF Began, SameFunctions, GLInitial, Tracking
<1>2. Len(g.drawn) = 0 /\ 1 .. 0 = {}
  BY DEF Began
<1>3. PicLit(g.drawn)
  BY <1>2 DEF PicLit
<1> QED BY <1>1, <1>3 DEF Loose, Lit

-----------------------------------------------------------------------------
(* How everything looks, from frame to frame                               *)

(* The first frame settles it, once the local player's aircraft is drawn;  *)
(* from the second on everything is drawn as meant.                        *)
LookOf(g, at, nth, rest, seen) ==
  /\ Loose(g)
  /\ at # "objects" /\ nth >= 1 => Settled(g)
  /\ at = "objects" =>
       /\ nth >= 1 /\ Foggy(g) /\ White(g)
       /\ (\A j \in 1 .. Len(rest) : rest[j] # localPlayerID) => Settled(g)
  /\ nth = 2 => Settled(g) /\ AllMeant(g.drawn)
  /\ \A l \in seen : \E d : Good(d) /\ AsMeant(d) /\ l = Seen(d)

LookInv ==
  /\ FrameInv /\ localPlayerID \in objects
  /\ LookOf(gl, phase, frame, renobj, looks)

(* No step changes what the meshes are, and with it what is meant.         *)
LEMMA MeshKept ==
  ASSUME mesh' = mesh
  PROVE  LastMesh' = LastMesh /\ RefPic' = RefPic /\ LastFill' = LastFill /\ LastColors' = LastColors
<1>1. recursive_render(localPlayerID)' = recursive_render(localPlayerID)
  BY DEF recursive_render, RenderMesh, apply_material, LightIfNormals, TrackIfColors
<1>2. LastMesh' = LastMesh /\ ModelPic' = ModelPic
  BY <1>1 DEF LastMesh, ModelPic
<1>3. HasMesh' = HasMesh
  BY <1>2 DEF HasMesh
<1>4. LastFill' = LastFill /\ LastColors' = LastColors
  BY <1>2, <1>3 DEF LastFill, LastColors, FillOf
<1>5. RefState' = RefState
  BY <1>4 DEF RefState, Fog
<1>6. RefPic' = RefPic
  BY <1>1, <1>5 DEF RefPic
<1> QED BY <1>2, <1>4, <1>6

LEMMA LookKept ==
  ASSUME mesh' = mesh
  PROVE  LookInv' <=> FrameInv' /\ localPlayerID \in objects'
                        /\ LookOf(gl', phase', frame', renobj', looks')
<1>1. LastMesh' = LastMesh /\ RefPic' = RefPic /\ LastFill' = LastFill /\ LastColors' = LastColors
  BY MeshKept
<1>2. Lit(gl)' <=> Lit(gl')
  BY <1>1 DEF Lit, PicLit, ModelLit, ColorsLast, LastIs, IsModel, Tracking
<1>3. Loose(gl)' <=> Loose(gl')
  BY <1>1, <1>2 DEF Loose, Tracking
<1>4. Settled(gl)' <=> Settled(gl')
  BY <1>1 DEF Settled, Even, Foggy, Tracking
<1>5. \A d : AsMeant(d)' <=> AsMeant(d)
  BY <1>1 DEF AsMeant, AsRef, Meant, IsModel, SameLook, Fog
<1>6. AllMeant(gl.drawn)' <=> AllMeant(gl'.drawn)
  BY <1>1 DEF AllMeant, AsMeant, AsRef, Meant, IsModel, SameLook, Fog
<1> QED BY <1>3, <1>4, <1>5, <1>6 DEF LookInv, LookOf, Foggy, White

LEMMA InitLook == Init => LookInv
<1> SUFFICES ASSUME Init PROVE LookInv
  OBVIOUS
<1>1. /\ phase = "events" /\ frame = 0 /\ looks = {} /\ localPlayerID \in objects
      /\ gl = Run(GLInitial, Initialize \o NewPanel \o loadModels \o NewPlayer(localPlayerID))
  BY DEF Init
<1>2. Loose(gl)
  BY <1>1, GameBegins, BeganLoose
<1>3. LookOf(gl, phase, frame, renobj, looks)
  BY <1>1, <1>2 DEF LookOf
<1> QED BY <1>1, <1>3, InitFrame DEF LookInv

LEMMA UpdateKeepsLook ==
  ASSUME LookInv, NEW id \in ObjectID, UpdateObject(id)
  PROVE  LookInv'
<1>1. FrameInv' /\ mesh' = mesh
  BY UpdateKeepsFrame DEF LookInv, UpdateObject
<1>2. /\ phase = "events" /\ frame' = frame /\ looks' = looks /\ Context(gl)
      /\ localPlayerID \in objects /\ LookOf(gl, phase, frame, renobj, looks)
  BY DEF UpdateObject, LookInv, FrameInv, Between, Idle
<1>3. phase' # "objects" /\ localPlayerID \in objects'
  BY <1>2 DEF UpdateObject, NewObject, listVars
<1>4. Carries(gl, gl')
  <2>1. CASE gl' = gl
    BY <2>1 DEF Carries
  <2>2. CASE gl' = Run(gl, NewFlame(id))
    BY <1>2, <2>2, Loads, LoadCarries DEF NewFlame
  <2> QED BY <2>1, <2>2 DEF UpdateObject, NewObject, NewPlayer, NewMissile
<1>5. LookOf(gl', phase', frame', renobj', looks')
  BY <1>2, <1>3, <1>4 DEF LookOf, Carries
<1> QED BY <1>1, <1>3, <1>5, LookKept

LEMMA BeginKeepsLook ==
  ASSUME LookInv, BeginFrame
  PROVE  LookInv'
<1>1. FrameInv' /\ mesh' = mesh
  BY BeginKeepsFrame DEF LookInv, BeginFrame
<1>2. /\ phase = "events" /\ phase' = "objects" /\ renobj' = renderList /\ looks' = looks
      /\ frame' = (IF frame = 2 THEN 2 ELSE frame + 1) /\ frame \in 0 .. 2
      /\ Idle(gl) /\ localPlayerID \in objects /\ localPlayerID \in objects'
      /\ ListsMatch /\ LookOf(gl, phase, frame, renobj, looks)
  BY DEF BeginFrame, LookInv, FrameInv, TypeOK, Between, listVars
<1>3. gl' = Run(Cleared(gl), FrameCallsAll)
  <2>1. gl' = Run([gl EXCEPT !.drawn = <<>>],
                  SetView \o CameraUpdate \o DepthOn \o SkyBoxRender \o RenderFog \o TerrainRender)
    BY DEF BeginFrame
  <2> QED BY <2>1 DEF Cleared, FrameCallsAll, FrameStart
<1>4. /\ Loose(gl') /\ Foggy(gl') /\ White(gl')
      /\ Settled(gl) => Settled(gl') /\ AllMeant(gl'.drawn)
  BY <1>2, <1>3, FrameCarries DEF LookOf
<1>5. \E j \in 1 .. Len(renobj') : renobj'[j] = localPlayerID
  BY <1>2 DEF ListsMatch
<1>6. frame' >= 1 /\ (frame' = 2 => frame >= 1)
  BY <1>2
<1>7. frame' = 2 => Settled(gl') /\ AllMeant(gl'.drawn)
  BY <1>2, <1>4, <1>6 DEF LookOf
<1>8. \A l \in looks' : \E d : Good(d) /\ AsMeant(d) /\ l = Seen(d)
  BY <1>2 DEF LookOf
<1>9. LookOf(gl', phase', frame', renobj', looks')
  BY <1>2, <1>4, <1>5, <1>6, <1>7, <1>8 DEF LookOf
<1> QED BY <1>1, <1>2, <1>9, LookKept

LEMMA ObjectKeepsLook ==
  ASSUME LookInv, RenderObject
  PROVE  LookInv'
<1> DEFINE id == Head(renobj)
<1>1. FrameInv' /\ mesh' = mesh
  BY ObjectKeepsFrame DEF LookInv, RenderObject
<1>2. /\ phase = "objects" /\ phase' = "objects" /\ renobj # <<>> /\ renobj' = Tail(renobj)
      /\ gl' = Run(gl, ObjectRender(id)) /\ frame' = frame /\ looks' = looks
      /\ localPlayerID \in objects' /\ Ready(gl) /\ KnownMeshes
      /\ renobj \in Seq(ObjectID) /\ LookOf(gl, phase, frame, renobj, looks)
  BY KnowsMeshes DEF RenderObject, LookInv, FrameInv, TypeOK, Within, listVars
<1>3. /\ Len(renobj) \in Nat \ {0} /\ id = renobj[1] /\ Len(renobj') = Len(renobj) - 1
      /\ \A i \in 1 .. Len(renobj) - 1 : renobj'[i] = renobj[i + 1]
  BY <1>2
<1>4. /\ Loose(gl) /\ Foggy(gl) /\ White(gl) /\ frame >= 1
      /\ (\A j \in 1 .. Len(renobj) : renobj[j] # localPlayerID) => Settled(gl)
      /\ frame = 2 => Settled(gl) /\ AllMeant(gl.drawn)
  BY <1>2 DEF LookOf
<1> HIDE DEF id
<1>5. /\ Loose(gl') /\ Foggy(gl') /\ White(gl')
      /\ id \in PlayerID => Settled(gl')
      /\ Settled(gl) => Settled(gl')
      /\ Settled(gl) /\ AllMeant(gl.drawn) => AllMeant(gl'.drawn)
  <2>1. CASE id \in PlayerID
    <3>1. gl' = Run(gl, PlayerRender(id))
      BY <1>2, <2>1 DEF ObjectRender
    <3> QED BY <1>2, <1>4, <2>1, <3>1, PlayerCarries
  <2>2. CASE id \notin PlayerID
    <3>1. gl' = Run(gl, MissileRender(id))
      BY <1>2, <2>2 DEF ObjectRender
    <3>2. Carries(gl, gl') /\ White(gl') /\ (Foggy(gl) => Foggy(gl'))
      BY <1>2, <3>1, MissileCarries
    <3> QED BY <1>4, <2>2, <3>2 DEF Carries
  <2> QED BY <2>1, <2>2
<1>6. (\A j \in 1 .. Len(renobj') : renobj'[j] # localPlayerID) => Settled(gl')
  <2> SUFFICES ASSUME \A j \in 1 .. Len(renobj') : renobj'[j] # localPlayerID PROVE Settled(gl')
    OBVIOUS
  <2>1. CASE id = localPlayerID
    BY <1>5, <2>1, RendererAssumption
  <2>2. CASE id # localPlayerID
    <3>1. ASSUME NEW j \in 1 .. Len(renobj) PROVE renobj[j] # localPlayerID
      <4>1. CASE j = 1
        BY <1>3, <2>2, <4>1
      <4>2. CASE j # 1
        <5>1. j - 1 \in 1 .. Len(renobj') /\ (j - 1) + 1 = j
          BY <1>3, <4>2
        <5>2. renobj'[j - 1] = renobj[j]
          BY <1>3, <5>1
        <5> QED BY <5>1, <5>2
      <4> QED BY <4>1, <4>2
    <3> QED BY <1>4, <1>5, <3>1
  <2> QED BY <2>1, <2>2
<1>7. \A l \in looks' : \E d : Good(d) /\ AsMeant(d) /\ l = Seen(d)
  BY <1>2 DEF LookOf
<1>8. LookOf(gl', phase', frame', renobj', looks')
  BY <1>2, <1>4, <1>5, <1>6, <1>7 DEF LookOf
<1> QED BY <1>1, <1>2, <1>8, LookKept

LEMMA PanelKeepsLook ==
  ASSUME LookInv, RenderPanel
  PROVE  LookInv'
<1>1. FrameInv' /\ mesh' = mesh
  BY PanelKeepsFrame DEF LookInv, RenderPanel
<1>2. /\ phase = "objects" /\ phase' = "events" /\ renobj = <<>> /\ frame' = frame
      /\ looks' = (IF frame = 2 THEN looks \cup {Seen(d) : d \in ToSet(gl'.drawn)} ELSE looks)
      /\ localPlayerID \in objects' /\ Ready(gl) /\ Distinct(objList)
      /\ LookOf(gl, phase, frame, renobj, looks)
  BY DEF RenderPanel, LookInv, FrameInv, Within, ListsMatch, listVars
<1>3. PICK new : gl' = Run(gl, SetText(new) \o PanelRender)
  BY DEF RenderPanel
<1>4. Carries(gl, gl')
  BY <1>2, <1>3, PanelCarries
<1>5. Len(renobj) = 0 /\ 1 .. 0 = {}
  BY <1>2
<1>6. /\ Loose(gl) /\ Settled(gl) /\ (frame = 2 => AllMeant(gl.drawn))
      /\ \A l \in looks : \E d : Good(d) /\ AsMeant(d) /\ l = Seen(d)
  BY <1>2, <1>5 DEF LookOf
<1>7. Loose(gl') /\ Settled(gl') /\ (frame = 2 => AllMeant(gl'.drawn))
  BY <1>4, <1>6 DEF Carries
<1>8. Fine(gl'.drawn) /\ ToSet(gl'.drawn) = {gl'.drawn[i] : i \in 1 .. Len(gl'.drawn)}
  <2>1. Idle(gl') /\ PanelPic(gl'.drawn)
    BY <1>2, <1>3, PanelDraws
  <2>2. Fine(gl'.drawn) /\ IsList(gl'.drawn)
    BY <2>1 DEF Idle, Context, PanelPic
  <2>3. DOMAIN gl'.drawn = 1 .. Len(gl'.drawn)
    BY <2>2 DEF IsList
  <2> QED BY <2>2, <2>3 DEF ToSet
<1>9. \A l \in looks' : \E d : Good(d) /\ AsMeant(d) /\ l = Seen(d)
  <2> SUFFICES ASSUME NEW l \in looks', l \notin looks
               PROVE  \E d : Good(d) /\ AsMeant(d) /\ l = Seen(d)
    BY <1>6
  <2>1. frame = 2 /\ \E d \in ToSet(gl'.drawn) : l = Seen(d)
    BY <1>2
  <2>2. PICK i \in 1 .. Len(gl'.drawn) : l = Seen(gl'.drawn[i])
    BY <1>8, <2>1
  <2>3. Good(gl'.drawn[i]) /\ AsMeant(gl'.drawn[i])
    BY <1>7, <1>8, <2>1 DEF Fine, AllMeant
  <2> QED BY <2>2, <2>3
<1>10. LookOf(gl', phase', frame', renobj', looks')
  BY <1>2, <1>7, <1>9 DEF LookOf
<1> QED BY <1>1, <1>2, <1>10, LookKept

LEMMA StutterKeepsLook ==
  ASSUME LookInv, UNCHANGED vars
  PROVE  LookInv'
<1>1. FrameInv' /\ mesh' = mesh
  BY StutterKeepsFrame DEF LookInv, vars
<1>2. localPlayerID \in objects' /\ LookOf(gl', phase', frame', renobj', looks')
  BY DEF LookInv, vars, engineVars, listVars
<1> QED BY <1>1, <1>2, LookKept

LEMMA LookInvariant == Spec => []LookInv
<1>1. LookInv /\ [Next]_vars => LookInv'
  <2> SUFFICES ASSUME LookInv, [Next]_vars PROVE LookInv'
    OBVIOUS
  <2>1. CASE \E id \in ObjectID : UpdateObject(id)
    BY <2>1, UpdateKeepsLook
  <2>2. CASE BeginFrame
    BY <2>2, BeginKeepsLook
  <2>3. CASE RenderObject
    BY <2>3, ObjectKeepsLook
  <2>4. CASE RenderPanel
    BY <2>4, PanelKeepsLook
  <2>5. CASE Aborted
    BY <2>5, StutterKeepsLook DEF Aborted
  <2>6. CASE UNCHANGED vars
    BY <2>6, StutterKeepsLook
  <2> QED BY <2>1, <2>2, <2>3, <2>4, <2>5, <2>6 DEF Next
<1> QED BY <1>1, InitLook, PTL DEF Spec

LEMMA StyleSwitches == \A part : Style(part).on \subseteq Switches
<1> SUFFICES ASSUME NEW part PROVE Style(part).on \subseteq Switches
  OBVIOUS
<1>1. \A on, rgb, a, alpha : Ink(on, rgb, a, alpha).on = on
  BY DEF Ink
<1>2. CASE part.of \in {"sky", "terrain"}
  BY <1>1, <1>2 DEF Style, Switches
<1>3. CASE part.of = "flame"
  BY <1>1, <1>3 DEF Style, Switches
<1>4. CASE part.of = "missile"
  BY <1>1, <1>4 DEF Style, Switches
<1>5. CASE part.of = "panel"
  BY <1>1, <1>5 DEF Style, Switches
<1>6. CASE part.of \notin {"sky", "terrain", "flame", "missile", "panel"}
  BY <1>1, <1>6 DEF Style, Switches
<1> QED BY <1>2, <1>3, <1>4, <1>5, <1>6

(* What is meant of a part follows from its kind and its name.             *)
LEMMA SameStyle ==
  \A p, q : p.of = q.of /\ p.name = q.name =>
    Style(p) = Style(q) /\ TextureOf(p)[1] = TextureOf(q)[1]
<1> SUFFICES ASSUME NEW p, NEW q, p.of = q.of, p.name = q.name
             PROVE  Style(p) = Style(q) /\ TextureOf(p)[1] = TextureOf(q)[1]
  OBVIOUS
<1>1. Style(p) = Style(q)
  BY DEF Style
<1>2. \A file, u, v : texid(file, u)[1] = texid(file, v)[1]
  BY DEF texid
<1>3. TextureOf(p)[1] = TextureOf(q)[1]
  <2>1. CASE p.of = "flame"
    <3>1. TextureOf(p) = texid("flame", p.obj) /\ TextureOf(q) = texid("flame", q.obj)
      BY <2>1 DEF TextureOf
    <3> QED BY <1>2, <3>1
  <2>2. CASE p.of # "flame"
    <3>1. TextureOf(p) = TextureOf(q)
      BY <2>2 DEF TextureOf
    <3> QED BY <3>1
  <2> QED BY <2>1, <2>2
<1> QED BY <1>1, <1>3

(* The mesh with colours that AfterColors asks for.                        *)
LEMMA ColorsBefore ==
  ASSUME NEW i \in Nat, ColorsLast(gl.drawn, i - 1)
  PROVE  AfterColors(i)
<1> DEFINE before == {j \in 1 .. i - 1 : OfModel(j)}
<1>1. PICK m : LastIs(gl.drawn, i - 1, m) /\ mesh[m].colors
  BY DEF ColorsLast
<1>2. CASE m = LastMesh /\ \A j \in 1 .. i - 1 : ~IsModel(gl.drawn[j])
  <2>1. before = {}
    BY <1>2 DEF IsModel, OfModel
  <2> QED BY <1>1, <1>2, <2>1 DEF AfterColors
<1>3. CASE \E j \in 1 .. i - 1 : /\ IsModel(gl.drawn[j]) /\ gl.drawn[j].part.name = m
                                 /\ \A k \in j + 1 .. i - 1 : ~IsModel(gl.drawn[k])
  <2>1. PICK j \in 1 .. i - 1 : /\ IsModel(gl.drawn[j]) /\ gl.drawn[j].part.name = m
                                /\ \A k \in j + 1 .. i - 1 : ~IsModel(gl.drawn[k])
    BY <1>3
  <2>2. j \in before
    BY <2>1 DEF IsModel, OfModel
  <2>3. \A k \in before : k \in Int /\ j >= k
    <3> SUFFICES ASSUME NEW k \in before, k > j PROVE FALSE
      OBVIOUS
    <3>1. k \in j + 1 .. i - 1
      OBVIOUS
    <3> QED BY <2>1, <3>1 DEF IsModel, OfModel
  <2>4. Max(before) = j
    <3>1. Max(before) = CHOOSE x \in before : \A y \in before : x >= y
      BY DEF Max
    <3>2. \A x \in before : (\A y \in before : x >= y) => x = j
      BY <2>2, <2>3
    <3> HIDE DEF before
    <3> QED BY <2>2, <2>3, <3>1, <3>2
  <2>5. AfterColors(i) <=> mesh[IF before = {} THEN LastMesh ELSE gl.drawn[Max(before)].part.name].colors
    BY DEF AfterColors
  <2> HIDE DEF before
  <2> QED BY <1>1, <2>1, <2>2, <2>4, <2>5
<1> QED BY <1>1, <1>2, <1>3 DEF LastIs

(* Each of the model's switches (StaticModel::render) reaches its own      *)
(* meshes and nothing else, whatever was drawn before; and a mesh that is  *)
(* lit without its material (apply_material, recursive_render) has lost it *)
(* to a mesh with colours drawn just before.                               *)
THEOREM TheModelIsLitAsMeant == Spec => []WellLit
<1>1. ASSUME LookInv PROVE WellLit
  <2>1. /\ PicLit(gl.drawn) /\ (frame = 2 => AllMeant(gl.drawn)) /\ FrameInv
    BY <1>1 DEF LookInv, LookOf, Loose, Lit
  <2>2. DOMAIN gl.drawn = 1 .. Len(gl.drawn) /\ ToSet(gl.drawn) = {gl.drawn[i] : i \in 1 .. Len(gl.drawn)}
    BY <2>1, PictureIsGood
  <2>3. OnlyMeshesLit
    <3> SUFFICES ASSUME frame = 2, NEW i \in 1 .. Len(gl.drawn)
                 PROVE  "LIGHTING" \in gl.drawn[i].on <=>
                          gl.drawn[i].part.of = "model" /\ mesh[gl.drawn[i].part.name].normals
      BY <2>2 DEF OnlyMeshesLit
    <3> DEFINE d == gl.drawn[i]
    <3>1. ModelLit(gl.drawn, i) /\ AsMeant(d)
      BY <2>1 DEF PicLit, AllMeant
    <3>2. CASE IsModel(d)
      BY <3>1, <3>2 DEF ModelLit, IsModel
    <3>3. CASE ~IsModel(d)
      <4>1. d.on \ {"DEPTH_TEST"} = Fog \cup Style(d.part).on
        BY <3>1, <3>3 DEF AsMeant, Meant
      <4>2. "LIGHTING" \notin Fog \cup Style(d.part).on
        BY StyleSwitches DEF Fog, Switches
      <4>3. "LIGHTING" \notin d.on
        BY <4>1, <4>2
      <4> QED BY <3>3, <4>3 DEF IsModel
    <3> QED BY <3>2, <3>3
  <2>4. OwnMaterial
    <3> SUFFICES ASSUME NEW i \in 1 .. Len(gl.drawn), OfModel(i), mesh[gl.drawn[i].part.name].normals
                 PROVE  IF mesh[gl.drawn[i].part.name].colors
                        THEN gl.drawn[i].rgb = <<"vertex", gl.drawn[i].part.name>>
                        ELSE \/ gl.drawn[i].rgb = <<"material", gl.drawn[i].part.name>>
                             \/ AfterColors(i)
      BY <2>2 DEF OwnMaterial
    <3>1. ModelLit(gl.drawn, i) /\ IsModel(gl.drawn[i])
      BY <2>1 DEF PicLit, OfModel, IsModel
    <3>2. ColorsLast(gl.drawn, i - 1) => AfterColors(i)
      BY ColorsBefore
    <3> QED BY <3>1, <3>2 DEF ModelLit
  <2> QED BY <2>3, <2>4 DEF WellLit
<1> QED BY <1>1, LookInvariant, PTL

(* From the second frame on a part always looks the same: neither what was *)
(* drawn before it, in this frame or in earlier ones, nor an update that   *)
(* loads a texture between two frames, nor the place of its object in the  *)
(* list changes its capabilities, colours or functions (everything that    *)
(* RenderingEngine::render calls).                                         *)
THEOREM PartsAlwaysLookAlike == Spec => []LooksAlike
<1>1. ASSUME LookInv PROVE LooksAlike
  <2> SUFFICES ASSUME NEW p \in looks, NEW q \in looks, p.part = q.part PROVE p = q
    BY DEF LooksAlike
  <2>1. /\ \A l \in looks : \E d : Good(d) /\ AsMeant(d) /\ l = Seen(d)
        /\ KnownMeshes
    BY <1>1, KnowsMeshes DEF LookInv, LookOf, FrameInv
  <2>2. PICK d : Good(d) /\ AsMeant(d) /\ p = Seen(d)
    BY <2>1
  <2>3. PICK e : Good(e) /\ AsMeant(e) /\ q = Seen(e)
    BY <2>1
  <2> DEFINE kind(o) == IF o = None THEN "" ELSE IF o \in PlayerID THEN "player" ELSE "missile"
  <2>4. /\ p.part = <<kind(d.part.obj), d.part.of, d.part.name>>
        /\ q.part = <<kind(e.part.obj), e.part.of, e.part.name>>
    BY <2>2, <2>3 DEF Seen
  <2>5. kind(d.part.obj) = kind(e.part.obj) /\ d.part.of = e.part.of /\ d.part.name = e.part.name
    <3> DEFINE k == kind(d.part.obj)
               l == kind(e.part.obj)
    <3>1. <<k, d.part.of, d.part.name>> = <<l, e.part.of, e.part.name>>
      BY <2>4
    <3> HIDE DEF kind, k, l
    <3>2. k = l /\ d.part.of = e.part.of /\ d.part.name = e.part.name
      BY <3>1
    <3> QED BY <3>2 DEF k, l
  <2>6. d.part.obj \in PlayerID <=> e.part.obj \in PlayerID
    BY <2>5
  <2> HIDE DEF kind
  <2>7. d.texture[1] = e.texture[1]
    BY <2>2, <2>3, <2>5, SameStyle DEF Good
  <2>8. SameLook(d, e)
    <3>1. CASE IsModel(d)
      <4>1. AsRef(d) /\ AsRef(e)
        BY <2>2, <2>3, <2>5, <3>1 DEF AsMeant, IsModel
      <4>2. PICK j \in 1 .. Len(RefPic) : d.part.name = RefPic[j].part.name /\ SameLook(d, RefPic[j])
        BY <4>1 DEF AsRef
      <4>3. PICK k \in 1 .. Len(RefPic) : e.part.name = RefPic[k].part.name /\ SameLook(e, RefPic[k])
        BY <4>1 DEF AsRef
      <4>4. j = k
        BY <2>1, <2>5, <4>2, <4>3, RefOnce
      <4> QED BY <4>2, <4>3, <4>4 DEF SameLook
    <3>2. CASE ~IsModel(d)
      <4>1. Meant(d) /\ Meant(e) /\ Style(d.part) = Style(e.part)
        BY <2>2, <2>3, <2>5, <3>2, SameStyle DEF AsMeant, IsModel
      <4>2. "DEPTH_TEST" \in d.on <=> "DEPTH_TEST" \in e.on
        BY <2>2, <2>3, <2>5, <2>6 DEF Good, WithDepth, OfPanel
      <4>3. d.on \ {"DEPTH_TEST"} = e.on \ {"DEPTH_TEST"}
        BY <4>1 DEF Meant
      <4>4. d.on = e.on
        BY <4>2, <4>3
      <4> QED BY <4>1, <4>4 DEF Meant, SameLook
    <3> QED BY <3>1, <3>2
  <2> QED BY <2>2, <2>3, <2>4, <2>5, <2>7, <2>8 DEF SameLook, Seen
<1> QED BY <1>1, LookInvariant, PTL
=============================================================================
