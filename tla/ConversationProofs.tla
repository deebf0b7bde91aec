------------------------- MODULE ConversationProofs -------------------------
(***************************************************************************)
(* Every property of Conversation, for conversations of any length with    *)
(* any words, answers and configurations.                                  *)
(*                                                                         *)
(* Both translations put sequences together from what each of their        *)
(* elements yields.  What that does is proved first, by induction over the *)
(* elements; then what the client's and the model's turns look like after  *)
(* they were taken apart and put together again; then that every step      *)
(* keeps it so.                                                            *)
(***************************************************************************)
EXTENDS Conversation, SequenceTheorems, WellFoundedInduction, TLAPS

-----------------------------------------------------------------------------
(* Induction, on a set of numbers and on a set of sequences. *)

LEMMA InductionOnNat ==
    ASSUME NEW N \in SUBSET Nat, 0 \in N, \A n \in N : n + 1 \in N
    PROVE  N = Nat
<1>1. SUFFICES ASSUME Nat \ N # {} PROVE FALSE
  OBVIOUS
<1>2. PICK x \in Nat \ N : \A y \in Nat \ N : ~(<<y, x>> \in OpToRel(<, Nat))
  BY <1>1, NatLessThanWellFounded, WFMin
<1>3. \A y \in Nat \ N : ~(y < x)
  BY <1>2 DEF OpToRel
<1>4. x \in Nat /\ x # 0
  OBVIOUS
<1>5. x - 1 \in Nat /\ x - 1 < x /\ (x - 1) + 1 = x
  BY <1>4
<1>6. QED
  BY <1>3, <1>5

LEMMA InductionOnSeq ==
    ASSUME NEW S, NEW T \in SUBSET Seq(S), <<>> \in T,
           \A s \in T : \A x \in S : Append(s, x) \in T
    PROVE  T = Seq(S)
<1> DEFINE N == {n \in Nat : \A s \in Seq(S) : Len(s) = n => s \in T}
<1>1. 0 \in N
  BY EmptySeq
<1>2. ASSUME NEW n \in N PROVE n + 1 \in N
  <2> SUFFICES ASSUME NEW s \in Seq(S), Len(s) = n + 1 PROVE s \in T
    OBVIOUS
  <2>1. s # <<>>
    BY EmptySeq
  <2>2. PICK t \in Seq(S), x \in S : s = Append(t, x)
    BY <2>1, SequenceEmptyOrAppend
  <2>3. Len(t) = n
    BY <2>2, AppendProperties, LenProperties
  <2>4. QED
    BY <2>2, <2>3
<1>3. N = Nat
  <2> HIDE DEF N
  <2>1. N \in SUBSET Nat
    BY DEF N
  <2>2. QED
    BY <1>1, <1>2, <2>1, InductionOnNat
<1>4. QED
  BY <1>3, LenProperties

\* f yields the flattening of each of the first n prefixes of ss.
Flattens(f, ss, n) ==
    /\ f[0] = <<>>
    /\ \A i \in 1..n : f[i] = f[i - 1] \o ss[i]

LEMMA FlattenFunction ==
    ASSUME NEW S, NEW ss \in Seq(Seq(S))
    PROVE  \A n \in Nat : n <= Len(ss) => \E f \in [0..n -> Seq(S)] : Flattens(f, ss, n)
<1> DEFINE N == {n \in Nat : n <= Len(ss) => \E f \in [0..n -> Seq(S)] : Flattens(f, ss, n)}
<1>1. 0 \in N
  <2> DEFINE f == [i \in 0..0 |-> <<>>]
  <2>1. f \in [0..0 -> Seq(S)]
    BY EmptySeq
  <2>2. f[0] = <<>>
    OBVIOUS
  <2> HIDE DEF f
  <2>3. Flattens(f, ss, 0)
    BY <2>2 DEF Flattens
  <2>4. QED
    BY <2>1, <2>3
<1>2. ASSUME NEW n \in N PROVE n + 1 \in N
  <2> SUFFICES ASSUME n + 1 <= Len(ss)
               PROVE  \E f \in [0..(n + 1) -> Seq(S)] : Flattens(f, ss, n + 1)
    OBVIOUS
  <2>1. n \in Nat /\ n <= Len(ss) /\ n + 1 \in 1..Len(ss)
    BY LenProperties
  <2>2. PICK f \in [0..n -> Seq(S)] : Flattens(f, ss, n)
    BY <2>1
  <2>3. f[n] \o ss[n + 1] \in Seq(S)
    BY <2>1, <2>2, ElementOfSeq, ConcatProperties
  <2> DEFINE g == [i \in 0..(n + 1) |-> IF i = n + 1 THEN f[n] \o ss[n + 1] ELSE f[i]]
  <2>4. g \in [0..(n + 1) -> Seq(S)]
    BY <2>1, <2>3
  <2>5. (\A i \in 0..n : g[i] = f[i]) /\ g[n + 1] = f[n] \o ss[n + 1]
    BY <2>1, SMTT(30)
  <2> HIDE DEF g
  <2>6. ASSUME NEW i \in 1..(n + 1) PROVE g[i] = g[i - 1] \o ss[i]
    <3>1. CASE i = n + 1
      <4>1. i - 1 = n /\ n \in 0..n
        BY <2>1, <3>1
      <4>2. QED
        BY <2>5, <3>1, <4>1
    <3>2. CASE i # n + 1
      <4>1. i \in 1..n /\ i \in 0..n /\ i - 1 \in 0..n
        BY <2>1, <3>2
      <4>2. f[i] = f[i - 1] \o ss[i]
        BY <2>2, <4>1 DEF Flattens
      <4>3. QED
        BY <2>5, <4>1, <4>2
    <3>3. QED
      BY <3>1, <3>2
  <2>7. g[0] = <<>>
    BY <2>1, <2>2, <2>5, SMTT(30) DEF Flattens
  <2>8. QED
    BY <2>4, <2>6, <2>7 DEF Flattens
<1>3. N = Nat
  <2> HIDE DEF N
  <2>1. N \in SUBSET Nat
    BY DEF N
  <2>2. QED
    BY <1>1, <1>2, <2>1, InductionOnNat
<1>4. QED
  BY <1>3

LEMMA FlattenSteps ==
    ASSUME NEW S, NEW ss \in Seq(Seq(S))
    PROVE  \E f \in [0..Len(ss) -> Seq(S)] : Flattens(f, ss, Len(ss)) /\ FlattenSeq(ss) = f[Len(ss)]
<1>1. Len(ss) \in Nat /\ \A i \in 1..Len(ss) : ss[i] \in Seq(S)
  BY LenProperties, ElementOfSeq
<1>2. CASE Len(ss) = 0
  <2>1. ss = <<>>
    BY <1>2, EmptySeq
  <2>2. FlattenSeq(ss) = <<>>
    BY <1>2, <2>1 DEF FlattenSeq
  <2> DEFINE f == [i \in 0..Len(ss) |-> <<>>]
  <2>3. f \in [0..Len(ss) -> Seq(S)]
    BY EmptySeq
  <2>4. f[0] = <<>> /\ f[Len(ss)] = <<>>
    BY <1>2
  <2> HIDE DEF f
  <2>5. Flattens(f, ss, Len(ss))
    BY <1>2, <2>4 DEF Flattens
  <2>6. QED
    BY <2>2, <2>3, <2>4, <2>5
<1>3. CASE Len(ss) # 0
  <2> DEFINE L == Len(ss)
             Fix(f) == f = [i \in 1..Len(ss) |-> IF i = 1 THEN ss[i] ELSE f[i - 1] \o ss[i]]
             c == CHOOSE f : Fix(f)
  <2>1. PICK g \in [0..L -> Seq(S)] : Flattens(g, ss, L)
    BY <1>1, FlattenFunction
  <2> DEFINE h == [i \in 1..Len(ss) |-> g[i]]
  <2>2. Fix(h)
    <3>1. ASSUME NEW i \in 1..L PROVE g[i] = IF i = 1 THEN ss[i] ELSE h[i - 1] \o ss[i]
      <4>1. g[i] = g[i - 1] \o ss[i]
        BY <2>1 DEF Flattens
      <4>2. CASE i = 1
        BY <1>1, <2>1, <4>1, <4>2, ConcatEmptySeq DEF Flattens
      <4>3. CASE i # 1
        <5>1. i - 1 \in 1..L
          BY <1>1, <4>3
        <5>2. QED
          BY <4>1, <4>3, <5>1
      <4>4. QED
        BY <4>2, <4>3
    <3>2. QED
      BY <3>1
  <2>3. Fix(c)
    <3> HIDE DEF Fix, h
    <3>1. QED
      BY <2>2
  <2>4. FlattenSeq(ss) = c[L]
    BY <1>3 DEF FlattenSeq
  <2> HIDE DEF c
  <2>5. \A i \in 1..L : c[i] = IF i = 1 THEN ss[i] ELSE c[i - 1] \o ss[i]
    BY <2>3
  <2> HIDE DEF h, Fix
  <2> DEFINE N == {n \in Nat : n + 1 <= L => c[n + 1] = g[n + 1]}
  <2>6. 0 \in N
    <3>1. 1 \in 1..L /\ 1 - 1 = 0
      BY <1>1, <1>3
    <3>2. c[1] = ss[1]
      BY <2>5, <3>1
    <3>3. g[1] = g[1 - 1] \o ss[1] /\ g[0] = <<>>
      BY <2>1, <3>1 DEF Flattens
    <3>4. QED
      <4>1. ss[1] \in Seq(S)
        BY <1>1, <3>1
      <4>2. g[1] = <<>> \o ss[1]
        BY <3>1, <3>3
      <4>3. <<>> \o ss[1] = ss[1]
        BY <4>1, ConcatEmptySeq
      <4>4. c[0 + 1] = g[0 + 1]
        BY <3>2, <4>2, <4>3
      <4>5. QED
        BY <4>4
  <2>7. ASSUME NEW n \in N PROVE n + 1 \in N
    <3> SUFFICES ASSUME (n + 1) + 1 <= L PROVE c[(n + 1) + 1] = g[(n + 1) + 1]
      OBVIOUS
    <3>1. /\ n \in Nat /\ n + 1 <= L /\ (n + 1) + 1 \in 1..L
          /\ (n + 1) + 1 # 1 /\ ((n + 1) + 1) - 1 = n + 1
      BY <1>1
    <3>2. c[(n + 1) + 1] = c[n + 1] \o ss[(n + 1) + 1]
      BY <2>5, <3>1
    <3>3. g[(n + 1) + 1] = g[n + 1] \o ss[(n + 1) + 1]
      BY <2>1, <3>1 DEF Flattens
    <3>4. QED
      BY <3>1, <3>2, <3>3
  <2>8. N = Nat
    <3> HIDE DEF N
    <3>1. N \in SUBSET Nat
      BY DEF N
    <3>2. QED
      BY <2>6, <2>7, <3>1, InductionOnNat
  <2>9. L - 1 \in Nat /\ (L - 1) + 1 = L
    BY <1>1, <1>3
  <2>10. c[L] = g[L]
    <3>1. L - 1 \in N
      BY <2>8, <2>9
    <3>2. L <= L
      BY <1>1
    <3>3. QED
      BY <2>9, <3>1, <3>2
  <2>11. QED
    BY <2>1, <2>4, <2>10
<1>4. QED
  BY <1>2, <1>3

LEMMA FlattenType ==
    ASSUME NEW S, NEW ss \in Seq(Seq(S))
    PROVE  FlattenSeq(ss) \in Seq(S)
<1>1. PICK f \in [0..Len(ss) -> Seq(S)] : FlattenSeq(ss) = f[Len(ss)]
  BY FlattenSteps
<1>2. Len(ss) \in 0..Len(ss)
  BY LenProperties
<1>3. QED
  BY <1>1, <1>2

LEMMA FlattenEmpty == FlattenSeq(<<>>) = <<>>
BY DEF FlattenSeq

LEMMA FlattenAppend ==
    ASSUME NEW S, NEW ss \in Seq(Seq(S)), NEW s \in Seq(S)
    PROVE  FlattenSeq(Append(ss, s)) = FlattenSeq(ss) \o s
<1> DEFINE L == Len(ss)
           tt == Append(ss, s)
<1>1. /\ L \in Nat /\ tt \in Seq(Seq(S)) /\ Len(tt) = L + 1
      /\ (\A i \in 1..L : tt[i] = ss[i]) /\ tt[L + 1] = s
  BY LenProperties, AppendProperties
<1> HIDE DEF tt
<1>2. PICK f \in [0..L -> Seq(S)] : Flattens(f, ss, L) /\ FlattenSeq(ss) = f[L]
  BY FlattenSteps
<1>3. PICK g \in [0..(L + 1) -> Seq(S)] : Flattens(g, tt, L + 1) /\ FlattenSeq(tt) = g[L + 1]
  BY <1>1, FlattenSteps
<1> DEFINE N == {n \in Nat : n <= L => f[n] = g[n]}
<1>4. 0 \in N
  BY <1>2, <1>3 DEF Flattens
<1>5. ASSUME NEW n \in N PROVE n + 1 \in N
  <2> SUFFICES ASSUME n + 1 <= L PROVE f[n + 1] = g[n + 1]
    OBVIOUS
  <2>1. n + 1 \in 1..L /\ n + 1 \in 1..(L + 1) /\ (n + 1) - 1 = n /\ n <= L
    BY <1>1
  <2>2. f[n + 1] = f[n] \o ss[n + 1] /\ g[n + 1] = g[n] \o tt[n + 1]
    BY <1>1, <1>2, <1>3, <2>1 DEF Flattens
  <2>3. QED
    BY <1>1, <2>1, <2>2
<1>6. N = Nat
  <2> HIDE DEF N
  <2>1. N \in SUBSET Nat
    BY DEF N
  <2>2. QED
    BY <1>4, <1>5, <2>1, InductionOnNat
<1>7. f[L] = g[L]
  BY <1>1, <1>6, SMTT(30)
<1>8. g[L + 1] = g[L] \o s
  <2>1. L + 1 \in 1..(L + 1) /\ (L + 1) - 1 = L
    BY <1>1
  <2>2. g[L + 1] = g[(L + 1) - 1] \o tt[L + 1]
    BY <1>3, <2>1 DEF Flattens
  <2>3. QED
    BY <1>1, <2>1, <2>2
<1>9. QED
  BY <1>2, <1>3, <1>7, <1>8 DEF tt

LEMMA FlattenOne ==
    ASSUME NEW S, NEW s \in Seq(S)
    PROVE  FlattenSeq(<<s>>) = s
<1>1. <<>> \in Seq(Seq(S)) /\ Append(<<>>, s) = <<s>>
  BY EmptySeq
<1>2. FlattenSeq(<<s>>) = FlattenSeq(<<>>) \o s
  BY <1>1, FlattenAppend
<1>3. QED
  BY <1>2, FlattenEmpty, ConcatEmptySeq

-----------------------------------------------------------------------------
(* Sequences that are put together from what each element of another yields *)

\* What g yields for the elements of s, in their order.
FlatMap(s, g) == FlattenSeq([i \in DOMAIN s |-> g[s[i]]])

\* g takes an element of S to one of T.  (Written out, the provers do not see
\* that these lemmas are about the functions they are used for.)
Takes(g, S, T) == g \in [S -> T]

LEMMA MapIsSeq ==
    ASSUME NEW S, NEW T, NEW g, Takes(g, S, T), NEW s \in Seq(S)
    PROVE  /\ [i \in DOMAIN s |-> g[s[i]]] \in Seq(T)
           /\ Len([i \in DOMAIN s |-> g[s[i]]]) = Len(s)
<1>1. Len(s) \in Nat /\ DOMAIN s = 1..Len(s) /\ \A i \in 1..Len(s) : s[i] \in S
  BY LenProperties, ElementOfSeq
<1>2. [i \in 1..Len(s) |-> g[s[i]]] \in [1..Len(s) -> T]
  BY <1>1 DEF Takes
<1>3. QED
  BY <1>1, <1>2, IsASeq, LenProperties

LEMMA MapAppend ==
    ASSUME NEW S, NEW T, NEW g, Takes(g, S, T), NEW s \in Seq(S), NEW x \in S
    PROVE  [i \in DOMAIN Append(s, x) |-> g[Append(s, x)[i]]]
             = Append([i \in DOMAIN s |-> g[s[i]]], g[x])
<1> DEFINE m == [i \in DOMAIN s |-> g[s[i]]]
           t == Append(s, x)
           n == [i \in DOMAIN t |-> g[t[i]]]
<1>1. m \in Seq(T) /\ Len(m) = Len(s) /\ Len(s) \in Nat /\ DOMAIN s = 1..Len(s)
  BY MapIsSeq, LenProperties
<1>2. /\ t \in Seq(S) /\ Len(t) = Len(s) + 1 /\ t[Len(s) + 1] = x
      /\ \A i \in 1..Len(s) : t[i] = s[i]
  BY AppendProperties
<1> HIDE DEF t
<1>3. n \in Seq(T) /\ Len(n) = Len(s) + 1 /\ DOMAIN t = 1..(Len(s) + 1)
  <2>1. t \in Seq(S)
    BY <1>2
  <2>2. n \in Seq(T) /\ Len(n) = Len(t)
    BY <2>1, MapIsSeq
  <2>3. DOMAIN t = 1..Len(t)
    BY <1>2, LenProperties
  <2>4. QED
    BY <1>2, <2>2, <2>3
<1>4. \A i \in 1..(Len(s) + 1) : n[i] = g[t[i]]
  BY <1>3
<1>5. \A i \in 1..Len(s) : m[i] = g[s[i]]
  BY <1>1
<1> HIDE DEF m, n
<1> DEFINE a == Append(m, g[x])
<1>6. /\ a \in Seq(T) /\ Len(a) = Len(s) + 1 /\ a[Len(s) + 1] = g[x]
      /\ \A i \in 1..Len(s) : a[i] = m[i]
  <2>1. g[x] \in T
    BY DEF Takes
  <2>2. QED
    BY <1>1, <2>1, AppendProperties
<1> HIDE DEF a
<1>7. \A i \in 1..(Len(s) + 1) : n[i] = a[i]
  BY <1>1, <1>2, <1>4, <1>5, <1>6
<1>8. n = a
  BY <1>3, <1>6, <1>7, SeqEqual
<1>9. QED
  BY <1>8 DEF m, t, n, a

LEMMA FlatMapType ==
    ASSUME NEW S, NEW T, NEW g, Takes(g, S, Seq(T)), NEW s \in Seq(S)
    PROVE  FlatMap(s, g) \in Seq(T)
<1> DEFINE m == [i \in DOMAIN s |-> g[s[i]]]
<1>1. m \in Seq(Seq(T))
  BY MapIsSeq
<1> HIDE DEF m
<1>2. FlattenSeq(m) \in Seq(T)
  BY <1>1, FlattenType
<1>3. QED
  BY <1>2 DEF m, FlatMap

LEMMA FlatMapEmpty ==
    ASSUME NEW g
    PROVE  FlatMap(<<>>, g) = <<>>
<1>1. [i \in DOMAIN <<>> |-> g[<<>>[i]]] = <<>>
  OBVIOUS
<1>2. QED
  BY <1>1, FlattenEmpty DEF FlatMap

LEMMA FlatMapAppend ==
    ASSUME NEW S, NEW T, NEW g, Takes(g, S, Seq(T)), NEW s \in Seq(S), NEW x \in S
    PROVE  FlatMap(Append(s, x), g) = FlatMap(s, g) \o g[x]
<1> DEFINE m == [i \in DOMAIN s |-> g[s[i]]]
           n == [i \in DOMAIN Append(s, x) |-> g[Append(s, x)[i]]]
<1>1. m \in Seq(Seq(T)) /\ g[x] \in Seq(T)
  <2>1. m \in Seq(Seq(T))
    BY MapIsSeq
  <2>2. g[x] \in Seq(T)
    BY DEF Takes
  <2>3. QED
    BY <2>1, <2>2
<1>2. n = Append(m, g[x])
  BY MapAppend
<1> HIDE DEF m, n
<1>3. FlattenSeq(n) = FlattenSeq(m) \o g[x]
  BY <1>1, <1>2, FlattenAppend
<1>4. QED
  BY <1>3 DEF m, n, FlatMap

LEMMA FlatMapOne ==
    ASSUME NEW S, NEW T, NEW g, Takes(g, S, Seq(T)), NEW x \in S
    PROVE  FlatMap(<<x>>, g) = g[x]
<1>1. <<>> \in Seq(S) /\ Append(<<>>, x) = <<x>>
  BY EmptySeq
<1>2. FlatMap(<<x>>, g) = FlatMap(<<>>, g) \o g[x]
  BY <1>1, FlatMapAppend
<1>3. g[x] \in Seq(T)
  BY DEF Takes
<1>4. QED
  BY <1>2, <1>3, FlatMapEmpty, ConcatEmptySeq

LEMMA FlatMapConcat ==
    ASSUME NEW S, NEW T, NEW g, Takes(g, S, Seq(T)), NEW s \in Seq(S), NEW t \in Seq(S)
    PROVE  FlatMap(s \o t, g) = FlatMap(s, g) \o FlatMap(t, g)
<1> DEFINE U == {u \in Seq(S) : FlatMap(s \o u, g) = FlatMap(s, g) \o FlatMap(u, g)}
<1>1. <<>> \in U
  <2>1. s \o <<>> = s /\ <<>> \in Seq(S)
    BY ConcatEmptySeq, EmptySeq
  <2>2. FlatMap(s, g) \o <<>> = FlatMap(s, g)
    BY FlatMapType, ConcatEmptySeq
  <2>3. QED
    BY <2>1, <2>2, FlatMapEmpty
<1>2. ASSUME NEW u \in U, NEW x \in S PROVE Append(u, x) \in U
  <2>1. u \in Seq(S) /\ <<x>> \in Seq(S) /\ g[x] \in Seq(T)
    BY DEF Takes
  <2>2. Append(u, x) = u \o <<x>> /\ Append(u, x) \in Seq(S)
    BY <2>1, AppendIsConcat, AppendProperties
  <2>3. s \o u \in Seq(S) /\ s \o Append(u, x) = Append(s \o u, x)
    BY <2>1, <2>2, ConcatProperties, ConcatAssociative, AppendIsConcat
  <2>4. FlatMap(s \o Append(u, x), g) = FlatMap(s \o u, g) \o g[x]
    <3> DEFINE v == s \o u
    <3>1. v \in Seq(S) /\ s \o Append(u, x) = Append(v, x)
      BY <2>3
    <3> HIDE DEF v
    <3>2. FlatMap(Append(v, x), g) = FlatMap(v, g) \o g[x]
      BY <3>1, FlatMapAppend
    <3>3. QED
      BY <3>1, <3>2 DEF v
  <2>5. FlatMap(Append(u, x), g) = FlatMap(u, g) \o g[x]
    BY <2>1, FlatMapAppend
  <2>6. (FlatMap(s, g) \o FlatMap(u, g)) \o g[x] = FlatMap(s, g) \o (FlatMap(u, g) \o g[x])
    <3> DEFINE a == FlatMap(s, g)
               b == FlatMap(u, g)
               c == g[x]
    <3>1. a \in Seq(T) /\ b \in Seq(T) /\ c \in Seq(T)
      BY <2>1, FlatMapType
    <3> HIDE DEF a, b, c
    <3>2. (a \o b) \o c = a \o (b \o c)
      BY <3>1, ConcatAssociative, SMTT(30)
    <3>3. QED
      BY <3>2 DEF a, b, c
  <2>7. QED
    BY <2>2, <2>4, <2>5, <2>6
<1>3. U = Seq(S)
  <2> HIDE DEF U
  <2>1. U \in SUBSET Seq(S)
    BY DEF U
  <2>2. QED
    BY <1>1, <1>2, <2>1, InductionOnSeq
<1>4. QED
  BY <1>3

\* To map what was flattened is to flatten what was mapped.
LEMMA FlatMapFlatten ==
    ASSUME NEW S, NEW T, NEW g, Takes(g, S, Seq(T)), NEW ss \in Seq(Seq(S))
    PROVE  FlatMap(FlattenSeq(ss), g) = FlattenSeq([i \in DOMAIN ss |-> FlatMap(ss[i], g)])
<1> DEFINE h == [s \in Seq(S) |-> FlatMap(s, g)]
           U == {uu \in Seq(Seq(S)) : FlatMap(FlattenSeq(uu), g) = FlatMap(uu, h)}
<1>1. Takes(h, Seq(S), Seq(T))
  BY FlatMapType DEF Takes
<1>2. \A s \in Seq(S) : h[s] = FlatMap(s, g)
  OBVIOUS
<1> HIDE DEF h
<1>3. <<>> \in U
  BY FlattenEmpty, FlatMapEmpty, EmptySeq
<1>4. ASSUME NEW uu \in U, NEW s \in Seq(S) PROVE Append(uu, s) \in U
  <2>1. uu \in Seq(Seq(S)) /\ Append(uu, s) \in Seq(Seq(S)) /\ FlattenSeq(uu) \in Seq(S)
    BY AppendProperties, FlattenType
  <2>2. FlattenSeq(Append(uu, s)) = FlattenSeq(uu) \o s
    BY <2>1, FlattenAppend
  <2>3. FlatMap(FlattenSeq(Append(uu, s)), g) = FlatMap(FlattenSeq(uu), g) \o FlatMap(s, g)
    <3> DEFINE f == FlattenSeq(uu)
    <3>1. f \in Seq(S)
      BY <2>1
    <3> HIDE DEF f
    <3>2. FlatMap(f \o s, g) = FlatMap(f, g) \o FlatMap(s, g)
      BY <3>1, FlatMapConcat
    <3>3. QED
      BY <2>2, <3>2 DEF f
  <2>4. FlatMap(Append(uu, s), h) = FlatMap(uu, h) \o h[s]
    BY <1>1, <2>1, FlatMapAppend
  <2>5. QED
    BY <1>2, <2>1, <2>3, <2>4
<1>5. U = Seq(Seq(S))
  <2> HIDE DEF U
  <2>1. U \in SUBSET Seq(Seq(S))
    BY DEF U
  <2>2. QED
    BY <1>3, <1>4, <2>1, InductionOnSeq
<1>6. \A i \in DOMAIN ss : h[ss[i]] = FlatMap(ss[i], g)
  BY <1>2, ElementOfSeq, LenProperties
<1>7. FlatMap(ss, h) = FlattenSeq([i \in DOMAIN ss |-> FlatMap(ss[i], g)])
  BY <1>6 DEF FlatMap
<1>8. QED
  BY <1>5, <1>7

LEMMA FlatMapNone ==
    ASSUME NEW S, NEW T, NEW g, Takes(g, S, Seq(T)), NEW s \in Seq(S),
           \A i \in DOMAIN s : g[s[i]] = <<>>
    PROVE  FlatMap(s, g) = <<>>
<1> DEFINE Yields(t) == \A i \in DOMAIN t : g[t[i]] = <<>>
           U == {t \in Seq(S) : Yields(t) => FlatMap(t, g) = <<>>}
<1>1. <<>> \in U
  BY FlatMapEmpty, EmptySeq
<1>2. ASSUME NEW t \in U, NEW x \in S PROVE Append(t, x) \in U
  <2>1. /\ t \in Seq(S) /\ Append(t, x) \in Seq(S)
        /\ DOMAIN t = 1..Len(t) /\ DOMAIN Append(t, x) = 1..(Len(t) + 1) /\ Len(t) \in Nat
        /\ (\A i \in 1..Len(t) : Append(t, x)[i] = t[i]) /\ Append(t, x)[Len(t) + 1] = x
    BY AppendProperties, LenProperties
  <2> SUFFICES ASSUME Yields(Append(t, x)) PROVE FlatMap(Append(t, x), g) = <<>>
    BY <2>1
  <2>2. Len(t) + 1 \in DOMAIN Append(t, x) /\ \A i \in 1..Len(t) : i \in DOMAIN Append(t, x)
    BY <2>1
  <2>3. g[x] = <<>> /\ Yields(t)
    BY <2>1, <2>2
  <2>4. FlatMap(t, g) = <<>>
    BY <2>3
  <2>5. FlatMap(Append(t, x), g) = FlatMap(t, g) \o g[x]
    BY <2>1, FlatMapAppend
  <2>6. QED
    BY <2>3, <2>4, <2>5
<1>3. U = Seq(S)
  <2> HIDE DEF U
  <2>1. U \in SUBSET Seq(S)
    BY DEF U
  <2>2. QED
    BY <1>1, <1>2, <2>1, InductionOnSeq
<1>4. QED
  BY <1>3

\* Where each element yields one, the elements are mapped.
LEMMA FlatMapAll ==
    ASSUME NEW S, NEW T, NEW g, Takes(g, S, Seq(T)), NEW h, Takes(h, S, T), NEW s \in Seq(S),
           \A i \in DOMAIN s : g[s[i]] = <<h[s[i]]>>
    PROVE  FlatMap(s, g) = [i \in DOMAIN s |-> h[s[i]]]
<1> DEFINE Yields(t) == \A i \in DOMAIN t : g[t[i]] = <<h[t[i]]>>
           Mapped(t) == [i \in DOMAIN t |-> h[t[i]]]
           U == {t \in Seq(S) : Yields(t) => FlatMap(t, g) = Mapped(t)}
<1>1. <<>> \in U
  <2>1. Mapped(<<>>) = <<>>
    OBVIOUS
  <2>2. QED
    BY <2>1, FlatMapEmpty, EmptySeq
<1>2. ASSUME NEW t \in U, NEW x \in S PROVE Append(t, x) \in U
  <2>1. /\ t \in Seq(S) /\ Append(t, x) \in Seq(S)
        /\ DOMAIN t = 1..Len(t) /\ DOMAIN Append(t, x) = 1..(Len(t) + 1) /\ Len(t) \in Nat
        /\ (\A i \in 1..Len(t) : Append(t, x)[i] = t[i]) /\ Append(t, x)[Len(t) + 1] = x
    BY AppendProperties, LenProperties
  <2> SUFFICES ASSUME Yields(Append(t, x)) PROVE FlatMap(Append(t, x), g) = Mapped(Append(t, x))
    BY <2>1
  <2>2. Len(t) + 1 \in DOMAIN Append(t, x) /\ \A i \in 1..Len(t) : i \in DOMAIN Append(t, x)
    BY <2>1
  <2>3. g[x] = <<h[x]>> /\ Yields(t)
    BY <2>1, <2>2
  <2>4. FlatMap(t, g) = Mapped(t)
    BY <2>3
  <2>5. FlatMap(Append(t, x), g) = FlatMap(t, g) \o g[x]
    <3> HIDE DEF Yields, Mapped, U
    <3>1. t \in Seq(S)
      BY <2>1
    <3>2. QED
      BY <3>1, FlatMapAppend
  <2>6. Mapped(Append(t, x)) = Append(Mapped(t), h[x])
    BY <2>1, MapAppend
  <2>7. Mapped(t) \in Seq(T) /\ h[x] \in T
    BY <2>1, MapIsSeq DEF Takes
  <2>8. Append(Mapped(t), h[x]) = Mapped(t) \o <<h[x]>>
    <3> HIDE DEF Mapped
    <3>1. QED
      BY <2>7, AppendIsConcat
  <2>9. QED
    BY <2>3, <2>4, <2>5, <2>6, <2>8
<1>3. U = Seq(S)
  <2> HIDE DEF U
  <2>1. U \in SUBSET Seq(S)
    BY DEF U
  <2>2. QED
    BY <1>1, <1>2, <2>1, InductionOnSeq
<1>4. QED
  BY <1>3
-----------------------------------------------------------------------------
(* What is in a flattened sequence, and where. *)

\* The i-th part lies behind the first off[i - 1] elements, and ends with the
\* first off[i]; every element is in a part.
Parts(ss, off) ==
    /\ off[0] = 0
    /\ \A i \in 1..Len(ss) : off[i] = off[i - 1] + Len(ss[i])
    /\ Len(FlattenSeq(ss)) = off[Len(ss)]
    /\ \A i \in 1..Len(ss) : \A k \in 1..Len(ss[i]) :
         /\ off[i - 1] + k \in 1..Len(FlattenSeq(ss))
         /\ FlattenSeq(ss)[off[i - 1] + k] = ss[i][k]
    /\ \A p \in 1..Len(FlattenSeq(ss)) :
         \E i \in 1..Len(ss) : \E k \in 1..Len(ss[i]) : p = off[i - 1] + k

LEMMA FlattenParts ==
    ASSUME NEW S, NEW ss \in Seq(Seq(S))
    PROVE  \E off \in [0..Len(ss) -> Nat] : Parts(ss, off)
<1> DEFINE U == {uu \in Seq(Seq(S)) : \E off \in [0..Len(uu) -> Nat] : Parts(uu, off)}
<1>1. <<>> \in U
  <2> DEFINE off == [i \in 0..Len(<<>>) |-> 0]
  <2>1. off \in [0..Len(<<>>) -> Nat] /\ off[0] = 0 /\ off[Len(<<>>)] = 0
    OBVIOUS
  <2> HIDE DEF off
  <2>2. FlattenSeq(<<>>) = <<>> /\ Len(<<>>) = 0 /\ 1..0 = {}
    BY FlattenEmpty
  <2>3. Parts(<<>>, off)
    BY <2>1, <2>2 DEF Parts
  <2>4. <<>> \in Seq(Seq(S))
    BY EmptySeq
  <2>5. QED
    BY <2>1, <2>3, <2>4
<1>2. ASSUME NEW uu \in U, NEW s \in Seq(S) PROVE Append(uu, s) \in U
  <2> DEFINE tt == Append(uu, s)
             L == Len(uu)
  <2>1. uu \in Seq(Seq(S)) /\ L \in Nat
    BY LenProperties
  <2>2. PICK f \in [0..L -> Nat] : Parts(uu, f)
    OBVIOUS
  <2>3. /\ tt \in Seq(Seq(S)) /\ Len(tt) = L + 1 /\ tt[L + 1] = s
        /\ \A i \in 1..L : tt[i] = uu[i]
    BY <2>1, AppendProperties
  <2>4. FlattenSeq(tt) = FlattenSeq(uu) \o s
    BY <2>1, FlattenAppend
  <2>5. FlattenSeq(uu) \in Seq(S) /\ Len(FlattenSeq(uu)) = f[L]
    BY <2>1, <2>2, FlattenType DEF Parts
  <2> HIDE DEF tt
  <2>6. Len(s) \in Nat /\ f[L] \in Nat
    <3>1. L \in 0..L
      BY <2>1
    <3>2. QED
      BY <3>1, LenProperties
  <2>7. /\ Len(FlattenSeq(tt)) = f[L] + Len(s)
        /\ \A p \in 1..(f[L] + Len(s)) :
             FlattenSeq(tt)[p] = IF p <= f[L] THEN FlattenSeq(uu)[p] ELSE s[p - f[L]]
    BY <2>4, <2>5, ConcatProperties
  <2> DEFINE off == [i \in 0..(L + 1) |-> IF i = L + 1 THEN f[L] + Len(s) ELSE f[i]]
  <2>8. off \in [0..Len(tt) -> Nat]
    BY <2>1, <2>3, <2>6
  <2>9. (\A i \in 0..L : off[i] = f[i]) /\ off[L + 1] = f[L] + Len(s)
    BY <2>1
  <2> HIDE DEF off
  <2>10. off[0] = 0
    BY <2>1, <2>2, <2>9 DEF Parts
  <2>11. ASSUME NEW i \in 1..Len(tt) PROVE off[i] = off[i - 1] + Len(tt[i])
    <3>1. CASE i = L + 1
      <4>1. i - 1 = L /\ L \in 0..L /\ tt[i] = s /\ off[i] = f[L] + Len(s)
        BY <2>1, <2>3, <2>9, <3>1
      <4>2. off[i - 1] = f[L]
        BY <2>9, <4>1
      <4>3. QED
        BY <4>1, <4>2
    <3>2. CASE i # L + 1
      <4>1. i \in 1..L /\ i \in 0..L /\ i - 1 \in 0..L
        BY <2>1, <2>3, <3>2
      <4>2. f[i] = f[i - 1] + Len(uu[i])
        BY <2>2, <4>1 DEF Parts
      <4>3. QED
        BY <2>3, <2>9, <4>1, <4>2
    <3>3. QED
      BY <3>1, <3>2
  <2>12. ASSUME NEW i \in 1..Len(tt), NEW k \in 1..Len(tt[i])
         PROVE  /\ off[i - 1] + k \in 1..Len(FlattenSeq(tt))
                /\ FlattenSeq(tt)[off[i - 1] + k] = tt[i][k]
    <3>1. CASE i = L + 1
      <4>1. i - 1 = L /\ L \in 0..L /\ off[i - 1] = f[L] /\ k \in 1..Len(s) /\ tt[i] = s
        BY <2>1, <2>3, <2>9, <3>1
      <4>2. f[L] + k \in 1..(f[L] + Len(s)) /\ ~(f[L] + k <= f[L]) /\ (f[L] + k) - f[L] = k
        BY <2>6, <4>1
      <4>3. QED
        BY <2>7, <4>1, <4>2
    <3>2. CASE i # L + 1
      <4>1. i \in 1..L /\ i - 1 \in 0..L /\ tt[i] = uu[i] /\ off[i - 1] = f[i - 1]
        BY <2>1, <2>3, <2>9, <3>2, SMTT(30)
      <4>2. f[i - 1] + k \in 1..f[L] /\ FlattenSeq(uu)[f[i - 1] + k] = uu[i][k]
        BY <2>2, <2>5, <4>1 DEF Parts
      <4>3. f[i - 1] + k \in 1..(f[L] + Len(s)) /\ f[i - 1] + k <= f[L]
        BY <2>6, <4>2
      <4>4. QED
        BY <2>7, <4>1, <4>2, <4>3
    <3>3. QED
      BY <3>1, <3>2
  <2>13. ASSUME NEW p \in 1..Len(FlattenSeq(tt))
         PROVE  \E i \in 1..Len(tt) : \E k \in 1..Len(tt[i]) : p = off[i - 1] + k
    <3>1. CASE p <= f[L]
      <4>1. p \in 1..Len(FlattenSeq(uu))
        BY <2>5, <2>6, <3>1
      <4>2. PICK i \in 1..L : \E k \in 1..Len(uu[i]) : p = f[i - 1] + k
        BY <2>2, <4>1 DEF Parts
      <4>3. i \in 1..Len(tt) /\ tt[i] = uu[i] /\ off[i - 1] = f[i - 1]
        BY <2>1, <2>3, <2>9, SMTT(30)
      <4>4. QED
        BY <4>2, <4>3
    <3>2. CASE ~(p <= f[L])
      <4>1. p - f[L] \in 1..Len(s) /\ p = f[L] + (p - f[L])
        BY <2>6, <2>7, <3>2
      <4>2. L + 1 \in 1..Len(tt) /\ tt[L + 1] = s /\ off[(L + 1) - 1] = f[L]
        BY <2>1, <2>3, <2>9
      <4>3. QED
        BY <4>1, <4>2
    <3>3. QED
      BY <3>1, <3>2
  <2>14. Parts(tt, off)
    <3>1. Len(FlattenSeq(tt)) = off[Len(tt)]
      BY <2>3, <2>7, <2>9
    <3>2. QED
      BY <2>10, <2>11, <2>12, <2>13, <3>1 DEF Parts
  <2>15. QED
    BY <2>3, <2>8, <2>14 DEF tt
<1>3. U = Seq(Seq(S))
  <2> HIDE DEF U
  <2>1. U \in SUBSET Seq(Seq(S))
    BY DEF U
  <2>2. QED
    BY <1>1, <1>2, <2>1, InductionOnSeq
<1>4. QED
  BY <1>3

\* Every element of a flattened sequence is one of a part, and the other way
\* around.
LEMMA FlattenElements ==
    ASSUME NEW S, NEW ss \in Seq(Seq(S))
    PROVE  /\ \A p \in DOMAIN FlattenSeq(ss) :
                \E i \in DOMAIN ss : \E k \in DOMAIN ss[i] : FlattenSeq(ss)[p] = ss[i][k]
           /\ \A i \in DOMAIN ss : \A k \in DOMAIN ss[i] :
                \E p \in DOMAIN FlattenSeq(ss) : FlattenSeq(ss)[p] = ss[i][k]
<1>1. PICK off \in [0..Len(ss) -> Nat] : Parts(ss, off)
  BY FlattenParts
<1>2. /\ DOMAIN ss = 1..Len(ss) /\ DOMAIN FlattenSeq(ss) = 1..Len(FlattenSeq(ss))
      /\ \A i \in 1..Len(ss) : DOMAIN ss[i] = 1..Len(ss[i])
  <2>1. FlattenSeq(ss) \in Seq(S)
    BY FlattenType
  <2>2. \A i \in 1..Len(ss) : ss[i] \in Seq(S)
    BY ElementOfSeq
  <2>3. QED
    BY <2>1, <2>2, LenProperties
<1> DEFINE F == FlattenSeq(ss)
<1>3. ASSUME NEW p \in 1..Len(F)
      PROVE  \E i \in 1..Len(ss) : \E k \in 1..Len(ss[i]) : F[p] = ss[i][k]
  <2>1. PICK i \in 1..Len(ss) : \E k \in 1..Len(ss[i]) : p = off[i - 1] + k
    BY <1>1 DEF Parts
  <2>2. PICK k \in 1..Len(ss[i]) : p = off[i - 1] + k
    BY <2>1
  <2>3. F[off[i - 1] + k] = ss[i][k]
    BY <1>1 DEF Parts
  <2>4. QED
    BY <2>2, <2>3
<1>4. ASSUME NEW i \in 1..Len(ss), NEW k \in 1..Len(ss[i])
      PROVE  \E p \in 1..Len(F) : F[p] = ss[i][k]
  BY <1>1 DEF Parts
<1> HIDE DEF F
<1>5. \A p \in DOMAIN F : \E i \in DOMAIN ss : \E k \in DOMAIN ss[i] : F[p] = ss[i][k]
  BY <1>2, <1>3 DEF F
<1>6. \A i \in DOMAIN ss : \A k \in DOMAIN ss[i] : \E p \in DOMAIN F : F[p] = ss[i][k]
  BY <1>2, <1>4 DEF F
<1>7. QED
  BY <1>5, <1>6 DEF F

\* To map what was mapped is to map once.
LEMMA FlatMapTwice ==
    ASSUME NEW S, NEW T, NEW U, NEW g, Takes(g, S, Seq(T)), NEW h, Takes(h, T, Seq(U)),
           NEW k, Takes(k, S, Seq(U)), NEW s \in Seq(S),
           \A x \in S : FlatMap(g[x], h) = k[x]
    PROVE  FlatMap(FlatMap(s, g), h) = FlatMap(s, k)
<1> DEFINE m == [i \in DOMAIN s |-> g[s[i]]]
<1>1. m \in Seq(Seq(T))
  BY MapIsSeq
<1>2. \A i \in DOMAIN s : m[i] = g[s[i]] /\ s[i] \in S
  BY ElementOfSeq, LenProperties
<1>3. DOMAIN m = DOMAIN s
  OBVIOUS
<1>4. FlatMap(s, g) = FlattenSeq(m)
  BY DEF FlatMap
<1> HIDE DEF m
<1>5. FlatMap(FlattenSeq(m), h) = FlattenSeq([i \in DOMAIN m |-> FlatMap(m[i], h)])
  BY <1>1, FlatMapFlatten
<1>6. [i \in DOMAIN m |-> FlatMap(m[i], h)] = [i \in DOMAIN s |-> k[s[i]]]
  BY <1>2, <1>3
<1>7. QED
  BY <1>4, <1>5, <1>6 DEF FlatMap

\* Every other part has one element: these are put together to a sequence.
LEMMA FlattenEveryOther ==
    ASSUME NEW S, NEW t \in Seq(S), NEW n \in Nat, Len(t) = n \div 2
    PROVE  FlattenSeq([i \in 1..n |-> IF i % 2 = 0 THEN <<t[i \div 2]>> ELSE <<>>]) = t
<1> DEFINE E(j) == [i \in 1..j |-> IF i % 2 = 0 THEN <<t[i \div 2]>> ELSE <<>>]
           Is(j) == FlattenSeq(E(j)) = SubSeq(t, 1, j \div 2)
           N == {j \in Nat : j <= n => Is(j)}
<1>1. n \div 2 \in Nat /\ Len(t) \in Nat /\ \A i \in 1..Len(t) : t[i] \in S
  BY LenProperties, ElementOfSeq
<1>2. 0 \in N
  <2>1. E(0) = <<>>
    OBVIOUS
  <2>2. SubSeq(t, 1, 0 \div 2) = <<>>
    <3>1. 0 \div 2 = 0
      OBVIOUS
    <3>2. QED
      BY <3>1, SubSeqEmpty
  <2> HIDE DEF E
  <2>3. QED
    BY <2>1, <2>2, FlattenEmpty
<1>3. ASSUME NEW j \in N PROVE j + 1 \in N
  <2> SUFFICES ASSUME j + 1 <= n PROVE Is(j + 1)
    <3> HIDE DEF Is
    <3>1. QED
      OBVIOUS
  <2>1. j \in Nat /\ j <= n /\ Is(j)
    <3> HIDE DEF Is
    <3>1. QED
      OBVIOUS
  <2>2. j \in Nat /\ j <= n /\ FlattenSeq(E(j)) = SubSeq(t, 1, j \div 2)
    BY <2>1
  <2> HIDE DEF N
  <2> DEFINE x == IF (j + 1) % 2 = 0 THEN <<t[(j + 1) \div 2]>> ELSE <<>>
  <2>3. \A i \in 1..n : i % 2 = 0 => i \div 2 \in 1..Len(t)
    BY <1>1
  <2>4. x \in Seq(S)
    BY <1>1, <2>2, <2>3
  <2>5. E(j) \in Seq(Seq(S)) /\ Len(E(j)) = j
    <3>1. E(j) \in [1..j -> Seq(S)]
      BY <1>1, <2>2, <2>3
    <3>2. QED
      BY <2>2, <3>1
  <2>6. E(j + 1) = Append(E(j), x)
    <3>1. E(j + 1) \in [1..(j + 1) -> Seq(S)]
      BY <1>1, <2>2, <2>3
    <3>2. E(j + 1) \in Seq(Seq(S)) /\ Len(E(j + 1)) = j + 1
      BY <2>2, <3>1
    <3>3. (\A i \in 1..j : E(j + 1)[i] = E(j)[i]) /\ E(j + 1)[j + 1] = x
      BY <2>2
    <3> HIDE DEF E, x
    <3> DEFINE a == Append(E(j), x)
    <3>4. /\ a \in Seq(Seq(S)) /\ Len(a) = j + 1
          /\ a[j + 1] = x /\ \A i \in 1..j : a[i] = E(j)[i]
      BY <2>4, <2>5, AppendProperties
    <3> HIDE DEF a
    <3>5. \A i \in 1..(j + 1) : E(j + 1)[i] = a[i]
      BY <2>2, <3>3, <3>4
    <3>6. E(j + 1) = a
      BY <3>2, <3>4, <3>5, SeqEqual
    <3>7. QED
      BY <3>6 DEF a
  <2>7. FlattenSeq(E(j + 1)) = SubSeq(t, 1, j \div 2) \o x
    <3> HIDE DEF E, x
    <3>1. QED
      BY <2>2, <2>4, <2>5, <2>6, FlattenAppend
  <2>8. CASE (j + 1) % 2 = 0
    <3>1. /\ (j + 1) \div 2 \in 1..Len(t) /\ ((j + 1) \div 2) - 1 = j \div 2
          /\ 1 \in 1..Len(t)
      <4>1. (j + 1) \div 2 \in 1..Len(t)
        BY <2>2, <2>3, <2>8
      <4>2. ((j + 1) \div 2) - 1 = j \div 2
        BY <2>2, <2>8
      <4>3. QED
        BY <1>1, <4>1, <4>2
    <3>2. SubSeq(t, 1, (j + 1) \div 2) = SubSeq(t, 1, ((j + 1) \div 2) - 1) \o <<t[(j + 1) \div 2]>>
      BY <3>1, SubSeqRecursiveSecond
    <3>3. QED
      BY <2>7, <2>8, <3>1, <3>2
  <2>9. CASE (j + 1) % 2 # 0
    <3>1. (j + 1) \div 2 = j \div 2 /\ j \div 2 \in 0..Len(t)
      BY <1>1, <2>2, <2>9
    <3>2. SubSeq(t, 1, j \div 2) \in Seq(S)
      <4>1. \A i \in 1..(j \div 2) : t[i] \in S
        BY <1>1, <3>1
      <4>2. QED
        BY <3>1, <4>1, SubSeqProperties
    <3>3. QED
      BY <2>7, <2>9, <3>1, <3>2, ConcatEmptySeq
  <2>10. QED
    BY <2>8, <2>9
<1>4. N = Nat
  <2> HIDE DEF N
  <2>1. N \in SUBSET Nat
    BY DEF N
  <2>2. QED
    BY <1>2, <1>3, <2>1, InductionOnNat
<1>5. FlattenSeq(E(n)) = SubSeq(t, 1, n \div 2)
  <2> HIDE DEF E
  <2>1. n \in N /\ n <= n
    BY <1>4
  <2>2. QED
    BY <2>1
<1>6. QED
  BY <1>5, SubSeqFull

-----------------------------------------------------------------------------
(* Blocks, taken out of a message by their types. *)

\* (The provers do not know of a string in quotes that it is in STRING.)
Identity == Nat \X (STRING \cup {"text", "empty"})

BlockTypes == {"text", "tool_use", "tool_result", "thinking"}

BlockWords == Words \cup {"said"}

Blocks == [type : BlockTypes, id : Identity, words : SUBSET BlockWords]

Message == [role : {"user", "assistant"}, blocks : Seq(Blocks)]

\* What the client and the models give their texts and calls for identities.
OfTurns == (Nat \ {0}) \X STRING

Reply ==
  [role : {"assistant"}, content : Seq(OfTurns), calls : Seq(OfTurns),
   answers : {NoAnswer}, reasoning : {"real", "none"}]

\* What OfTypes, Texts and Ids do with one block.
Only(types) == [b \in Blocks |-> IF b.type \in types THEN <<b>> ELSE <<>>]
Name == [b \in Blocks |-> IF b.id # NoText THEN <<b.id>> ELSE <<>>]

LEMMA OnlyType == \A types : Takes(Only(types), Blocks, Seq(Blocks))
BY DEF Only, Takes

LEMMA NameType == Takes(Name, Blocks, Seq(Identity))
<1>1. \A b \in Blocks : b.id \in Identity
  BY DEF Blocks
<1>2. QED
  BY <1>1 DEF Name, Takes

LEMMA OfTypesIsFlatMap ==
    ASSUME NEW types, NEW blocks \in Seq(Blocks)
    PROVE  OfTypes(blocks, types) = FlatMap(blocks, Only(types))
<1>1. \A i \in DOMAIN blocks : blocks[i] \in Blocks
  BY ElementOfSeq, LenProperties
<1>2. \A i \in DOMAIN blocks :
        Only(types)[blocks[i]] = IF blocks[i].type \in types THEN <<blocks[i]>> ELSE <<>>
  BY <1>1 DEF Only
<1>3. QED
  BY <1>2 DEF OfTypes, FlatMap

LEMMA OfTypesType ==
    ASSUME NEW types, NEW blocks \in Seq(Blocks)
    PROVE  OfTypes(blocks, types) \in Seq(Blocks)
BY OfTypesIsFlatMap, OnlyType, FlatMapType

LEMMA OfTypesEmpty == \A types : OfTypes(<<>>, types) = <<>>
BY OfTypesIsFlatMap, FlatMapEmpty, EmptySeq

LEMMA OfTypesConcat ==
    ASSUME NEW types, NEW s \in Seq(Blocks), NEW t \in Seq(Blocks)
    PROVE  OfTypes(s \o t, types) = OfTypes(s, types) \o OfTypes(t, types)
<1>1. s \o t \in Seq(Blocks)
  BY ConcatProperties
<1>2. FlatMap(s \o t, Only(types)) = FlatMap(s, Only(types)) \o FlatMap(t, Only(types))
  BY OnlyType, FlatMapConcat
<1>3. QED
  BY <1>1, <1>2, OfTypesIsFlatMap

LEMMA OfTypesNone ==
    ASSUME NEW types, NEW blocks \in Seq(Blocks),
           \A i \in DOMAIN blocks : blocks[i].type \notin types
    PROVE  OfTypes(blocks, types) = <<>>
<1>1. \A i \in DOMAIN blocks : Only(types)[blocks[i]] = <<>>
  BY ElementOfSeq, LenProperties DEF Only
<1>2. FlatMap(blocks, Only(types)) = <<>>
  BY <1>1, OnlyType, FlatMapNone
<1>3. QED
  BY <1>2, OfTypesIsFlatMap

LEMMA OfTypesAll ==
    ASSUME NEW types, NEW blocks \in Seq(Blocks),
           \A i \in DOMAIN blocks : blocks[i].type \in types
    PROVE  OfTypes(blocks, types) = blocks
<1> DEFINE h == [b \in Blocks |-> b]
<1>1. Takes(h, Blocks, Blocks) /\ \A b \in Blocks : h[b] = b
  BY DEF Takes
<1>2. DOMAIN blocks = 1..Len(blocks) /\ Len(blocks) \in Nat /\ \A i \in DOMAIN blocks : blocks[i] \in Blocks
  BY ElementOfSeq, LenProperties
<1> HIDE DEF h
<1>3. \A i \in DOMAIN blocks : Only(types)[blocks[i]] = <<h[blocks[i]]>>
  BY <1>1, <1>2 DEF Only
<1>4. FlatMap(blocks, Only(types)) = [i \in DOMAIN blocks |-> h[blocks[i]]]
  BY <1>1, <1>3, OnlyType, FlatMapAll
<1>5. [i \in DOMAIN blocks |-> h[blocks[i]]] = [i \in DOMAIN blocks |-> blocks[i]]
  BY <1>1, <1>2
<1>6. [i \in DOMAIN blocks |-> blocks[i]] = blocks
  BY LenProperties
<1>7. QED
  BY <1>4, <1>5, <1>6, OfTypesIsFlatMap

\* What is kept of the blocks that were kept.
LEMMA OfTypesTwice ==
    ASSUME NEW A, NEW B, NEW blocks \in Seq(Blocks)
    PROVE  OfTypes(OfTypes(blocks, A), B) = OfTypes(blocks, A \cap B)
<1> DEFINE f == Only(A)
           g == Only(B)
           h == Only(A \cap B)
<1>1. Takes(f, Blocks, Seq(Blocks)) /\ Takes(g, Blocks, Seq(Blocks)) /\ Takes(h, Blocks, Seq(Blocks))
  BY OnlyType
<1>2. ASSUME NEW b \in Blocks PROVE FlatMap(f[b], g) = h[b]
  <2>1. CASE b.type \in A
    <3>1. f[b] = <<b>> /\ h[b] = g[b]
      BY <2>1 DEF Only
    <3> HIDE DEF f, g, h
    <3>2. FlatMap(<<b>>, g) = g[b]
      BY <1>1, FlatMapOne
    <3>3. QED
      BY <3>1, <3>2
  <2>2. CASE b.type \notin A
    <3>1. f[b] = <<>> /\ h[b] = <<>>
      BY <2>2 DEF Only
    <3> HIDE DEF f, g, h
    <3>2. QED
      BY <3>1, FlatMapEmpty
  <2>3. QED
    BY <2>1, <2>2
<1> HIDE DEF f, g, h
<1>3. FlatMap(FlatMap(blocks, f), g) = FlatMap(blocks, h)
  BY <1>1, <1>2, FlatMapTwice
<1>4. QED
  BY <1>3, OfTypesIsFlatMap, OfTypesType DEF f, g, h

\* The blocks that are kept are those of the types.
LEMMA OfTypesElements ==
    ASSUME NEW types, NEW blocks \in Seq(Blocks)
    PROVE  /\ \A p \in DOMAIN OfTypes(blocks, types) :
                /\ OfTypes(blocks, types)[p].type \in types
                /\ \E i \in DOMAIN blocks : OfTypes(blocks, types)[p] = blocks[i]
           /\ \A i \in DOMAIN blocks : blocks[i].type \in types =>
                \E p \in DOMAIN OfTypes(blocks, types) : OfTypes(blocks, types)[p] = blocks[i]
<1> DEFINE ss == [i \in DOMAIN blocks |-> IF blocks[i].type \in types THEN <<blocks[i]>> ELSE <<>>]
           F == OfTypes(blocks, types)
<1>1. /\ Len(blocks) \in Nat /\ DOMAIN blocks = 1..Len(blocks)
      /\ \A i \in DOMAIN blocks : blocks[i] \in Blocks
  BY ElementOfSeq, LenProperties
<1>2. ss \in Seq(Seq(Blocks))
  <2>1. \A i \in DOMAIN blocks : ss[i] \in Seq(Blocks)
    BY <1>1
  <2>2. ss \in [1..Len(blocks) -> Seq(Blocks)]
    BY <1>1, <2>1
  <2>3. QED
    BY <1>1, <2>2
<1>3. /\ DOMAIN ss = DOMAIN blocks /\ F = FlattenSeq(ss)
      /\ \A i \in DOMAIN blocks :
           /\ blocks[i].type \in types => ss[i] = <<blocks[i]>>
           /\ blocks[i].type \notin types => ss[i] = <<>>
  BY DEF OfTypes
<1> HIDE DEF ss, F
<1>4. /\ \A p \in DOMAIN F : \E i \in DOMAIN blocks : \E k \in DOMAIN ss[i] : F[p] = ss[i][k]
      /\ \A i \in DOMAIN blocks : \A k \in DOMAIN ss[i] : \E p \in DOMAIN F : F[p] = ss[i][k]
  BY <1>2, <1>3, FlattenElements
<1>5. ASSUME NEW p \in DOMAIN F
      PROVE  F[p].type \in types /\ \E i \in DOMAIN blocks : F[p] = blocks[i]
  <2>1. PICK i \in DOMAIN blocks : \E k \in DOMAIN ss[i] : F[p] = ss[i][k]
    BY <1>4
  <2>2. blocks[i].type \in types
    BY <1>3, <2>1
  <2>3. F[p] = blocks[i]
    BY <1>3, <2>1, <2>2
  <2>4. QED
    BY <2>2, <2>3
<1>6. ASSUME NEW i \in DOMAIN blocks, blocks[i].type \in types
      PROVE  \E p \in DOMAIN F : F[p] = blocks[i]
  <2>1. ss[i] = <<blocks[i]>> /\ 1 \in DOMAIN ss[i] /\ ss[i][1] = blocks[i]
    BY <1>3, <1>6
  <2>2. QED
    BY <1>4, <2>1
<1>7. QED
  BY <1>5, <1>6 DEF F

\* Where only the words of blocks change, the same blocks are kept.
LEMMA OfTypesReworded ==
    ASSUME NEW types, NEW h, Takes(h, Blocks, Blocks), NEW blocks \in Seq(Blocks),
           \A b \in Blocks : h[b].type = b.type
    PROVE  OfTypes([i \in DOMAIN blocks |-> h[blocks[i]]], types)
             = [i \in DOMAIN OfTypes(blocks, types) |-> h[OfTypes(blocks, types)[i]]]
<1> DEFINE one == [b \in Blocks |-> <<h[b]>>]
           both == [b \in Blocks |-> IF b.type \in types THEN <<h[b]>> ELSE <<>>]
           kept == OfTypes(blocks, types)
           hs == [i \in DOMAIN blocks |-> h[blocks[i]]]
<1>1. /\ Takes(one, Blocks, Seq(Blocks)) /\ Takes(both, Blocks, Seq(Blocks))
      /\ \A b \in Blocks :
           /\ one[b] = <<h[b]>>
           /\ both[b] = IF b.type \in types THEN <<h[b]>> ELSE <<>>
  BY DEF Takes
<1> HIDE DEF one, both
<1>2. Takes(Only(types), Blocks, Seq(Blocks))
  BY OnlyType
<1>3. /\ hs \in Seq(Blocks) /\ kept \in Seq(Blocks)
      /\ (\A i \in DOMAIN blocks : blocks[i] \in Blocks) /\ (\A i \in DOMAIN kept : kept[i] \in Blocks)
  BY MapIsSeq, OfTypesType, ElementOfSeq, LenProperties
<1> HIDE DEF kept
<1>4. FlatMap(blocks, one) = hs
  <2>1. \A i \in DOMAIN blocks : one[blocks[i]] = <<h[blocks[i]]>>
    BY <1>1, <1>3
  <2>2. QED
    BY <1>1, <2>1, FlatMapAll
<1>5. FlatMap(kept, one) = [i \in DOMAIN kept |-> h[kept[i]]]
  <2>1. \A i \in DOMAIN kept : one[kept[i]] = <<h[kept[i]]>>
    BY <1>1, <1>3
  <2>2. QED
    BY <1>1, <1>3, <2>1, FlatMapAll
<1> HIDE DEF hs
<1>6. FlatMap(FlatMap(blocks, one), Only(types)) = FlatMap(blocks, both)
  <2>1. ASSUME NEW b \in Blocks PROVE FlatMap(one[b], Only(types)) = both[b]
    <3>1. h[b] \in Blocks
      BY DEF Takes
    <3>2. h[b] \in Blocks /\ FlatMap(<<h[b]>>, Only(types)) = Only(types)[h[b]]
      BY <1>2, <3>1, FlatMapOne
    <3>3. Only(types)[h[b]] = IF b.type \in types THEN <<h[b]>> ELSE <<>>
      BY <3>2 DEF Only
    <3>4. QED
      BY <1>1, <3>2, <3>3
  <2>2. QED
    BY <1>1, <1>2, <2>1, FlatMapTwice
<1>7. FlatMap(FlatMap(blocks, Only(types)), one) = FlatMap(blocks, both)
  <2>1. ASSUME NEW b \in Blocks PROVE FlatMap(Only(types)[b], one) = both[b]
    <3>1. CASE b.type \in types
      <4>1. Only(types)[b] = <<b>> /\ one[b] = both[b]
        BY <1>1, <3>1 DEF Only
      <4>2. FlatMap(<<b>>, one) = one[b]
        BY <1>1, FlatMapOne
      <4>3. QED
        BY <4>1, <4>2
    <3>2. CASE b.type \notin types
      <4>1. Only(types)[b] = <<>>
        BY <3>2 DEF Only
      <4>2. QED
        BY <1>1, <3>2, <4>1, FlatMapEmpty
    <3>3. QED
      BY <3>1, <3>2
  <2>2. QED
    BY <1>1, <1>2, <2>1, FlatMapTwice
<1>8. OfTypes(hs, types) = FlatMap(kept, one)
  BY <1>3, <1>4, <1>6, <1>7, OfTypesIsFlatMap DEF kept
<1>9. QED
  BY <1>5, <1>8 DEF hs, kept

LEMMA IdsFacts ==
    ASSUME NEW blocks \in Seq(Blocks)
    PROVE  /\ Ids(blocks) \in Seq(Identity)
           /\ Len(Ids(blocks)) = Len(blocks)
           /\ DOMAIN Ids(blocks) = DOMAIN blocks
           /\ Ids(blocks) = <<>> <=> blocks = <<>>
<1>1. /\ Len(blocks) \in Nat /\ DOMAIN blocks = 1..Len(blocks)
      /\ \A i \in 1..Len(blocks) : blocks[i].id \in Identity
  <2>1. \A b \in Blocks : b.id \in Identity
    BY DEF Blocks
  <2>2. \A i \in 1..Len(blocks) : blocks[i] \in Blocks
    BY ElementOfSeq
  <2>3. QED
    BY <2>1, <2>2, LenProperties
<1>2. Ids(blocks) \in [1..Len(blocks) -> Identity]
  BY <1>1 DEF Ids
<1>3. Ids(blocks) \in Seq(Identity) /\ Len(Ids(blocks)) = Len(blocks) /\ DOMAIN Ids(blocks) = DOMAIN blocks
  BY <1>1, <1>2
<1>4. QED
  BY <1>1, <1>3, EmptySeq

LEMMA TextsIsFlatMap ==
    ASSUME NEW types, NEW blocks \in Seq(Blocks)
    PROVE  /\ Texts(blocks, types) = FlatMap(OfTypes(blocks, types), Name)
           /\ Texts(blocks, types) \in Seq(Identity)
<1> DEFINE kept == OfTypes(blocks, types)
<1>1. kept \in Seq(Blocks)
  BY OfTypesType
<1>2. \A i \in DOMAIN kept : kept[i] \in Blocks
  BY <1>1, ElementOfSeq, LenProperties
<1>3. Texts(blocks, types)
        = FlattenSeq([i \in DOMAIN kept |-> IF kept[i].id # NoText THEN <<kept[i].id>> ELSE <<>>])
  BY DEF Texts
<1> HIDE DEF kept
<1>4. \A i \in DOMAIN kept : Name[kept[i]] = IF kept[i].id # NoText THEN <<kept[i].id>> ELSE <<>>
  BY <1>2 DEF Name
<1>5. Texts(blocks, types) = FlatMap(kept, Name)
  BY <1>3, <1>4 DEF FlatMap
<1>6. FlatMap(kept, Name) \in Seq(Identity)
  BY <1>1, NameType, FlatMapType
<1>7. QED
  BY <1>5, <1>6 DEF kept

LEMMA OfOneType ==
    ASSUME NEW type, NEW types, NEW blocks \in Seq(Blocks),
           \A i \in DOMAIN blocks : blocks[i].type = type
    PROVE  OfTypes(blocks, types) = IF type \in types THEN blocks ELSE <<>>
<1>1. CASE type \in types
  <2>1. \A i \in DOMAIN blocks : blocks[i].type \in types
    BY <1>1
  <2>2. QED
    BY <1>1, <2>1, OfTypesAll
<1>2. CASE type \notin types
  <2>1. \A i \in DOMAIN blocks : blocks[i].type \notin types
    BY <1>2
  <2>2. QED
    BY <1>2, <2>1, OfTypesNone
<1>3. QED
  BY <1>1, <1>2

\* Texts that are not empty are taken by their identities.
LEMMA NamesOfTexts ==
    ASSUME NEW blocks \in Seq(Blocks), \A i \in DOMAIN blocks : blocks[i].id # NoText
    PROVE  FlatMap(blocks, Name) = Ids(blocks)
<1> DEFINE h == [b \in Blocks |-> b.id]
<1>1. Takes(h, Blocks, Identity) /\ \A b \in Blocks : h[b] = b.id
  BY DEF Takes, Blocks
<1>2. \A i \in DOMAIN blocks : blocks[i] \in Blocks
  BY ElementOfSeq, LenProperties
<1> HIDE DEF h
<1>3. \A i \in DOMAIN blocks : Name[blocks[i]] = <<h[blocks[i]]>>
  BY <1>1, <1>2 DEF Name
<1>4. FlatMap(blocks, Name) = [i \in DOMAIN blocks |-> h[blocks[i]]]
  BY <1>1, <1>3, NameType, FlatMapAll
<1>5. QED
  BY <1>1, <1>2, <1>4 DEF Ids

LEMMA BlockFacts ==
    /\ NoText \in Identity
    /\ \A type \in BlockTypes, id \in Identity, words \in SUBSET BlockWords :
         /\ Block(type, id, words) \in Blocks
         /\ Block(type, id, words).type = type
         /\ Block(type, id, words).id = id
         /\ Block(type, id, words).words = words
<1>1. NoText \in Identity
  BY DEF NoText, Identity
<1>2. QED
  BY <1>1 DEF Block, Blocks

-----------------------------------------------------------------------------
(* The turns of the models. *)

\* Some of the thoughts have words.
Thoughtful(thoughts) == \E i \in DOMAIN thoughts : thoughts[i].words # {}

\* What can be read in the blocks of an answer is what the model answered.
Tells(blocks, reply) ==
    /\ Texts(blocks, {"text"}) = reply.content
    /\ Ids(OfTypes(blocks, {"tool_use"})) = reply.calls
    /\ OfTypes(blocks, {"tool_result"}) = <<>>
    /\ Thoughtful(OfTypes(blocks, {"thinking"})) <=> reply.reasoning = "real"

LEMMA ThinkingBlocksFacts ==
    ASSUME NEW reply \in Reply
    PROVE  /\ ThinkingBlocks(reply) \in Seq(Blocks)
           /\ Thoughtful(ThinkingBlocks(reply)) <=> reply.reasoning = "real"
           /\ \A types : OfTypes(ThinkingBlocks(reply), types)
                = IF "thinking" \in types THEN ThinkingBlocks(reply) ELSE <<>>
<1> DEFINE s == ThinkingBlocks(reply)
<1>1. Block("thinking", NoText, {"said"}) \in Blocks
  BY BlockFacts DEF BlockTypes, BlockWords
<1>2. s \in Seq(Blocks)
  BY <1>1 DEF ThinkingBlocks
<1>3. \A i \in DOMAIN s : s[i].type = "thinking"
  BY DEF ThinkingBlocks, Block
<1>4. Thoughtful(s) <=> reply.reasoning = "real"
  <2>1. CASE reply.reasoning = "real"
    <3>1. 1 \in DOMAIN s /\ s[1].words = {"said"}
      BY <2>1 DEF ThinkingBlocks, Block
    <3>2. QED
      BY <2>1, <3>1 DEF Thoughtful
  <2>2. CASE reply.reasoning # "real"
    BY <2>2 DEF ThinkingBlocks, Thoughtful
  <2>3. QED
    BY <2>1, <2>2
<1> HIDE DEF s
<1>5. \A types : OfTypes(s, types) = IF "thinking" \in types THEN s ELSE <<>>
  BY <1>2, <1>3, OfOneType
<1>6. QED
  BY <1>2, <1>4, <1>5 DEF s

LEMMA TurnIdentities ==
    ASSUME NEW ids \in Seq(OfTurns)
    PROVE  /\ Len(ids) \in Nat /\ DOMAIN ids = 1..Len(ids)
           /\ \A i \in DOMAIN ids : ids[i] \in Identity /\ ids[i] # NoText
<1>1. \A id \in OfTurns : id \in Identity /\ id # NoText
  BY DEF OfTurns, Identity, NoText
<1>2. \A i \in 1..Len(ids) : ids[i] \in OfTurns
  BY ElementOfSeq
<1>3. QED
  BY <1>1, <1>2, LenProperties

LEMMA ToolUseBlocksFacts ==
    ASSUME NEW reply \in Reply
    PROVE  /\ ToolUseBlocks(reply) \in Seq(Blocks)
           /\ Ids(ToolUseBlocks(reply)) = reply.calls
           /\ \A types : OfTypes(ToolUseBlocks(reply), types)
                = IF "tool_use" \in types THEN ToolUseBlocks(reply) ELSE <<>>
<1> DEFINE s == ToolUseBlocks(reply)
<1>1. reply.calls \in Seq(OfTurns)
  BY DEF Reply
<1>2. /\ Len(reply.calls) \in Nat /\ DOMAIN reply.calls = 1..Len(reply.calls)
      /\ \A i \in DOMAIN reply.calls : reply.calls[i] \in Identity
  BY <1>1, TurnIdentities
<1>3. s \in [1..Len(reply.calls) -> Blocks]
  BY <1>2, BlockFacts DEF ToolUseBlocks, BlockTypes
<1>4. s \in Seq(Blocks)
  BY <1>2, <1>3
<1>5. DOMAIN s = DOMAIN reply.calls
      /\ \A i \in DOMAIN s : s[i].type = "tool_use" /\ s[i].id = reply.calls[i]
  BY DEF ToolUseBlocks, Block
<1> HIDE DEF s
<1>6. Ids(s) = reply.calls
  <2>1. Ids(s) = [i \in DOMAIN reply.calls |-> reply.calls[i]]
    BY <1>5 DEF Ids
  <2>2. reply.calls = [i \in DOMAIN reply.calls |-> reply.calls[i]]
    BY <1>1, LenProperties
  <2>3. QED
    BY <2>1, <2>2
<1>7. \A types : OfTypes(s, types) = IF "tool_use" \in types THEN s ELSE <<>>
  BY <1>4, <1>5, OfOneType
<1>8. QED
  BY <1>4, <1>6, <1>7 DEF s

LEMMA TextBlocksFacts ==
    ASSUME NEW reply \in Reply
    PROVE  /\ TextBlocks(reply) \in Seq(Blocks)
           /\ FlatMap(TextBlocks(reply), Name) = reply.content
           /\ \A types : OfTypes(TextBlocks(reply), types)
                = IF "text" \in types THEN TextBlocks(reply) ELSE <<>>
<1> DEFINE s == TextBlocks(reply)
<1>1. reply.content \in Seq(OfTurns)
  BY DEF Reply
<1>2. /\ Len(reply.content) \in Nat /\ DOMAIN reply.content = 1..Len(reply.content)
      /\ \A i \in DOMAIN reply.content : reply.content[i] \in Identity /\ reply.content[i] # NoText
  BY <1>1, TurnIdentities
<1>3. s \in [1..Len(reply.content) -> Blocks]
  BY <1>2, BlockFacts DEF TextBlocks, BlockTypes
<1>4. s \in Seq(Blocks)
  BY <1>2, <1>3
<1>5. DOMAIN s = DOMAIN reply.content
      /\ \A i \in DOMAIN s : s[i].type = "text" /\ s[i].id = reply.content[i]
  BY DEF TextBlocks, Block
<1> HIDE DEF s
<1>6. FlatMap(s, Name) = reply.content
  <2>1. FlatMap(s, Name) = Ids(s)
    <3>1. \A i \in DOMAIN s : s[i].id # NoText
      BY <1>2, <1>5
    <3>2. QED
      BY <1>4, <3>1, NamesOfTexts
  <2>2. Ids(s) = [i \in DOMAIN reply.content |-> reply.content[i]]
    BY <1>5 DEF Ids
  <2>3. reply.content = [i \in DOMAIN reply.content |-> reply.content[i]]
    BY <1>1, LenProperties
  <2>4. QED
    BY <2>1, <2>2, <2>3
<1>7. \A types : OfTypes(s, types) = IF "text" \in types THEN s ELSE <<>>
  BY <1>4, <1>5, OfOneType
<1>8. QED
  BY <1>4, <1>6, <1>7 DEF s

\* Whichever way the three kinds of blocks are put together.
LEMMA PutTogether ==
    ASSUME NEW reply \in Reply, NEW blocks,
           \/ blocks = ThinkingBlocks(reply) \o ToolUseBlocks(reply) \o TextBlocks(reply)
           \/ blocks = ThinkingBlocks(reply) \o TextBlocks(reply) \o ToolUseBlocks(reply)
    PROVE  blocks \in Seq(Blocks) /\ Tells(blocks, reply)
<1> DEFINE th == ThinkingBlocks(reply)
           tu == ToolUseBlocks(reply)
           tx == TextBlocks(reply)
<1>1. /\ th \in Seq(Blocks) /\ tu \in Seq(Blocks) /\ tx \in Seq(Blocks)
      /\ \A types :
           /\ OfTypes(th, types) = IF "thinking" \in types THEN th ELSE <<>>
           /\ OfTypes(tu, types) = IF "tool_use" \in types THEN tu ELSE <<>>
           /\ OfTypes(tx, types) = IF "text" \in types THEN tx ELSE <<>>
      /\ Thoughtful(th) <=> reply.reasoning = "real"
      /\ Ids(tu) = reply.calls
      /\ FlatMap(tx, Name) = reply.content
  BY ThinkingBlocksFacts, ToolUseBlocksFacts, TextBlocksFacts
<1>2. \/ blocks = (th \o tu) \o tx
      \/ blocks = (th \o tx) \o tu
  OBVIOUS
<1> HIDE DEF th, tu, tx
<1>3. /\ th \o tu \in Seq(Blocks) /\ th \o tx \in Seq(Blocks)
      /\ (th \o tu) \o tx \in Seq(Blocks) /\ (th \o tx) \o tu \in Seq(Blocks)
  BY <1>1, ConcatProperties
<1>4. ASSUME NEW types
      PROVE  \/ OfTypes(blocks, types) = (OfTypes(th, types) \o OfTypes(tu, types)) \o OfTypes(tx, types)
             \/ OfTypes(blocks, types) = (OfTypes(th, types) \o OfTypes(tx, types)) \o OfTypes(tu, types)
  <2>1. /\ OfTypes(th \o tu, types) = OfTypes(th, types) \o OfTypes(tu, types)
        /\ OfTypes(th \o tx, types) = OfTypes(th, types) \o OfTypes(tx, types)
    BY <1>1, OfTypesConcat
  <2>2. /\ OfTypes((th \o tu) \o tx, types) = OfTypes(th \o tu, types) \o OfTypes(tx, types)
        /\ OfTypes((th \o tx) \o tu, types) = OfTypes(th \o tx, types) \o OfTypes(tu, types)
    BY <1>1, <1>3, OfTypesConcat
  <2>3. QED
    BY <1>2, <2>1, <2>2
<1>5. /\ th \o <<>> = th /\ tu \o <<>> = tu /\ <<>> \o tu = tu /\ <<>> \o tx = tx /\ tx \o <<>> = tx
      /\ <<>> \o <<>> = <<>>
  BY <1>1, ConcatEmptySeq, EmptySeq
<1>6. OfTypes(blocks, {"thinking"}) = th
  <2>1. /\ OfTypes(th, {"thinking"}) = th
        /\ OfTypes(tu, {"thinking"}) = <<>>
        /\ OfTypes(tx, {"thinking"}) = <<>>
    BY <1>1
  <2>2. QED
    BY <1>4, <1>5, <2>1
<1>7. OfTypes(blocks, {"tool_use"}) = tu
  <2>1. /\ OfTypes(th, {"tool_use"}) = <<>>
        /\ OfTypes(tu, {"tool_use"}) = tu
        /\ OfTypes(tx, {"tool_use"}) = <<>>
    BY <1>1
  <2>2. QED
    BY <1>4, <1>5, <2>1
<1>8. OfTypes(blocks, {"text"}) = tx
  <2>1. /\ OfTypes(th, {"text"}) = <<>>
        /\ OfTypes(tu, {"text"}) = <<>>
        /\ OfTypes(tx, {"text"}) = tx
    BY <1>1
  <2>2. QED
    BY <1>4, <1>5, <2>1
<1>9. OfTypes(blocks, {"tool_result"}) = <<>>
  <2>1. /\ OfTypes(th, {"tool_result"}) = <<>>
        /\ OfTypes(tu, {"tool_result"}) = <<>>
        /\ OfTypes(tx, {"tool_result"}) = <<>>
    BY <1>1
  <2>2. QED
    BY <1>4, <1>5, <2>1
<1>10. blocks \in Seq(Blocks)
  BY <1>2, <1>3
<1>11. Texts(blocks, {"text"}) = reply.content
  BY <1>1, <1>8, <1>10, TextsIsFlatMap
<1>12. QED
  BY <1>1, <1>6, <1>7, <1>9, <1>10, <1>11 DEF Tells

\* An empty text block is no text.
LEMMA EmptyAnswer ==
    ASSUME NEW reply \in Reply, Tells(<<>>, reply)
    PROVE  /\ <<Block("text", NoText, {})>> \in Seq(Blocks)
           /\ Tells(<<Block("text", NoText, {})>>, reply)
<1> DEFINE b == Block("text", NoText, {})
           s == <<b>>
<1>1. b \in Blocks /\ b.type = "text" /\ b.id = NoText
  BY BlockFacts DEF BlockTypes
<1> HIDE DEF b
<1>2. s \in Seq(Blocks) /\ \A i \in DOMAIN s : s[i].type = "text"
  BY <1>1
<1>3. FlatMap(s, Name) = <<>>
  <2>1. FlatMap(s, Name) = Name[b]
    BY <1>1, NameType, FlatMapOne
  <2>2. QED
    BY <1>1, <2>1 DEF Name
<1> HIDE DEF s
<1>4. \A types : OfTypes(s, types) = IF "text" \in types THEN s ELSE <<>>
  BY <1>2, OfOneType
<1>5. /\ OfTypes(s, {"text"}) = s /\ OfTypes(s, {"tool_use"}) = <<>>
      /\ OfTypes(s, {"tool_result"}) = <<>> /\ OfTypes(s, {"thinking"}) = <<>>
  BY <1>4
<1>6. Texts(s, {"text"}) = <<>>
  BY <1>2, <1>3, <1>5, TextsIsFlatMap
<1>7. Texts(<<>>, {"text"}) = <<>>
  <2>1. <<>> \in Seq(Blocks) /\ OfTypes(<<>>, {"text"}) = <<>>
    BY OfTypesEmpty, EmptySeq
  <2>2. Texts(<<>>, {"text"}) = FlatMap(OfTypes(<<>>, {"text"}), Name)
    BY <2>1, TextsIsFlatMap
  <2>3. QED
    BY <2>1, <2>2, FlatMapEmpty
<1>8. Tells(s, reply)
  BY <1>5, <1>6, <1>7, OfTypesEmpty DEF Tells
<1>9. QED
  BY <1>2, <1>8 DEF s, b

LEMMA ReceivedFacts ==
    ASSUME NEW reply \in Reply
    PROVE  Received(reply) \in Seq(Blocks) /\ Tells(Received(reply), reply)
<1> DEFINE content == ThinkingBlocks(reply) \o ToolUseBlocks(reply) \o TextBlocks(reply)
           streamed == ThinkingBlocks(reply) \o TextBlocks(reply) \o ToolUseBlocks(reply)
<1>1. content \in Seq(Blocks) /\ Tells(content, reply)
  BY PutTogether
<1>2. streamed \in Seq(Blocks) /\ Tells(streamed, reply)
  BY PutTogether
<1>3. \/ Received(reply) = streamed
      \/ Received(reply) = IF content = <<>> THEN <<Block("text", NoText, {})>> ELSE content
  BY DEF Received, TransformContent
<1> HIDE DEF content, streamed
<1>4. QED
  BY <1>1, <1>2, <1>3, EmptyAnswer

\* The client can drop thinking, or only its words: the rest stays.
LEMMA ThinkingDropped ==
    ASSUME NEW blocks \in Seq(Blocks), NEW reply \in Reply, Tells(blocks, reply)
    PROVE  /\ OfTypes(blocks, RouterTypes) \in Seq(Blocks)
           /\ Tells(OfTypes(blocks, RouterTypes), [reply EXCEPT !.reasoning = "none"])
<1> DEFINE s == OfTypes(blocks, RouterTypes)
           r == [reply EXCEPT !.reasoning = "none"]
<1>1. s \in Seq(Blocks)
  BY OfTypesType
<1>2. /\ RouterTypes \cap {"text"} = {"text"} /\ RouterTypes \cap {"tool_use"} = {"tool_use"}
      /\ RouterTypes \cap {"tool_result"} = {"tool_result"} /\ RouterTypes \cap {"thinking"} = {}
  BY DEF RouterTypes
<1>3. \A types : OfTypes(s, types) = OfTypes(blocks, RouterTypes \cap types)
  BY OfTypesTwice
<1>4. OfTypes(blocks, {}) = <<>>
  BY OfTypesNone
<1>5. r.content = reply.content /\ r.calls = reply.calls /\ r.reasoning = "none"
  BY DEF Reply
<1> HIDE DEF s, r
<1>6. /\ OfTypes(s, {"text"}) = OfTypes(blocks, {"text"})
      /\ OfTypes(s, {"tool_use"}) = OfTypes(blocks, {"tool_use"})
      /\ OfTypes(s, {"tool_result"}) = OfTypes(blocks, {"tool_result"})
      /\ OfTypes(s, {"thinking"}) = <<>>
  BY <1>2, <1>3, <1>4
<1>7. Texts(s, {"text"}) = Texts(blocks, {"text"})
  BY <1>1, <1>6, TextsIsFlatMap
<1>8. ~Thoughtful(<<>>)
  BY DEF Thoughtful
<1>9. Tells(s, r)
  BY <1>5, <1>6, <1>7, <1>8 DEF Tells
<1>10. QED
  BY <1>1, <1>9 DEF s, r

\* A block without the words of its thinking.
Wordless == [b \in Blocks |-> IF b.type = "thinking" THEN [b EXCEPT !.words = {}] ELSE b]

LEMMA WordlessFacts ==
    /\ Takes(Wordless, Blocks, Blocks)
    /\ \A b \in Blocks :
         /\ Wordless[b] = IF b.type = "thinking" THEN [b EXCEPT !.words = {}] ELSE b
         /\ Wordless[b].type = b.type /\ Wordless[b].id = b.id
         /\ b.type = "thinking" => Wordless[b].words = {}
         /\ b.type # "thinking" => Wordless[b] = b
<1>1. ASSUME NEW b \in Blocks
      PROVE  /\ [b EXCEPT !.words = {}] \in Blocks
             /\ [b EXCEPT !.words = {}].type = b.type
             /\ [b EXCEPT !.words = {}].id = b.id
             /\ [b EXCEPT !.words = {}].words = {}
  BY DEF Blocks
<1>2. QED
  BY <1>1 DEF Wordless, Takes

LEMMA WordsDropped ==
    ASSUME NEW blocks \in Seq(Blocks), NEW reply \in Reply, Tells(blocks, reply)
    PROVE  /\ [i \in DOMAIN blocks |-> Wordless[blocks[i]]] \in Seq(Blocks)
           /\ Tells([i \in DOMAIN blocks |-> Wordless[blocks[i]]], [reply EXCEPT !.reasoning = "none"])
<1> DEFINE s == [i \in DOMAIN blocks |-> Wordless[blocks[i]]]
           r == [reply EXCEPT !.reasoning = "none"]
           kept(types) == OfTypes(blocks, types)
<1>1. s \in Seq(Blocks)
  BY WordlessFacts, MapIsSeq
<1>2. ASSUME NEW types
      PROVE  OfTypes(s, types) = [i \in DOMAIN kept(types) |-> Wordless[kept(types)[i]]]
  <2>1. Takes(Wordless, Blocks, Blocks) /\ \A b \in Blocks : Wordless[b].type = b.type
    BY WordlessFacts
  <2>2. QED
    BY <2>1, OfTypesReworded
<1>3. \A types : /\ kept(types) \in Seq(Blocks)
                 /\ \A i \in DOMAIN kept(types) : kept(types)[i] \in Blocks /\ kept(types)[i].type \in types
  <2> SUFFICES ASSUME NEW types
               PROVE  /\ kept(types) \in Seq(Blocks)
                      /\ \A i \in DOMAIN kept(types) :
                           kept(types)[i] \in Blocks /\ kept(types)[i].type \in types
    OBVIOUS
  <2>1. kept(types) \in Seq(Blocks)
    BY OfTypesType
  <2>2. \A i \in DOMAIN kept(types) : kept(types)[i] \in Blocks
    BY <2>1, ElementOfSeq, LenProperties
  <2>3. \A i \in DOMAIN kept(types) : kept(types)[i].type \in types
    BY OfTypesElements
  <2>4. QED
    BY <2>1, <2>2, <2>3
<1>4. r.content = reply.content /\ r.calls = reply.calls /\ r.reasoning = "none"
  BY DEF Reply
<1> HIDE DEF s, r
<1>5. ASSUME NEW types, "thinking" \notin types
      PROVE  OfTypes(s, types) = OfTypes(blocks, types)
  <2>1. ASSUME NEW i \in DOMAIN kept(types)
        PROVE  Wordless[kept(types)[i]] = kept(types)[i]
    <3> HIDE DEF kept
    <3>1. kept(types)[i] \in Blocks /\ kept(types)[i].type # "thinking"
      BY <1>3, <1>5
    <3>2. QED
      BY <3>1, WordlessFacts
  <2>2. OfTypes(s, types) = [i \in DOMAIN kept(types) |-> kept(types)[i]]
    BY <1>2, <2>1
  <2>3. kept(types) = [i \in DOMAIN kept(types) |-> kept(types)[i]]
    BY <1>3, LenProperties
  <2>4. QED
    BY <2>2, <2>3
<1>6. ~Thoughtful(OfTypes(s, {"thinking"}))
  <2> DEFINE t == kept({"thinking"})
  <2>1. \A i \in DOMAIN t : t[i] \in Blocks /\ t[i].type = "thinking"
    BY <1>3
  <2>2. OfTypes(s, {"thinking"}) = [i \in DOMAIN t |-> Wordless[t[i]]]
    BY <1>2
  <2> HIDE DEF t
  <2>3. \A i \in DOMAIN t : Wordless[t[i]].words = {}
    BY <2>1, WordlessFacts
  <2>4. QED
    BY <2>2, <2>3 DEF Thoughtful
<1>7. /\ OfTypes(s, {"text"}) = OfTypes(blocks, {"text"})
      /\ OfTypes(s, {"tool_use"}) = OfTypes(blocks, {"tool_use"})
      /\ OfTypes(s, {"tool_result"}) = OfTypes(blocks, {"tool_result"})
  BY <1>5
<1>8. Texts(s, {"text"}) = Texts(blocks, {"text"})
  BY <1>1, <1>7, TextsIsFlatMap
<1>9. Tells(s, r)
  BY <1>4, <1>6, <1>7, <1>8 DEF Tells
<1>10. QED
  BY <1>1, <1>9 DEF s, r

-----------------------------------------------------------------------------
(* The turns of the client. *)

\* All the calls are answered, in some order, and nothing else.
Answering(ids, calls) == Len(ids) = Len(calls) /\ ToSet(ids) = ToSet(calls)

ResultsIn(blocks) == Ids(OfTypes(blocks, {"tool_result"}))
CallsIn(blocks) == Ids(OfTypes(blocks, {"tool_use"}))

\* The calls a turn of the client behind the conversation h has to answer.
CallsLeft(h) == IF h = <<>> THEN <<>> ELSE CallsIn(h[Len(h)].blocks)

LEMMA NothingToAnswer == Answering(<<>>, <<>>)
BY DEF Answering

LEMMA ResultBlocksFacts ==
    ASSUME NEW calls \in Seq(Identity), NEW o \in Orders(calls), NEW words \in SUBSET BlockWords
    PROVE  /\ ResultBlocks(o, words) \in Seq(Blocks)
           /\ Ids(ResultBlocks(o, words)) = o
           /\ Answering(o, calls)
           /\ \A types : OfTypes(ResultBlocks(o, words), types)
                = IF "tool_result" \in types THEN ResultBlocks(o, words) ELSE <<>>
<1> DEFINE s == ResultBlocks(o, words)
<1>1. /\ Len(calls) \in Nat /\ DOMAIN calls = 1..Len(calls)
      /\ \A i \in DOMAIN calls : calls[i] \in Identity
  BY ElementOfSeq, LenProperties
<1>2. ToSet(calls) \subseteq Identity
  BY <1>1 DEF ToSet
<1>3. o \in [DOMAIN calls -> ToSet(calls)] /\ ToSet(o) = ToSet(calls)
  BY DEF Orders
<1>4. o \in [1..Len(calls) -> Identity]
  BY <1>1, <1>2, <1>3
<1>5. o \in Seq(Identity) /\ Len(o) = Len(calls)
  BY <1>1, <1>4
<1>6. Answering(o, calls)
  BY <1>3, <1>5 DEF Answering
<1>7. s \in [1..Len(calls) -> Blocks]
  BY <1>4, BlockFacts DEF ResultBlocks, BlockTypes
<1>8. s \in Seq(Blocks)
  BY <1>1, <1>7
<1>9. DOMAIN s = DOMAIN o /\ \A i \in DOMAIN s : s[i].type = "tool_result" /\ s[i].id = o[i]
  BY DEF ResultBlocks, Block
<1> HIDE DEF s
<1>10. Ids(s) = o
  <2>1. Ids(s) = [i \in DOMAIN o |-> o[i]]
    BY <1>9 DEF Ids
  <2>2. QED
    BY <1>4, <2>1
<1>11. \A types : OfTypes(s, types) = IF "tool_result" \in types THEN s ELSE <<>>
  BY <1>8, <1>9, OfOneType
<1>12. QED
  BY <1>6, <1>8, <1>10, <1>11 DEF s

LEMMA TextFacts ==
    ASSUME NEW n \in Nat, NEW words \in SUBSET BlockWords, NEW s,
           s = <<Block("text", <<n, "text">>, words)>>
    PROVE  /\ s \in Seq(Blocks)
           /\ \A types : OfTypes(s, types) = IF "text" \in types THEN s ELSE <<>>
<1>1. <<n, "text">> \in Identity
  BY DEF Identity
<1> DEFINE b == Block("text", <<n, "text">>, words)
<1>2. b \in Blocks /\ b.type = "text"
  BY <1>1, BlockFacts DEF BlockTypes
<1> HIDE DEF b
<1>3. s = <<b>>
  BY DEF b
<1>4. s \in Seq(Blocks) /\ \A i \in DOMAIN s : s[i].type = "text"
  BY <1>2, <1>3
<1>5. QED
  BY <1>4, OfOneType

LEMMA UserTurnFacts ==
    ASSUME history \in Seq(Message), NEW blocks \in UserTurns
    PROVE  /\ blocks \in Seq(Blocks)
           /\ OfTypes(blocks, {"thinking"}) = <<>>
           /\ Answering(ResultsIn(blocks), CallsLeft(history))
<1> DEFINE text(w) == <<Block("text", <<Len(history) + 1, "text">>, w)>>
           calls == CallsLeft(history)
<1>1. Len(history) + 1 \in Nat
  BY LenProperties
<1>2. ASSUME NEW w \in SUBSET BlockWords
      PROVE  /\ text(w) \in Seq(Blocks)
             /\ \A types : OfTypes(text(w), types) = IF "text" \in types THEN text(w) ELSE <<>>
  <2> DEFINE s == text(w)
  <2>1. s = <<Block("text", <<Len(history) + 1, "text">>, w)>>
    OBVIOUS
  <2> HIDE DEF s
  <2>2. /\ s \in Seq(Blocks)
        /\ \A types : OfTypes(s, types) = IF "text" \in types THEN s ELSE <<>>
    BY <1>1, <2>1, TextFacts, ZenonT(30)
  <2>3. QED
    BY <2>2 DEF s
<1>3. calls \in Seq(Identity)
  <2>1. CASE history = <<>>
    BY <2>1, EmptySeq DEF CallsLeft
  <2>2. CASE history # <<>>
    <3>1. Len(history) \in 1..Len(history)
      BY <2>2, EmptySeq
    <3>2. history[Len(history)] \in Message
      BY <3>1, ElementOfSeq
    <3>3. history[Len(history)].blocks \in Seq(Blocks)
      BY <3>2 DEF Message
    <3>4. QED
      BY <2>2, <3>3, OfTypesType, IdsFacts DEF CallsLeft, CallsIn
  <2>3. QED
    BY <2>1, <2>2
<1>4. OpenCalls = calls
  BY DEF OpenCalls, CallsLeft, CallsIn
<1>5. /\ UserWords \subseteq SUBSET BlockWords
      /\ {} \in SUBSET BlockWords /\ {"complex"} \in SUBSET BlockWords
  BY ConversationAssumption DEF BlockWords, Words
<1>6. \/ calls = <<>> /\ \E w \in UserWords : blocks = text(w)
      \/ \E o \in Orders(calls), w \in {{}, {"complex"}} : blocks = ResultBlocks(o, w)
      \/ \E o \in Orders(calls) : blocks = ResultBlocks(o, {}) \o text({})
      \/ \E o \in Orders(calls) : blocks = text({}) \o ResultBlocks(o, {})
  <2>1. UserTurns = IF OpenCalls = <<>> THEN {text(w) : w \in UserWords}
          ELSE {ResultBlocks(o, w) : o \in Orders(OpenCalls), w \in {{}, {"complex"}}}
                 \cup {ResultBlocks(o, {}) \o text({}) : o \in Orders(OpenCalls)}
                 \cup {text({}) \o ResultBlocks(o, {}) : o \in Orders(OpenCalls)}
    BY DEF UserTurns
  <2> HIDE DEF text, calls
  <2>2. CASE OpenCalls = <<>>
    <3>1. \E w \in UserWords : blocks = text(w)
      BY <2>1, <2>2
    <3>2. QED
      BY <1>4, <2>2, <3>1
  <2>3. CASE OpenCalls # <<>>
    <3> DEFINE A == {ResultBlocks(o, w) : o \in Orders(calls), w \in {{}, {"complex"}}}
               B == {ResultBlocks(o, {}) \o text({}) : o \in Orders(calls)}
               C == {text({}) \o ResultBlocks(o, {}) : o \in Orders(calls)}
    <3>1. UserTurns = (A \cup B) \cup C
      BY <1>4, <2>1, <2>3
    <3>2. blocks \in A => \E o \in Orders(calls), w \in {{}, {"complex"}} : blocks = ResultBlocks(o, w)
      OBVIOUS
    <3>3. blocks \in B => \E o \in Orders(calls) : blocks = ResultBlocks(o, {}) \o text({})
      OBVIOUS
    <3>4. blocks \in C => \E o \in Orders(calls) : blocks = text({}) \o ResultBlocks(o, {})
      OBVIOUS
    <3> HIDE DEF A, B, C
    <3>5. blocks \in A \/ blocks \in B \/ blocks \in C
      BY <3>1
    <3>6. QED
      BY <3>2, <3>3, <3>4, <3>5, Zenon
  <2>4. QED
    BY <2>2, <2>3
<1> HIDE DEF text, calls
<1>7. CASE calls = <<>> /\ \E w \in UserWords : blocks = text(w)
  <2>1. PICK w \in UserWords : blocks = text(w)
    BY <1>7
  <2>2. /\ blocks \in Seq(Blocks) /\ OfTypes(blocks, {"thinking"}) = <<>>
        /\ OfTypes(blocks, {"tool_result"}) = <<>>
    BY <1>2, <1>5, <2>1
  <2>3. ResultsIn(blocks) = <<>>
    BY <2>2 DEF ResultsIn, Ids
  <2>4. QED
    BY <1>7, <2>2, <2>3, NothingToAnswer DEF calls
<1>8. ASSUME NEW o \in Orders(calls), NEW w \in SUBSET BlockWords
      PROVE  /\ ResultBlocks(o, w) \in Seq(Blocks)
             /\ OfTypes(ResultBlocks(o, w), {"tool_result"}) = ResultBlocks(o, w)
             /\ OfTypes(ResultBlocks(o, w), {"thinking"}) = <<>>
             /\ Answering(Ids(ResultBlocks(o, w)), calls)
  BY <1>3, ResultBlocksFacts
<1>9. CASE \E o \in Orders(calls), w \in {{}, {"complex"}} : blocks = ResultBlocks(o, w)
  <2>1. PICK o \in Orders(calls), w \in SUBSET BlockWords : blocks = ResultBlocks(o, w)
    BY <1>5, <1>9
  <2>2. /\ blocks \in Seq(Blocks) /\ OfTypes(blocks, {"thinking"}) = <<>>
        /\ OfTypes(blocks, {"tool_result"}) = blocks /\ Answering(Ids(blocks), calls)
    BY <1>8, <2>1
  <2>3. QED
    BY <2>2 DEF ResultsIn, calls
<1>10. ASSUME NEW o \in Orders(calls),
              \/ blocks = ResultBlocks(o, {}) \o text({})
              \/ blocks = text({}) \o ResultBlocks(o, {})
       PROVE  /\ blocks \in Seq(Blocks)
              /\ OfTypes(blocks, {"thinking"}) = <<>>
              /\ Answering(ResultsIn(blocks), CallsLeft(history))
  <2> DEFINE r == ResultBlocks(o, {})
             t == text({})
  <2>1. /\ r \in Seq(Blocks) /\ OfTypes(r, {"tool_result"}) = r
        /\ OfTypes(r, {"thinking"}) = <<>> /\ Answering(Ids(r), calls)
    BY <1>5, <1>8
  <2>2. /\ t \in Seq(Blocks) /\ OfTypes(t, {"tool_result"}) = <<>>
        /\ OfTypes(t, {"thinking"}) = <<>>
    BY <1>2, <1>5
  <2>3. blocks = r \o t \/ blocks = t \o r
    BY <1>10
  <2> HIDE DEF r, t
  <2>4. blocks \in Seq(Blocks)
    BY <2>1, <2>2, <2>3, ConcatProperties
  <2>5. \A types : \/ OfTypes(blocks, types) = OfTypes(r, types) \o OfTypes(t, types)
                   \/ OfTypes(blocks, types) = OfTypes(t, types) \o OfTypes(r, types)
    BY <2>1, <2>2, <2>3, OfTypesConcat
  <2>6. r \o <<>> = r /\ <<>> \o r = r /\ <<>> \o <<>> = <<>>
    BY <2>1, ConcatEmptySeq, EmptySeq
  <2>7. OfTypes(blocks, {"thinking"}) = <<>>
    BY <2>1, <2>2, <2>5, <2>6
  <2>8. OfTypes(blocks, {"tool_result"}) = r
    BY <2>1, <2>2, <2>5, <2>6
  <2>9. QED
    BY <2>1, <2>4, <2>7, <2>8 DEF ResultsIn, calls
<1>11. QED
  BY <1>6, <1>7, <1>9, <1>10

-----------------------------------------------------------------------------
(* What a conversation looks like. *)

\* Client and model take turns, the client first.
UserTurn(h, i) ==
    /\ h[i].role = "user"
    /\ OfTypes(h[i].blocks, {"thinking"}) = <<>>
    /\ Answering(ResultsIn(h[i].blocks), IF i = 1 THEN <<>> ELSE CallsIn(h[i - 1].blocks))

ModelTurn(h, r, i) ==
    /\ h[i].role = "assistant"
    /\ Tells(h[i].blocks, r[i \div 2])

Turns(h, r) ==
    /\ h \in Seq(Message)
    /\ r \in Seq(Reply)
    /\ Len(r) = Len(h) \div 2
    /\ \A i \in 1..Len(h) : i % 2 = 1 => UserTurn(h, i)
    /\ \A i \in 1..Len(h) : i % 2 = 0 => ModelTurn(h, r, i)

LEMMA Parity ==
    /\ \A n \in Nat :
         /\ n % 2 = 0 \/ n % 2 = 1
         /\ n \div 2 \in Nat
         /\ n % 2 = 0 => (n + 1) % 2 = 1 /\ (n + 1) \div 2 = n \div 2
         /\ n % 2 = 1 => (n + 1) % 2 = 0 /\ (n + 1) \div 2 = (n \div 2) + 1
    /\ \A n \in Nat : \A i \in 1..n : i % 2 = 0 => i \div 2 \in 1..(n \div 2)
    /\ \A i, j \in Nat : i % 2 = 0 /\ j % 2 = 0 /\ i \div 2 = j \div 2 => i = j
<1>1. \A n \in Nat : n % 2 = 0 \/ n % 2 = 1
  OBVIOUS
<1>2. \A n \in Nat : n \div 2 \in Nat
  OBVIOUS
<1>3. \A n \in Nat : n % 2 = 0 => (n + 1) % 2 = 1 /\ (n + 1) \div 2 = n \div 2
  OBVIOUS
<1>4. \A n \in Nat : n % 2 = 1 => (n + 1) % 2 = 0 /\ (n + 1) \div 2 = (n \div 2) + 1
  OBVIOUS
<1>5. \A n \in Nat : \A i \in 1..n : i % 2 = 0 => i \div 2 \in 1..(n \div 2)
  OBVIOUS
<1>6. \A i, j \in Nat : i % 2 = 0 /\ j % 2 = 0 /\ i \div 2 = j \div 2 => i = j
  OBVIOUS
<1>7. QED
  BY <1>1, <1>2, <1>3, <1>4, <1>5, <1>6

LEMMA NoTurns == Turns(<<>>, <<>>)
<1>1. /\ <<>> \in Seq(Message) /\ <<>> \in Seq(Reply)
      /\ Len(<<>>) = 0 /\ 0 \div 2 = 0 /\ 1..0 = {}
  BY EmptySeq
<1>2. QED
  BY <1>1 DEF Turns

\* The client adds a turn.
LEMMA ClientTurn ==
    ASSUME NEW h, NEW r, Turns(h, r), Len(h) % 2 = 0,
           NEW blocks \in Seq(Blocks), OfTypes(blocks, {"thinking"}) = <<>>,
           Answering(ResultsIn(blocks), CallsLeft(h))
    PROVE  Turns(Append(h, [role |-> "user", blocks |-> blocks]), r)
<1> DEFINE m == [role |-> "user", blocks |-> blocks]
           k == Append(h, m)
           n == Len(h)
<1>1. m \in Message /\ m.role = "user" /\ m.blocks = blocks
  BY DEF Message
<1>2. h \in Seq(Message) /\ r \in Seq(Reply) /\ n \in Nat /\ Len(r) = n \div 2
  BY LenProperties DEF Turns
<1> HIDE DEF m
<1>3. k \in Seq(Message) /\ Len(k) = n + 1 /\ k[n + 1] = m /\ \A i \in 1..n : k[i] = h[i]
  BY <1>1, <1>2, AppendProperties
<1> HIDE DEF k
<1>4. (n + 1) % 2 = 1 /\ (n + 1) \div 2 = n \div 2
  BY <1>2, Parity
<1>5. ASSUME NEW i \in 1..Len(k), i % 2 = 1 PROVE UserTurn(k, i)
  <2>1. CASE i = n + 1
    <3>1. CallsLeft(h) = IF i = 1 THEN <<>> ELSE CallsIn(k[i - 1].blocks)
      <4>1. CASE i = 1
        <5>1. h = <<>>
          BY <1>2, <2>1, <4>1, EmptySeq
        <5>2. QED
          BY <4>1, <5>1 DEF CallsLeft
      <4>2. CASE i # 1
        <5>1. i - 1 = n /\ n \in 1..n /\ h # <<>>
          BY <1>2, <2>1, <4>2, EmptySeq
        <5>2. k[i - 1] = h[Len(h)]
          BY <1>3, <5>1
        <5>3. QED
          BY <4>2, <5>1, <5>2 DEF CallsLeft
      <4>3. QED
        BY <4>1, <4>2
    <3>2. QED
      BY <1>1, <1>3, <2>1, <3>1 DEF UserTurn
  <2>2. CASE i # n + 1
    <3>1. i \in 1..n /\ (i # 1 => i - 1 \in 1..n)
      BY <1>2, <1>3, <2>2
    <3>2. k[i] = h[i] /\ (i # 1 => k[i - 1] = h[i - 1]) /\ UserTurn(h, i)
      BY <1>3, <1>5, <3>1 DEF Turns
    <3>3. QED
      BY <3>2 DEF UserTurn
  <2>3. QED
    BY <2>1, <2>2
<1>6. ASSUME NEW i \in 1..Len(k), i % 2 = 0 PROVE ModelTurn(k, r, i)
  <2>1. i # n + 1
    BY <1>4, <1>6
  <2>2. i \in 1..n
    <3>1. i \in 1..(n + 1)
      BY <1>3
    <3>2. QED
      BY <1>2, <2>1, <3>1, SMTT(30)
  <2>3. k[i] = h[i] /\ ModelTurn(h, r, i)
    BY <1>3, <1>6, <2>2 DEF Turns
  <2>4. QED
    BY <2>3 DEF ModelTurn
<1>7. Len(r) = Len(k) \div 2
  BY <1>2, <1>3, <1>4
<1>8. Turns(k, r)
  BY <1>2, <1>3, <1>5, <1>6, <1>7 DEF Turns
<1>9. QED
  BY <1>8 DEF k, m

\* A model adds a turn.
LEMMA AnswerTurn ==
    ASSUME NEW h, NEW r, Turns(h, r), Len(h) % 2 = 1,
           NEW blocks \in Seq(Blocks), NEW reply \in Reply, Tells(blocks, reply)
    PROVE  Turns(Append(h, [role |-> "assistant", blocks |-> blocks]), Append(r, reply))
<1> DEFINE m == [role |-> "assistant", blocks |-> blocks]
           k == Append(h, m)
           s == Append(r, reply)
           n == Len(h)
<1>1. m \in Message /\ m.role = "assistant" /\ m.blocks = blocks
  BY DEF Message
<1>2. h \in Seq(Message) /\ r \in Seq(Reply) /\ n \in Nat /\ Len(r) = n \div 2 /\ Len(r) \in Nat
  BY LenProperties DEF Turns
<1> HIDE DEF m
<1>3. k \in Seq(Message) /\ Len(k) = n + 1 /\ k[n + 1] = m /\ \A i \in 1..n : k[i] = h[i]
  BY <1>1, <1>2, AppendProperties
<1>4. s \in Seq(Reply) /\ Len(s) = Len(r) + 1 /\ s[Len(r) + 1] = reply
      /\ \A i \in 1..Len(r) : s[i] = r[i]
  BY <1>2, AppendProperties
<1> HIDE DEF k, s
<1>5. (n + 1) % 2 = 0 /\ (n + 1) \div 2 = (n \div 2) + 1
  BY <1>2, Parity
<1>6. ASSUME NEW i \in 1..Len(k), i % 2 = 1 PROVE UserTurn(k, i)
  <2>1. i # n + 1
    BY <1>5, <1>6
  <2>2. i \in 1..n /\ (i # 1 => i - 1 \in 1..n)
    <3>1. i \in 1..(n + 1)
      BY <1>3
    <3>2. QED
      BY <1>2, <2>1, <3>1
  <2>3. k[i] = h[i] /\ (i # 1 => k[i - 1] = h[i - 1]) /\ UserTurn(h, i)
    BY <1>3, <1>6, <2>2 DEF Turns
  <2>4. QED
    BY <2>3 DEF UserTurn
<1>7. ASSUME NEW i \in 1..Len(k), i % 2 = 0 PROVE ModelTurn(k, s, i)
  <2>1. CASE i = n + 1
    <3>1. k[i] = m /\ s[i \div 2] = reply
      BY <1>2, <1>3, <1>4, <1>5, <2>1
    <3>2. QED
      BY <1>1, <3>1 DEF ModelTurn
  <2>2. CASE i # n + 1
    <3>1. i \in 1..n
      <4>1. i \in 1..(n + 1) /\ i # n + 1
        BY <1>3, <2>2
      <4>2. QED
        BY <1>2, <4>1, SMTT(30)
    <3>2. k[i] = h[i] /\ ModelTurn(h, r, i)
      BY <1>3, <1>7, <3>1 DEF Turns
    <3>3. s[i \div 2] = r[i \div 2]
      BY <1>2, <1>4, <1>7, <3>1, Parity
    <3>4. QED
      BY <3>2, <3>3 DEF ModelTurn
  <2>3. QED
    BY <2>1, <2>2
<1>8. Len(s) = Len(k) \div 2
  BY <1>2, <1>3, <1>4, <1>5
<1>9. Turns(k, s)
  BY <1>3, <1>4, <1>6, <1>7, <1>8 DEF Turns
<1>10. QED
  BY <1>9 DEF k, m, s

\* The client drops some thinking of a turn of a model.
LEMMA ForgottenTurn ==
    ASSUME NEW h, NEW r, Turns(h, r), NEW j \in 1..Len(h), j % 2 = 0,
           NEW blocks \in Seq(Blocks),
           Tells(blocks, [r[j \div 2] EXCEPT !.reasoning = "none"])
    PROVE  Turns([h EXCEPT ![j].blocks = blocks], [r EXCEPT ![j \div 2].reasoning = "none"])
<1> DEFINE m == [h[j] EXCEPT !.blocks = blocks]
           reply == [r[j \div 2] EXCEPT !.reasoning = "none"]
           k == [h EXCEPT ![j] = m]
           s == [r EXCEPT ![j \div 2] = reply]
           n == Len(h)
<1>1. h \in Seq(Message) /\ r \in Seq(Reply) /\ n \in Nat /\ Len(r) = n \div 2 /\ Len(r) \in Nat
  BY LenProperties DEF Turns
<1>2. j \div 2 \in 1..Len(r)
  BY <1>1, Parity
<1>3. h[j] \in Message /\ r[j \div 2] \in Reply
  BY <1>1, <1>2, ElementOfSeq
<1>4. m \in Message /\ m.role = h[j].role /\ m.blocks = blocks
  BY <1>3 DEF Message
<1>5. reply \in Reply /\ reply.calls = r[j \div 2].calls
  BY <1>3 DEF Reply
<1>6. Tells(blocks, reply)
  OBVIOUS
<1> HIDE DEF m, reply
<1>7. k \in Seq(Message) /\ Len(k) = n /\ \A i \in 1..n : k[i] = IF i = j THEN m ELSE h[i]
  BY <1>1, <1>4, ExceptSeq
<1>8. /\ s \in Seq(Reply) /\ Len(s) = Len(r)
      /\ \A i \in 1..Len(r) : s[i] = IF i = j \div 2 THEN reply ELSE r[i]
  BY <1>1, <1>2, <1>5, ExceptSeq
<1> HIDE DEF k, s
<1>9. ModelTurn(h, r, j)
  BY DEF Turns
<1>10. CallsIn(blocks) = CallsIn(h[j].blocks)
  BY <1>5, <1>6, <1>9 DEF Tells, ModelTurn, CallsIn
<1>11. ASSUME NEW i \in 1..Len(k), i % 2 = 1 PROVE UserTurn(k, i)
  <2>1. i \in 1..n /\ i # j /\ UserTurn(h, i) /\ k[i] = h[i]
    BY <1>7, <1>11 DEF Turns
  <2>2. i # 1 => CallsIn(k[i - 1].blocks) = CallsIn(h[i - 1].blocks)
    <3> SUFFICES ASSUME i # 1 PROVE CallsIn(k[i - 1].blocks) = CallsIn(h[i - 1].blocks)
      OBVIOUS
    <3>1. i - 1 \in 1..n
      BY <1>1, <2>1
    <3>2. k[i - 1] = IF i - 1 = j THEN m ELSE h[i - 1]
      BY <1>7, <3>1
    <3>3. QED
      BY <1>4, <1>10, <3>2
  <2>3. QED
    BY <2>1, <2>2 DEF UserTurn
<1>12. ASSUME NEW i \in 1..Len(k), i % 2 = 0 PROVE ModelTurn(k, s, i)
  <2>1. i \in 1..n /\ ModelTurn(h, r, i) /\ i \div 2 \in 1..Len(r)
    BY <1>1, <1>7, <1>12, Parity DEF Turns
  <2>2. CASE i = j
    <3>1. k[i] = m /\ s[i \div 2] = reply
      BY <1>2, <1>7, <1>8, <2>2
    <3>2. QED
      BY <1>4, <1>6, <2>1, <2>2, <3>1 DEF ModelTurn
  <2>3. CASE i # j
    <3>1. i \div 2 # j \div 2
      BY <1>1, <1>12, <2>3, <2>1, Parity
    <3>2. k[i] = h[i] /\ s[i \div 2] = r[i \div 2]
      BY <1>7, <1>8, <2>1, <2>3, <3>1
    <3>3. QED
      BY <2>1, <3>2 DEF ModelTurn
  <2>4. QED
    BY <2>2, <2>3
<1>13. Turns(k, s)
  BY <1>1, <1>7, <1>8, <1>11, <1>12 DEF Turns
<1>14. QED
  BY <1>13 DEF k, s, m, reply

-----------------------------------------------------------------------------
(* The routes. *)

LEMMA NamedModels ==
    /\ NoModel \in ModelConfig
    /\ \A id \in KnownOpenCodeGoModels : Named(id) \in ModelConfig
<1>1. NoModel \in ModelConfig
  BY DEF NoModel, ModelConfig, Modes
<1>2. ASSUME NEW id \in KnownOpenCodeGoModels PROVE Named(id) \in ModelConfig
  BY RouterAssumption DEF Named, NoModel, ModelConfig, Modes
<1>3. QED
  BY <1>1, <1>2

LEMMA ChainType ==
    ASSUME NEW primary \in ModelConfig, NEW fallbacks \in Seq(ModelConfig)
    PROVE  Chain(primary, fallbacks) \in Seq(ModelConfig)
<1>1. <<primary>> \in Seq(ModelConfig)
  OBVIOUS
<1>2. QED
  BY <1>1, ConcatProperties DEF Chain

LEMMA FallbacksType ==
    ASSUME NEW c \in Configs, NEW s, NEW other
    PROVE  FallbacksOf(c, s, other) \in Seq(ModelConfig)
<1> DEFINE list(x) == IF x \in DOMAIN c.fallbacks THEN c.fallbacks[x] ELSE <<>>
<1>1. \A x : list(x) \in Seq(ModelConfig)
  BY ConfigsAssumption, EmptySeq
<1>2. FallbacksOf(c, s, other) = IF list(s) # <<>> THEN list(s) ELSE list(other)
  BY DEF FallbacksOf
<1> HIDE DEF list
<1>3. QED
  BY <1>1, <1>2

\* A route is a chain of models as configured, or of one the client named.
IsRoute(route) ==
    /\ route.scenario \in Scenarios \cup {"passthrough"}
    /\ route.chain \in Seq(ModelConfig)

LEMMA RouteType ==
    ASSUME NEW c \in Configs, NEW msgs, NEW tokens
    PROVE  IsRoute(Route(msgs, tokens, c))
<1> DEFINE s == DetectScenario(msgs, tokens, c)
           falls == FallbacksOf(c, s, "default")
           route == Route(msgs, tokens, c)
<1>1. s \in Scenarios
  BY DEF DetectScenario, Scenarios
<1>2. falls \in Seq(ModelConfig)
  BY FallbacksType
<1>3. route.scenario = s
  BY DEF Route
<1>4. \/ s \in DOMAIN c.models /\ route.chain = Chain(c.models[s], falls)
      \/ "default" \in DOMAIN c.models /\ route.chain = Chain(c.models["default"], falls)
      \/ route.chain = <<>>
  <2> HIDE DEF s
  <2>1. CASE s \in DOMAIN c.models
    BY <2>1 DEF Route, s
  <2>2. CASE s \notin DOMAIN c.models /\ "default" \in DOMAIN c.models
    BY <2>2 DEF Route, s
  <2>3. CASE s \notin DOMAIN c.models /\ "default" \notin DOMAIN c.models
    BY <2>3 DEF Route, s
  <2>4. QED
    BY <2>1, <2>2, <2>3
<1> HIDE DEF s, falls, route
<1>5. \A x \in DOMAIN c.models : Chain(c.models[x], falls) \in Seq(ModelConfig)
  BY <1>2, ConfigsAssumption, ChainType
<1>6. route.chain \in Seq(ModelConfig)
  BY <1>4, <1>5, EmptySeq
<1>7. QED
  BY <1>1, <1>3, <1>6 DEF IsRoute, route

LEMMA StreamingRouteType ==
    ASSUME NEW c \in Configs, NEW tokens
    PROVE  IsRoute(RouteForStreaming(tokens, c))
<1> DEFINE s == StreamingScenario(tokens, c)
           falls == FallbacksOf(c, s, "fast")
           route == RouteForStreaming(tokens, c)
<1>1. s \in Scenarios
  BY DEF StreamingScenario, Scenarios
<1>2. falls \in Seq(ModelConfig)
  BY FallbacksType
<1>3. route.scenario = s
  BY DEF RouteForStreaming
<1>4. \/ \E x \in DOMAIN c.models : route.chain = Chain(c.models[x], falls)
      \/ route.chain = Chain(NoModel, falls)
  <2> HIDE DEF s
  <2>1. CASE s \in DOMAIN c.models
    <3>1. route.chain = Chain(c.models[s], falls)
      BY <2>1 DEF RouteForStreaming, s
    <3>2. QED
      BY <2>1, <3>1
  <2>2. CASE s \notin DOMAIN c.models /\ "fast" \in DOMAIN c.models
    <3>1. route.chain = Chain(c.models["fast"], falls)
      BY <2>2 DEF RouteForStreaming, s
    <3>2. QED
      BY <2>2, <3>1
  <2>3. CASE s \notin DOMAIN c.models /\ "fast" \notin DOMAIN c.models
    <3>1. route.chain = Chain(IF "default" \in DOMAIN c.models THEN c.models["default"] ELSE NoModel, falls)
      BY <2>3 DEF RouteForStreaming, s
    <3>2. QED
      BY <3>1
  <2>4. QED
    BY <2>1, <2>2, <2>3
<1> HIDE DEF s, falls, route
<1>5. /\ \A x \in DOMAIN c.models : Chain(c.models[x], falls) \in Seq(ModelConfig)
      /\ Chain(NoModel, falls) \in Seq(ModelConfig)
  BY <1>2, ConfigsAssumption, NamedModels, ChainType
<1>6. route.chain \in Seq(ModelConfig)
  BY <1>4, <1>5
<1>7. QED
  BY <1>1, <1>3, <1>6 DEF IsRoute, route

LEMMA RoutedType ==
    ASSUME cfg \in Configs, NEW h
    PROVE  IsRoute(Routed(h))
<1>1. \A model \in KnownOpenCodeGoModels : IsRoute(Passthrough(model, cfg))
  <2> SUFFICES ASSUME NEW model \in KnownOpenCodeGoModels PROVE IsRoute(Passthrough(model, cfg))
    OBVIOUS
  <2>1. Chain(Named(model), FallbacksOf(cfg, "default", "default")) \in Seq(ModelConfig)
    BY NamedModels, FallbacksType, ChainType
  <2>2. QED
    BY <2>1 DEF IsRoute, Passthrough
<1>2. QED
  BY <1>1, RouteType, StreamingRouteType DEF Routed, RouteWithModel, RouteWithModelForStreaming

-----------------------------------------------------------------------------
(* Every step keeps the conversation in order. *)

\* While models are tried, it is the client's turn that waits for an answer, and
\* a translated request is that of the conversation for the first of them.
IInv ==
    /\ cfg \in Configs
    /\ client \in [streaming : BOOLEAN, model : ClientModels]
    /\ Turns(history, replies)
    /\ Len(history) <= MaxTurns
    /\ stage \in {"client", "trying"}
    /\ scenario \in Scenarios \cup {"passthrough", "none"}
    /\ chain \in Seq(ModelConfig)
    /\ stage = "trying" <=> chain # <<>>
    /\ stage = "trying" => Len(history) % 2 = 1
    /\ sent # Nothing => stage = "trying"
    /\ sent # Nothing /\ sent.format = "openai" =>
         sent = TransformRequest(history, System, chain[1])

LEMMA InitIInv == Init => IInv
<1> SUFFICES ASSUME Init PROVE IInv
  OBVIOUS
<1>1. /\ history = <<>> /\ replies = <<>> /\ chain = <<>> /\ stage = "client"
      /\ sent = Nothing /\ scenario = "none"
  BY DEF Init
<1>2. Turns(history, replies)
  BY <1>1, NoTurns
<1>3. Len(history) <= MaxTurns
  BY <1>1, ConversationAssumption
<1>4. QED
  BY <1>1, <1>2, <1>3, EmptySeq DEF Init, IInv

\* Whose turn the last message is.
LEMMA WaitingFacts ==
    ASSUME IInv
    PROVE  /\ Len(history) \in Nat
           /\ Waiting <=> Len(history) % 2 = 1
           /\ ~Waiting <=> Len(history) % 2 = 0
<1>1. history \in Seq(Message) /\ Len(history) \in Nat /\ Turns(history, replies)
  BY LenProperties DEF IInv, Turns
<1>2. CASE Len(history) % 2 = 1
  <2>1. Len(history) # 0
    BY <1>2
  <2>2. Len(history) \in 1..Len(history) /\ history # <<>>
    BY <1>1, <2>1
  <2>3. history[Len(history)].role = "user"
    BY <1>1, <1>2, <2>2 DEF Turns, UserTurn
  <2>4. QED
    BY <1>1, <1>2, <2>2, <2>3 DEF Waiting
<1>3. CASE Len(history) % 2 = 0
  <2>1. CASE history = <<>>
    BY <1>1, <1>3, <2>1 DEF Waiting
  <2>2. CASE history # <<>>
    <3>1. Len(history) \in 1..Len(history)
      BY <1>1, <2>2, EmptySeq
    <3>2. history[Len(history)].role = "assistant"
      BY <1>1, <1>3, <3>1 DEF Turns, ModelTurn
    <3>3. QED
      BY <1>1, <1>3, <3>2 DEF Waiting
  <2>3. QED
    BY <2>1, <2>2
<1>4. QED
  BY <1>1, <1>2, <1>3, Parity

LEMMA RequestKeeps ==
    ASSUME IInv, NEW h, Turns(h, replies), Len(h) <= MaxTurns, Len(h) % 2 = 1, Request(h)
    PROVE  IInv'
<1>1. IsRoute(Routed(h))
  BY RoutedType DEF IInv
<1>2. /\ stage = "client" /\ history' = h /\ scenario' = Routed(h).scenario
      /\ chain' = Routed(h).chain
      /\ stage' = IF Routed(h).chain = <<>> THEN "client" ELSE "trying"
      /\ cfg' = cfg /\ client' = client /\ sent' = sent /\ replies' = replies
  BY DEF Request
<1>3. sent' = Nothing
  BY <1>2 DEF IInv
<1>4. Turns(history', replies') /\ Len(history') <= MaxTurns /\ Len(history') % 2 = 1
  BY <1>2
<1>5. scenario' \in Scenarios \cup {"passthrough", "none"} /\ chain' \in Seq(ModelConfig)
  BY <1>1, <1>2 DEF IsRoute
<1>6. stage' \in {"client", "trying"} /\ (stage' = "trying" <=> chain' # <<>>)
  BY <1>2
<1>7. QED
  BY <1>2, <1>3, <1>4, <1>5, <1>6 DEF IInv

LEMMA ClientAsksKeeps == ASSUME IInv, ClientAsks PROVE IInv'
<1>1. ~Waiting /\ Len(history) < MaxTurns
  BY DEF ClientAsks
<1>2. PICK blocks \in UserTurns : Request(Append(history, [role |-> "user", blocks |-> blocks]))
  BY DEF ClientAsks
<1> DEFINE m == [role |-> "user", blocks |-> blocks]
           h == Append(history, m)
<1>3. Turns(history, replies) /\ history \in Seq(Message) /\ Len(history) % 2 = 0 /\ Len(history) \in Nat
  BY <1>1, WaitingFacts DEF IInv, Turns
<1>4. /\ blocks \in Seq(Blocks) /\ OfTypes(blocks, {"thinking"}) = <<>>
      /\ Answering(ResultsIn(blocks), CallsLeft(history))
  BY <1>3, UserTurnFacts
<1>5. Turns(h, replies)
  BY <1>3, <1>4, ClientTurn
<1>6. Request(h)
  BY <1>2
<1>7. Len(h) = Len(history) + 1
  <2>1. m \in Message
    BY <1>4 DEF Message
  <2> HIDE DEF m
  <2>2. QED
    BY <1>3, <2>1, AppendProperties
<1> HIDE DEF h
<1>8. Len(h) <= MaxTurns
  BY <1>1, <1>3, <1>7, ConversationAssumption
<1>9. Len(h) % 2 = 1
  BY <1>3, <1>7, Parity
<1>10. QED
  BY <1>5, <1>6, <1>8, <1>9, RequestKeeps

LEMMA ClientRetriesKeeps == ASSUME IInv, ClientRetries PROVE IInv'
<1>1. Waiting /\ Request(history)
  BY DEF ClientRetries
<1>2. Turns(history, replies) /\ Len(history) <= MaxTurns /\ Len(history) % 2 = 1
  BY <1>1, WaitingFacts DEF IInv
<1>3. QED
  BY <1>1, <1>2, RequestKeeps

\* What the client may do to a turn of a model.
LEMMA ForgetFacts ==
    ASSUME IInv, NEW i \in DOMAIN history, ClientForgets(i)
    PROVE  \E blocks \in Seq(Blocks) :
             /\ Tells(blocks, [replies[i \div 2] EXCEPT !.reasoning = "none"])
             /\ OfTypes(blocks, RouterTypes) = OfTypes(history[i].blocks, RouterTypes)
             /\ history' = [history EXCEPT ![i].blocks = blocks]
             /\ replies' = [replies EXCEPT ![i \div 2].reasoning = "none"]
             /\ i \in 1..Len(history) /\ i % 2 = 0
<1>1. /\ Turns(history, replies) /\ history \in Seq(Message) /\ replies \in Seq(Reply)
      /\ Len(history) \in Nat /\ DOMAIN history = 1..Len(history)
  BY LenProperties DEF IInv, Turns
<1>2. OfTypes(history[i].blocks, {"thinking"}) # <<>>
  BY DEF ClientForgets
<1>3. i % 2 = 0
  <2>1. i % 2 = 1 => OfTypes(history[i].blocks, {"thinking"}) = <<>>
    BY <1>1 DEF Turns, UserTurn
  <2>2. i \in Nat
    BY <1>1
  <2>3. QED
    BY <1>2, <2>1, <2>2, Parity
<1> DEFINE b == history[i].blocks
           reply == replies[i \div 2]
<1>4. Tells(b, reply)
  BY <1>1, <1>3 DEF Turns, ModelTurn
<1>5. b \in Seq(Blocks)
  <2>1. history[i] \in Message
    BY <1>1, ElementOfSeq
  <2>2. QED
    BY <2>1 DEF Message
<1>6. reply \in Reply
  <2>1. i \div 2 \in 1..Len(replies)
    BY <1>1, <1>3, Parity DEF Turns
  <2>2. QED
    BY <1>1, <2>1, ElementOfSeq
<1> DEFINE bare == OfTypes(b, RouterTypes)
           wordless == [j \in DOMAIN b |-> Wordless[b[j]]]
<1>7. \/ history' = [history EXCEPT ![i].blocks = bare]
      \/ history' = [history EXCEPT ![i].blocks = wordless]
  <2>1. \/ history' = [history EXCEPT ![i].blocks = OfTypes(b, RouterTypes)]
        \/ history' = [history EXCEPT ![i].blocks =
                         [j \in DOMAIN b |-> IF b[j].type = "thinking"
                                               THEN [b[j] EXCEPT !.words = {}] ELSE b[j]]]
    BY DEF ClientForgets
  <2>2. wordless = [j \in DOMAIN b |-> IF b[j].type = "thinking"
                                         THEN [b[j] EXCEPT !.words = {}] ELSE b[j]]
    <3> HIDE DEF b
    <3>1. \A j \in DOMAIN b : b[j] \in Blocks
      BY <1>5, ElementOfSeq, LenProperties
    <3>2. \A j \in DOMAIN b :
            Wordless[b[j]] = IF b[j].type = "thinking" THEN [b[j] EXCEPT !.words = {}] ELSE b[j]
      BY <3>1, WordlessFacts
    <3>3. QED
      BY <3>2
  <2>3. QED
    BY <2>1, <2>2
<1>8. replies' = [replies EXCEPT ![i \div 2].reasoning = "none"]
  BY DEF ClientForgets
<1>9. /\ bare \in Seq(Blocks) /\ Tells(bare, [reply EXCEPT !.reasoning = "none"])
      /\ wordless \in Seq(Blocks) /\ Tells(wordless, [reply EXCEPT !.reasoning = "none"])
  <2> HIDE DEF b, reply
  <2>1. QED
    BY <1>4, <1>5, <1>6, ThinkingDropped, WordsDropped
<1>10. OfTypes(bare, RouterTypes) = OfTypes(b, RouterTypes)
  <2>1. RouterTypes \cap RouterTypes = RouterTypes
    OBVIOUS
  <2>2. QED
    BY <1>5, <2>1, OfTypesTwice
<1>11. OfTypes(wordless, RouterTypes) = OfTypes(b, RouterTypes)
  <2> DEFINE kept == OfTypes(b, RouterTypes)
  <2> HIDE DEF b
  <2>1. Takes(Wordless, Blocks, Blocks) /\ \A x \in Blocks : Wordless[x].type = x.type
    BY WordlessFacts
  <2>2. OfTypes(wordless, RouterTypes) = [j \in DOMAIN kept |-> Wordless[kept[j]]]
    BY <1>5, <2>1, OfTypesReworded
  <2>3. kept \in Seq(Blocks) /\ \A j \in DOMAIN kept : kept[j].type \in RouterTypes
    BY <1>5, OfTypesType, OfTypesElements
  <2> HIDE DEF kept
  <2>4. \A j \in DOMAIN kept : kept[j] \in Blocks /\ kept[j].type # "thinking"
    BY <2>3, ElementOfSeq, LenProperties DEF RouterTypes
  <2>5. \A j \in DOMAIN kept : Wordless[kept[j]] = kept[j]
    BY <2>4, WordlessFacts
  <2>6. [j \in DOMAIN kept |-> kept[j]] = kept
    BY <2>3, LenProperties
  <2>7. OfTypes(wordless, RouterTypes) = kept
    BY <2>2, <2>5, <2>6
  <2>8. QED
    BY <2>7 DEF kept
<1> HIDE DEF bare, wordless
<1>12. QED
  BY <1>1, <1>3, <1>7, <1>8, <1>9, <1>10, <1>11

LEMMA ClientForgetsKeeps ==
    ASSUME IInv, NEW i \in DOMAIN history, ClientForgets(i)
    PROVE  IInv'
<1>1. PICK blocks \in Seq(Blocks) :
        /\ Tells(blocks, [replies[i \div 2] EXCEPT !.reasoning = "none"])
        /\ history' = [history EXCEPT ![i].blocks = blocks]
        /\ replies' = [replies EXCEPT ![i \div 2].reasoning = "none"]
        /\ i \in 1..Len(history) /\ i % 2 = 0
  BY ForgetFacts
<1>2. /\ stage = "client" /\ stage' = stage /\ cfg' = cfg /\ client' = client
      /\ scenario' = scenario /\ chain' = chain /\ sent' = sent
  BY DEF ClientForgets
<1>3. Turns(history, replies)
  BY DEF IInv
<1>4. Turns(history', replies')
  BY <1>1, <1>3, ForgottenTurn
<1>5. Len(history') = Len(history)
  BY <1>1, <1>3, ExceptSeq DEF Turns
<1>6. sent' = Nothing
  BY <1>2 DEF IInv
<1>7. QED
  BY <1>2, <1>4, <1>5, <1>6 DEF IInv

LEMMA ClientCompactsKeeps == ASSUME IInv, ClientCompacts PROVE IInv'
<1>1. /\ stage = "client" /\ history' = <<>> /\ scenario' = "none" /\ replies' = <<>>
      /\ cfg' = cfg /\ client' = client /\ stage' = stage /\ chain' = chain /\ sent' = sent
  BY DEF ClientCompacts
<1>2. Turns(history', replies') /\ Len(history') <= MaxTurns
  BY <1>1, NoTurns, ConversationAssumption
<1>3. QED
  BY <1>1, <1>2 DEF IInv

LEMMA SendsKeeps == ASSUME IInv, Sends PROVE IInv'
<1>1. /\ stage = "trying" /\ cfg' = cfg /\ client' = client /\ history' = history
      /\ stage' = stage /\ scenario' = scenario /\ chain' = chain /\ replies' = replies
      /\ \/ sent' = RawBody(chain[1])
         \/ sent' = TransformRequest(history, System, chain[1])
  BY DEF Sends
<1>2. RawBody(chain[1]).format # "openai"
  BY DEF RawBody
<1>3. sent'.format = "openai" => sent' = TransformRequest(history', System, chain'[1])
  BY <1>1, <1>2
<1>4. QED
  BY <1>1, <1>3 DEF IInv

LEMMA ModelFailsKeeps == ASSUME IInv, ModelFails PROVE IInv'
<1>1. /\ stage = "trying" /\ cfg' = cfg /\ client' = client /\ history' = history
      /\ scenario' = scenario /\ replies' = replies /\ chain' = Tail(chain) /\ sent' = Nothing
      /\ stage' = IF Len(chain) = 1 THEN "client" ELSE "trying"
  BY DEF ModelFails
<1>2. chain \in Seq(ModelConfig) /\ chain # <<>>
  BY <1>1 DEF IInv
<1>3. chain' \in Seq(ModelConfig) /\ (chain' = <<>> <=> Len(chain) = 1)
  <2>1. Len(chain) \in Nat \ {0} /\ Tail(chain) \in Seq(ModelConfig) /\ Len(Tail(chain)) = Len(chain) - 1
    BY <1>2, EmptySeq, HeadTailProperties
  <2>2. Tail(chain) = <<>> <=> Len(Tail(chain)) = 0
    BY <2>1, EmptySeq
  <2>3. QED
    BY <1>1, <2>1, <2>2
<1>4. QED
  BY <1>1, <1>3 DEF IInv

LEMMA AnswersType ==
    ASSUME history \in Seq(Message), NEW reply \in Answers
    PROVE  reply \in Reply
<1>1. Len(history) + 1 \in Nat \ {0}
  BY LenProperties
<1>2. ASSUME NEW names \in Seq(STRING) PROVE Identities(names) \in Seq(OfTurns)
  <2>1. DOMAIN names = 1..Len(names) /\ Len(names) \in Nat /\ \A i \in DOMAIN names : names[i] \in STRING
    BY ElementOfSeq, LenProperties
  <2>2. \A i \in DOMAIN names : <<Len(history) + 1, names[i]>> \in OfTurns
    BY <1>1, <2>1 DEF OfTurns
  <2>3. Identities(names) \in [1..Len(names) -> OfTurns]
    BY <2>1, <2>2 DEF Identities
  <2>4. QED
    BY <2>1, <2>3
<1>3. PICK kind \in AnswerKinds, reasoning \in {"real", "none"} :
        reply = ChatMessage("assistant", Identities(kind.texts), Identities(kind.calls), NoAnswer, reasoning)
  BY DEF Answers
<1>4. kind.texts \in Seq(STRING) /\ kind.calls \in Seq(STRING)
  BY ConversationAssumption
<1>5. Identities(kind.texts) \in Seq(OfTurns) /\ Identities(kind.calls) \in Seq(OfTurns)
  BY <1>2, <1>4
<1>6. QED
  BY <1>3, <1>5 DEF ChatMessage, Reply

LEMMA DeliveredType ==
    ASSUME NEW answer \in Reply, NEW reply \in Delivered(answer)
    PROVE  reply \in Reply
<1>1. /\ answer.content \in Seq(OfTurns) /\ answer.calls \in Seq(OfTurns)
      /\ answer.reasoning \in {"real", "none"}
  BY DEF Reply
<1>2. ASSUME NEW ids \in Seq(OfTurns), NEW kept PROVE Part(ids, kept) \in Seq(OfTurns)
  <2> DEFINE ss == [i \in DOMAIN ids |-> IF i \in kept THEN <<ids[i]>> ELSE <<>>]
  <2>1. DOMAIN ids = 1..Len(ids) /\ Len(ids) \in Nat /\ \A i \in DOMAIN ids : ids[i] \in OfTurns
    BY ElementOfSeq, LenProperties
  <2>2. \A i \in DOMAIN ids : ss[i] \in Seq(OfTurns)
    BY <2>1
  <2>3. ss \in [1..Len(ids) -> Seq(OfTurns)]
    BY <2>1, <2>2
  <2>4. ss \in Seq(Seq(OfTurns))
    BY <2>1, <2>3
  <2>5. Part(ids, kept) = FlattenSeq(ss)
    BY DEF Part
  <2> HIDE DEF ss
  <2>6. QED
    BY <2>4, <2>5, FlattenType
<1>3. CASE reply = answer
  BY <1>3
<1>4. CASE reply \in Streamed(answer)
  <2>1. PICK texts \in SUBSET DOMAIN answer.content, calls \in SUBSET DOMAIN answer.calls,
             reasoning \in {answer.reasoning, "none"} :
          reply = ChatMessage("assistant", Part(answer.content, texts),
                              Part(answer.calls, calls), NoAnswer, reasoning)
    BY <1>4, SMTT(60) DEF Streamed
  <2>2. Part(answer.content, texts) \in Seq(OfTurns) /\ Part(answer.calls, calls) \in Seq(OfTurns)
    BY <1>1, <1>2
  <2>3. reasoning \in {"real", "none"}
    BY <1>1
  <2>4. QED
    BY <2>1, <2>2, <2>3 DEF ChatMessage, Reply
<1>5. QED
  BY <1>3, <1>4 DEF Delivered

\* What a model's answer does.
LEMMA AnswerFacts ==
    ASSUME IInv, ModelAnswers
    PROVE  \E reply \in Reply : \E blocks \in Seq(Blocks) :
             /\ Tells(blocks, reply)
             /\ history' = Append(history, [role |-> "assistant", blocks |-> blocks])
             /\ replies' = Append(replies, reply)
<1>1. history \in Seq(Message)
  BY DEF IInv, Turns
<1>2. PICK answer \in Answers : \E reply \in Delivered(answer) :
        /\ history' = Append(history, [role |-> "assistant", blocks |-> Received(reply)])
        /\ replies' = Append(replies, reply)
  BY DEF ModelAnswers
<1>3. answer \in Reply
  BY <1>1, AnswersType
<1>4. PICK reply \in Delivered(answer) :
        /\ history' = Append(history, [role |-> "assistant", blocks |-> Received(reply)])
        /\ replies' = Append(replies, reply)
  BY <1>2
<1>5. reply \in Reply
  BY <1>3, DeliveredType
<1>6. Received(reply) \in Seq(Blocks) /\ Tells(Received(reply), reply)
  BY <1>5, ReceivedFacts
<1>7. QED
  BY <1>4, <1>5, <1>6

LEMMA ModelAnswersKeeps == ASSUME IInv, ModelAnswers PROVE IInv'
<1>1. /\ stage = "trying" /\ Len(history) < MaxTurns /\ stage' = "client" /\ chain' = <<>>
      /\ sent' = Nothing /\ cfg' = cfg /\ client' = client /\ scenario' = scenario
  BY DEF ModelAnswers
<1>2. PICK reply \in Reply, blocks \in Seq(Blocks) :
        /\ Tells(blocks, reply)
        /\ history' = Append(history, [role |-> "assistant", blocks |-> blocks])
        /\ replies' = Append(replies, reply)
  BY AnswerFacts
<1>3. Turns(history, replies) /\ Len(history) % 2 = 1 /\ history \in Seq(Message) /\ Len(history) \in Nat
  BY <1>1, LenProperties DEF IInv, Turns
<1>4. Turns(history', replies')
  BY <1>2, <1>3, AnswerTurn
<1>5. Len(history') = Len(history) + 1
  <2> DEFINE m == [role |-> "assistant", blocks |-> blocks]
  <2>1. m \in Message
    BY DEF Message
  <2>2. history' = Append(history, m)
    BY <1>2
  <2> HIDE DEF m
  <2>3. QED
    BY <1>3, <2>1, <2>2, AppendProperties
<1>6. Len(history') <= MaxTurns
  BY <1>1, <1>3, <1>5, ConversationAssumption
<1>7. QED
  BY <1>1, <1>4, <1>6, EmptySeq DEF IInv

LEMMA NextIInv == IInv /\ [Next]_vars => IInv'
<1> SUFFICES ASSUME IInv, [Next]_vars PROVE IInv'
  OBVIOUS
<1>1. CASE ClientAsks
  BY <1>1, ClientAsksKeeps
<1>2. CASE ClientRetries
  BY <1>2, ClientRetriesKeeps
<1>3. ASSUME NEW i \in DOMAIN history, ClientForgets(i) PROVE IInv'
  BY <1>3, ClientForgetsKeeps
<1>4. CASE ClientCompacts
  BY <1>4, ClientCompactsKeeps
<1>5. CASE Sends
  BY <1>5, SendsKeeps
<1>6. CASE ModelFails
  BY <1>6, ModelFailsKeeps
<1>7. CASE ModelAnswers
  BY <1>7, ModelAnswersKeeps
<1>8. CASE UNCHANGED vars
  BY <1>8 DEF vars, IInv
<1>9. QED
  BY <1>1, <1>2, <1>3, <1>4, <1>5, <1>6, <1>7, <1>8 DEF Next

LEMMA SpecIInv == Spec => []IInv
BY InitIInv, NextIInv, PTL DEF Spec

-----------------------------------------------------------------------------
(* What made a conversation long, complex or thoughtful is still in it. *)

LEMMA RankType == \A s : Rank(s) \in Nat
<1> SUFFICES ASSUME NEW s PROVE Rank(s) \in Nat
  OBVIOUS
<1>1. CASE s = "long_context"
  BY <1>1 DEF Rank
<1>2. CASE s = "complex"
  BY <1>2 DEF Rank
<1>3. CASE s = "think"
  BY <1>3 DEF Rank
<1>4. CASE s \notin {"long_context", "complex", "think"}
  BY <1>4 DEF Rank
<1>5. QED
  BY <1>1, <1>2, <1>3, <1>4

\* The conversation k is as long as h, as complex and as thoughtful.
AtLeast(k, h) ==
    /\ TokenCount(h) \in Nat /\ TokenCount(k) \in Nat
    /\ TokenCount(k) >= TokenCount(h)
    /\ HasComplexPattern(RouterMessages(h)) => HasComplexPattern(RouterMessages(k))
    /\ HasThinkingPattern(RouterMessages(h)) => HasThinkingPattern(RouterMessages(k))

LEMMA ThresholdType ==
    ASSUME NEW c \in Configs
    PROVE  LongContextThreshold(c) \in Nat
<1>1. CASE "long_context" \in DOMAIN c.models
  <2>1. c.models["long_context"] \in ModelConfig
    BY <1>1, ConfigsAssumption
  <2>2. c.models["long_context"].threshold \in Nat
    BY <2>1 DEF ModelConfig
  <2>3. QED
    BY <2>2, RouterAssumption DEF LongContextThreshold
<1>2. CASE "long_context" \notin DOMAIN c.models
  BY <1>2, RouterAssumption DEF LongContextThreshold
<1>3. QED
  BY <1>1, <1>2

LEMMA DetectRank ==
    ASSUME NEW msgs, NEW tokens, NEW c
    PROVE  Rank(DetectScenario(msgs, tokens, c))
             = IF tokens > LongContextThreshold(c) THEN 3
               ELSE IF HasComplexPattern(msgs) THEN 2
               ELSE IF HasThinkingPattern(msgs) THEN 1 ELSE 0
BY DEF DetectScenario, Rank

LEMMA RoutedGrows ==
    ASSUME cfg \in Configs, NEW h, NEW k, AtLeast(k, h)
    PROVE  Rank(Routed(k).scenario) >= Rank(Routed(h).scenario)
<1> DEFINE T == LongContextThreshold(cfg)
           known == client.model \in KnownOpenCodeGoModels
<1>1. /\ TokenCount(h) \in Nat /\ TokenCount(k) \in Nat /\ TokenCount(k) >= TokenCount(h)
      /\ T \in Nat
  BY ThresholdType DEF AtLeast
<1>2. TokenCount(h) > T => TokenCount(k) > T
  BY <1>1
<1>3. CASE known
  <2>1. Routed(h).scenario = "passthrough" /\ Routed(k).scenario = "passthrough"
    BY <1>3 DEF Routed, RouteWithModel, RouteWithModelForStreaming, Passthrough
  <2>2. QED
    BY <2>1, RankType
<1>4. CASE ~known /\ client.streaming /\ ~cfg.streamingScenarios
  <2>1. /\ Routed(h).scenario = StreamingScenario(TokenCount(h), cfg)
        /\ Routed(k).scenario = StreamingScenario(TokenCount(k), cfg)
    BY <1>4 DEF Routed, RouteWithModelForStreaming, RouteForStreaming
  <2>2. Rank("fast") = 0 /\ Rank("long_context") = 3
    BY DEF Rank
  <2>3. QED
    BY <1>2, <2>1, <2>2 DEF StreamingScenario
<1>5. CASE ~known /\ ~(client.streaming /\ ~cfg.streamingScenarios)
  <2>1. /\ Routed(h).scenario = DetectScenario(RouterMessages(h), TokenCount(h), cfg)
        /\ Routed(k).scenario = DetectScenario(RouterMessages(k), TokenCount(k), cfg)
    BY <1>5 DEF Routed, RouteWithModel, Route
  <2>2. /\ HasComplexPattern(RouterMessages(h)) => HasComplexPattern(RouterMessages(k))
        /\ HasThinkingPattern(RouterMessages(h)) => HasThinkingPattern(RouterMessages(k))
    BY DEF AtLeast
  <2> HIDE DEF T
  <2>3. QED
    BY <1>2, <2>1, <2>2, DetectRank DEF T
<1>6. QED
  BY <1>3, <1>4, <1>5

LEMMA Visible ==
    ASSUME NEW h \in Seq(Message)
    PROVE  /\ [i \in DOMAIN h |-> OfTypes(h[i].blocks, RouterTypes)] \in Seq(Seq(Blocks))
           /\ TokenCount(h) \in Nat
<1> DEFINE ss == [i \in DOMAIN h |-> OfTypes(h[i].blocks, RouterTypes)]
<1>1. DOMAIN h = 1..Len(h) /\ Len(h) \in Nat /\ \A i \in 1..Len(h) : h[i] \in Message
  BY ElementOfSeq, LenProperties
<1>2. \A i \in 1..Len(h) : OfTypes(h[i].blocks, RouterTypes) \in Seq(Blocks)
  BY <1>1, OfTypesType DEF Message
<1>3. ss \in [1..Len(h) -> Seq(Blocks)]
  BY <1>1, <1>2
<1>4. ss \in Seq(Seq(Blocks))
  BY <1>1, <1>3
<1>5. TokenCount(h) = Len(FlattenSeq(ss))
  BY DEF TokenCount
<1> HIDE DEF ss
<1>6. FlattenSeq(ss) \in Seq(Blocks)
  BY <1>4, FlattenType
<1>7. Len(FlattenSeq(ss)) \in Nat
  BY <1>6, LenProperties
<1>8. QED
  BY <1>4, <1>5, <1>7 DEF ss

LEMMA AppendAtLeast ==
    ASSUME NEW h \in Seq(Message), NEW m \in Message
    PROVE  AtLeast(Append(h, m), h)
<1> DEFINE k == Append(h, m)
           x == OfTypes(m.blocks, RouterTypes)
           hs == [i \in DOMAIN h |-> OfTypes(h[i].blocks, RouterTypes)]
           ks == [i \in DOMAIN k |-> OfTypes(k[i].blocks, RouterTypes)]
           n == Len(h)
<1>1. /\ k \in Seq(Message) /\ Len(k) = n + 1 /\ k[n + 1] = m /\ n \in Nat
      /\ \A i \in 1..n : k[i] = h[i]
  BY AppendProperties, LenProperties
<1> HIDE DEF k
<1>2. DOMAIN h = 1..n /\ DOMAIN k = 1..(n + 1)
  BY <1>1, LenProperties
<1>3. hs \in Seq(Seq(Blocks)) /\ ks \in Seq(Seq(Blocks)) /\ TokenCount(h) \in Nat /\ TokenCount(k) \in Nat
  BY <1>1, Visible
<1>4. x \in Seq(Blocks)
  BY OfTypesType DEF Message
<1>5. ks = Append(hs, x)
  <2>1. Len(hs) = n /\ Len(ks) = n + 1
    BY <1>1, <1>2
  <2>2. (\A i \in 1..n : ks[i] = hs[i]) /\ ks[n + 1] = x
    BY <1>1, <1>2
  <2> HIDE DEF hs, ks, x
  <2> DEFINE a == Append(hs, x)
  <2>3. /\ a \in Seq(Seq(Blocks)) /\ Len(a) = n + 1 /\ a[n + 1] = x
        /\ \A i \in 1..n : a[i] = hs[i]
    BY <1>3, <1>4, <2>1, AppendProperties
  <2> HIDE DEF a
  <2>4. ASSUME NEW i \in 1..(n + 1) PROVE ks[i] = a[i]
    <3>1. i \in 1..n \/ i = n + 1
      BY <1>1
    <3>2. QED
      BY <2>2, <2>3, <3>1
  <2>5. ks = a
    BY <1>3, <2>1, <2>3, <2>4, SeqEqual
  <2>6. QED
    BY <2>5 DEF a
<1>6. TokenCount(k) >= TokenCount(h)
  <2>1. TokenCount(k) = Len(FlattenSeq(ks)) /\ TokenCount(h) = Len(FlattenSeq(hs))
    BY DEF TokenCount
  <2> HIDE DEF hs, ks, x
  <2>2. FlattenSeq(ks) = FlattenSeq(hs) \o x /\ FlattenSeq(hs) \in Seq(Blocks)
    BY <1>3, <1>4, <1>5, FlattenAppend, FlattenType
  <2>3. Len(FlattenSeq(ks)) = Len(FlattenSeq(hs)) + Len(x) /\ Len(x) \in Nat /\ Len(FlattenSeq(hs)) \in Nat
    BY <1>4, <2>2, ConcatProperties, LenProperties
  <2>4. QED
    BY <2>1, <2>3
<1>7. \A i \in DOMAIN h : i \in DOMAIN k /\ RouterMessages(k)[i] = RouterMessages(h)[i]
  <2>1. \A i \in DOMAIN h : i \in DOMAIN k /\ k[i] = h[i]
    BY <1>1, <1>2
  <2>2. QED
    BY <2>1 DEF RouterMessages
<1>8. DOMAIN RouterMessages(h) = DOMAIN h /\ DOMAIN RouterMessages(k) = DOMAIN k
  BY DEF RouterMessages
<1>9. /\ HasComplexPattern(RouterMessages(h)) => HasComplexPattern(RouterMessages(k))
      /\ HasThinkingPattern(RouterMessages(h)) => HasThinkingPattern(RouterMessages(k))
  BY <1>7, <1>8 DEF HasComplexPattern, HasThinkingPattern, Asks, Mentions
<1>10. AtLeast(k, h)
  BY <1>3, <1>6, <1>9 DEF AtLeast
<1>11. QED
  BY <1>10 DEF k

\* The router does not look into thinking.
WordsIn(blocks) == UNION {RouterWords(blocks[j]) : j \in DOMAIN blocks}

LEMMA WordsOfBlocks ==
    ASSUME NEW blocks \in Seq(Blocks)
    PROVE  WordsIn(blocks) = WordsIn(OfTypes(blocks, RouterTypes))
<1> DEFINE kept == OfTypes(blocks, RouterTypes)
<1>1. /\ \A p \in DOMAIN kept : \E j \in DOMAIN blocks : kept[p] = blocks[j]
      /\ \A j \in DOMAIN blocks : blocks[j].type \in RouterTypes =>
           \E p \in DOMAIN kept : kept[p] = blocks[j]
  BY OfTypesElements
<1>2. \A j \in DOMAIN blocks : blocks[j].type \notin RouterTypes => RouterWords(blocks[j]) = {}
  BY DEF RouterWords, RouterTypes
<1> HIDE DEF kept
<1>3. ASSUME NEW w
      PROVE  (\E j \in DOMAIN blocks : w \in RouterWords(blocks[j]))
               <=> \E p \in DOMAIN kept : w \in RouterWords(kept[p])
  BY <1>1, <1>2
<1>4. UNION {RouterWords(blocks[j]) : j \in DOMAIN blocks} = UNION {RouterWords(kept[p]) : p \in DOMAIN kept}
  BY <1>3
<1>5. QED
  BY <1>4 DEF kept, WordsIn

LEMMA ForgetAtLeast ==
    ASSUME NEW h \in Seq(Message), NEW j \in 1..Len(h), NEW blocks \in Seq(Blocks),
           OfTypes(blocks, RouterTypes) = OfTypes(h[j].blocks, RouterTypes)
    PROVE  AtLeast([h EXCEPT ![j].blocks = blocks], h)
<1> DEFINE m == [h[j] EXCEPT !.blocks = blocks]
           k == [h EXCEPT ![j] = m]
<1>1. DOMAIN h = 1..Len(h) /\ \A i \in 1..Len(h) : h[i] \in Message
  BY ElementOfSeq, LenProperties
<1>2. m \in Message /\ m.role = h[j].role /\ m.blocks = blocks
  BY <1>1 DEF Message
<1> HIDE DEF m
<1>3. k \in Seq(Message) /\ Len(k) = Len(h) /\ \A i \in 1..Len(h) : k[i] = IF i = j THEN m ELSE h[i]
  BY <1>2, ExceptSeq
<1> HIDE DEF k
<1>4. DOMAIN k = DOMAIN h
  BY <1>1, <1>3, LenProperties
<1>5. \A i \in DOMAIN h :
        k[i].role = h[i].role /\ OfTypes(k[i].blocks, RouterTypes) = OfTypes(h[i].blocks, RouterTypes)
  BY <1>1, <1>2, <1>3
<1>6. TokenCount(k) = TokenCount(h)
  BY <1>4, <1>5 DEF TokenCount
<1>7. ASSUME NEW i \in DOMAIN h PROVE WordsIn(k[i].blocks) = WordsIn(h[i].blocks)
  <2> DEFINE a == k[i].blocks
             b == h[i].blocks
  <2>1. a \in Seq(Blocks) /\ b \in Seq(Blocks)
    <3>1. k[i] \in Message /\ h[i] \in Message
      BY <1>1, <1>2, <1>3
    <3>2. QED
      BY <3>1 DEF Message
  <2>2. OfTypes(a, RouterTypes) = OfTypes(b, RouterTypes)
    BY <1>5
  <2> HIDE DEF a, b
  <2>3. WordsIn(a) = WordsIn(b)
    BY <2>1, <2>2, WordsOfBlocks
  <2>4. QED
    BY <2>3 DEF a, b
<1>8. RouterMessages(k) = RouterMessages(h)
  <2>1. \A x : RouterMessages(x) = [i \in DOMAIN x |-> [role |-> x[i].role, words |-> WordsIn(x[i].blocks)]]
    BY DEF RouterMessages, WordsIn
  <2>2. QED
    BY <1>4, <1>5, <1>7, <2>1
<1>9. TokenCount(h) \in Nat
  BY Visible
<1>10. AtLeast(k, h)
  BY <1>6, <1>8, <1>9 DEF AtLeast
<1>11. QED
  BY <1>10 DEF k, m

LEMMA SameAtLeast ==
    ASSUME NEW h \in Seq(Message)
    PROVE  AtLeast(h, h)
<1>1. TokenCount(h) \in Nat
  BY Visible
<1>2. TokenCount(h) >= TokenCount(h)
  BY <1>1
<1>3. QED
  BY <1>1, <1>2 DEF AtLeast

\* The conversation would be routed at least as high as it was.
HeldUp == scenario # "none" => Rank(Routed(history).scenario) >= Rank(scenario)

NoDrop == scenario' # "none" => Rank(scenario') >= Rank(scenario)

\* A step that leaves the scenario or routes again, with at least as much to
\* go by.
LEMMA StepHeldUp ==
    ASSUME IInv, HeldUp, cfg' = cfg, client' = client, AtLeast(history', history),
           scenario' = scenario \/ scenario' = Routed(history').scenario
    PROVE  HeldUp' /\ NoDrop
<1>1. cfg \in Configs
  BY DEF IInv
<1>2. Rank(Routed(history').scenario) >= Rank(Routed(history).scenario)
  BY <1>1, RoutedGrows
<1>3. Routed(history)' = Routed(history')
  BY DEF Routed
<1>4. /\ Rank(Routed(history').scenario) \in Nat /\ Rank(Routed(history).scenario) \in Nat
      /\ Rank(scenario) \in Nat /\ Rank(scenario') \in Nat /\ Rank("none") = 0
  BY RankType DEF Rank
<1>5. scenario # "none" => Rank(Routed(history').scenario) >= Rank(scenario)
  BY <1>2, <1>4 DEF HeldUp
<1>6. Rank(Routed(history').scenario) >= Rank(scenario)
  BY <1>4, <1>5
<1>7. HeldUp'
  <2>1. scenario' # "none" => Rank(Routed(history').scenario) >= Rank(scenario')
    BY <1>4, <1>6
  <2>2. HeldUp' <=> (scenario' # "none" => Rank((Routed(history)').scenario) >= Rank(scenario'))
    BY DEF HeldUp
  <2>3. QED
    BY <1>3, <2>1, <2>2
<1>8. NoDrop
  BY <1>4, <1>6 DEF NoDrop
<1>9. QED
  BY <1>7, <1>8

LEMMA NextHeldUp ==
    ASSUME IInv, HeldUp, Next
    PROVE  HeldUp' /\ NoDrop
<1>1. history \in Seq(Message)
  BY DEF IInv, Turns
<1>2. CASE ClientAsks
  <2>1. PICK blocks \in UserTurns : Request(Append(history, [role |-> "user", blocks |-> blocks]))
    BY <1>2 DEF ClientAsks
  <2> DEFINE m == [role |-> "user", blocks |-> blocks]
  <2>2. blocks \in Seq(Blocks)
    BY <1>1, UserTurnFacts
  <2>3. m \in Message
    BY <2>2 DEF Message
  <2>4. Request(Append(history, m))
    BY <2>1
  <2> HIDE DEF m
  <2>5. /\ history' = Append(history, m) /\ scenario' = Routed(history').scenario
        /\ cfg' = cfg /\ client' = client
    BY <2>4 DEF Request
  <2>6. AtLeast(history', history)
    BY <1>1, <2>3, <2>5, AppendAtLeast
  <2>7. QED
    BY <2>5, <2>6, StepHeldUp
<1>3. CASE ClientRetries
  <2>1. /\ history' = history /\ scenario' = Routed(history').scenario
        /\ cfg' = cfg /\ client' = client
    BY <1>3 DEF ClientRetries, Request
  <2>2. QED
    BY <1>1, <2>1, SameAtLeast, StepHeldUp
<1>4. ASSUME NEW i \in DOMAIN history, ClientForgets(i) PROVE HeldUp' /\ NoDrop
  <2>1. PICK blocks \in Seq(Blocks) :
          /\ OfTypes(blocks, RouterTypes) = OfTypes(history[i].blocks, RouterTypes)
          /\ history' = [history EXCEPT ![i].blocks = blocks]
          /\ i \in 1..Len(history)
    BY <1>4, ForgetFacts
  <2>2. scenario' = scenario /\ cfg' = cfg /\ client' = client
    BY <1>4 DEF ClientForgets
  <2>3. AtLeast(history', history)
    BY <1>1, <2>1, ForgetAtLeast
  <2>4. QED
    BY <2>2, <2>3, StepHeldUp
<1>5. CASE ClientCompacts
  BY <1>5 DEF ClientCompacts, HeldUp, NoDrop
<1>6. CASE Sends
  <2>1. history' = history /\ scenario' = scenario /\ cfg' = cfg /\ client' = client
    BY <1>6 DEF Sends
  <2>2. QED
    BY <1>1, <2>1, SameAtLeast, StepHeldUp
<1>7. CASE ModelFails
  <2>1. history' = history /\ scenario' = scenario /\ cfg' = cfg /\ client' = client
    BY <1>7 DEF ModelFails
  <2>2. QED
    BY <1>1, <2>1, SameAtLeast, StepHeldUp
<1>8. CASE ModelAnswers
  <2>1. PICK reply \in Reply, blocks \in Seq(Blocks) :
          history' = Append(history, [role |-> "assistant", blocks |-> blocks])
    BY <1>8, AnswerFacts
  <2>2. scenario' = scenario /\ cfg' = cfg /\ client' = client
    BY <1>8 DEF ModelAnswers
  <2> DEFINE m == [role |-> "assistant", blocks |-> blocks]
  <2>3. m \in Message /\ history' = Append(history, m)
    BY <2>1 DEF Message
  <2> HIDE DEF m
  <2>4. AtLeast(history', history)
    BY <1>1, <2>3, AppendAtLeast
  <2>5. QED
    BY <2>2, <2>4, StepHeldUp
<1>9. QED
  BY <1>2, <1>3, <1>4, <1>5, <1>6, <1>7, <1>8 DEF Next

\* While a conversation goes on, whatever is asked and answered and whatever
\* thinking is dropped, it is never routed to a scenario of a lower priority
\* (scenarios.go:44-88), under any configuration.
THEOREM ScenariosNeverDrop == Spec => ScenarioNeverDrops
<1>1. Init => HeldUp
  BY DEF Init, HeldUp
<1>2. IInv /\ HeldUp /\ [Next]_vars => HeldUp'
  <2> SUFFICES ASSUME IInv, HeldUp, [Next]_vars PROVE HeldUp'
    OBVIOUS
  <2>1. CASE Next
    BY <2>1, NextHeldUp
  <2>2. CASE UNCHANGED vars
    <3>1. /\ history' = history /\ scenario' = scenario /\ cfg' = cfg /\ client' = client
          /\ history \in Seq(Message)
      BY <2>2 DEF vars, IInv, Turns
    <3>2. QED
      BY <3>1, SameAtLeast, StepHeldUp
  <2>3. QED
    BY <2>1, <2>2
<1>3. IInv /\ HeldUp /\ [Next]_vars => [scenario' # "none" => Rank(scenario') >= Rank(scenario)]_vars
  <2> SUFFICES ASSUME IInv, HeldUp, Next PROVE scenario' # "none" => Rank(scenario') >= Rank(scenario)
    OBVIOUS
  <2>1. QED
    BY NextHeldUp DEF NoDrop
<1>4. QED
  BY <1>1, <1>2, <1>3, SpecIInv, PTL DEF Spec, ScenarioNeverDrops

-----------------------------------------------------------------------------
(* What one message becomes. *)

Chats ==
  [role : {"system", "user", "assistant", "tool"},
   content : Seq(Identity \cup {"system"}), calls : Seq(Identity),
   answers : Identity \cup {NoAnswer}, reasoning : {"real", "placeholder", "none"}]

\* What a request says, calls, answers and thinks, message by message.
ContentOf == [m \in Chats |-> m.content]
CallsOf == [m \in Chats |-> m.calls]
AnswerOf == [m \in Chats |-> IF m.role = "tool" THEN <<m.answers>> ELSE <<>>]
ThoughtOf == [m \in Chats |-> IF m.role = "assistant" THEN <<m.reasoning = "real">> ELSE <<>>]

LEMMA ChatFunctions ==
    /\ Takes(ContentOf, Chats, Seq(Identity \cup {"system"}))
    /\ Takes(CallsOf, Chats, Seq(Identity))
    /\ Takes(AnswerOf, Chats, Seq(Identity \cup {NoAnswer}))
    /\ Takes(ThoughtOf, Chats, Seq(BOOLEAN))
    /\ \A m \in Chats :
         /\ ContentOf[m] = m.content
         /\ CallsOf[m] = m.calls
         /\ AnswerOf[m] = IF m.role = "tool" THEN <<m.answers>> ELSE <<>>
         /\ ThoughtOf[m] = IF m.role = "assistant" THEN <<m.reasoning = "real">> ELSE <<>>
<1>1. /\ Takes(ContentOf, Chats, Seq(Identity \cup {"system"}))
      /\ \A m \in Chats : ContentOf[m] = m.content
  BY DEF ContentOf, Takes, Chats
<1>2. Takes(CallsOf, Chats, Seq(Identity)) /\ \A m \in Chats : CallsOf[m] = m.calls
  BY DEF CallsOf, Takes, Chats
<1>3. /\ Takes(AnswerOf, Chats, Seq(Identity \cup {NoAnswer}))
      /\ \A m \in Chats : AnswerOf[m] = IF m.role = "tool" THEN <<m.answers>> ELSE <<>>
  <2>1. \A m \in Chats : m.answers \in Identity \cup {NoAnswer}
    BY DEF Chats
  <2>2. \A S : \A x \in S : <<x>> \in Seq(S)
    OBVIOUS
  <2>3. \A m \in Chats : <<m.answers>> \in Seq(Identity \cup {NoAnswer})
    BY <2>1, <2>2, Zenon
  <2>4. QED
    BY <2>3, EmptySeq DEF AnswerOf, Takes
<1>4. /\ Takes(ThoughtOf, Chats, Seq(BOOLEAN))
      /\ \A m \in Chats : ThoughtOf[m] = IF m.role = "assistant" THEN <<m.reasoning = "real">> ELSE <<>>
  <2>1. \A m : (m.reasoning = "real") \in BOOLEAN
    OBVIOUS
  <2>2. \A b \in BOOLEAN : <<b>> \in Seq(BOOLEAN)
    OBVIOUS
  <2>3. \A m \in Chats :
          (IF m.role = "assistant" THEN <<m.reasoning = "real">> ELSE <<>>) \in Seq(BOOLEAN)
    BY <2>1, <2>2, EmptySeq
  <2>4. QED
    BY <2>3 DEF ThoughtOf, Takes
<1>5. QED
  BY <1>1, <1>2, <1>3, <1>4

LEMMA AreFlatMaps ==
    ASSUME NEW ms \in Seq(Chats)
    PROVE  /\ Contents(ms) = FlatMap(ms, ContentOf)
           /\ Calls(ms) = FlatMap(ms, CallsOf)
           /\ AnswersTo(ms) = FlatMap(ms, AnswerOf)
           /\ Thoughts(ms) = FlatMap(ms, ThoughtOf)
<1>1. \A i \in DOMAIN ms : ms[i] \in Chats
  BY ElementOfSeq, LenProperties
<1>2. Contents(ms) = FlatMap(ms, ContentOf)
  BY <1>1, ChatFunctions DEF Contents, FlatMap
<1>3. Calls(ms) = FlatMap(ms, CallsOf)
  BY <1>1, ChatFunctions DEF Calls, FlatMap
<1>4. AnswersTo(ms) = FlatMap(ms, AnswerOf)
  BY <1>1, ChatFunctions DEF AnswersTo, FlatMap
<1>5. Thoughts(ms) = FlatMap(ms, ThoughtOf)
  <2>1. \A i \in DOMAIN ms :
          ThoughtOf[ms[i]] = IF ms[i].role = "assistant" THEN <<ms[i].reasoning = "real">> ELSE <<>>
    BY <1>1, ChatFunctions
  <2>2. QED
    BY <2>1 DEF Thoughts, FlatMap
<1>6. QED
  BY <1>2, <1>3, <1>4, <1>5

\* The results of a turn of the client.
LEMMA ToolMessagesFacts ==
    ASSUME NEW blocks \in Seq(Blocks)
    PROVE  /\ ToolMessages(blocks) \in Seq(Chats)
           /\ Len(ToolMessages(blocks)) = Len(ResultsIn(blocks))
           /\ ResultsIn(blocks) \in Seq(Identity)
           /\ \A k \in 1..Len(ResultsIn(blocks)) :
                /\ ToolMessages(blocks)[k].role = "tool"
                /\ ToolMessages(blocks)[k].content = <<>>
                /\ ToolMessages(blocks)[k].calls = <<>>
                /\ ToolMessages(blocks)[k].answers = ResultsIn(blocks)[k]
<1> DEFINE results == OfTypes(blocks, {"tool_result"})
           s == ToolMessages(blocks)
           ids == ResultsIn(blocks)
<1>1. results \in Seq(Blocks)
  BY OfTypesType
<1>2. /\ s = [i \in DOMAIN results |-> ChatMessage("tool", <<>>, <<>>, results[i].id, "none")]
      /\ ids = Ids(results)
  BY DEF ToolMessages, ResultsIn
<1> HIDE DEF results, s, ids
<1>3. /\ Len(results) \in Nat /\ DOMAIN results = 1..Len(results)
      /\ \A i \in 1..Len(results) : results[i].id \in Identity
  <2>1. \A i \in 1..Len(results) : results[i] \in Blocks
    BY <1>1, ElementOfSeq
  <2>2. QED
    BY <1>1, <2>1, LenProperties DEF Blocks
<1>4. <<>> \in Seq(Identity) /\ <<>> \in Seq(Identity \cup {"system"})
  BY EmptySeq
<1>5. \A i \in 1..Len(results) :
        ChatMessage("tool", <<>>, <<>>, results[i].id, "none") \in Chats
  BY <1>3, <1>4 DEF ChatMessage, Chats
<1>6. s \in [1..Len(results) -> Chats]
  BY <1>2, <1>3, <1>5
<1>7. s \in Seq(Chats) /\ Len(s) = Len(results)
  BY <1>3, <1>6
<1>8. ids \in Seq(Identity) /\ Len(ids) = Len(results)
  BY <1>1, <1>2, IdsFacts
<1>9. \A k \in 1..Len(results) :
        /\ s[k].role = "tool" /\ s[k].content = <<>> /\ s[k].calls = <<>>
        /\ s[k].answers = ids[k]
  BY <1>2, <1>3 DEF ChatMessage, Ids
<1>10. QED
  BY <1>7, <1>8, <1>9 DEF s, ids

\* The text of a turn of the client: one message, or none.
LEMMA UserTextFacts ==
    ASSUME NEW blocks \in Seq(Blocks)
    PROVE  /\ UserText(blocks) \in Seq(Chats)
           /\ Len(UserText(blocks)) \in {0, 1}
           /\ \A k \in 1..Len(UserText(blocks)) :
                UserText(blocks)[k].role = "user" /\ UserText(blocks)[k].calls = <<>>
           /\ FlatMap(UserText(blocks), ContentOf) = Texts(blocks, {"text", "image"})
<1> DEFINE types == {"text", "image"}
           m == ChatMessage("user", Texts(blocks, types), <<>>, NoAnswer, "none")
           s == UserText(blocks)
<1>1. /\ Texts(blocks, types) \in Seq(Identity)
      /\ Texts(blocks, types) = FlatMap(OfTypes(blocks, types), Name)
  BY TextsIsFlatMap
<1>2. s = IF OfTypes(blocks, types) = <<>> THEN <<>> ELSE <<m>>
  BY DEF UserText
<1>3. Texts(blocks, types) \in Seq(Identity \cup {"system"}) /\ <<>> \in Seq(Identity)
  BY <1>1, SeqMonotonic, EmptySeq
<1>4. /\ m \in Chats /\ m.role = "user" /\ m.calls = <<>>
      /\ m.content = Texts(blocks, types)
  BY <1>3 DEF ChatMessage, Chats
<1> HIDE DEF types, m, s
<1>5. CASE s = <<>> /\ OfTypes(blocks, types) = <<>>
  <2>1. Texts(blocks, types) = <<>>
    BY <1>1, <1>5, FlatMapEmpty
  <2>2. FlatMap(s, ContentOf) = <<>>
    BY <1>5, FlatMapEmpty
  <2>3. s \in Seq(Chats) /\ Len(s) = 0
    BY <1>5, EmptySeq
  <2>4. QED
    BY <2>1, <2>2, <2>3 DEF s, types
<1>6. CASE s = <<m>>
  <2>1. s \in Seq(Chats) /\ Len(s) = 1 /\ s[1] = m
    BY <1>4, <1>6
  <2>2. FlatMap(<<m>>, ContentOf) = ContentOf[m]
    BY <1>4, ChatFunctions, FlatMapOne
  <2>3. ContentOf[m] = Texts(blocks, types)
    BY <1>4, ChatFunctions
  <2>4. FlatMap(s, ContentOf) = Texts(blocks, types)
    BY <1>6, <2>2, <2>3
  <2>5. \A k \in 1..Len(s) : s[k] = m
    BY <2>1
  <2>6. QED
    BY <1>4, <2>1, <2>4, <2>5 DEF s, types
<1>7. QED
  BY <1>2, <1>5, <1>6

LEMMA UserMessageFacts ==
    ASSUME NEW blocks \in Seq(Blocks), NEW s, s = TransformUserMessage(blocks), NEW n,
           n = Len(ResultsIn(blocks))
    PROVE  /\ s \in Seq(Chats) /\ n \in Nat /\ n <= Len(s)
           /\ \A k \in 1..Len(s) : s[k].role # "assistant" /\ s[k].calls = <<>>
           /\ \A k \in 1..Len(s) : s[k].role = "tool" <=> k <= n
           /\ \A k \in 1..n : s[k].answers = ResultsIn(blocks)[k]
           /\ FlatMap(s, ContentOf) = Texts(blocks, {"text", "image"})
           /\ FlatMap(s, CallsOf) = <<>>
           /\ FlatMap(s, AnswerOf) = ResultsIn(blocks)
           /\ FlatMap(s, ThoughtOf) = <<>>
<1> DEFINE a == ToolMessages(blocks)
           b == UserText(blocks)
           ids == ResultsIn(blocks)
<1>1. /\ a \in Seq(Chats) /\ Len(a) = n /\ ids \in Seq(Identity) /\ Len(ids) = n
      /\ \A k \in 1..n : /\ a[k].role = "tool" /\ a[k].content = <<>> /\ a[k].calls = <<>>
                         /\ a[k].answers = ids[k]
  BY ToolMessagesFacts
<1>2. /\ b \in Seq(Chats)
      /\ \A k \in 1..Len(b) : b[k].role = "user" /\ b[k].calls = <<>>
      /\ FlatMap(b, ContentOf) = Texts(blocks, {"text", "image"})
  BY UserTextFacts
<1>3. s = a \o b
  BY DEF TransformUserMessage
<1> HIDE DEF a, b, ids
<1>4. n \in Nat /\ Len(b) \in Nat
  BY <1>1, <1>2, LenProperties
<1>5. /\ s \in Seq(Chats) /\ Len(s) = n + Len(b)
      /\ \A k \in 1..(n + Len(b)) : s[k] = IF k <= n THEN a[k] ELSE b[k - n]
  <2>1. /\ a \o b \in Seq(Chats) /\ Len(a \o b) = Len(a) + Len(b)
        /\ \A k \in 1..(Len(a) + Len(b)) :
             (a \o b)[k] = IF k <= Len(a) THEN a[k] ELSE b[k - Len(a)]
    BY <1>1, <1>2, ConcatProperties, ZenonT(30)
  <2>2. QED
    BY <1>1, <1>3, <2>1
<1>6. ASSUME NEW k \in 1..Len(s)
      PROVE  s[k].role # "assistant" /\ s[k].calls = <<>> /\ (s[k].role = "tool" <=> k <= n)
  <2>1. CASE k <= n
    <3>1. k \in 1..n /\ s[k] = a[k]
      BY <1>4, <1>5, <2>1
    <3>2. QED
      BY <1>1, <2>1, <3>1
  <2>2. CASE ~(k <= n)
    <3>1. k - n \in 1..Len(b) /\ s[k] = b[k - n]
      BY <1>4, <1>5, <2>2
    <3>2. QED
      BY <1>2, <2>2, <3>1
  <2>3. QED
    BY <2>1, <2>2
<1>7. \A k \in 1..n : s[k].answers = ids[k]
  <2> SUFFICES ASSUME NEW k \in 1..n PROVE s[k].answers = ids[k]
    OBVIOUS
  <2>1. k \in 1..(n + Len(b)) /\ k <= n
    BY <1>4
  <2>2. QED
    BY <1>1, <1>5, <2>1
<1>8. /\ (\A k \in DOMAIN a : a[k] \in Chats) /\ DOMAIN a = 1..n
      /\ (\A k \in DOMAIN b : b[k] \in Chats) /\ DOMAIN b = 1..Len(b)
      /\ (\A k \in DOMAIN s : s[k] \in Chats) /\ DOMAIN s = 1..Len(s)
  <2>1. \A t \in Seq(Chats) : DOMAIN t = 1..Len(t) /\ \A k \in DOMAIN t : t[k] \in Chats
    BY ElementOfSeq, LenProperties
  <2>2. QED
    BY <1>1, <1>2, <1>5, <2>1
<1>9. FlatMap(s, ContentOf) = Texts(blocks, {"text", "image"})
  <2>1. FlatMap(s, ContentOf) = FlatMap(a, ContentOf) \o FlatMap(b, ContentOf)
    BY <1>1, <1>2, <1>3, ChatFunctions, FlatMapConcat, SMTT(30)
  <2>2. \A k \in DOMAIN a : ContentOf[a[k]] = <<>>
    BY <1>1, <1>8, ChatFunctions
  <2>3. FlatMap(a, ContentOf) = <<>>
    BY <1>1, <2>2, ChatFunctions, FlatMapNone
  <2>4. Texts(blocks, {"text", "image"}) \in Seq(Identity)
    BY TextsIsFlatMap
  <2>5. QED
    BY <1>2, <2>1, <2>3, <2>4, ConcatEmptySeq
<1>10. FlatMap(s, CallsOf) = <<>>
  <2>1. \A k \in DOMAIN s : CallsOf[s[k]] = <<>>
    BY <1>6, <1>8, ChatFunctions
  <2>2. Takes(CallsOf, Chats, Seq(Identity))
    BY ChatFunctions
  <2>3. QED
    BY <1>5, <2>1, <2>2, FlatMapNone
<1>11. FlatMap(s, ThoughtOf) = <<>>
  <2>1. \A k \in DOMAIN s : ThoughtOf[s[k]] = <<>>
    BY <1>6, <1>8, ChatFunctions
  <2>2. Takes(ThoughtOf, Chats, Seq(BOOLEAN))
    BY ChatFunctions
  <2>3. QED
    BY <1>5, <2>1, <2>2, FlatMapNone
<1>12. FlatMap(s, AnswerOf) = ids
  <2>1. Takes(AnswerOf, Chats, Seq(Identity \cup {NoAnswer}))
    BY ChatFunctions
  <2>2. FlatMap(s, AnswerOf) = FlatMap(a, AnswerOf) \o FlatMap(b, AnswerOf)
    BY <1>1, <1>2, <1>3, <2>1, FlatMapConcat
  <2>3. \A k \in DOMAIN b : AnswerOf[b[k]] = <<>>
    BY <1>2, <1>8, ChatFunctions
  <2>4. FlatMap(b, AnswerOf) = <<>>
    BY <1>2, <2>1, <2>3, FlatMapNone
  <2> DEFINE h == [m \in Chats |-> m.answers]
  <2>5. Takes(h, Chats, Identity \cup {NoAnswer}) /\ \A m \in Chats : h[m] = m.answers
    BY DEF Takes, Chats
  <2> HIDE DEF h
  <2>6. \A k \in DOMAIN a : AnswerOf[a[k]] = <<h[a[k]]>>
    BY <1>1, <1>8, <2>5, ChatFunctions
  <2>7. FlatMap(a, AnswerOf) = [k \in DOMAIN a |-> h[a[k]]]
    BY <1>1, <2>1, <2>5, <2>6, FlatMapAll
  <2>8. \A k \in DOMAIN a : h[a[k]] = ids[k]
    BY <1>1, <1>8, <2>5
  <2>9. [k \in DOMAIN a |-> ids[k]] = ids
    BY <1>1, <1>8, LenProperties
  <2>10. FlatMap(a, AnswerOf) = ids
    BY <2>7, <2>8, <2>9
  <2>11. QED
    BY <1>1, <2>2, <2>4, <2>10, ConcatEmptySeq
<1>13. n <= Len(s)
  BY <1>4, <1>5
<1>14. QED
  BY <1>4, <1>5, <1>6, <1>7, <1>9, <1>10, <1>11, <1>12, <1>13 DEF ids

LEMMA ReasoningType ==
    ASSUME NEW blocks, NEW model, NEW thinks
    PROVE  /\ Reasoning(blocks, model, thinks) \in {"real", "placeholder", "none"}
           /\ Reasoning(blocks, model, thinks) = "real" <=> Thoughtful(OfTypes(blocks, {"thinking"}))
BY DEF Reasoning, Thoughtful

LEMMA AssistantMessageFacts ==
    ASSUME NEW blocks \in Seq(Blocks), NEW model, NEW thinks, NEW reply \in Reply,
           Tells(blocks, reply), NEW s, s = TransformAssistantMessage(blocks, model, thinks)
    PROVE  /\ s \in Seq(Chats) /\ Len(s) = 1
           /\ s[1].role = "assistant" /\ s[1].calls = CallsIn(blocks)
           /\ s[1].reasoning = Reasoning(blocks, model, thinks)
           /\ FlatMap(s, ContentOf) = reply.content
           /\ FlatMap(s, CallsOf) = reply.calls
           /\ FlatMap(s, AnswerOf) = <<>>
           /\ FlatMap(s, ThoughtOf) = <<reply.reasoning = "real">>
<1> DEFINE m == ChatMessage("assistant", Texts(blocks, {"text"}), CallsIn(blocks), NoAnswer,
                            Reasoning(blocks, model, thinks))
<1>1. s = <<m>>
  BY DEF TransformAssistantMessage, CallsIn
<1>2. /\ Texts(blocks, {"text"}) \in Seq(Identity \cup {"system"})
      /\ CallsIn(blocks) \in Seq(Identity)
      /\ Reasoning(blocks, model, thinks) \in {"real", "placeholder", "none"}
  <2>1. Texts(blocks, {"text"}) \in Seq(Identity)
    BY TextsIsFlatMap
  <2>2. CallsIn(blocks) \in Seq(Identity)
    BY OfTypesType, IdsFacts DEF CallsIn
  <2>3. QED
    BY <2>1, <2>2, SeqMonotonic, ReasoningType
<1>3. /\ m \in Chats /\ m.role = "assistant" /\ m.calls = CallsIn(blocks)
      /\ m.content = Texts(blocks, {"text"}) /\ m.reasoning = Reasoning(blocks, model, thinks)
  BY <1>2 DEF ChatMessage, Chats
<1> HIDE DEF m
<1>4. s \in Seq(Chats) /\ Len(s) = 1 /\ s[1] = m
  BY <1>1, <1>3
<1>5. /\ m.content = reply.content /\ m.calls = reply.calls
      /\ m.reasoning = "real" <=> reply.reasoning = "real"
  BY <1>3, ReasoningType DEF Tells, CallsIn
<1>6. FlatMap(<<m>>, ContentOf) = ContentOf[m]
  BY <1>3, ChatFunctions, FlatMapOne
<1>7. FlatMap(<<m>>, CallsOf) = CallsOf[m]
  BY <1>3, ChatFunctions, FlatMapOne
<1>8. FlatMap(<<m>>, AnswerOf) = AnswerOf[m]
  BY <1>3, ChatFunctions, FlatMapOne
<1>9. FlatMap(<<m>>, ThoughtOf) = ThoughtOf[m]
  <2>1. Takes(ThoughtOf, Chats, Seq(BOOLEAN))
    BY ChatFunctions
  <2>2. QED
    BY <1>3, <2>1, FlatMapOne
<1>10. /\ ContentOf[m] = m.content /\ CallsOf[m] = m.calls /\ AnswerOf[m] = <<>>
       /\ ThoughtOf[m] = <<m.reasoning = "real">>
  BY <1>3, ChatFunctions
<1>11. <<m.reasoning = "real">> = <<reply.reasoning = "real">>
  <2>1. (m.reasoning = "real") = (reply.reasoning = "real")
    BY <1>5
  <2>2. QED
    BY <2>1
<1>12. FlatMap(s, ThoughtOf) = <<reply.reasoning = "real">>
  BY <1>1, <1>9, <1>10, <1>11
<1>13. QED
  BY <1>1, <1>3, <1>4, <1>5, <1>6, <1>7, <1>8, <1>10, <1>12

-----------------------------------------------------------------------------
(* What a conversation becomes. *)

Turned(model, thinks) ==
  [i \in DOMAIN history |-> TransformMessage(history[i], model, thinks)]

Sys == ChatMessage("system", System, <<>>, NoAnswer, "none")

LEMMA SysFacts ==
    /\ Sys \in Chats /\ Sys.role = "system" /\ Sys.content = System /\ Sys.calls = <<>>
<1>1. System \in Seq(Identity \cup {"system"})
  BY DEF System
<1>2. <<>> \in Seq(Identity)
  BY EmptySeq
<1>3. NoAnswer \in Identity \cup {NoAnswer}
  OBVIOUS
<1> HIDE DEF System, NoAnswer
<1>4. QED
  BY <1>1, <1>2, <1>3 DEF Sys, ChatMessage, Chats

\* Each turn of the client is translated as one, and each of the models.
LEMMA TurnedFacts ==
    ASSUME Turns(history, replies), NEW model, NEW thinks, NEW ss, ss = Turned(model, thinks)
    PROVE  /\ ss \in Seq(Seq(Chats)) /\ Len(ss) = Len(history) /\ Len(history) \in Nat
           /\ DOMAIN ss = 1..Len(history) /\ DOMAIN history = 1..Len(history)
           /\ \A i \in 1..Len(history) :
                /\ history[i] \in Message /\ history[i].blocks \in Seq(Blocks)
                /\ i \in Nat /\ (i % 2 = 0 \/ i % 2 = 1)
           /\ \A i \in 1..Len(history) : i % 2 = 1 =>
                UserTurn(history, i) /\ ss[i] = TransformUserMessage(history[i].blocks)
           /\ \A i \in 1..Len(history) : i % 2 = 0 =>
                /\ ModelTurn(history, replies, i)
                /\ i \div 2 \in 1..Len(replies) /\ replies[i \div 2] \in Reply
                /\ ss[i] = TransformAssistantMessage(history[i].blocks, model, thinks)
<1>1. /\ history \in Seq(Message) /\ replies \in Seq(Reply) /\ Len(replies) = Len(history) \div 2
      /\ \A i \in 1..Len(history) : i % 2 = 1 => UserTurn(history, i)
      /\ \A i \in 1..Len(history) : i % 2 = 0 => ModelTurn(history, replies, i)
  BY DEF Turns
<1>2. /\ Len(history) \in Nat /\ DOMAIN history = 1..Len(history)
      /\ DOMAIN replies = 1..Len(replies)
      /\ \A i \in 1..Len(history) : history[i] \in Message
      /\ \A i \in 1..Len(replies) : replies[i] \in Reply
  BY <1>1, ElementOfSeq, LenProperties
<1>3. \A m \in Message : m.blocks \in Seq(Blocks)
  BY DEF Message
<1>4. \A i \in 1..Len(history) : i \in Nat /\ (i % 2 = 0 \/ i % 2 = 1)
  BY <1>2, Parity
<1>5. \A i \in 1..Len(history) : i % 2 = 0 =>
        i \div 2 \in 1..Len(replies) /\ replies[i \div 2] \in Reply
  BY <1>1, <1>2, Parity
<1>6. DOMAIN ss = 1..Len(history)
  BY <1>2 DEF Turned
<1>7. \A i \in 1..Len(history) : i % 2 = 1 => ss[i] = TransformUserMessage(history[i].blocks)
  BY <1>1, <1>2 DEF Turned, TransformMessage, UserTurn
<1>8. \A i \in 1..Len(history) : i % 2 = 0 =>
        ss[i] = TransformAssistantMessage(history[i].blocks, model, thinks)
  BY <1>1, <1>2 DEF Turned, TransformMessage, ModelTurn
<1>9. \A i \in 1..Len(history) : ss[i] \in Seq(Chats)
  <2> SUFFICES ASSUME NEW i \in 1..Len(history) PROVE ss[i] \in Seq(Chats)
    OBVIOUS
  <2>1. CASE i % 2 = 1
    BY <1>2, <1>3, <1>7, <2>1, UserMessageFacts, ZenonT(30)
  <2>2. CASE i % 2 = 0
    <3>1. history[i].blocks \in Seq(Blocks) /\ replies[i \div 2] \in Reply
      BY <1>2, <1>3, <1>5, <2>2
    <3>2. Tells(history[i].blocks, replies[i \div 2])
      BY <1>1, <2>2 DEF ModelTurn
    <3> DEFINE b == history[i].blocks
               r == replies[i \div 2]
               s == ss[i]
    <3>3. s = TransformAssistantMessage(b, model, thinks)
      BY <1>8, <2>2
    <3>4. b \in Seq(Blocks) /\ r \in Reply /\ Tells(b, r)
      BY <3>1, <3>2
    <3> HIDE DEF b, r, s
    <3>5. s \in Seq(Chats)
      BY <3>3, <3>4, AssistantMessageFacts
    <3>6. QED
      BY <3>5 DEF s
  <2>3. QED
    BY <1>4, <2>1, <2>2
<1>10. ss = [i \in 1..Len(history) |-> ss[i]]
  BY <1>2 DEF Turned
<1>11. ss \in Seq(Seq(Chats)) /\ Len(ss) = Len(history)
  BY <1>2, <1>9, <1>10
<1>12. QED
  BY <1>1, <1>2, <1>3, <1>4, <1>5, <1>6, <1>7, <1>8, <1>11

LEMMA SentFacts ==
    ASSUME IInv, Translated
    PROVE  /\ Turns(history, replies)
           /\ Len(history) % 2 = 1
           /\ sent.messages = <<Sys>> \o FlattenSeq(Turned(chain[1].id, HasThinkingBlocks(history)))
           /\ sent.model = chain[1].id
           /\ sent.thinking = Thinking(history, chain[1])
           /\ sent.effort = SetsEffort(history, chain[1])
           /\ chain[1] \in ModelConfig
<1>1. /\ Turns(history, replies) /\ Len(history) % 2 = 1
      /\ sent = TransformRequest(history, System, chain[1])
      /\ chain \in Seq(ModelConfig) /\ chain # <<>>
  BY DEF IInv, Translated
<1>2. chain[1] \in ModelConfig
  BY <1>1, EmptySeq, ElementOfSeq, LenProperties
<1>3. /\ sent.messages = TransformMessages(history, System, chain[1].id)
      /\ sent.model = chain[1].id
      /\ sent.thinking = Thinking(history, chain[1])
      /\ sent.effort = SetsEffort(history, chain[1])
  BY <1>1 DEF TransformRequest
<1>4. System # <<>>
  BY DEF System
<1>5. sent.messages = <<Sys>> \o FlattenSeq(Turned(chain[1].id, HasThinkingBlocks(history)))
  BY <1>3, <1>4 DEF TransformMessages, Turned, Sys
<1>6. QED
  BY <1>1, <1>2, <1>3, <1>5

LEMMA BehindSys ==
    ASSUME NEW ss \in Seq(Seq(Chats)), NEW F, F = FlattenSeq(ss), NEW ms, ms = <<Sys>> \o F
    PROVE  /\ F \in Seq(Chats) /\ Len(F) \in Nat /\ ms \in Seq(Chats)
           /\ Len(ms) = Len(F) + 1 /\ DOMAIN ms = 1..(Len(F) + 1)
           /\ ms[1] = Sys
           /\ \A p \in 1..Len(F) : ms[p + 1] = F[p]
<1>1. F \in Seq(Chats) /\ Len(F) \in Nat
  BY FlattenType, LenProperties
<1>2. <<Sys>> \in Seq(Chats) /\ Len(<<Sys>>) = 1 /\ <<Sys>>[1] = Sys
  BY SysFacts
<1>3. /\ ms \in Seq(Chats) /\ Len(ms) = 1 + Len(F)
      /\ \A i \in 1..(1 + Len(F)) : ms[i] = IF i <= 1 THEN <<Sys>>[i] ELSE F[i - 1]
  <2> HIDE DEF Sys
  <2>1. \A s, t \in Seq(Chats) :
          /\ s \o t \in Seq(Chats) /\ Len(s \o t) = Len(s) + Len(t)
          /\ \A i \in 1..(Len(s) + Len(t)) :
               (s \o t)[i] = IF i <= Len(s) THEN s[i] ELSE t[i - Len(s)]
    BY ConcatProperties
  <2>2. QED
    BY <1>1, <1>2, <2>1
<1>4. DOMAIN ms = 1..(Len(F) + 1)
  BY <1>1, <1>3, LenProperties
<1>5. \A p \in 1..Len(F) : p + 1 \in 1..(1 + Len(F)) /\ ~(p + 1 <= 1) /\ (p + 1) - 1 = p
  BY <1>1
<1>6. QED
  BY <1>1, <1>2, <1>3, <1>4, <1>5

LEMMA Sums ==
    ASSUME NEW T, NEW g, Takes(g, Chats, Seq(T)), NEW ss \in Seq(Seq(Chats))
    PROVE  /\ FlatMap(<<Sys>> \o FlattenSeq(ss), g)
                = g[Sys] \o FlattenSeq([i \in DOMAIN ss |-> FlatMap(ss[i], g)])
           /\ FlattenSeq([i \in DOMAIN ss |-> FlatMap(ss[i], g)]) \in Seq(T)
<1> DEFINE F == FlattenSeq(ss)
<1>1. F \in Seq(Chats)
  BY FlattenType
<1>2. FlatMap(F, g) = FlattenSeq([i \in DOMAIN ss |-> FlatMap(ss[i], g)])
  BY FlatMapFlatten
<1> HIDE DEF F
<1>3. FlatMap(F, g) \in Seq(T)
  BY <1>1, FlatMapType
<1>4. <<Sys>> \in Seq(Chats) /\ Sys \in Chats
  BY SysFacts
<1>5. FlatMap(<<Sys>> \o F, g) = FlatMap(<<Sys>>, g) \o FlatMap(F, g)
  <2> DEFINE s == <<Sys>>
  <2>1. s \in Seq(Chats)
    BY <1>4
  <2> HIDE DEF s
  <2>2. FlatMap(s \o F, g) = FlatMap(s, g) \o FlatMap(F, g)
    BY <1>1, <2>1, FlatMapConcat
  <2>3. QED
    BY <2>2 DEF s
<1>6. FlatMap(<<Sys>>, g) = g[Sys]
  BY <1>4, FlatMapOne
<1>7. QED
  BY <1>2, <1>3, <1>5, <1>6 DEF F

-----------------------------------------------------------------------------
(* The theorems. *)

\* The type invariant: the client, its conversation and the chain of models
\* stay what they are taken for, and there is an answer for each second message
\* (messages.go:108-230).
THEOREM ConversationTypes == Spec => []TypeOK
<1>1. IInv => TypeOK
  <2> SUFFICES ASSUME IInv PROVE TypeOK
    OBVIOUS
  <2>1. /\ cfg \in Configs
        /\ client \in [streaming : BOOLEAN, model : ClientModels]
        /\ stage \in {"client", "trying"}
        /\ scenario \in Scenarios \cup {"passthrough", "none"}
        /\ stage = "trying" <=> chain # <<>>
        /\ sent # Nothing => stage = "trying"
    BY DEF IInv
  <2>2. /\ history \in Seq(Message) /\ Len(replies) = Len(history) \div 2
        /\ Len(history) <= MaxTurns /\ chain \in Seq(ModelConfig)
    BY DEF IInv, Turns
  <2>3. \A i \in DOMAIN history : history[i].role \in {"user", "assistant"}
    <3>1. \A i \in DOMAIN history : history[i] \in Message
      BY <2>2, ElementOfSeq, LenProperties
    <3>2. QED
      BY <3>1 DEF Message
  <2>4. Len(history) \in 0..MaxTurns
    <3>1. Len(history) \in Nat
      BY <2>2, LenProperties
    <3>2. QED
      BY <2>2, <3>1, ConversationAssumption
  <2>5. \A i \in DOMAIN chain : chain[i] \in ModelConfig
    BY <2>2, ElementOfSeq, LenProperties
  <2>6. QED
    BY <2>1, <2>2, <2>3, <2>4, <2>5 DEF TypeOK
<1>2. QED
  BY <1>1, SpecIInv, PTL

\* Turn by turn, what is sent is what was said.
LEMMA NothingIsLost ==
    ASSUME IInv, Translated
    PROVE  /\ Contents(sent.messages)
                = System \o FlattenSeq([i \in DOMAIN history |-> Said(i)])
           /\ Calls(sent.messages) = FlattenSeq([i \in DOMAIN history |-> Called(i)])
           /\ AnswersTo(sent.messages) = FlattenSeq([i \in DOMAIN history |-> Results(i)])
           /\ Thoughts(sent.messages)
                = [n \in DOMAIN replies |-> replies[n].reasoning = "real"]
<1> DEFINE model == chain[1].id
           thinks == HasThinkingBlocks(history)
           ss == Turned(model, thinks)
           ms == sent.messages
<1>1. Turns(history, replies) /\ ms = <<Sys>> \o FlattenSeq(ss)
  BY SentFacts
<1> HIDE DEF model, thinks
<1>2. ss = Turned(model, thinks)
  OBVIOUS
<1> HIDE DEF ss
<1>3. /\ ss \in Seq(Seq(Chats)) /\ Len(history) \in Nat
      /\ DOMAIN ss = 1..Len(history) /\ DOMAIN history = 1..Len(history)
      /\ \A i \in 1..Len(history) :
           history[i].blocks \in Seq(Blocks) /\ (i % 2 = 0 \/ i % 2 = 1)
      /\ \A i \in 1..Len(history) : i % 2 = 1 =>
           UserTurn(history, i) /\ ss[i] = TransformUserMessage(history[i].blocks)
      /\ \A i \in 1..Len(history) : i % 2 = 0 =>
           /\ ModelTurn(history, replies, i) /\ replies[i \div 2] \in Reply
           /\ ss[i] = TransformAssistantMessage(history[i].blocks, model, thinks)
  <2>1. Turns(history, replies)
    BY <1>1
  <2> HIDE DEF ms
  <2>2. /\ ss \in Seq(Seq(Chats)) /\ Len(history) \in Nat
        /\ DOMAIN ss = 1..Len(history) /\ DOMAIN history = 1..Len(history)
    BY <1>2, <2>1, TurnedFacts
  <2>3. \A i \in 1..Len(history) :
          history[i].blocks \in Seq(Blocks) /\ (i % 2 = 0 \/ i % 2 = 1)
    BY <1>2, <2>1, TurnedFacts
  <2>4. \A i \in 1..Len(history) : i % 2 = 1 =>
          UserTurn(history, i) /\ ss[i] = TransformUserMessage(history[i].blocks)
    BY <1>2, <2>1, TurnedFacts
  <2>5. \A i \in 1..Len(history) : i % 2 = 0 =>
          ModelTurn(history, replies, i) /\ replies[i \div 2] \in Reply
    BY <1>2, <2>1, TurnedFacts
  <2>6. \A i \in 1..Len(history) : i % 2 = 0 =>
          ss[i] = TransformAssistantMessage(history[i].blocks, model, thinks)
    BY <1>2, <2>1, TurnedFacts
  <2>7. QED
    BY <2>2, <2>3, <2>4, <2>5, <2>6
<1>4. ASSUME NEW i \in 1..Len(history)
      PROVE  /\ FlatMap(ss[i], ContentOf) = Said(i)
             /\ FlatMap(ss[i], CallsOf) = Called(i)
             /\ FlatMap(ss[i], AnswerOf) = Results(i)
             /\ FlatMap(ss[i], ThoughtOf)
                  = IF i % 2 = 0 THEN <<replies[i \div 2].reasoning = "real">> ELSE <<>>
  <2> DEFINE b == history[i].blocks
             r == replies[i \div 2]
             s == ss[i]
  <2>1. CASE i % 2 = 1
    <3>1. /\ s = TransformUserMessage(b) /\ b \in Seq(Blocks)
          /\ ~(history[i].role = "assistant") /\ i % 2 # 0
      BY <1>3, <2>1 DEF UserTurn
    <3>2. /\ Said(i) = Texts(b, {"text", "image"}) /\ Called(i) = <<>>
          /\ Results(i) = ResultsIn(b)
      BY <3>1 DEF Said, Called, Results, Answered, ResultsIn
    <3> HIDE DEF b, s
    <3>3. /\ FlatMap(s, ContentOf) = Texts(b, {"text", "image"})
          /\ FlatMap(s, CallsOf) = <<>>
          /\ FlatMap(s, AnswerOf) = ResultsIn(b)
          /\ FlatMap(s, ThoughtOf) = <<>>
      BY <3>1, UserMessageFacts
    <3>4. QED
      BY <3>1, <3>2, <3>3 DEF s
  <2>2. CASE i % 2 = 0
    <3>1. /\ s = TransformAssistantMessage(b, model, thinks) /\ b \in Seq(Blocks)
          /\ r \in Reply /\ Tells(b, r) /\ history[i].role = "assistant"
      BY <1>3, <2>2 DEF ModelTurn
    <3>2. Said(i) = r.content /\ Called(i) = r.calls
      BY <3>1 DEF Said, Called, Answered
    <3>3. Results(i) = <<>>
      <4>1. OfTypes(b, {"tool_result"}) = <<>>
        BY <3>1 DEF Tells
      <4>2. OfTypes(b, {"tool_result"}) \in Seq(Blocks)
        BY <3>1, OfTypesType
      <4>3. Ids(OfTypes(b, {"tool_result"})) = <<>>
        BY <4>1, <4>2, IdsFacts
      <4>4. QED
        BY <4>3 DEF Results
    <3> HIDE DEF b, r, s
    <3>4. /\ FlatMap(s, ContentOf) = r.content
          /\ FlatMap(s, CallsOf) = r.calls
          /\ FlatMap(s, AnswerOf) = <<>>
          /\ FlatMap(s, ThoughtOf) = <<r.reasoning = "real">>
      BY <3>1, AssistantMessageFacts
    <3>5. QED
      BY <2>2, <3>2, <3>3, <3>4 DEF r, s
  <2>3. QED
    BY <1>3, <2>1, <2>2
<1>5. ms \in Seq(Chats)
  BY <1>1, <1>3, BehindSys
<1>6. Contents(ms) = System \o FlattenSeq([i \in DOMAIN history |-> Said(i)])
  <2>1. Takes(ContentOf, Chats, Seq(Identity \cup {"system"})) /\ ContentOf[Sys] = System
    BY SysFacts, ChatFunctions
  <2>2. FlatMap(ms, ContentOf)
          = ContentOf[Sys] \o FlattenSeq([i \in DOMAIN ss |-> FlatMap(ss[i], ContentOf)])
    BY <1>1, <1>3, <2>1, Sums
  <2>3. [i \in DOMAIN ss |-> FlatMap(ss[i], ContentOf)] = [i \in DOMAIN history |-> Said(i)]
    BY <1>3, <1>4
  <2>4. QED
    BY <1>5, <2>1, <2>2, <2>3, AreFlatMaps
<1>7. Calls(ms) = FlattenSeq([i \in DOMAIN history |-> Called(i)])
  <2> DEFINE parts == FlattenSeq([i \in DOMAIN ss |-> FlatMap(ss[i], CallsOf)])
  <2>1. Takes(CallsOf, Chats, Seq(Identity)) /\ CallsOf[Sys] = <<>>
    BY SysFacts, ChatFunctions
  <2>2. FlatMap(ms, CallsOf) = CallsOf[Sys] \o parts /\ parts \in Seq(Identity)
    BY <1>1, <1>3, <2>1, Sums
  <2>3. [i \in DOMAIN ss |-> FlatMap(ss[i], CallsOf)] = [i \in DOMAIN history |-> Called(i)]
    BY <1>3, <1>4
  <2>4. parts = FlattenSeq([i \in DOMAIN history |-> Called(i)])
    BY <2>3
  <2> HIDE DEF parts
  <2>5. <<>> \o parts = parts
    BY <2>2, ConcatEmptySeq
  <2>6. QED
    BY <1>5, <2>1, <2>2, <2>4, <2>5, AreFlatMaps
<1>8. AnswersTo(ms) = FlattenSeq([i \in DOMAIN history |-> Results(i)])
  <2> DEFINE parts == FlattenSeq([i \in DOMAIN ss |-> FlatMap(ss[i], AnswerOf)])
  <2>1. Takes(AnswerOf, Chats, Seq(Identity \cup {NoAnswer})) /\ AnswerOf[Sys] = <<>>
    BY SysFacts, ChatFunctions
  <2>2. FlatMap(ms, AnswerOf) = AnswerOf[Sys] \o parts /\ parts \in Seq(Identity \cup {NoAnswer})
    BY <1>1, <1>3, <2>1, Sums
  <2>3. [i \in DOMAIN ss |-> FlatMap(ss[i], AnswerOf)] = [i \in DOMAIN history |-> Results(i)]
    BY <1>3, <1>4
  <2>4. parts = FlattenSeq([i \in DOMAIN history |-> Results(i)])
    BY <2>3
  <2> HIDE DEF parts
  <2>5. <<>> \o parts = parts
    BY <2>2, ConcatEmptySeq
  <2>6. QED
    BY <1>5, <2>1, <2>2, <2>4, <2>5, AreFlatMaps
<1>9. Thoughts(ms) = [n \in DOMAIN replies |-> replies[n].reasoning = "real"]
  <2> DEFINE parts == FlattenSeq([i \in DOMAIN ss |-> FlatMap(ss[i], ThoughtOf)])
             t == [n \in DOMAIN replies |-> replies[n].reasoning = "real"]
             n == Len(history)
  <2>1. Takes(ThoughtOf, Chats, Seq(BOOLEAN)) /\ ThoughtOf[Sys] = <<>>
    BY SysFacts, ChatFunctions
  <2>2. FlatMap(ms, ThoughtOf) = ThoughtOf[Sys] \o parts /\ parts \in Seq(BOOLEAN)
    BY <1>1, <1>3, <2>1, Sums
  <2>3. t \in Seq(BOOLEAN) /\ Len(t) = n \div 2 /\ DOMAIN t = 1..(n \div 2)
    <3>1. /\ replies \in Seq(Reply) /\ Len(replies) = n \div 2 /\ n \div 2 \in Nat
          /\ DOMAIN replies = 1..Len(replies)
      BY <1>1, <1>3, LenProperties, Parity DEF Turns
    <3>2. \A k \in 1..(n \div 2) : (replies[k].reasoning = "real") \in BOOLEAN
      OBVIOUS
    <3>3. t = [k \in 1..(n \div 2) |-> replies[k].reasoning = "real"]
      BY <3>1
    <3> DEFINE m == n \div 2
    <3>4. t \in [1..m -> BOOLEAN] /\ m \in Nat
      BY <3>1, <3>2, <3>3
    <3> HIDE DEF n, t, m
    <3>5. t \in Seq(BOOLEAN) /\ Len(t) = m /\ DOMAIN t = 1..m
      BY <3>4
    <3>6. QED
      BY <3>5 DEF m
  <2>4. ASSUME NEW i \in 1..n
        PROVE  FlatMap(ss[i], ThoughtOf) = IF i % 2 = 0 THEN <<t[i \div 2]>> ELSE <<>>
    <3>1. CASE i % 2 = 0
      <4>1. i \div 2 \in 1..(n \div 2)
        BY <1>3, <3>1, Parity
      <4>2. t[i \div 2] = (replies[i \div 2].reasoning = "real")
        BY <2>3, <4>1
      <4>3. QED
        BY <1>4, <3>1, <4>2
    <3>2. CASE i % 2 # 0
      BY <1>4, <3>2
    <3>3. QED
      BY <3>1, <3>2
  <2>5. [i \in DOMAIN ss |-> FlatMap(ss[i], ThoughtOf)]
          = [i \in 1..n |-> IF i % 2 = 0 THEN <<t[i \div 2]>> ELSE <<>>]
    BY <1>3, <2>4
  <2>6. parts = FlattenSeq([i \in 1..n |-> IF i % 2 = 0 THEN <<t[i \div 2]>> ELSE <<>>])
    BY <2>5
  <2> HIDE DEF parts, t
  <2>7. n \in Nat
    BY <1>3
  <2> HIDE DEF n
  <2>8. parts = t
    BY <2>3, <2>6, <2>7, FlattenEveryOther
  <2>9. <<>> \o parts = parts
    BY <2>2, ConcatEmptySeq
  <2>10. QED
    BY <1>5, <2>1, <2>2, <2>8, <2>9, AreFlatMaps DEF t
<1>10. QED
  BY <1>6, <1>7, <1>8, <1>9

\* Every text, call, result and kept thought of the conversation is sent on,
\* once and in its order: of a complete answer all of it, so both translations,
\* of the answer and of the next request, lose nothing between them
\* (request.go:142-322, response.go:79-124); of an answer translated as a
\* stream, whatever the stream brought.
THEOREM EveryTurnIsSentOn == Spec => []EveryTurnArrives
<1>1. IInv => EveryTurnArrives
  BY NothingIsLost DEF EveryTurnArrives
<1>2. QED
  BY <1>1, SpecIInv, PTL

\* Where the messages of each turn are: behind the system prompt, turn by turn.
Layout(ss, ms, off) ==
    /\ \A i \in 1..Len(ss) : off[i] \in Nat /\ off[i - 1] \in Nat
    /\ \A i \in 1..Len(ss) : off[i] = off[i - 1] + Len(ss[i])
    /\ \A i \in 1..Len(ss) : \A k \in 1..Len(ss[i]) :
         1 + off[i - 1] + k \in DOMAIN ms /\ ms[1 + off[i - 1] + k] = ss[i][k]
    /\ \A q \in DOMAIN ms : \/ ms[q] = Sys
                            \/ \E i \in 1..Len(ss) : \E k \in 1..Len(ss[i]) :
                                 q = 1 + off[i - 1] + k

LEMMA LaidOut ==
    ASSUME NEW ss \in Seq(Seq(Chats)), NEW ms, ms = <<Sys>> \o FlattenSeq(ss)
    PROVE  \E off : Layout(ss, ms, off)
<1> DEFINE F == FlattenSeq(ss)
<1>1. PICK off \in [0..Len(ss) -> Nat] : Parts(ss, off)
  BY FlattenParts
<1>2. ms = <<Sys>> \o F /\ F = FlattenSeq(ss)
  OBVIOUS
<1>3. /\ \A i \in 1..Len(ss) : off[i] = off[i - 1] + Len(ss[i])
      /\ \A i \in 1..Len(ss) : \A k \in 1..Len(ss[i]) :
           off[i - 1] + k \in 1..Len(F) /\ F[off[i - 1] + k] = ss[i][k]
      /\ \A p \in 1..Len(F) :
           \E i \in 1..Len(ss) : \E k \in 1..Len(ss[i]) : p = off[i - 1] + k
  BY <1>1 DEF Parts
<1> HIDE DEF F
<1>4. /\ Len(F) \in Nat /\ DOMAIN ms = 1..(Len(F) + 1) /\ ms[1] = Sys
      /\ \A p \in 1..Len(F) : ms[p + 1] = F[p]
  BY <1>2, BehindSys
<1>5. /\ Len(ss) \in Nat
      /\ \A i \in 1..Len(ss) : ss[i] \in Seq(Chats) /\ Len(ss[i]) \in Nat
  BY ElementOfSeq, LenProperties
<1>6. \A i \in 1..Len(ss) : off[i] \in Nat /\ off[i - 1] \in Nat
  <2> SUFFICES ASSUME NEW i \in 1..Len(ss) PROVE off[i] \in Nat /\ off[i - 1] \in Nat
    OBVIOUS
  <2>1. i \in 0..Len(ss) /\ i - 1 \in 0..Len(ss)
    BY <1>5
  <2>2. off \in [0..Len(ss) -> Nat]
    BY <1>1
  <2>3. QED
    BY <2>1, <2>2
<1>7. ASSUME NEW i \in 1..Len(ss), NEW k \in 1..Len(ss[i])
      PROVE  1 + off[i - 1] + k \in DOMAIN ms /\ ms[1 + off[i - 1] + k] = ss[i][k]
  <2>1. off[i - 1] + k \in 1..Len(F) /\ F[off[i - 1] + k] = ss[i][k]
    BY <1>3
  <2>2. off[i - 1] \in Nat /\ k \in Nat
    BY <1>5, <1>6
  <2>3. 1 + off[i - 1] + k = (off[i - 1] + k) + 1
    BY <2>2
  <2>4. (off[i - 1] + k) + 1 \in 1..(Len(F) + 1)
    BY <1>4, <2>1
  <2>5. ms[(off[i - 1] + k) + 1] = F[off[i - 1] + k]
    BY <1>4, <2>1
  <2>6. QED
    BY <1>4, <2>1, <2>3, <2>4, <2>5
<1>8. ASSUME NEW q \in DOMAIN ms, ms[q] # Sys
      PROVE  \E i \in 1..Len(ss) : \E k \in 1..Len(ss[i]) : q = 1 + off[i - 1] + k
  <2>1. q \in 1..(Len(F) + 1) /\ q # 1
    BY <1>4, <1>8
  <2>2. q - 1 \in 1..Len(F) /\ q \in Nat
    BY <1>4, <2>1
  <2>3. PICK i \in 1..Len(ss) : \E k \in 1..Len(ss[i]) : q - 1 = off[i - 1] + k
    BY <1>3, <2>2
  <2>4. PICK k \in 1..Len(ss[i]) : q - 1 = off[i - 1] + k
    BY <2>3
  <2> DEFINE o == off[i - 1]
  <2>5. o \in Nat /\ k \in Nat /\ q - 1 = o + k
    BY <1>5, <1>6, <2>4
  <2> HIDE DEF o
  <2>6. \A x, y, z \in Nat : x - 1 = y + z => x = 1 + y + z
    OBVIOUS
  <2>7. q = 1 + o + k
    BY <2>2, <2>5, <2>6
  <2>8. QED
    BY <2>7 DEF o
<1>9. \A q \in DOMAIN ms : \/ ms[q] = Sys
                           \/ \E i \in 1..Len(ss) : \E k \in 1..Len(ss[i]) :
                                q = 1 + off[i - 1] + k
  BY <1>8
<1>10. \A i \in 1..Len(ss) : \A k \in 1..Len(ss[i]) :
         1 + off[i - 1] + k \in DOMAIN ms /\ ms[1 + off[i - 1] + k] = ss[i][k]
  BY <1>7
<1>11. \A i \in 1..Len(ss) : off[i] = off[i - 1] + Len(ss[i])
  BY <1>3
<1>12. Layout(ss, ms, off)
  BY <1>6, <1>9, <1>10, <1>11 DEF Layout
<1>13. QED
  BY <1>12

\* What a turn of the client becomes: its results, and nothing a model says.
OfClient(ms, b) ==
    /\ Len(ResultsIn(b)) \in Nat /\ Len(ResultsIn(b)) <= Len(ms)
    /\ \A k \in 1..Len(ms) : ms[k].role # "assistant"
    /\ \A k \in 1..Len(ms) : ms[k].role = "tool" <=> k <= Len(ResultsIn(b))
    /\ \A k \in 1..Len(ResultsIn(b)) : ms[k].answers = ResultsIn(b)[k]

\* What a turn of a model becomes.
OfModel(ms, b, model, thinks) ==
    /\ Len(ms) = 1 /\ ms[1].role = "assistant"
    /\ ms[1].calls = CallsIn(b)
    /\ ms[1].reasoning = Reasoning(b, model, thinks)

LEMMA TurnShape ==
    ASSUME Turns(history, replies), NEW model, NEW thinks, NEW ss, ss = Turned(model, thinks),
           NEW i \in 1..Len(history), NEW b, b = history[i].blocks
    PROVE  /\ i % 2 = 1 => OfClient(ss[i], b)
           /\ i % 2 = 0 => OfModel(ss[i], b, model, thinks)
           /\ i % 2 = 0 \/ i % 2 = 1
           /\ b \in Seq(Blocks)
<1> DEFINE s == ss[i]
           n == Len(ResultsIn(b))
           r == replies[i \div 2]
<1>1. b \in Seq(Blocks) /\ (i % 2 = 0 \/ i % 2 = 1)
  BY TurnedFacts
<1>2. ASSUME i % 2 = 1
      PROVE  OfClient(s, b)
  <2>1. s = TransformUserMessage(b)
    BY <1>2, TurnedFacts
  <2>2. n = Len(ResultsIn(b))
    OBVIOUS
  <2> HIDE DEF s, n
  <2>3. /\ n \in Nat /\ n <= Len(s)
        /\ \A k \in 1..Len(s) : s[k].role # "assistant"
        /\ \A k \in 1..Len(s) : s[k].role = "tool" <=> k <= n
        /\ \A k \in 1..n : s[k].answers = ResultsIn(b)[k]
    BY <1>1, <2>1, <2>2, UserMessageFacts
  <2>4. QED
    BY <2>2, <2>3 DEF OfClient
<1>3. ASSUME i % 2 = 0
      PROVE  OfModel(s, b, model, thinks)
  <2>1. s = TransformAssistantMessage(b, model, thinks)
    BY <1>3, TurnedFacts
  <2>2. r \in Reply
    BY <1>3, TurnedFacts
  <2>3. ModelTurn(history, replies, i)
    BY <1>3, TurnedFacts
  <2>4. Tells(b, r)
    BY <2>3 DEF ModelTurn
  <2> HIDE DEF s, r
  <2>5. b \in Seq(Blocks) /\ r \in Reply /\ Tells(b, r)
    BY <1>1, <2>2, <2>4
  <2>6. /\ s \in Seq(Chats) /\ Len(s) = 1
        /\ s[1].role = "assistant" /\ s[1].calls = CallsIn(b)
        /\ s[1].reasoning = Reasoning(b, model, thinks)
        /\ FlatMap(s, ContentOf) = r.content
        /\ FlatMap(s, CallsOf) = r.calls
        /\ FlatMap(s, AnswerOf) = <<>>
        /\ FlatMap(s, ThoughtOf) = <<r.reasoning = "real">>
    BY <2>1, <2>5, AssistantMessageFacts
  <2>7. QED
    BY <2>6 DEF OfModel
<1>4. QED
  BY <1>1, <1>2, <1>3

\* Each answer in a request is one of the conversation's.
LEMMA AnswersSent ==
    ASSUME Turns(history, replies), NEW model, NEW thinks, NEW ss, ss = Turned(model, thinks),
           NEW ms, ms = <<Sys>> \o FlattenSeq(ss), NEW q \in DOMAIN ms, ms[q].role = "assistant"
    PROVE  \E i \in 1..Len(history) :
             /\ history[i].blocks \in Seq(Blocks)
             /\ ms[q].calls = CallsIn(history[i].blocks)
             /\ ms[q].reasoning = Reasoning(history[i].blocks, model, thinks)
<1>1. ss \in Seq(Seq(Chats)) /\ Len(ss) = Len(history)
  BY TurnedFacts
<1>2. PICK off : Layout(ss, ms, off)
  BY <1>1, LaidOut
<1>3. ms[q] # Sys
  BY SysFacts
<1>4. PICK i \in 1..Len(ss) : \E k \in 1..Len(ss[i]) : q = 1 + off[i - 1] + k
  BY <1>2, <1>3 DEF Layout
<1>5. PICK k \in 1..Len(ss[i]) : q = 1 + off[i - 1] + k
  BY <1>4
<1>6. ms[q] = ss[i][k]
  BY <1>2, <1>5 DEF Layout
<1> DEFINE b == history[i].blocks
<1>7. i \in 1..Len(history) /\ b = history[i].blocks
  BY <1>1
<1> HIDE DEF b
<1>8. /\ i % 2 = 1 => OfClient(ss[i], b)
      /\ i % 2 = 0 => OfModel(ss[i], b, model, thinks)
      /\ i % 2 = 0 \/ i % 2 = 1
      /\ b \in Seq(Blocks)
  BY <1>7, TurnShape
<1>9. /\ Len(ss[i]) = 1 /\ ss[i][1].calls = CallsIn(b)
      /\ ss[i][1].reasoning = Reasoning(b, model, thinks)
  BY <1>6, <1>8 DEF OfClient, OfModel
<1>10. k = 1
  BY <1>9
<1>11. QED
  BY <1>6, <1>7, <1>8, <1>9, <1>10

\* A model that validates reasoning_content is sent what it asks for, whichever
\* models answered before and whatever thinking the client has dropped: the
\* placeholders of request.go:286-312 go with the field "thinking" of
\* request.go:88-112.  Only a DeepSeek model whose configuration has neither
\* field, in a history without thinking, is told nothing (request.go:111).
THEOREM ReasoningIsAsRequired == Spec => []ReasoningAsRequired
<1>1. ASSUME IInv, Translated
      PROVE  /\ sent.model \in DeepSeekModels =>
                  \/ /\ sent.thinking = "enabled"
                     /\ \A q \in DOMAIN sent.messages :
                          sent.messages[q].role = "assistant" => sent.messages[q].reasoning # "none"
                  \/ sent.thinking = "disabled" /\ ~sent.effort
                  \/ LeftToDecide
             /\ sent.model \in KimiModels =>
                  \A q \in DOMAIN sent.messages :
                    sent.messages[q].role = "assistant" =>
                      (sent.messages[q].calls # <<>> => sent.messages[q].reasoning # "none")
  <2> DEFINE model == chain[1].id
             thinks == HasThinkingBlocks(history)
             ss == Turned(model, thinks)
             ms == sent.messages
  <2>1. Turns(history, replies)
    BY <1>1, SentFacts
  <2>2. /\ ms = <<Sys>> \o FlattenSeq(ss) /\ sent.model = model
        /\ sent.thinking = Thinking(history, chain[1])
        /\ sent.effort = SetsEffort(history, chain[1])
    BY <1>1, SentFacts
  <2>3. sent.thinking = "enabled" => thinks
    BY <2>2 DEF Thinking
  <2>4. sent.model \in DeepSeekModels /\ sent.thinking = "disabled" => ~sent.effort
    BY <2>2 DEF SetsEffort
  <2>8. \/ sent.thinking \in {"enabled", "disabled"}
        \/ LeftToDecide
    <3>1. chain[1] \in ModelConfig
      BY <1>1, SentFacts
    <3>2. chain[1].thinking \in {"unset", "enabled", "disabled"} /\ chain[1].effort \in BOOLEAN
      BY <3>1 DEF ModelConfig, Modes
    <3>3. CASE HasThinkingBlocks(history)
      BY <2>2, <3>2, <3>3 DEF Thinking
    <3>4. CASE ~HasThinkingBlocks(history)
      BY <2>2, <3>2, <3>4 DEF Thinking, SetsEffort, LeftToDecide
    <3>5. QED
      BY <3>3, <3>4
  <2> HIDE DEF thinks, model
  <2>5. ss = Turned(model, thinks)
    OBVIOUS
  <2> HIDE DEF ss, ms
  <2>6. ASSUME NEW q \in DOMAIN ms, ms[q].role = "assistant"
        PROVE  /\ sent.model \in DeepSeekModels /\ sent.thinking = "enabled" =>
                    ms[q].reasoning # "none"
               /\ sent.model \in KimiModels /\ ms[q].calls # <<>> => ms[q].reasoning # "none"
    <3>1. PICK i \in 1..Len(history) :
            /\ history[i].blocks \in Seq(Blocks)
            /\ ms[q].calls = CallsIn(history[i].blocks)
            /\ ms[q].reasoning = Reasoning(history[i].blocks, model, thinks)
      BY <2>1, <2>2, <2>5, <2>6, AnswersSent, SMTT(30)
    <3> DEFINE b == history[i].blocks
    <3>2. b \in Seq(Blocks) /\ ms[q].calls = CallsIn(b) /\ ms[q].reasoning = Reasoning(b, model, thinks)
      BY <3>1
    <3> HIDE DEF b
    <3>3. CallsIn(b) # <<>> => OfTypes(b, {"tool_use"}) # <<>>
      BY <3>2, OfTypesType, IdsFacts DEF CallsIn
    <3>4. model \in DeepSeekModels /\ thinks => Reasoning(b, model, thinks) # "none"
      BY DEF Reasoning
    <3>5. model \in KimiModels /\ OfTypes(b, {"tool_use"}) # <<>> => Reasoning(b, model, thinks) # "none"
      BY DEF Reasoning
    <3>6. QED
      BY <2>2, <2>3, <3>2, <3>3, <3>4, <3>5
  <2>7. QED
    BY <2>4, <2>6, <2>8 DEF ms
<1>2. IInv => ReasoningAsRequired
  BY <1>1 DEF ReasoningAsRequired
<1>3. QED
  BY <1>2, SpecIInv, PTL

\* The calls that the messages behind a message answer.
AnswersBehind(ms, q) == {ms[q + k].answers : k \in 1..Len(ms[q].calls)}

\* The results of the client's next turn come right behind a message with calls.
LEMMA CallsFollowed ==
    ASSUME Turns(history, replies), Len(history) % 2 = 1, NEW model, NEW thinks,
           NEW ss, ss = Turned(model, thinks), NEW ms, ms = <<Sys>> \o FlattenSeq(ss),
           NEW q \in DOMAIN ms, HasCalls(ms[q])
    PROVE  /\ q + Len(ms[q].calls) <= Len(ms)
           /\ ToSet(ms[q].calls) = AnswersBehind(ms, q)
<1>1. /\ ss \in Seq(Seq(Chats)) /\ Len(ss) = Len(history) /\ Len(history) \in Nat
  BY TurnedFacts
<1>2. PICK off : Layout(ss, ms, off)
  BY <1>1, LaidOut
<1>3. ms[q] # Sys /\ ms[q].role = "assistant"
  BY SysFacts DEF HasCalls
<1>4. PICK i \in 1..Len(ss) : \E k \in 1..Len(ss[i]) : q = 1 + off[i - 1] + k
  BY <1>2, <1>3 DEF Layout
<1>5. PICK j \in 1..Len(ss[i]) : q = 1 + off[i - 1] + j
  BY <1>4
<1>6. ms[q] = ss[i][j]
  BY <1>2, <1>5 DEF Layout
<1> DEFINE b == history[i].blocks
           c == history[i + 1].blocks
           n == Len(ResultsIn(c))
<1>7. i \in 1..Len(history) /\ b = history[i].blocks /\ i \in Nat
  BY <1>1
<1> HIDE DEF b
<1>8. i % 2 = 0
  <2>1. (i % 2 = 1 => OfClient(ss[i], b)) /\ (i % 2 = 0 \/ i % 2 = 1)
    BY <1>7, TurnShape
  <2>2. ~OfClient(ss[i], b)
    BY <1>3, <1>6 DEF OfClient
  <2>3. QED
    BY <2>1, <2>2
<1>9. Len(ss[i]) = 1 /\ ss[i][1].calls = CallsIn(b)
  <2>1. OfModel(ss[i], b, model, thinks)
    BY <1>7, <1>8, TurnShape
  <2>2. QED
    BY <2>1 DEF OfModel
<1>10. i # Len(history)
  BY <1>8
<1>11. /\ i + 1 \in 1..Len(history) /\ c = history[i + 1].blocks /\ (i + 1) % 2 = 1
       /\ i + 1 # 1 /\ (i + 1) - 1 = i
  <2>1. (i + 1) % 2 = 1
    BY <1>7, <1>8, Parity
  <2>2. i + 1 \in 1..Len(history)
    BY <1>1, <1>7, <1>10
  <2>3. QED
    BY <1>7, <2>1, <2>2
<1> HIDE DEF c
<1>12. /\ n \in Nat /\ n <= Len(ss[i + 1])
       /\ \A k \in 1..n : ss[i + 1][k].answers = ResultsIn(c)[k]
       /\ c \in Seq(Blocks)
  <2> DEFINE d == i + 1
  <2>1. d \in 1..Len(history) /\ c = history[d].blocks /\ d % 2 = 1
    BY <1>11
  <2> HIDE DEF d
  <2>2. OfClient(ss[d], c) /\ c \in Seq(Blocks)
    BY <2>1, TurnShape
  <2>3. QED
    BY <2>2 DEF OfClient, d
<1>13. Answering(ResultsIn(c), CallsIn(b))
  <2>1. UserTurn(history, i + 1)
    BY <1>11, TurnedFacts
  <2>2. QED
    BY <1>7, <1>11, <2>1 DEF UserTurn
<1>14. /\ ms[q].calls = CallsIn(b) /\ Len(CallsIn(b)) = n
       /\ ToSet(CallsIn(b)) = ToSet(ResultsIn(c))
  BY <1>6, <1>9, <1>13 DEF Answering
<1>15. off[i] = off[i - 1] + 1 /\ q = 1 + off[i] /\ q \in Nat
  <2>1. off[i - 1] \in Nat /\ off[i] = off[i - 1] + Len(ss[i])
    BY <1>2 DEF Layout
  <2>2. j = 1
    BY <1>9
  <2>3. QED
    BY <1>5, <1>9, <2>1, <2>2
<1>16. Len(ms) \in Nat /\ DOMAIN ms = 1..Len(ms)
  BY <1>1, BehindSys, LenProperties
<1>17. ASSUME NEW k \in 1..n
       PROVE  q + k \in 1..Len(ms) /\ ms[q + k].answers = ResultsIn(c)[k]
  <2>1. k \in 1..Len(ss[i + 1]) /\ i + 1 \in 1..Len(ss)
    <3>1. i + 1 \in 1..Len(ss)
      BY <1>1, <1>11
    <3>2. Len(ss[i + 1]) \in Nat
      BY <1>1, <3>1, ElementOfSeq, LenProperties
    <3>3. k \in 1..Len(ss[i + 1])
      BY <1>12, <3>2
    <3>4. QED
      BY <3>1, <3>3
  <2>2. 1 + off[(i + 1) - 1] + k \in DOMAIN ms /\ ms[1 + off[(i + 1) - 1] + k] = ss[i + 1][k]
    BY <1>2, <2>1 DEF Layout
  <2>3. QED
    BY <1>11, <1>12, <1>15, <1>16, <2>2
<1>18. q + n <= Len(ms)
  <2>1. CASE n = 0
    BY <1>15, <1>16, <2>1
  <2>2. CASE n # 0
    <3>1. n \in 1..n
      BY <1>12, <2>2
    <3>2. q + n \in 1..Len(ms)
      BY <1>17, <3>1
    <3>3. QED
      BY <1>16, <3>2
  <2>3. QED
    BY <2>1, <2>2
<1>19. ToSet(ResultsIn(c)) = {ms[q + k].answers : k \in 1..n}
  <2>1. ResultsIn(c) \in Seq(Identity)
    BY <1>12, OfTypesType, IdsFacts DEF ResultsIn
  <2>2. DOMAIN ResultsIn(c) = 1..n
    BY <2>1, LenProperties
  <2>3. ToSet(ResultsIn(c)) = {ResultsIn(c)[k] : k \in 1..n}
    BY <2>2 DEF ToSet
  <2>4. \A k \in 1..n : ms[q + k].answers = ResultsIn(c)[k]
    BY <1>17
  <2>5. {ResultsIn(c)[k] : k \in 1..n} = {ms[q + k].answers : k \in 1..n}
    <3> HIDE DEF n
    <3>1. QED
      BY <2>4, Zenon
  <2>6. QED
    BY <2>3, <2>5
<1>20. AnswersBehind(ms, q) = {ms[q + k].answers : k \in 1..n}
  BY <1>14 DEF AnswersBehind
<1>21. QED
  BY <1>14, <1>18, <1>19, <1>20

\* A result comes only behind the calls it answers one of.
LEMMA ResultsBehindCalls ==
    ASSUME Turns(history, replies), NEW model, NEW thinks,
           NEW ss, ss = Turned(model, thinks), NEW ms, ms = <<Sys>> \o FlattenSeq(ss),
           NEW q \in DOMAIN ms, ms[q].role = "tool"
    PROVE  \E j \in 1..(q - 1) : HasCalls(ms[j]) /\ q <= j + Len(ms[j].calls)
<1>1. /\ ss \in Seq(Seq(Chats)) /\ Len(ss) = Len(history) /\ Len(history) \in Nat
  BY TurnedFacts
<1>2. PICK off : Layout(ss, ms, off)
  BY <1>1, LaidOut
<1>3. ms[q] # Sys
  BY SysFacts
<1>4. PICK i \in 1..Len(ss) : \E k \in 1..Len(ss[i]) : q = 1 + off[i - 1] + k
  BY <1>2, <1>3 DEF Layout
<1>5. PICK k \in 1..Len(ss[i]) : q = 1 + off[i - 1] + k
  BY <1>4
<1>6. ms[q] = ss[i][k]
  BY <1>2, <1>5 DEF Layout
<1> DEFINE b == history[i].blocks
           c == history[i - 1].blocks
           n == Len(ResultsIn(b))
           j == 1 + off[i - 1]
<1>7. i \in 1..Len(history) /\ b = history[i].blocks /\ i \in Nat
  BY <1>1
<1> HIDE DEF b
<1>8. i % 2 = 1
  <2>1. (i % 2 = 0 => OfModel(ss[i], b, model, thinks)) /\ (i % 2 = 0 \/ i % 2 = 1)
    BY <1>7, TurnShape
  <2>2. ~OfModel(ss[i], b, model, thinks)
    BY <1>6 DEF OfModel
  <2>3. QED
    BY <2>1, <2>2
<1>9. n \in Nat /\ k <= n
  <2>1. OfClient(ss[i], b)
    BY <1>7, <1>8, TurnShape
  <2>2. QED
    BY <1>6, <2>1 DEF OfClient
<1>10. Answering(ResultsIn(b), IF i = 1 THEN <<>> ELSE CallsIn(c))
  <2>1. UserTurn(history, i)
    BY <1>7, <1>8, TurnedFacts
  <2>2. QED
    BY <1>7, <2>1 DEF UserTurn
<1>11. k \in Nat /\ k >= 1
  BY <1>1, ElementOfSeq, LenProperties
<1>12. i # 1
  <2>1. ASSUME i = 1 PROVE FALSE
    <3>1. n = Len(<<>>)
      BY <1>10, <2>1 DEF Answering
    <3>2. n = 0
      BY <3>1
    <3>3. QED
      BY <1>9, <1>11, <3>2
  <2>2. QED
    BY <2>1
<1>13. Len(CallsIn(c)) = n
  BY <1>10, <1>12 DEF Answering
<1>14. /\ i - 1 \in 1..Len(history) /\ i - 1 \in 1..Len(ss)
       /\ (i - 1) % 2 = 0 /\ c = history[i - 1].blocks
  <2>1. i - 1 \in 1..Len(history)
    BY <1>1, <1>7, <1>12
  <2>2. (i - 1) % 2 = 0
    <3>1. i - 1 \in Nat /\ (i - 1) + 1 = i
      BY <1>7, <1>12
    <3>2. (i - 1) % 2 = 0 \/ (i - 1) % 2 = 1
      BY <3>1, Parity
    <3>3. (i - 1) % 2 = 1 => ((i - 1) + 1) % 2 = 0
      BY <3>1, Parity
    <3>4. QED
      BY <1>8, <3>1, <3>2, <3>3
  <2>3. QED
    BY <1>1, <2>1, <2>2
<1> HIDE DEF c
<1>15. /\ Len(ss[i - 1]) = 1 /\ ss[i - 1][1].role = "assistant"
       /\ ss[i - 1][1].calls = CallsIn(c)
  <2> DEFINE d == i - 1
  <2>1. d \in 1..Len(history) /\ c = history[d].blocks /\ d % 2 = 0
    BY <1>14
  <2> HIDE DEF d
  <2>2. OfModel(ss[d], c, model, thinks)
    BY <2>1, TurnShape
  <2>3. QED
    BY <2>2 DEF OfModel, d
<1>16. /\ off[i - 1] \in Nat /\ off[(i - 1) - 1] \in Nat
       /\ off[i - 1] = off[(i - 1) - 1] + 1
  <2> DEFINE d == i - 1
  <2>1. d \in 1..Len(ss) /\ Len(ss[d]) = 1
    BY <1>14, <1>15
  <2> HIDE DEF d
  <2>2. off[d] \in Nat /\ off[d - 1] \in Nat /\ off[d] = off[d - 1] + Len(ss[d])
    BY <1>2, <2>1 DEF Layout
  <2>3. QED
    BY <2>1, <2>2 DEF d
<1>17. /\ 1 + off[(i - 1) - 1] + 1 \in DOMAIN ms
       /\ ms[1 + off[(i - 1) - 1] + 1] = ss[i - 1][1]
  <2>1. 1 \in 1..Len(ss[i - 1])
    BY <1>15
  <2>2. QED
    BY <1>2, <1>14, <2>1 DEF Layout
<1>18. j = 1 + off[(i - 1) - 1] + 1
  BY <1>16
<1>19. ms[j] = ss[i - 1][1]
  BY <1>17, <1>18
<1>20. HasCalls(ms[j]) /\ Len(ms[j].calls) = n
  <2>1. CallsIn(c) # <<>>
    <3>1. CASE CallsIn(c) = <<>>
      <4>1. n = 0
        BY <1>13, <3>1
      <4>2. QED
        BY <1>9, <1>11, <4>1
    <3>2. QED
      BY <3>1
  <2>2. QED
    BY <1>13, <1>15, <1>19, <2>1 DEF HasCalls
<1>21. j \in 1..(q - 1) /\ q <= j + n
  <2>1. j \in Nat /\ j >= 1 /\ q = j + k
    <3> DEFINE o == off[i - 1]
    <3>1. o \in Nat /\ q = 1 + o + k /\ j = 1 + o
      BY <1>5, <1>16
    <3> HIDE DEF o, j
    <3>2. QED
      BY <1>11, <3>1
  <2> HIDE DEF j, n
  <2>2. QED
    BY <1>9, <1>11, <2>1
<1>22. QED
  BY <1>20, <1>21

\* Right after a message with tool calls come their answers, all of them and
\* nothing else, and no answer comes anywhere else, as OpenAI's format asks,
\* however the client mixed results and text (request.go:178-235).
THEOREM ToolCallsAreAnswered == Spec => []ToolCallsAnswered
<1>1. ASSUME IInv, Translated
      PROVE  /\ \A q \in DOMAIN sent.messages : HasCalls(sent.messages[q]) =>
                  /\ q + Len(sent.messages[q].calls) <= Len(sent.messages)
                  /\ ToSet(sent.messages[q].calls)
                       = {sent.messages[q + k].answers : k \in 1..Len(sent.messages[q].calls)}
             /\ \A q \in DOMAIN sent.messages : sent.messages[q].role = "tool" =>
                  \E j \in 1..(q - 1) :
                    HasCalls(sent.messages[j]) /\ q <= j + Len(sent.messages[j].calls)
  <2> DEFINE model == chain[1].id
             thinks == HasThinkingBlocks(history)
             ss == Turned(model, thinks)
             ms == sent.messages
  <2>1. Turns(history, replies) /\ Len(history) % 2 = 1
    BY <1>1, SentFacts
  <2>2. ms = <<Sys>> \o FlattenSeq(ss)
    BY <1>1, SentFacts
  <2> HIDE DEF thinks, model
  <2>3. ss = Turned(model, thinks)
    OBVIOUS
  <2> HIDE DEF ss, ms
  <2>4. ASSUME NEW q \in DOMAIN ms, HasCalls(ms[q])
        PROVE  /\ q + Len(ms[q].calls) <= Len(ms)
               /\ ToSet(ms[q].calls) = {ms[q + k].answers : k \in 1..Len(ms[q].calls)}
    <3>1. q + Len(ms[q].calls) <= Len(ms)
      BY <2>1, <2>2, <2>3, <2>4, CallsFollowed
    <3>2. ToSet(ms[q].calls) = AnswersBehind(ms, q)
      BY <2>1, <2>2, <2>3, <2>4, CallsFollowed
    <3>3. QED
      BY <3>1, <3>2 DEF AnswersBehind
  <2>5. ASSUME NEW q \in DOMAIN ms, ms[q].role = "tool"
        PROVE  \E j \in 1..(q - 1) : HasCalls(ms[j]) /\ q <= j + Len(ms[j].calls)
    BY <2>1, <2>2, <2>3, <2>5, ResultsBehindCalls
  <2>6. QED
    BY <2>4, <2>5 DEF ms
<1>2. IInv => ToolCallsAnswered
  BY <1>1 DEF ToolCallsAnswered
<1>3. QED
  BY <1>2, SpecIInv, PTL
=============================================================================
