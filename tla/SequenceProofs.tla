----------------------------- MODULE SequenceProofs -----------------------------
(***************************************************************************)
(* Facts about sequences that the proofs about the models share: induction *)
(* over the natural numbers as a fact about a set, what Append, Front and  *)
(* \o make of sequences of anything, and FlattenSeq.                       *)
(***************************************************************************)
EXTENDS Integers, Sequences, SequencesExt, WellFoundedInduction, TLAPS

(* A sequence, by its elements, whatever they are. *)
IsSeq(s) == Len(s) \in Nat /\ s = [k \in 1 .. Len(s) |-> s[k]]

(* A set that has zero and, with each number, the next. *)
LEMMA SetInduction ==
  ASSUME NEW S, 0 \in S, \A n \in Nat : n \in S => n + 1 \in S
  PROVE  \A n \in Nat : n \in S
<1> DEFINE R == OpToRel(<, Nat)
           T == {n \in Nat : n \notin S}
<1>1. IsWellFoundedOn(R, Nat)
  BY NatLessThanWellFounded
<1>2. \A x, y \in Nat : y < x => <<y, x>> \in R
  BY DEF OpToRel
<1> HIDE DEF R
<1> SUFFICES ASSUME T # {} PROVE FALSE
  OBVIOUS
<1>3. T \subseteq Nat
  OBVIOUS
<1> HIDE DEF T
<1>4. \E x \in T : \A y \in T : ~(<<y, x>> \in R)
  BY <1>1, <1>3, WFMin
<1>5. PICK x \in T : \A y \in T : ~(<<y, x>> \in R)
  BY <1>4
<1>6. x \in Nat /\ x # 0
  BY DEF T
<1>7. x - 1 \in Nat /\ x - 1 < x
  BY <1>6
<1>8. x - 1 \notin T
  BY <1>2, <1>5, <1>6, <1>7
<1>9. x - 1 \in S
  BY <1>7, <1>8 DEF T
<1>10. (x - 1) + 1 \in S
  BY <1>7, <1>9
<1> QED
  BY <1>5, <1>6, <1>10 DEF T

(* A set of numbers that has one has a least one. *)
LEMMA LeastExists ==
  ASSUME NEW S, S \subseteq Nat, S # {}
  PROVE  \E n \in S : \A k \in S : n <= k
<1> DEFINE T == {n \in Nat : \A k \in S : n <= k}
<1>1. 0 \in T
  OBVIOUS
<1>2. SUFFICES ASSUME \A n \in T : n \notin S PROVE FALSE
  OBVIOUS
<1>3. \A n \in Nat : n \in T => n + 1 \in T
  BY <1>2
<1> HIDE DEF T
<1>4. \A n \in Nat : n \in T
  BY <1>1, <1>3, SetInduction
<1>5. PICK k : k \in S
  OBVIOUS
<1>6. k \in Nat /\ k + 1 \in Nat /\ ~(k + 1 <= k)
  BY <1>5
<1> QED
  BY <1>4, <1>5, <1>6 DEF T

LEMMA AppendFacts ==
  ASSUME NEW s, IsSeq(s), NEW x
  PROVE  /\ IsSeq(Append(s, x)) /\ Len(Append(s, x)) = Len(s) + 1
         /\ Append(s, x)[Len(s) + 1] = x
         /\ \A k \in 1 .. Len(s) : Append(s, x)[k] = s[k]
<1>1. PICK T : T = {s[k] : k \in 1 .. Len(s)} \cup {x}
  OBVIOUS
<1>2. s \in Seq(T) /\ x \in T
  BY <1>1 DEF IsSeq
<1>3. Append(s, x) \in Seq(T) /\ Len(Append(s, x)) = Len(s) + 1
  BY <1>2
<1>4. \A t \in Seq(T) : IsSeq(t)
  BY DEF IsSeq
<1>5. Append(s, x)[Len(s) + 1] = x /\ \A k \in 1 .. Len(s) : Append(s, x)[k] = s[k]
  BY <1>2
<1> QED
  BY <1>3, <1>4, <1>5

LEMMA FrontFacts ==
  ASSUME NEW s, IsSeq(s), s # <<>>
  PROVE  /\ IsSeq(Front(s)) /\ Len(Front(s)) = Len(s) - 1 /\ Len(s) > 0
         /\ \A k \in 1 .. Len(s) - 1 : Front(s)[k] = s[k]
         /\ Last(s) = s[Len(s)]
<1>1. PICK T : T = {s[k] : k \in 1 .. Len(s)}
  OBVIOUS
<1>2. s \in Seq(T) /\ Len(s) \in Nat
  BY <1>1 DEF IsSeq
<1>3. Len(s) > 0
  BY <1>2
<1>4. Front(s) = [k \in 1 .. Len(s) - 1 |-> s[k]] /\ Front(s) \in Seq(T)
  BY <1>2, <1>3 DEF Front
<1> QED
  BY <1>2, <1>3, <1>4 DEF IsSeq, Last

--------------------------------------------------------------------------------
(* One sequence behind another.                                            *)
LEMMA ConcatFacts ==
  ASSUME NEW s, IsSeq(s), NEW t, IsSeq(t)
  PROVE  /\ IsSeq(s \o t) /\ Len(s \o t) = Len(s) + Len(t)
         /\ \A k \in 1 .. Len(s) : (s \o t)[k] = s[k]
         /\ \A k \in 1 .. Len(t) : (s \o t)[Len(s) + k] = t[k]
<1>1. PICK T : T = {s[k] : k \in 1 .. Len(s)} \cup {t[k] : k \in 1 .. Len(t)}
  OBVIOUS
<1>2. s \in Seq(T) /\ t \in Seq(T) /\ Len(s) \in Nat /\ Len(t) \in Nat
  BY <1>1 DEF IsSeq
<1>3. s \o t \in Seq(T) /\ Len(s \o t) = Len(s) + Len(t)
  BY <1>2
<1>4. \A u \in Seq(T) : IsSeq(u)
  BY DEF IsSeq
<1>5. \A k \in 1 .. Len(s) + Len(t) : (s \o t)[k] = IF k <= Len(s) THEN s[k] ELSE t[k - Len(s)]
  BY <1>2
<1>6. \A k \in 1 .. Len(s) : k \in 1 .. Len(s) + Len(t) /\ k <= Len(s)
  BY <1>2
<1>7. ASSUME NEW k \in 1 .. Len(t) PROVE (s \o t)[Len(s) + k] = t[k]
  <2>1. Len(s) + k \in 1 .. Len(s) + Len(t) /\ ~(Len(s) + k <= Len(s)) /\ (Len(s) + k) - Len(s) = k
    BY <1>2
  <2> QED
    BY <1>5, <2>1
<1> QED
  BY <1>3, <1>4, <1>5, <1>6, <1>7

(* Two sequences of one length are one if their elements are.              *)
LEMMA SameSeq ==
  ASSUME NEW s, IsSeq(s), NEW t, IsSeq(t), Len(s) = Len(t), \A k \in 1 .. Len(s) : s[k] = t[k]
  PROVE  s = t
<1>1. s = [k \in 1 .. Len(s) |-> s[k]] /\ t = [k \in 1 .. Len(s) |-> t[k]]
  BY DEF IsSeq
<1> QED
  BY <1>1

LEMMA NothingIsSeq ==
  ASSUME NEW s, s = <<>>
  PROVE  IsSeq(s) /\ Len(s) = 0
<1>1. Len(s) = 0
  OBVIOUS
<1>2. s = [k \in 1 .. 0 |-> s[k]]
  OBVIOUS
<1>3. IsSeq(s)
  BY <1>1, <1>2 DEF IsSeq
<1> QED
  BY <1>1, <1>3

LEMMA ZeroLength == ASSUME NEW s, IsSeq(s) PROVE s = <<>> <=> Len(s) = 0
BY DEF IsSeq

LEMMA ConcatEmpty ==
  ASSUME NEW s, IsSeq(s)
  PROVE  s \o <<>> = s /\ <<>> \o s = s
<1>1. Len(s) \in Nat
  BY DEF IsSeq
<1>2. s \o <<>> = s
  <2>1. IsSeq(s \o <<>>) /\ Len(s \o <<>>) = Len(s) /\ \A k \in 1 .. Len(s) : (s \o <<>>)[k] = s[k]
    BY <1>1, ConcatFacts, NothingIsSeq
  <2> QED
    BY <2>1, SameSeq
<1>3. <<>> \o s = s
  <2>1. IsSeq(<<>> \o s) /\ Len(<<>> \o s) = Len(s) /\ \A k \in 1 .. Len(s) : (<<>> \o s)[0 + k] = s[k]
    BY <1>1, ConcatFacts, NothingIsSeq
  <2>2. \A k \in 1 .. Len(s) : 0 + k = k
    BY <1>1
  <2> QED
    BY <1>1, <2>1, <2>2, SameSeq
<1> QED
  BY <1>2, <1>3

LEMMA AppendConcat ==
  ASSUME NEW s, IsSeq(s), NEW t, IsSeq(t), NEW x
  PROVE  /\ s \o <<x>> = Append(s, x)
         /\ s \o Append(t, x) = Append(s \o t, x)
<1>1. Len(s) \in Nat /\ Len(t) \in Nat
  BY DEF IsSeq
<1>2. IsSeq(<<x>>) /\ Len(<<x>>) = 1 /\ <<x>>[1] = x
  BY DEF IsSeq
<1>3. s \o <<x>> = Append(s, x)
  <2>1. /\ IsSeq(s \o <<x>>) /\ Len(s \o <<x>>) = Len(s) + 1
        /\ \A k \in 1 .. Len(s) : (s \o <<x>>)[k] = s[k]
        /\ (s \o <<x>>)[Len(s) + 1] = x
    BY <1>2, ConcatFacts
  <2>2. /\ IsSeq(Append(s, x)) /\ Len(Append(s, x)) = Len(s) + 1
        /\ Append(s, x)[Len(s) + 1] = x
        /\ \A k \in 1 .. Len(s) : Append(s, x)[k] = s[k]
    BY AppendFacts
  <2>3. \A k \in 1 .. Len(s) + 1 : k \in 1 .. Len(s) \/ k = Len(s) + 1
    BY <1>1
  <2>4. \A k \in 1 .. Len(s) + 1 : (s \o <<x>>)[k] = Append(s, x)[k]
    BY <2>1, <2>2, <2>3
  <2> QED
    BY <2>1, <2>2, <2>4, SameSeq
<1>4. s \o Append(t, x) = Append(s \o t, x)
  <2>1. /\ IsSeq(Append(t, x)) /\ Len(Append(t, x)) = Len(t) + 1
        /\ Append(t, x)[Len(t) + 1] = x
        /\ \A k \in 1 .. Len(t) : Append(t, x)[k] = t[k]
    BY AppendFacts
  <2>2. /\ IsSeq(s \o t) /\ Len(s \o t) = Len(s) + Len(t)
        /\ \A k \in 1 .. Len(s) : (s \o t)[k] = s[k]
        /\ \A k \in 1 .. Len(t) : (s \o t)[Len(s) + k] = t[k]
    BY ConcatFacts
  <2>3. /\ IsSeq(Append(s \o t, x)) /\ Len(Append(s \o t, x)) = Len(s) + Len(t) + 1
        /\ Append(s \o t, x)[Len(s) + Len(t) + 1] = x
        /\ \A k \in 1 .. Len(s) + Len(t) : Append(s \o t, x)[k] = (s \o t)[k]
    BY <2>2, AppendFacts
  <2>4. /\ IsSeq(s \o Append(t, x)) /\ Len(s \o Append(t, x)) = Len(s) + (Len(t) + 1)
        /\ \A k \in 1 .. Len(s) : (s \o Append(t, x))[k] = s[k]
        /\ \A k \in 1 .. Len(t) + 1 : (s \o Append(t, x))[Len(s) + k] = Append(t, x)[k]
    BY <2>1, ConcatFacts
  <2>5. ASSUME NEW k \in 1 .. Len(s) + Len(t) + 1 PROVE (s \o Append(t, x))[k] = Append(s \o t, x)[k]
    <3>1. CASE k \in 1 .. Len(s)
      <4>1. k \in 1 .. Len(s) + Len(t)
        BY <1>1, <3>1
      <4> QED
        BY <2>2, <2>3, <2>4, <3>1, <4>1
    <3>2. CASE k \notin 1 .. Len(s)
      <4>1. PICK j \in 1 .. Len(t) + 1 : k = Len(s) + j
        <5>1. k - Len(s) \in 1 .. Len(t) + 1 /\ k = Len(s) + (k - Len(s))
          BY <1>1, <3>2
        <5> QED
          BY <5>1
      <4>2. CASE j = Len(t) + 1
        <5>1. k = Len(s) + Len(t) + 1
          BY <1>1, <4>1, <4>2
        <5> QED
          BY <2>1, <2>3, <2>4, <4>1, <4>2, <5>1
      <4>3. CASE j # Len(t) + 1
        <5>1. j \in 1 .. Len(t) /\ Len(s) + j \in 1 .. Len(s) + Len(t)
          BY <1>1, <4>3
        <5> QED
          BY <2>1, <2>2, <2>3, <2>4, <4>1, <5>1
      <4> QED
        BY <4>2, <4>3
    <3> QED
      BY <3>1, <3>2
  <2>6. Len(s) + (Len(t) + 1) = Len(s) + Len(t) + 1
    BY <1>1
  <2> QED
    BY <2>3, <2>4, <2>5, <2>6, SameSeq
<1> QED
  BY <1>3, <1>4

--------------------------------------------------------------------------------
(* FlattenSeq: what it makes of a sequence and one part more.              *)
Joins(f, ss, n) ==
  f = [i \in 1 .. n |-> IF i = 1 THEN ss[i] ELSE f[i - 1] \o ss[i]]

LEMMA JoinsExist ==
  ASSUME NEW ss
  PROVE  \A n \in Nat : \E f : Joins(f, ss, n)
<1> DEFINE S == {n \in Nat : \E f : Joins(f, ss, n)}
<1>1. 0 \in S
  <2>1. Joins([i \in 1 .. 0 |-> ss[i]], ss, 0)
    BY DEF Joins
  <2> QED
    BY <2>1
<1>2. ASSUME NEW n \in Nat, n \in S PROVE n + 1 \in S
  <2>1. PICK f : Joins(f, ss, n)
    BY <1>2
  <2>2. PICK last : last = IF n = 0 THEN ss[1] ELSE f[n] \o ss[n + 1]
    OBVIOUS
  <2>3. PICK g : g = [i \in 1 .. n + 1 |-> IF i = n + 1 THEN last ELSE f[i]]
    OBVIOUS
  <2>4. ASSUME NEW i \in 1 .. n + 1 PROVE g[i] = IF i = 1 THEN ss[i] ELSE g[i - 1] \o ss[i]
    <3>1. CASE i = n + 1
      <4>1. n = 0 => i = 1
        BY <3>1
      <4>2. n # 0 => i # 1 /\ i - 1 = n /\ n \in 1 .. n + 1 /\ n # n + 1
        BY <3>1
      <4> QED
        BY <2>2, <2>3, <3>1, <4>1, <4>2
    <3>2. CASE i # n + 1
      <4>1. i \in 1 .. n /\ (i # 1 => i - 1 \in 1 .. n /\ i - 1 \in 1 .. n + 1 /\ i - 1 # n + 1)
        BY <3>2
      <4>2. f[i] = IF i = 1 THEN ss[i] ELSE f[i - 1] \o ss[i]
        BY <2>1, <4>1 DEF Joins
      <4> QED
        BY <2>3, <3>2, <4>1, <4>2
    <3> QED
      BY <3>1, <3>2
  <2>5. Joins(g, ss, n + 1)
    BY <2>3, <2>4 DEF Joins
  <2> QED
    BY <2>5
<1> HIDE DEF S
<1>3. \A n \in Nat : n \in S
  BY <1>1, <1>2, SetInduction
<1> QED
  BY <1>3 DEF S

LEMMA FlattenIsJoined ==
  ASSUME NEW ss, IsSeq(ss), ss # <<>>
  PROVE  \E f : Joins(f, ss, Len(ss)) /\ FlattenSeq(ss) = f[Len(ss)]
<1>1. Len(ss) \in Nat /\ Len(ss) # 0
  BY ZeroLength DEF IsSeq
<1> DEFINE f == CHOOSE g : Joins(g, ss, Len(ss))
<1>2. Joins(f, ss, Len(ss))
  BY <1>1, JoinsExist
<1>3. FlattenSeq(ss) = f[Len(ss)]
  BY <1>1 DEF FlattenSeq, Joins
<1> QED
  BY <1>2, <1>3

LEMMA JoinsAgree ==
  ASSUME NEW m \in Nat, NEW n \in Nat, m <= n, NEW ss, NEW tt, NEW f, NEW g,
         Joins(f, ss, m), Joins(g, tt, n), \A i \in 1 .. m : ss[i] = tt[i]
  PROVE  \A i \in 1 .. m : f[i] = g[i]
<1> DEFINE S == {i \in Nat : i \in 1 .. m => f[i] = g[i]}
<1>1. 0 \in S
  OBVIOUS
<1>2. ASSUME NEW i \in Nat, i \in S PROVE i + 1 \in S
  <2> SUFFICES ASSUME i + 1 \in 1 .. m PROVE f[i + 1] = g[i + 1]
    OBVIOUS
  <2>1. i + 1 \in 1 .. n /\ (i + 1 # 1 => i \in 1 .. m /\ (i + 1) - 1 = i)
    OBVIOUS
  <2>2. f[i + 1] = IF i + 1 = 1 THEN ss[i + 1] ELSE f[(i + 1) - 1] \o ss[i + 1]
    BY DEF Joins
  <2>3. g[i + 1] = IF i + 1 = 1 THEN tt[i + 1] ELSE g[(i + 1) - 1] \o tt[i + 1]
    BY <2>1 DEF Joins
  <2>4. i + 1 # 1 => f[i] = g[i]
    BY <1>2, <2>1
  <2> QED
    BY <2>1, <2>2, <2>3, <2>4
<1> HIDE DEF S
<1>3. \A i \in Nat : i \in S
  BY <1>1, <1>2, SetInduction
<1> QED
  BY <1>3 DEF S

LEMMA JoinsAreSeqs ==
  ASSUME NEW n \in Nat, NEW ss, \A i \in 1 .. n : IsSeq(ss[i]), NEW f, Joins(f, ss, n)
  PROVE  \A i \in 1 .. n : IsSeq(f[i])
<1> DEFINE S == {i \in Nat : i \in 1 .. n => IsSeq(f[i])}
<1>1. 0 \in S
  OBVIOUS
<1>2. ASSUME NEW i \in Nat, i \in S PROVE i + 1 \in S
  <2> SUFFICES ASSUME i + 1 \in 1 .. n PROVE IsSeq(f[i + 1])
    OBVIOUS
  <2>1. i + 1 # 1 => i \in 1 .. n /\ (i + 1) - 1 = i
    OBVIOUS
  <2>2. f[i + 1] = IF i + 1 = 1 THEN ss[i + 1] ELSE f[(i + 1) - 1] \o ss[i + 1]
    BY DEF Joins
  <2>3. i + 1 # 1 => IsSeq(f[i])
    BY <1>2, <2>1
  <2>4. IsSeq(ss[i + 1])
    OBVIOUS
  <2>5. CASE i + 1 = 1
    BY <2>2, <2>4, <2>5
  <2>6. CASE i + 1 # 1
    <3>1. f[i + 1] = f[i] \o ss[i + 1]
      BY <2>1, <2>2, <2>6
    <3> QED
      BY <2>3, <2>4, <2>6, <3>1, ConcatFacts
  <2> QED
    BY <2>5, <2>6
<1> HIDE DEF S
<1>3. \A i \in Nat : i \in S
  BY <1>1, <1>2, SetInduction
<1> QED
  BY <1>3 DEF S

LEMMA FlattenEmpty == FlattenSeq(<<>>) = <<>>
BY NothingIsSeq DEF FlattenSeq

LEMMA FlattenIsSeq ==
  ASSUME NEW ss, IsSeq(ss), \A i \in 1 .. Len(ss) : IsSeq(ss[i])
  PROVE  IsSeq(FlattenSeq(ss))
<1>1. CASE ss = <<>>
  BY <1>1, FlattenEmpty, NothingIsSeq
<1>2. CASE ss # <<>>
  <2>1. Len(ss) \in Nat /\ Len(ss) \in 1 .. Len(ss)
    <3>1. Len(ss) \in Nat /\ Len(ss) # 0
      BY <1>2, ZeroLength DEF IsSeq
    <3> QED
      BY <3>1
  <2>2. PICK f : Joins(f, ss, Len(ss)) /\ FlattenSeq(ss) = f[Len(ss)]
    BY <1>2, FlattenIsJoined
  <2> QED
    BY <2>1, <2>2, JoinsAreSeqs
<1> QED
  BY <1>1, <1>2

LEMMA FlattenAppend ==
  ASSUME NEW ss, IsSeq(ss), \A i \in 1 .. Len(ss) : IsSeq(ss[i]), NEW x, IsSeq(x)
  PROVE  FlattenSeq(Append(ss, x)) = FlattenSeq(ss) \o x
<1> DEFINE n == Len(ss)
<1>1. PICK tt : tt = Append(ss, x)
  OBVIOUS
<1>2. n \in Nat /\ IsSeq(tt) /\ Len(tt) = n + 1 /\ tt[n + 1] = x /\ \A k \in 1 .. n : tt[k] = ss[k]
  BY <1>1, AppendFacts DEF IsSeq
<1>3. tt # <<>>
  BY <1>2, ZeroLength
<1>4. PICK g : Joins(g, tt, n + 1) /\ FlattenSeq(tt) = g[n + 1]
  BY <1>2, <1>3, FlattenIsJoined
<1>5. g[n + 1] = IF n + 1 = 1 THEN tt[n + 1] ELSE g[(n + 1) - 1] \o tt[n + 1]
  <2>1. n + 1 \in 1 .. n + 1
    BY <1>2
  <2> QED
    BY <1>4, <2>1 DEF Joins
<1>6. CASE ss = <<>>
  <2>1. n + 1 = 1
    BY <1>6, NothingIsSeq
  <2> QED
    BY <1>1, <1>2, <1>4, <1>5, <1>6, <2>1, FlattenEmpty, ConcatEmpty
<1>7. CASE ss # <<>>
  <2>1. n # 0
    BY <1>7, ZeroLength
  <2>2. n \in 1 .. n /\ n + 1 # 1 /\ (n + 1) - 1 = n /\ n <= n + 1 /\ n + 1 \in Nat
    BY <1>2, <2>1
  <2>3. PICK f : Joins(f, ss, n) /\ FlattenSeq(ss) = f[n]
    BY <1>7, FlattenIsJoined
  <2>4. \A i \in 1 .. n : f[i] = g[i]
    <3>1. \A i \in 1 .. n : ss[i] = tt[i]
      BY <1>2
    <3> HIDE DEF n
    <3> QED
      BY <1>2, <1>4, <2>2, <2>3, <3>1, JoinsAgree
  <2> QED
    BY <1>1, <1>2, <1>4, <1>5, <2>2, <2>3, <2>4
<1> QED
  BY <1>6, <1>7

LEMMA FlattenFront ==
  ASSUME NEW ss, IsSeq(ss), ss # <<>>, \A i \in 1 .. Len(ss) : IsSeq(ss[i])
  PROVE  FlattenSeq(ss) = FlattenSeq(Front(ss)) \o ss[Len(ss)]
<1>1. /\ IsSeq(Front(ss)) /\ Len(Front(ss)) = Len(ss) - 1 /\ Len(ss) > 0 /\ Len(ss) \in Nat
      /\ \A k \in 1 .. Len(ss) - 1 : Front(ss)[k] = ss[k]
  BY FrontFacts DEF IsSeq
<1>2. PICK tt : tt = Append(Front(ss), ss[Len(ss)])
  OBVIOUS
<1>3. Len(ss) \in 1 .. Len(ss) /\ \A k \in 1 .. Len(ss) - 1 : k \in 1 .. Len(ss)
  BY <1>1
<1>4. /\ IsSeq(tt) /\ Len(tt) = (Len(ss) - 1) + 1 /\ tt[(Len(ss) - 1) + 1] = ss[Len(ss)]
      /\ \A k \in 1 .. Len(ss) - 1 : tt[k] = Front(ss)[k]
  BY <1>1, <1>2, AppendFacts
<1>5. (Len(ss) - 1) + 1 = Len(ss)
  BY <1>1
<1>6. ASSUME NEW k \in 1 .. Len(ss) PROVE tt[k] = ss[k]
  <2>1. CASE k = Len(ss)
    BY <1>4, <1>5, <2>1
  <2>2. CASE k # Len(ss)
    <3>1. k \in 1 .. Len(ss) - 1
      BY <1>1, <2>2
    <3> QED
      BY <1>1, <1>4, <3>1
  <2> QED
    BY <2>1, <2>2
<1>7. tt = ss
  BY <1>4, <1>5, <1>6, SameSeq
<1>8. \A k \in 1 .. Len(Front(ss)) : IsSeq(Front(ss)[k])
  BY <1>1, <1>3
<1> QED
  BY <1>1, <1>2, <1>3, <1>7, <1>8, FlattenAppend

(* Empty parts at the end make no difference.                              *)
LEMMA FlattenTail ==
  ASSUME NEW m \in Nat, NEW n \in Nat, m <= n,
         NEW ss, IsSeq(ss), Len(ss) = m, \A i \in 1 .. m : IsSeq(ss[i]),
         NEW tt, IsSeq(tt), Len(tt) = n,
         \A i \in 1 .. n : tt[i] = IF i <= m THEN ss[i] ELSE <<>>
  PROVE  FlattenSeq(tt) = FlattenSeq(ss)
<1>1. CASE n = 0
  BY <1>1, ZeroLength
<1>2. CASE n # 0
  <2>1. tt # <<>> /\ n \in 1 .. n
    BY <1>2, ZeroLength
  <2>2. PICK g : Joins(g, tt, n) /\ FlattenSeq(tt) = g[n]
    BY <2>1, FlattenIsJoined
  <2>3. IsSeq(FlattenSeq(ss))
    BY FlattenIsSeq
  <2> DEFINE S == {i \in Nat : m <= i /\ i \in 1 .. n => g[i] = FlattenSeq(ss)}
  <2>4. 0 \in S
    OBVIOUS
  <2>5. ASSUME NEW i \in Nat, i \in S PROVE i + 1 \in S
    <3> SUFFICES ASSUME m <= i + 1, i + 1 \in 1 .. n PROVE g[i + 1] = FlattenSeq(ss)
      OBVIOUS
    <3>1. g[i + 1] = IF i + 1 = 1 THEN tt[i + 1] ELSE g[(i + 1) - 1] \o tt[i + 1]
      BY <2>2 DEF Joins
    <3>2. CASE i + 1 = m
      <4>1. ss # <<>>
        BY <3>2, ZeroLength
      <4>2. PICK f : Joins(f, ss, m) /\ FlattenSeq(ss) = f[m]
        BY <4>1, FlattenIsJoined
      <4>3. \A k \in 1 .. m : ss[k] = tt[k]
        OBVIOUS
      <4>4. \A k \in 1 .. m : f[k] = g[k]
        BY <2>2, <4>2, <4>3, JoinsAgree
      <4>5. m \in 1 .. m
        BY <3>2
      <4> QED
        BY <3>2, <4>2, <4>4, <4>5
    <3>3. CASE i + 1 # m
      <4>1. m <= i /\ tt[i + 1] = <<>>
        BY <3>3
      <4>2. CASE i = 0
        <5>1. m = 0 /\ i + 1 = 1
          BY <4>1, <4>2
        <5>2. ss = <<>>
          BY <5>1, ZeroLength
        <5> QED
          BY <3>1, <4>1, <5>1, <5>2, FlattenEmpty
      <4>3. CASE i # 0
        <5>1. i \in 1 .. n /\ i + 1 # 1 /\ (i + 1) - 1 = i
          BY <4>3
        <5>2. g[i] = FlattenSeq(ss)
          BY <2>5, <4>1, <5>1
        <5>3. g[i + 1] = FlattenSeq(ss) \o <<>>
          BY <3>1, <4>1, <5>1, <5>2
        <5> QED
          BY <2>3, <5>3, ConcatEmpty
      <4> QED
        BY <4>2, <4>3
    <3> QED
      BY <3>2, <3>3
  <2> HIDE DEF S
  <2>6. \A i \in Nat : i \in S
    BY <2>4, <2>5, SetInduction
  <2>7. g[n] = FlattenSeq(ss)
    BY <2>1, <2>6 DEF S
  <2> QED
    BY <2>2, <2>7
<1> QED
  BY <1>1, <1>2

(* The first names of a sequence of names, and one more.                   *)
LEMMA LeadingFacts ==
  ASSUME NEW s, IsSeq(s), NEW n \in 0 .. Len(s)
  PROVE  /\ IsSeq(SubSeq(s, 1, n)) /\ Len(SubSeq(s, 1, n)) = n
         /\ \A k \in 1 .. n : SubSeq(s, 1, n)[k] = s[k]
<1>1. s \in Seq({s[k] : k \in 1 .. Len(s)}) /\ Len(s) \in Nat
  BY DEF IsSeq
<1>2. SubSeq(s, 1, n) = [k \in 1 .. n |-> s[k]]
  BY <1>1
<1> QED
  BY <1>1, <1>2 DEF IsSeq

LEMMA LeadingMore ==
  ASSUME NEW s, IsSeq(s), NEW n \in Nat, n < Len(s)
  PROVE  /\ Append(SubSeq(s, 1, n), s[n + 1]) = SubSeq(s, 1, n + 1)
         /\ Front(SubSeq(s, 1, n + 1)) = SubSeq(s, 1, n)
<1>1. PICK a, b : a = SubSeq(s, 1, n) /\ b = SubSeq(s, 1, n + 1)
  OBVIOUS
<1>2. n \in 0 .. Len(s) /\ n + 1 \in 0 .. Len(s) /\ n + 1 # 0 /\ (n + 1) - 1 = n
  BY DEF IsSeq
<1>3. IsSeq(a) /\ Len(a) = n /\ \A k \in 1 .. n : a[k] = s[k]
  BY <1>1, <1>2, LeadingFacts
<1>4. IsSeq(b) /\ Len(b) = n + 1 /\ \A k \in 1 .. n + 1 : b[k] = s[k]
  BY <1>1, <1>2, LeadingFacts
<1>5. PICK c : c = Append(a, s[n + 1])
  OBVIOUS
<1>6. IsSeq(c) /\ Len(c) = n + 1 /\ c[n + 1] = s[n + 1] /\ \A k \in 1 .. n : c[k] = a[k]
  BY <1>3, <1>5, AppendFacts
<1>7. \A k \in 1 .. n + 1 : c[k] = b[k]
  BY <1>3, <1>4, <1>6
<1>8. c = b
  BY <1>4, <1>6, <1>7, SameSeq
<1>9. b # <<>>
  BY <1>2, <1>4, ZeroLength
<1>10. /\ IsSeq(Front(b)) /\ Len(Front(b)) = n /\ \A k \in 1 .. n : Front(b)[k] = b[k]
  BY <1>2, <1>4, <1>9, FrontFacts
<1>11. \A k \in 1 .. n : Front(b)[k] = a[k]
  BY <1>3, <1>4, <1>10
<1>12. Front(b) = a
  BY <1>3, <1>10, <1>11, SameSeq
<1> QED
  BY <1>1, <1>5, <1>8, <1>12
================================================================================
