----------------------------- MODULE InflateProofs -----------------------------
(***************************************************************************)
(* Proofs about inflate, for data of every length, matches of every length *)
(* and distance, windows and input buffers of every size, and writes that  *)
(* take as little as they like.                                            *)
(***************************************************************************)
EXTENDS Inflate, SequenceProofs

--------------------------------------------------------------------------------
(* What a token adds to the output.                                        *)
LEMMA TokenFacts ==
  ASSUME NEW t \in Tokens
  PROVE  t.dist \in 0 .. Window /\ t.len \in Nat /\ (t.dist = 0 => t.len = 1)
<1>1. Window \in Nat
  BY SizesAssumption
<1>2. CASE \E v \in Literals : t = Literal(v)
  BY <1>1, <1>2 DEF Literal
<1>3. CASE \E d \in 1 .. Window, l \in Lengths : t = Match(d, l)
  BY <1>1, <1>3, LengthsAssumption DEF Match
<1> QED
  BY <1>2, <1>3 DEF Tokens

LEMMA UnfoldFacts ==
  ASSUME NEW p, IsSeq(p), NEW t, t.len \in Nat
  PROVE  /\ IsSeq(Unfold(p, t)) /\ Len(Unfold(p, t)) = Len(p) + t.len
         /\ \A k \in 1 .. Len(p) : Unfold(p, t)[k] = p[k]
         /\ \A k \in 1 .. t.len : Unfold(p, t)[Len(p) + k] =
              IF t.dist = 0 THEN t.value ELSE p[Len(p) - t.dist + 1 + ((k - 1) % t.dist)]
<1>1. PICK a : a = [k \in 1 .. t.len |->
        IF t.dist = 0 THEN t.value ELSE p[Len(p) - t.dist + 1 + ((k - 1) % t.dist)]]
  OBVIOUS
<1>2. IsSeq(a) /\ Len(a) = t.len
  BY <1>1 DEF IsSeq
<1>3. Unfold(p, t) = p \o a
  BY <1>1 DEF Unfold
<1>4. \A k \in 1 .. t.len : a[k] =
        IF t.dist = 0 THEN t.value ELSE p[Len(p) - t.dist + 1 + ((k - 1) % t.dist)]
  BY <1>1
<1>5. /\ IsSeq(p \o a) /\ Len(p \o a) = Len(p) + Len(a)
      /\ \A k \in 1 .. Len(p) : (p \o a)[k] = p[k]
      /\ \A k \in 1 .. Len(a) : (p \o a)[Len(p) + k] = a[k]
  BY <1>2, ConcatFacts
<1> QED
  BY <1>2, <1>3, <1>4, <1>5

LEMMA Wraps ==
  ASSUME NEW d \in Nat, d > 0
  PROVE  /\ \A x \in 0 .. d - 1 : x % d = x
         /\ \A x \in Nat : x >= d => (x - d) % d = x % d
         /\ \A x \in Nat : x % d \in 0 .. d - 1
<1>1. ASSUME NEW x \in Int PROVE x = d * (x \div d) + (x % d) /\ x % d \in 0 .. d - 1 /\ x \div d \in Int
  OBVIOUS
<1>2. ASSUME NEW q \in Int, NEW r \in 0 .. d - 1, NEW p \in Int, NEW s \in 0 .. d - 1, d * q + r = d * p + s
      PROVE  r = s
  <2>1. d * (q - p) = s - r
    <3>1. d * q \in Int /\ d * p \in Int /\ d * (q - p) = d * q - d * p
      OBVIOUS
    <3>2. d * q - d * p = s - r
      <4>1. PICK a \in Int, b \in Int : a = d * q /\ b = d * p
        BY <3>1
      <4>2. a + r = b + s
        BY <1>2, <4>1, Zenon
      <4>3. a - b = s - r
        BY <4>2
      <4> QED
        BY <4>1, <4>3, Zenon
    <3> QED
      BY <3>1, <3>2
  <2>2. q - p \in Int /\ s - r < d /\ r - s < d
    OBVIOUS
  <2>3. q - p = 0
    <3>1. q - p >= 1 => d * (q - p) >= d
      OBVIOUS
    <3>2. q - p <= -1 => d * (q - p) <= -d
      OBVIOUS
    <3> QED
      BY <2>1, <2>2, <3>1, <3>2
  <2> QED
    BY <2>1, <2>3
<1>3. ASSUME NEW x \in 0 .. d - 1 PROVE x % d = x
  BY <1>1, <1>2
<1>4. ASSUME NEW x \in Nat, x >= d PROVE (x - d) % d = x % d
  <2>1. x = d * (x \div d) + (x % d) /\ x % d \in 0 .. d - 1 /\ x \div d \in Int
    BY <1>1
  <2>2. PICK y \in Int : y = x - d
    OBVIOUS
  <2>3. y = d * (y \div d) + (y % d) /\ y % d \in 0 .. d - 1 /\ y \div d \in Int
    BY <1>1, <2>2
  <2>4. x = d * ((y \div d) + 1) + (y % d)
    BY <2>2, <2>3
  <2>5. (y \div d) + 1 \in Int
    BY <2>3
  <2>6. x % d = y % d
    <3>1. d * (x \div d) + (x % d) = d * ((y \div d) + 1) + (y % d)
      BY <2>1, <2>4, Zenon
    <3> QED
      BY <1>2, <2>1, <2>3, <2>5, <3>1
  <2> QED
    BY <2>2, <2>6
<1> QED
  BY <1>1, <1>3, <1>4

(* A match is a copy of what lies its distance back, the part that the     *)
(* match itself has put there included.                                    *)
LEMMA MatchCopies ==
  ASSUME NEW p, IsSeq(p), NEW t, t.len \in Nat, t.dist \in 1 .. Len(p), NEW k \in 1 .. t.len
  PROVE  Unfold(p, t)[Len(p) + k] = Unfold(p, t)[Len(p) + k - t.dist]
<1>1. PICK u : u = Unfold(p, t)
  OBVIOUS
<1>2. PICK d \in Nat : d = t.dist /\ d > 0 /\ d <= Len(p)
  BY DEF IsSeq
<1>3. PICK n \in Nat : n = Len(p)
  BY DEF IsSeq
<1>4. PICK len \in Nat : len = t.len
  OBVIOUS
<1>5. /\ \A j \in 1 .. n : u[j] = p[j]
      /\ \A j \in 1 .. len : u[n + j] = p[n - d + 1 + ((j - 1) % d)]
  <2>1. /\ \A j \in 1 .. Len(p) : Unfold(p, t)[j] = p[j]
        /\ \A j \in 1 .. t.len : Unfold(p, t)[Len(p) + j] =
             IF t.dist = 0 THEN t.value ELSE p[Len(p) - t.dist + 1 + ((j - 1) % t.dist)]
    BY UnfoldFacts
  <2>2. t.dist # 0
    BY <1>2
  <2>3. \A j \in 1 .. t.len :
          Unfold(p, t)[Len(p) + j] = p[Len(p) - t.dist + 1 + ((j - 1) % t.dist)]
    BY <2>1, <2>2
  <2> QED
    BY <1>1, <1>2, <1>3, <1>4, <2>1, <2>3, Zenon
<1>6. k \in 1 .. len
  BY <1>4
<1>7. u[n + k] = u[n + k - d]
  <2>1. CASE k <= d
    <3>1. (k - 1) % d = k - 1
      <4>1. k - 1 \in 0 .. d - 1
        BY <1>6, <2>1
      <4> QED
        BY <1>2, <4>1, Wraps
    <3>2. n - d + 1 + (k - 1) = n + k - d /\ n + k - d \in 1 .. n
      BY <1>2, <1>3, <1>6, <2>1
    <3>3. u[n + k] = p[n - d + 1 + (k - 1)]
      BY <1>5, <1>6, <3>1
    <3> QED
      BY <1>5, <3>2, <3>3
  <2>2. CASE k > d
    <3>1. k - 1 \in Nat /\ k - 1 >= d
      BY <1>2, <1>6, <2>2
    <3>2. ((k - 1) - d) % d = (k - 1) % d
      BY <1>2, <3>1, Wraps
    <3>3. k - d \in 1 .. len /\ (k - d) - 1 = (k - 1) - d /\ n + (k - d) = n + k - d
      BY <1>2, <1>3, <1>6, <2>2
    <3>4. u[n + (k - d)] = p[n - d + 1 + (((k - d) - 1) % d)]
      BY <1>5, <3>3
    <3>5. u[n + k] = p[n - d + 1 + ((k - 1) % d)]
      BY <1>5, <1>6
    <3> QED
      BY <3>2, <3>3, <3>4, <3>5
  <2> QED
    BY <1>2, <1>6, <2>1, <2>2
<1> QED
  BY <1>1, <1>2, <1>3, <1>7

--------------------------------------------------------------------------------
(* The output after each number of tokens.                                 *)
Builds(f, s, n) == f = [k \in 0 .. n |-> IF k = 0 THEN <<>> ELSE Unfold(f[k - 1], s[k])]

LEMMA BuildsExist ==
  ASSUME NEW s
  PROVE  \A n \in Nat : \E f : Builds(f, s, n)
<1> DEFINE S == {n \in Nat : \E f : Builds(f, s, n)}
<1>1. 0 \in S
  <2>1. PICK f : f = [k \in 0 .. 0 |-> <<>>]
    OBVIOUS
  <2>2. Builds(f, s, 0)
    BY <2>1 DEF Builds
  <2> QED
    BY <2>2
<1>2. ASSUME NEW n \in Nat, n \in S PROVE n + 1 \in S
  <2>1. PICK f : Builds(f, s, n)
    BY <1>2
  <2>2. PICK last : last = Unfold(f[n], s[n + 1])
    OBVIOUS
  <2>3. PICK g : g = [k \in 0 .. n + 1 |-> IF k = n + 1 THEN last ELSE f[k]]
    OBVIOUS
  <2>4. ASSUME NEW k \in 0 .. n + 1
        PROVE  g[k] = IF k = 0 THEN <<>> ELSE Unfold(g[k - 1], s[k])
    <3>1. CASE k = n + 1
      <4>1. k # 0 /\ k - 1 = n /\ n \in 0 .. n + 1 /\ n # n + 1
        BY <3>1
      <4>2. g[k] = last /\ g[k - 1] = f[n]
        BY <2>3, <3>1, <4>1
      <4> QED
        BY <2>2, <3>1, <4>1, <4>2
    <3>2. CASE k # n + 1
      <4>1. k \in 0 .. n /\ (k # 0 => k - 1 \in 0 .. n /\ k - 1 \in 0 .. n + 1 /\ k - 1 # n + 1)
        BY <3>2
      <4>2. f[k] = IF k = 0 THEN <<>> ELSE Unfold(f[k - 1], s[k])
        BY <2>1, <4>1 DEF Builds
      <4>3. g[k] = f[k] /\ (k # 0 => g[k - 1] = f[k - 1])
        BY <2>3, <3>2, <4>1
      <4> QED
        BY <4>2, <4>3
    <3> QED
      BY <3>1, <3>2
  <2>5. Builds(g, s, n + 1)
    BY <2>3, <2>4 DEF Builds
  <2> QED
    BY <2>5
<1> HIDE DEF S
<1>3. \A n \in Nat : n \in S
  BY <1>1, <1>2, SetInduction
<1> QED
  BY <1>3 DEF S

(* The output so far, and its length. *)
Out(s, n) == Unfolded(s)[n]
Size(s, n) == Len(Out(s, n))

LEMMA StreamFacts ==
  ASSUME NEW s \in Streams
  PROVE  Len(s) \in Nat \ {0} /\ \A n \in 1 .. Len(s) : s[n] \in Tokens
<1>1. PICK m \in 1 .. MaxInput : s \in [1 .. m -> Tokens]
  BY DEF Streams
<1>2. m \in Nat \ {0}
  BY MaxInputAssumption
<1>3. Len(s) = m
  BY <1>1, <1>2
<1> QED
  BY <1>1, <1>2, <1>3

LEMMA OutSteps ==
  ASSUME NEW s \in Streams
  PROVE  /\ Out(s, 0) = <<>>
         /\ \A n \in 1 .. Len(s) : Out(s, n) = Unfold(Out(s, n - 1), s[n])
<1>1. PICK m \in Nat : m = Len(s)
  BY StreamFacts
<1> DEFINE f == CHOOSE g : Builds(g, s, Len(s))
<1>2. Builds(f, s, Len(s))
  BY <1>1, BuildsExist
<1>3. Unfolded(s) = f
  BY DEF Unfolded, Builds
<1> HIDE DEF f
<1>4. \A n \in 0 .. m : f[n] = IF n = 0 THEN <<>> ELSE Unfold(f[n - 1], s[n])
  BY <1>1, <1>2 DEF Builds
<1>5. 0 \in 0 .. m /\ \A n \in 1 .. m : n \in 0 .. m /\ n # 0
  BY <1>1
<1> QED
  BY <1>1, <1>3, <1>4, <1>5 DEF Out

LEMMA OutIsSeq ==
  ASSUME NEW s \in Streams, NEW n \in 0 .. Len(s)
  PROVE  IsSeq(Out(s, n)) /\ Size(s, n) \in Nat
<1>1. PICK m \in Nat : m = Len(s)
  BY StreamFacts
<1> DEFINE S == {k \in Nat : k \in 0 .. m => IsSeq(Out(s, k))}
<1>2. 0 \in S
  BY OutSteps, NothingIsSeq
<1>3. ASSUME NEW k \in Nat, k \in S PROVE k + 1 \in S
  <2> SUFFICES ASSUME k + 1 \in 0 .. m PROVE IsSeq(Out(s, k + 1))
    OBVIOUS
  <2>1. k \in 0 .. m /\ k + 1 \in 1 .. m /\ (k + 1) - 1 = k
    OBVIOUS
  <2>2. IsSeq(Out(s, k))
    BY <1>3, <2>1
  <2>3. s[k + 1].len \in Nat
    BY <1>1, <2>1, StreamFacts, TokenFacts
  <2>4. Out(s, k + 1) = Unfold(Out(s, k), s[k + 1])
    BY <1>1, <2>1, OutSteps
  <2> QED
    BY <2>2, <2>3, <2>4, UnfoldFacts
<1> HIDE DEF S
<1>4. \A k \in Nat : k \in S
  BY <1>2, <1>3, SetInduction
<1>5. n \in Nat /\ n \in 0 .. m
  BY <1>1
<1>6. IsSeq(Out(s, n))
  BY <1>4, <1>5 DEF S
<1> QED
  BY <1>6 DEF Size, IsSeq

(* One token more.                                                         *)
LEMMA Sizes ==
  ASSUME NEW s \in Streams
  PROVE  /\ Size(s, 0) = 0
         /\ \A n \in 0 .. Len(s) - 1 : Size(s, n + 1) = Size(s, n) + s[n + 1].len
         /\ \A n \in 0 .. Len(s) : Size(s, n) \in Nat
<1>1. PICK m \in Nat : m = Len(s)
  BY StreamFacts
<1>2. Size(s, 0) = 0
  BY OutSteps, NothingIsSeq DEF Size
<1>3. ASSUME NEW n \in 0 .. m - 1 PROVE Size(s, n + 1) = Size(s, n) + s[n + 1].len
  <2>1. n \in 0 .. m /\ n + 1 \in 1 .. m /\ (n + 1) - 1 = n
    BY <1>1
  <2>2. Out(s, n + 1) = Unfold(Out(s, n), s[n + 1])
    BY <1>1, <2>1, OutSteps
  <2>3. IsSeq(Out(s, n))
    BY <1>1, <2>1, OutIsSeq
  <2>4. s[n + 1].len \in Nat
    BY <1>1, <2>1, StreamFacts, TokenFacts
  <2> QED
    BY <2>2, <2>3, <2>4, UnfoldFacts DEF Size
<1> QED
  BY <1>1, <1>2, <1>3, OutIsSeq

(* What has been put out stays.                                            *)
LEMMA OutGrows ==
  ASSUME NEW s \in Streams, NEW n \in 0 .. Len(s)
  PROVE  /\ IsSeq(Plain(s)) /\ Len(Plain(s)) = Size(s, Len(s))
         /\ Size(s, n) \in 0 .. Len(Plain(s))
         /\ \A k \in 1 .. Size(s, n) : Plain(s)[k] = Out(s, n)[k]
<1>1. PICK l \in Nat : l = Len(s)
  BY StreamFacts
<1>2. n \in Nat /\ n <= l
  BY <1>1
<1> DEFINE Kept(m) == /\ Size(s, n) <= Size(s, m)
                      /\ \A k \in 1 .. Size(s, n) : Out(s, m)[k] = Out(s, n)[k]
           S == {m \in Nat : m \in n .. l => Kept(m)}
<1>3. Size(s, n) \in Nat
  BY Sizes
<1>4. Kept(n)
  BY <1>3
<1>5. 0 \in S
  <2> SUFFICES ASSUME 0 \in n .. l PROVE Kept(0)
    OBVIOUS
  <2>1. n = 0
    BY <1>2
  <2> HIDE DEF Kept
  <2> QED
    BY <1>4, <2>1
<1>6. ASSUME NEW m \in Nat, m \in S PROVE m + 1 \in S
  <2> SUFFICES ASSUME m + 1 \in n .. l PROVE Kept(m + 1)
    OBVIOUS
  <2>1. CASE m + 1 = n
    <3> HIDE DEF Kept
    <3> QED
      BY <1>4, <2>1
  <2>2. CASE m + 1 # n
    <3>1. m \in n .. l /\ m \in 0 .. l - 1 /\ m + 1 \in 1 .. l /\ (m + 1) - 1 = m
      BY <1>2, <2>2
    <3>2. Kept(m)
      BY <1>6, <3>1
    <3>3. Out(s, m + 1) = Unfold(Out(s, m), s[m + 1]) /\ IsSeq(Out(s, m)) /\ s[m + 1].len \in Nat
      <4>1. m \in 0 .. Len(s)
        BY <1>1, <3>1
      <4> QED
        BY <1>1, <3>1, <4>1, OutSteps, OutIsSeq, StreamFacts, TokenFacts
    <3>4. \A k \in 1 .. Size(s, m) : Out(s, m + 1)[k] = Out(s, m)[k]
      <4>1. PICK p, u : p = Out(s, m) /\ u = s[m + 1]
        OBVIOUS
      <4>2. \A k \in 1 .. Len(p) : Unfold(p, u)[k] = p[k]
        BY <3>3, <4>1, UnfoldFacts
      <4> QED
        BY <3>3, <4>1, <4>2 DEF Size
    <3>5. Size(s, m + 1) = Size(s, m) + s[m + 1].len /\ Size(s, m) \in Nat
      BY <1>1, <3>1, Sizes
    <3>6. Size(s, n) <= Size(s, m + 1)
      BY <1>3, <3>2, <3>3, <3>5
    <3>7. \A k \in 1 .. Size(s, n) : k \in 1 .. Size(s, m)
      BY <1>3, <3>2, <3>5
    <3> QED
      BY <3>2, <3>4, <3>6, <3>7
  <2> QED
    BY <2>1, <2>2
<1> HIDE DEF S
<1>7. \A m \in Nat : m \in S
  BY <1>5, <1>6, SetInduction
<1>8. Kept(l)
  BY <1>2, <1>7 DEF S
<1>9. Plain(s) = Out(s, l) /\ Len(Plain(s)) = Size(s, l)
  BY <1>1 DEF Plain, Out, Size
<1>10. IsSeq(Out(s, l)) /\ Size(s, l) \in Nat
  BY <1>1, OutIsSeq
<1> QED
  BY <1>1, <1>3, <1>8, <1>9, <1>10

(* What each token stands for in the end.                                  *)
LEMMA TokenInPlain ==
  ASSUME NEW s \in Streams, NEW n \in 0 .. Len(s) - 1, NEW k \in 1 .. s[n + 1].len
  PROVE  /\ s[n + 1].dist = 0 => Plain(s)[Size(s, n) + k] = s[n + 1].value
         /\ s[n + 1].dist # 0 =>
              /\ s[n + 1].dist <= Size(s, n)
              /\ Plain(s)[Size(s, n) + k] = Plain(s)[Size(s, n) + k - s[n + 1].dist]
<1>1. PICK l \in Nat : l = Len(s)
  BY StreamFacts
<1>2. n \in 0 .. l /\ n + 1 \in 1 .. l /\ (n + 1) - 1 = n /\ n + 1 \in 0 .. l
  BY <1>1
<1>3. PICK t : t = s[n + 1]
  OBVIOUS
<1>4. t.dist \in Nat /\ t.len \in Nat /\ k \in 1 .. t.len
  BY <1>1, <1>2, <1>3, StreamFacts, TokenFacts, SizesAssumption
<1>5. PICK p : p = Out(s, n)
  OBVIOUS
<1>6. IsSeq(p) /\ Len(p) = Size(s, n) /\ Len(p) \in Nat
  BY <1>1, <1>2, <1>5, OutIsSeq DEF Size
<1>7. Out(s, n + 1) = Unfold(p, t)
  BY <1>1, <1>2, <1>3, <1>5, OutSteps
<1>8. \A j \in 1 .. Len(p) + t.len : Plain(s)[j] = Unfold(p, t)[j]
  <2>1. Size(s, n + 1) = Len(p) + t.len
    BY <1>1, <1>3, <1>6, Sizes
  <2> QED
    BY <1>1, <1>2, <1>7, <2>1, OutGrows
<1>9. Len(p) + k \in 1 .. Len(p) + t.len
  BY <1>4, <1>6
<1>10. ASSUME t.dist = 0 PROVE Plain(s)[Len(p) + k] = t.value
  <2>1. Unfold(p, t)[Len(p) + k] = t.value
    BY <1>4, <1>6, <1>10, UnfoldFacts
  <2> QED
    BY <1>8, <1>9, <2>1
<1>11. ASSUME t.dist # 0
       PROVE  t.dist <= Len(p) /\ Plain(s)[Len(p) + k] = Plain(s)[Len(p) + k - t.dist]
  <2>1. t.dist <= Len(p)
    <3>1. WellFormed(s) /\ n + 1 \in DOMAIN s
      <4>1. PICK m \in 1 .. MaxInput : s \in [1 .. m -> Tokens]
        BY DEF Streams
      <4>2. m \in Nat
        BY MaxInputAssumption
      <4>3. DOMAIN s = 1 .. l
        BY <1>1, <4>1, <4>2
      <4> QED
        BY <1>2, <4>3 DEF Streams
    <3> QED
      BY <1>2, <1>3, <1>5, <3>1 DEF WellFormed, Out
  <2>2. t.dist \in 1 .. Len(p)
    BY <1>4, <1>6, <1>11, <2>1
  <2>3. Unfold(p, t)[Len(p) + k] = Unfold(p, t)[Len(p) + k - t.dist]
    BY <1>4, <1>6, <2>2, MatchCopies
  <2>4. Len(p) + k - t.dist \in 1 .. Len(p) + t.len
    BY <1>4, <1>6, <2>2
  <2> QED
    BY <1>8, <1>9, <2>1, <2>3, <2>4
<1> QED
  BY <1>3, <1>6, <1>10, <1>11

--------------------------------------------------------------------------------
(* The count of bytes: those decoded, less what is left of a match, are    *)
(* those written and those in the window that wait to be written.          *)
Made == Size(stream, used) - pend.left
Counted ==
  /\ pc \in {"read", "call", "done"} => Len(file) = Made
  /\ pc = "decode" => Len(file) + pos = Made
  /\ pc = "write" => out_start \in 0 .. pos /\ Len(file) + pos - out_start = Made
AllTaken == pend.left = 0 /\ used = got
Taken ==
  /\ pc \in {"read", "done"} => AllTaken
  /\ pc = "write" => status = "HasMoreOutput" \/ AllTaken
  /\ pc = "done" => got = Len(stream)
Ranges ==
  /\ stream \in Streams
  /\ got \in 0 .. Len(stream) /\ used \in 0 .. got /\ pos \in 0 .. Window
  /\ pend = [dist |-> pend.dist, left |-> pend.left] /\ pend.left \in Nat
  /\ IsSeq(file) /\ Len(file) <= Made
LengthInv == Ranges /\ Counted /\ Taken

(* The bytes, when one buffer holds the data: the file is the plain data   *)
(* so far, and the window is what follows it, behind what is left of the   *)
(* window before.                                                          *)
Base == Made - pos
InFile == \A k \in 1 .. Len(file) : file[k] = Plain(stream)[k]
InWindow ==
  /\ win = [k \in 0 .. Window - 1 |-> win[k]]
  /\ Base \in Nat /\ (Base = 0 \/ Base >= Window)
  /\ \A k \in 0 .. pos - 1 : win[k] = Plain(stream)[Base + k + 1]
  /\ Base > 0 => \A k \in pos .. Window - 1 : win[k] = Plain(stream)[Base - Window + k + 1]
Copying ==
  pend.left > 0 =>
    /\ used > 0 /\ pend.dist = stream[used].dist /\ pend.dist # 0
    /\ pend.left <= stream[used].len
AtOnce ==
  /\ pc = "read" => got = 0 /\ pos = 0
  /\ pc \in {"call", "decode", "write"} => got = Len(stream)
  /\ pc = "call" => Made = 0 \/ pos = Window
  /\ pc = "write" /\ status = "HasMoreOutput" => pos = Window
OneBufferInv == Len(stream) <= InputBuf => /\ InFile /\ AtOnce /\ Copying
                                           /\ pc \in {"read", "call", "decode", "write"} => InWindow
InflateInv == LengthInv /\ OneBufferInv

--------------------------------------------------------------------------------
LEMMA Numbers ==
  ASSUME Ranges
  PROVE  /\ Len(stream) \in Nat /\ got \in Nat /\ used \in Nat /\ pos \in Nat /\ Len(file) \in Nat
         /\ got <= Len(stream) /\ used <= got /\ pos <= Window
         /\ Window \in Nat /\ Window > 0 /\ InputBuf \in Nat /\ InputBuf > 0
         /\ Size(stream, used) \in Nat /\ pend.left \in Nat /\ Made \in Int
<1>1. Len(stream) \in Nat
  BY StreamFacts DEF Ranges
<1>2. used \in 0 .. Len(stream)
  BY <1>1 DEF Ranges
<1>3. Size(stream, used) \in Nat
  BY <1>2, Sizes DEF Ranges
<1>4. Len(file) \in Nat
  BY DEF Ranges, IsSeq
<1> QED
  BY <1>1, <1>2, <1>3, <1>4, SizesAssumption DEF Ranges, Made

(* Taking the next token, and what Made becomes.                           *)
LEMMA TakenNext ==
  ASSUME Ranges, used < got
  PROVE  /\ Next1 \in Tokens /\ Next1.len \in Nat /\ Next1.dist \in 0 .. Window
         /\ Next1.dist = 0 => Next1.len = 1
         /\ Size(stream, used + 1) = Size(stream, used) + Next1.len
         /\ used + 1 \in 0 .. got /\ used \in 0 .. Len(stream) - 1
<1>1. used + 1 \in 1 .. Len(stream) /\ used \in 0 .. Len(stream) - 1 /\ used + 1 \in 0 .. got
  BY Numbers
<1>2. stream \in Streams
  BY DEF Ranges
<1>3. Next1 \in Tokens
  BY <1>1, <1>2, StreamFacts DEF Next1
<1>4. Size(stream, used + 1) = Size(stream, used) + Next1.len
  BY <1>1, <1>2, Sizes DEF Next1
<1> QED
  BY <1>1, <1>3, <1>4, TokenFacts

LEMMA LengthInitially == InflateInit => LengthInv
<1> SUFFICES ASSUME InflateInit PROVE LengthInv
  OBVIOUS
<1>1. /\ stream \in Streams /\ got = 0 /\ used = 0 /\ pos = 0 /\ pend = [dist |-> 0, left |-> 0]
      /\ file = <<>> /\ pc = "read"
  BY DEF InflateInit, NoMatch
<1>2. Len(stream) \in Nat /\ IsSeq(file) /\ Len(file) = 0
  BY <1>1, StreamFacts, NothingIsSeq
<1>3. Made = 0
  BY <1>1, Sizes DEF Made
<1>4. Ranges
  BY <1>1, <1>2, <1>3, SizesAssumption DEF Ranges
<1>5. Counted /\ Taken
  BY <1>1, <1>2, <1>3 DEF Counted, Taken, AllTaken
<1> QED
  BY <1>4, <1>5 DEF LengthInv

LEMMA LengthKept == LengthInv /\ [InflateNext]_inflateVars => LengthInv'
<1> SUFFICES ASSUME LengthInv, [InflateNext]_inflateVars PROVE LengthInv'
  OBVIOUS
<1>0. Ranges /\ Counted /\ Taken
  BY DEF LengthInv
<1>1. /\ Len(stream) \in Nat /\ got \in Nat /\ used \in Nat /\ pos \in Nat /\ Len(file) \in Nat
      /\ got <= Len(stream) /\ used <= got /\ pos <= Window
      /\ Window \in Nat /\ Window > 0 /\ InputBuf \in Nat /\ InputBuf > 0
      /\ Size(stream, used) \in Nat /\ pend.left \in Nat /\ Made \in Int
  BY <1>0, Numbers
<1>2. CASE ReadBuffer
  <2>1. /\ pc = "read" /\ pc' = "call" /\ got' = got + Shorter(InputBuf, bytes_to_go) /\ bytes_to_go > 0
        /\ stream' = stream /\ used' = used /\ pos' = pos /\ pend' = pend /\ file' = file
    BY <1>2 DEF ReadBuffer
  <2>2. got' \in 0 .. Len(stream) /\ got <= got'
    BY <1>1, <2>1 DEF Shorter, bytes_to_go
  <2>3. Made' = Made
    BY <2>1 DEF Made
  <2>4. Ranges'
    BY <1>0, <1>1, <2>1, <2>2, <2>3 DEF Ranges
  <2> QED
    BY <1>0, <2>1, <2>3, <2>4 DEF LengthInv, Counted, Taken
<1>3. CASE Decompress
  <2>1. /\ pc = "call" /\ pc' = "decode" /\ pos' = 0
        /\ stream' = stream /\ got' = got /\ used' = used /\ pend' = pend /\ file' = file
    BY <1>3 DEF Decompress
  <2>2. Made' = Made
    BY <2>1 DEF Made
  <2>3. Ranges'
    BY <1>0, <1>1, <2>1, <2>2 DEF Ranges
  <2> QED
    BY <1>0, <1>1, <2>1, <2>2, <2>3 DEF LengthInv, Counted, Taken
<1>4. CASE DecodeLiteral
  <2>1. /\ pc = "decode" /\ pc' = "decode" /\ pos < Window /\ pos' = pos + 1 /\ used < got /\ Next1.dist = 0
        /\ used' = used + 1
        /\ stream' = stream /\ got' = got /\ pend' = pend /\ file' = file
    BY <1>4 DEF DecodeLiteral, Put
  <2>2. Size(stream, used + 1) = Size(stream, used) + 1 /\ used + 1 \in 0 .. got
    BY <1>0, <2>1, TakenNext
  <2>3. Made' = Made + 1
    BY <1>1, <2>1, <2>2 DEF Made
  <2>4. Ranges'
    BY <1>0, <1>1, <2>1, <2>2, <2>3 DEF Ranges
  <2> QED
    BY <1>0, <1>1, <2>1, <2>3, <2>4 DEF LengthInv, Counted, Taken
<1>5. CASE DecodeMatch
  <2>1. /\ pc = "decode" /\ pc' = "decode" /\ used < got /\ pend.left = 0
        /\ pend' = [dist |-> Next1.dist, left |-> Next1.len] /\ used' = used + 1
        /\ stream' = stream /\ got' = got /\ pos' = pos /\ file' = file
    BY <1>5 DEF DecodeMatch
  <2>2. /\ Size(stream, used + 1) = Size(stream, used) + Next1.len /\ Next1.len \in Nat
        /\ used + 1 \in 0 .. got
    BY <1>0, <2>1, TakenNext
  <2>3. pend'.left = Next1.len /\ pend' = [dist |-> pend'.dist, left |-> pend'.left]
    BY <2>1
  <2>4. Made' = Made
    BY <1>1, <2>1, <2>2, <2>3 DEF Made
  <2>5. Ranges'
    BY <1>0, <1>1, <2>1, <2>2, <2>3, <2>4 DEF Ranges
  <2> QED
    BY <1>0, <1>1, <2>1, <2>4, <2>5 DEF LengthInv, Counted, Taken
<1>6. CASE CopyByte
  <2>1. /\ pc = "decode" /\ pc' = "decode" /\ pos < Window /\ pos' = pos + 1 /\ pend.left > 0
        /\ pend' = [pend EXCEPT !.left = @ - 1]
        /\ stream' = stream /\ got' = got /\ used' = used /\ file' = file
    BY <1>6 DEF CopyByte, Put
  <2>2. PICK d, l : pend = [dist |-> d, left |-> l]
    BY <1>0 DEF Ranges
  <2>3. pend' = [dist |-> d, left |-> l - 1] /\ pend.left = l
    BY <2>1, <2>2
  <2>4. pend'.left = pend.left - 1 /\ pend' = [dist |-> pend'.dist, left |-> pend'.left]
    BY <2>3
  <2>5. Made' = Made + 1
    BY <1>1, <2>1, <2>4 DEF Made
  <2>6. Ranges'
    BY <1>0, <1>1, <2>1, <2>4, <2>5 DEF Ranges
  <2> QED
    BY <1>0, <1>1, <2>1, <2>5, <2>6 DEF LengthInv, Counted, Taken
<1>7. CASE OutputFull \/ InputUsed
  <2>1. /\ pc = "decode" /\ pc' = "write" /\ out_start' = 0 /\ (status' = "HasMoreOutput" \/ AllTaken)
        /\ stream' = stream /\ got' = got /\ used' = used /\ pos' = pos /\ pend' = pend /\ file' = file
    BY <1>7 DEF OutputFull, InputUsed, Returns, AllTaken
  <2>2. Made' = Made /\ (AllTaken' <=> AllTaken)
    BY <2>1 DEF Made, AllTaken
  <2>3. Ranges'
    BY <1>0, <2>1, <2>2 DEF Ranges
  <2> QED
    BY <1>0, <1>1, <2>1, <2>2, <2>3 DEF LengthInv, Counted, Taken
<1>8. CASE WriteSome
  <2>1. PICK n \in 1 .. pos - out_start :
          /\ file' = file \o [k \in 1 .. n |-> win[out_start + k - 1]] /\ out_start' = out_start + n
    BY <1>8 DEF WriteSome, Advance
  <2>2. /\ pc = "write" /\ pc' = "write" /\ out_start < pos /\ status' = status
        /\ stream' = stream /\ got' = got /\ used' = used /\ pos' = pos /\ pend' = pend
    BY <1>8 DEF WriteSome
  <2>3. out_start \in 0 .. pos /\ Len(file) + pos - out_start = Made
    BY <1>0, <2>2 DEF Counted
  <2>4. n \in Nat /\ out_start \in Nat
    BY <1>1, <2>1, <2>3
  <2>5. IsSeq(file') /\ Len(file') = Len(file) + n
    <3>1. PICK a : a = [k \in 1 .. n |-> win[out_start + k - 1]]
      OBVIOUS
    <3>2. IsSeq(a) /\ Len(a) = n
      BY <2>4, <3>1 DEF IsSeq
    <3>3. IsSeq(file)
      BY <1>0 DEF Ranges
    <3> QED
      BY <2>1, <3>1, <3>2, <3>3, ConcatFacts
  <2>6. Made' = Made /\ (AllTaken' <=> AllTaken)
    BY <2>2 DEF Made, AllTaken
  <2>7. out_start' \in 0 .. pos /\ Len(file') + pos - out_start' = Made
    <3>1. PICK a \in Nat, o \in Nat, m \in Nat : a = Len(file) /\ o = out_start /\ m = pos
      BY <1>1, <2>4
    <3>2. n \in 1 .. m - o /\ o + n \in 0 .. m /\ (a + n) + m - (o + n) = a + m - o
      BY <2>1, <3>1
    <3>3. out_start' = o + n /\ Len(file') = a + n /\ a + m - o = Made
      BY <2>1, <2>3, <2>5, <3>1
    <3> QED
      BY <3>1, <3>2, <3>3
  <2>8. Len(file') <= Made
    BY <1>1, <2>4, <2>5, <2>7
  <2>9. Ranges'
    BY <1>0, <2>2, <2>5, <2>6, <2>8 DEF Ranges
  <2> QED
    BY <1>0, <2>2, <2>6, <2>7, <2>9 DEF LengthInv, Counted, Taken
<1>9. CASE Written
  <2>1. /\ pc = "write" /\ out_start >= pos /\ status' = status
        /\ pc' = IF status = "HasMoreOutput" THEN "call" ELSE IF bytes_to_go > 0 THEN "read" ELSE "done"
        /\ stream' = stream /\ got' = got /\ used' = used /\ pos' = pos /\ pend' = pend /\ file' = file
    BY <1>9 DEF Written, KeepLooping
  <2>2. Made' = Made /\ (AllTaken' <=> AllTaken)
    BY <2>1 DEF Made, AllTaken
  <2>3. Ranges'
    BY <1>0, <2>1, <2>2 DEF Ranges
  <2>4. Len(file) = Made
    BY <1>0, <1>1, <2>1 DEF Counted
  <2>5. Counted'
    BY <2>1, <2>2, <2>4 DEF Counted
  <2>6. Taken'
    <3>1. pc' \in {"read", "done"} => AllTaken
      BY <1>0, <2>1 DEF Taken
    <3>2. pc' # "write"
      BY <2>1
    <3>3. pc' = "done" => ~(Len(stream) - got > 0)
      BY <2>1 DEF bytes_to_go
    <3>4. pc' = "done" => got = Len(stream)
      BY <1>1, <3>3
    <3> QED
      BY <2>1, <2>2, <3>1, <3>2, <3>4 DEF Taken
  <2> QED
    BY <2>3, <2>5, <2>6 DEF LengthInv
<1>10. CASE Fails
  <2>1. /\ pc' = "error" /\ stream' = stream /\ got' = got /\ used' = used /\ pos' = pos
        /\ pend' = pend /\ file' = file
    BY <1>10 DEF Fails
  <2>2. Ranges'
    BY <1>0, <2>1 DEF Ranges, Made
  <2> QED
    BY <2>1, <2>2 DEF LengthInv, Counted, Taken
<1>11. CASE UNCHANGED inflateVars
  BY <1>11 DEF inflateVars, LengthInv, Ranges, Counted, Taken, AllTaken, Made
<1> QED
  BY <1>2, <1>3, <1>4, <1>5, <1>6, <1>7, <1>8, <1>9, <1>10, <1>11 DEF InflateNext, InflateProgress

--------------------------------------------------------------------------------
(* The byte that comes next is the byte of the plain data.                 *)
LEMMA NextLiteral ==
  ASSUME Ranges, used < got, Next1.dist = 0, pend.left = 0
  PROVE  Plain(stream)[Made + 1] = Next1.value
<1>1. /\ used \in 0 .. Len(stream) - 1 /\ Next1.len = 1 /\ stream \in Streams
      /\ Size(stream, used) \in Nat
  BY TakenNext, Numbers DEF Ranges
<1>2. Made = Size(stream, used)
  BY <1>1 DEF Made
<1>3. 1 \in 1 .. stream[used + 1].len
  BY <1>1 DEF Next1
<1> QED
  BY <1>1, <1>2, <1>3, TokenInPlain DEF Next1

LEMMA NextCopy ==
  ASSUME Ranges, Copying, pend.left > 0
  PROVE  /\ pend.dist \in 1 .. Window /\ pend.dist <= Made
         /\ Plain(stream)[Made + 1] = Plain(stream)[Made + 1 - pend.dist]
<1>1. PICK n \in Nat : n + 1 = used
  <2>1. used \in Nat /\ used - 1 \in Nat /\ (used - 1) + 1 = used
    BY Numbers DEF Copying
  <2> QED
    BY <2>1
<1>2. PICK t : t = stream[n + 1]
  OBVIOUS
<1>3. n \in 0 .. Len(stream) - 1 /\ n + 1 \in 1 .. Len(stream) /\ stream \in Streams
  BY <1>1, Numbers DEF Ranges
<1>4. t \in Tokens /\ t.len \in Nat /\ t.dist \in 0 .. Window
  BY <1>2, <1>3, StreamFacts, TokenFacts
<1>5. pend.dist = t.dist /\ t.dist # 0 /\ pend.left <= t.len
  <2>1. t = stream[used]
    BY <1>1, <1>2
  <2> QED
    BY <2>1 DEF Copying
<1>6. PICK l \in Nat : l = pend.left /\ l > 0
  BY Numbers
<1>7. PICK b \in Nat : b = Size(stream, n)
  BY <1>3, Sizes
<1>8. Size(stream, used) = b + t.len
  BY <1>1, <1>2, <1>3, <1>7, Sizes
<1>9. Made = b + (t.len - l)
  BY <1>4, <1>6, <1>8 DEF Made
<1>10. (t.len - l) + 1 \in 1 .. t.len
  BY <1>4, <1>5, <1>6
<1>11. /\ t.dist <= b
       /\ Plain(stream)[b + ((t.len - l) + 1)] = Plain(stream)[b + ((t.len - l) + 1) - t.dist]
  BY <1>2, <1>3, <1>5, <1>7, <1>10, TokenInPlain
<1>12. b + ((t.len - l) + 1) = Made + 1 /\ b <= Made
  BY <1>4, <1>5, <1>6, <1>9
<1>13. t.dist \in 1 .. Window /\ t.dist <= Made
  <2>1. Made \in Int /\ Window \in Nat
    BY Numbers
  <2> QED
    BY <1>4, <1>5, <1>11, <1>12, <2>1
<1>14. Plain(stream)[Made + 1] = Plain(stream)[Made + 1 - t.dist]
  <2>1. PICK m \in Int : m = Made
    BY Numbers
  <2>2. b + ((t.len - l) + 1) = m + 1 /\ b + ((t.len - l) + 1) - t.dist = m + 1 - t.dist
    BY <1>4, <1>12, <2>1
  <2> QED
    BY <1>11, <2>1, <2>2
<1> QED
  BY <1>5, <1>13, <1>14, Zenon

(* Where the copied byte stands in the window.                             *)
LEMMA LooksBack ==
  ASSUME Ranges, InWindow, pos < Window, NEW d \in 1 .. Window, d <= Made
  PROVE  win[(pos - d) % Window] = Plain(stream)[Made + 1 - d]
<1>1. PICK w \in Nat, p \in Nat, m \in Int, b \in Nat :
        /\ w = Window /\ p = pos /\ m = Made /\ b = Base /\ w > 0 /\ p < w
  BY Numbers DEF InWindow
<1>2. m = b + p /\ d \in 1 .. w /\ d <= m
  <2>1. Base = Made - pos
    BY DEF Base
  <2> QED
    BY <1>1, <2>1
<1>3. /\ b = 0 \/ b >= w
      /\ \A k \in 0 .. p - 1 : win[k] = Plain(stream)[b + k + 1]
      /\ b > 0 => \A k \in p .. w - 1 : win[k] = Plain(stream)[b - w + k + 1]
  BY <1>1 DEF InWindow
<1>4. CASE d <= p
  <2>1. (p - d) % w = p - d
    <3>1. p - d \in 0 .. w - 1
      BY <1>1, <1>2, <1>4
    <3> QED
      BY <1>1, <3>1, Wraps
  <2>2. p - d \in 0 .. p - 1 /\ b + (p - d) + 1 = m + 1 - d
    BY <1>2, <1>4
  <2>3. win[p - d] = Plain(stream)[m + 1 - d]
    BY <1>3, <2>2
  <2> QED
    BY <1>1, <2>1, <2>3
<1>5. CASE d > p
  <2>1. PICK x \in Nat : x = p - d + w /\ x \in p .. w - 1 /\ x < w
    BY <1>1, <1>2, <1>5
  <2>2. (p - d) % w = x
    BY <1>1, <1>2, <1>5, <2>1
  <2>3. b > 0
    BY <1>2, <1>5
  <2>4. b - w + x + 1 = m + 1 - d
    BY <1>2, <2>1
  <2>5. win[x] = Plain(stream)[m + 1 - d]
    BY <1>3, <2>1, <2>3, <2>4
  <2> QED
    BY <1>1, <2>2, <2>5
<1> QED
  BY <1>1, <1>2, <1>4, <1>5

(* A byte put in the window at pos.                                        *)
LEMMA Putting ==
  ASSUME Ranges, InWindow, pos < Window, NEW v, v = Plain(stream)[Made + 1], Put(v),
         Made' = Made + 1, stream' = stream
  PROVE  InWindow'
<1>1. PICK w \in Nat, p \in Nat, b \in Nat, m \in Int :
        w = Window /\ p = pos /\ b = Base /\ m = Made /\ p < w
  BY Numbers DEF InWindow
<1>2. PICK T : T = Plain(stream)
  OBVIOUS
<1>3. m = b + p
  <2>1. Base = Made - pos
    BY DEF Base
  <2> QED
    BY <1>1, <2>1
<1>4. /\ b = 0 \/ b >= w
      /\ \A k \in 0 .. p - 1 : win[k] = T[b + k + 1]
      /\ b > 0 => \A k \in p .. w - 1 : win[k] = T[b - w + k + 1]
      /\ win = [k \in 0 .. w - 1 |-> win[k]]
  BY <1>1, <1>2 DEF InWindow
<1>5. pos' = p + 1 /\ win' = [win EXCEPT ![p] = v] /\ v = T[m + 1]
  BY <1>1, <1>2 DEF Put
<1>6. Base' = b
  BY <1>1, <1>3, <1>5 DEF Base
<1>7. win' = [k \in 0 .. w - 1 |-> IF k = p THEN v ELSE win[k]]
  BY <1>4, <1>5
<1>8. win' = [k \in 0 .. w - 1 |-> win'[k]]
  BY <1>7
<1>9. ASSUME NEW k \in 0 .. p PROVE win'[k] = T[b + k + 1]
  <2>1. k \in 0 .. w - 1 /\ (k # p => k \in 0 .. p - 1)
    BY <1>1
  <2>2. CASE k = p
    BY <1>3, <1>5, <1>7, <2>1, <2>2
  <2>3. CASE k # p
    BY <1>4, <1>7, <2>1, <2>3
  <2> QED
    BY <2>2, <2>3
<1>10. ASSUME b > 0, NEW k \in p + 1 .. w - 1 PROVE win'[k] = T[b - w + k + 1]
  <2>1. k \in 0 .. w - 1 /\ k # p /\ k \in p .. w - 1
    OBVIOUS
  <2> QED
    BY <1>4, <1>7, <1>10, <2>1
<1>11. Plain(stream') = T
  BY <1>2
<1>12. \A k \in 0 .. pos' - 1 : win'[k] = Plain(stream')[Base' + k + 1]
  <2>1. pos' - 1 = p
    BY <1>5
  <2> QED
    BY <1>6, <1>9, <1>11, <2>1
<1>13. Base' > 0 => \A k \in pos' .. Window - 1 : win'[k] = Plain(stream')[Base' - Window + k + 1]
  BY <1>1, <1>5, <1>6, <1>10, <1>11
<1>14. Base' \in Nat /\ (Base' = 0 \/ Base' >= Window)
  BY <1>1, <1>4, <1>6
<1>15. win' = [k \in 0 .. Window - 1 |-> win'[k]]
  BY <1>1, <1>8
<1> QED
  BY <1>12, <1>13, <1>14, <1>15 DEF InWindow

LEMMA BytesInitially == InflateInit => OneBufferInv
<1> SUFFICES ASSUME InflateInit PROVE OneBufferInv
  OBVIOUS
<1>1. /\ stream \in Streams /\ got = 0 /\ used = 0 /\ pos = 0 /\ pend = [dist |-> 0, left |-> 0]
      /\ file = <<>> /\ pc = "read" /\ win = [k \in 0 .. Window - 1 |-> 0]
  BY DEF InflateInit, NoMatch
<1>2. Made = 0 /\ Base = 0 /\ Len(file) = 0
  BY <1>1, Sizes, NothingIsSeq DEF Made, Base
<1>3. win = [k \in 0 .. Window - 1 |-> win[k]]
  BY <1>1
<1>4. InWindow
  BY <1>1, <1>2, <1>3 DEF InWindow
<1>5. InFile /\ AtOnce /\ Copying
  BY <1>1, <1>2 DEF InFile, AtOnce, Copying
<1> QED
  BY <1>4, <1>5 DEF OneBufferInv

LEMMA BytesKept == InflateInv /\ [InflateNext]_inflateVars => OneBufferInv'
<1> SUFFICES ASSUME InflateInv, [InflateNext]_inflateVars, Len(stream') <= InputBuf
             PROVE  /\ InFile' /\ AtOnce' /\ Copying'
                    /\ pc' \in {"read", "call", "decode", "write"} => InWindow'
  BY DEF OneBufferInv
<1>0. stream' = stream
  BY DEF InflateNext, InflateProgress, ReadBuffer, Decompress, DecodeLiteral, DecodeMatch, CopyByte, OutputFull,
         InputUsed, Returns, WriteSome, Written, Fails, inflateVars
<1>1. /\ Ranges /\ Counted /\ Taken /\ InFile /\ AtOnce /\ Copying /\ Len(stream) <= InputBuf
      /\ pc \in {"read", "call", "decode", "write"} => InWindow
  BY <1>0 DEF InflateInv, LengthInv, OneBufferInv
<1>2. /\ Len(stream) \in Nat /\ got \in Nat /\ used \in Nat /\ pos \in Nat /\ Len(file) \in Nat
      /\ got <= Len(stream) /\ used <= got /\ pos <= Window
      /\ Window \in Nat /\ Window > 0 /\ InputBuf \in Nat /\ InputBuf > 0
      /\ Size(stream, used) \in Nat /\ pend.left \in Nat /\ Made \in Int
  BY <1>1, Numbers
<1>3. CASE ReadBuffer
  <2>1. /\ pc = "read" /\ pc' = "call" /\ got' = got + Shorter(InputBuf, bytes_to_go)
        /\ used' = used /\ pos' = pos /\ pend' = pend /\ file' = file /\ win' = win
    BY <1>3 DEF ReadBuffer
  <2>2. got = 0 /\ pos = 0
    BY <1>1, <2>1 DEF AtOnce
  <2>3. got' = Len(stream)
    BY <1>1, <1>2, <2>1, <2>2 DEF Shorter, bytes_to_go
  <2>4. Made' = Made /\ Made = 0
    <3>1. used = 0 /\ pend.left = 0
      BY <1>1, <1>2, <2>1, <2>2 DEF Taken, AllTaken
    <3>2. Size(stream, 0) = 0
      BY <1>1, Sizes DEF Ranges
    <3> QED
      BY <1>0, <2>1, <3>1, <3>2 DEF Made
  <2>5. InWindow'
    BY <1>0, <1>1, <2>1, <2>4 DEF InWindow, Base
  <2> QED
    BY <1>0, <1>1, <2>1, <2>3, <2>4, <2>5 DEF InFile, AtOnce, Copying
<1>4. CASE Decompress
  <2>1. /\ pc = "call" /\ pc' = "decode" /\ pos' = 0 /\ got' = got
        /\ used' = used /\ pend' = pend /\ file' = file /\ win' = win
    BY <1>4 DEF Decompress
  <2>2. Made' = Made /\ InWindow
    BY <1>0, <1>1, <2>1 DEF Made
  <2>3. Base' = Made
    BY <1>2, <2>1, <2>2 DEF Base
  <2>4. win = [k \in 0 .. Window - 1 |-> win[k]] /\ Base \in Nat
    BY <2>2 DEF InWindow
  <2>5. InWindow'
    <3>1. CASE Made = 0
      BY <2>1, <2>3, <2>4, <3>1 DEF InWindow
    <3>2. CASE Made # 0
      <4>1. pos = Window
        BY <1>1, <2>1, <3>2 DEF AtOnce
      <4>2. PICK w \in Nat, b \in Nat : w = Window /\ b = Base
        BY <1>2, <2>4
      <4>3. PICK T : T = Plain(stream)
        OBVIOUS
      <4>4. Made = b + w
        <5>1. Base = Made - Window
          BY <4>1 DEF Base
        <5> QED
          BY <1>2, <4>2, <5>1
      <4>5. \A k \in 0 .. w - 1 : win[k] = T[b + k + 1]
        BY <2>2, <4>1, <4>2, <4>3 DEF InWindow
      <4>6. \A k \in 0 .. w - 1 : win[k] = T[(b + w) - w + k + 1]
        <5>1. \A k \in 0 .. w - 1 : (b + w) - w + k + 1 = b + k + 1
          OBVIOUS
        <5> QED
          BY <4>5, <5>1
      <4>7. b + w \in Nat /\ b + w >= w
        OBVIOUS
      <4> QED
        BY <1>0, <2>1, <2>3, <2>4, <4>2, <4>3, <4>4, <4>6, <4>7 DEF InWindow
    <3> QED
      BY <3>1, <3>2
  <2> QED
    BY <1>0, <1>1, <2>1, <2>5 DEF InFile, AtOnce, Copying
<1>5. CASE DecodeLiteral
  <2>1. /\ pc = "decode" /\ pc' = "decode" /\ pend.left = 0 /\ used < got /\ Next1.dist = 0 /\ pos < Window
        /\ Put(Next1.value) /\ used' = used + 1 /\ got' = got /\ pend' = pend /\ file' = file
    BY <1>5 DEF DecodeLiteral
  <2>2. Made' = Made + 1
    <3>1. Size(stream, used + 1) = Size(stream, used) + 1
      BY <1>1, <2>1, TakenNext
    <3> QED
      BY <1>0, <1>2, <2>1, <3>1 DEF Made
  <2>3. Next1.value = Plain(stream)[Made + 1]
    BY <1>1, <2>1, NextLiteral
  <2>4. InWindow'
    BY <1>0, <1>1, <2>1, <2>2, <2>3, Putting
  <2> QED
    BY <1>0, <1>1, <2>1, <2>4 DEF InFile, AtOnce, Copying
<1>6. CASE DecodeMatch
  <2>1. /\ pc = "decode" /\ pc' = "decode" /\ used < got /\ pend.left = 0 /\ Next1.dist > 0
        /\ pend' = [dist |-> Next1.dist, left |-> Next1.len] /\ used' = used + 1
        /\ got' = got /\ pos' = pos /\ file' = file /\ win' = win
    BY <1>6 DEF DecodeMatch
  <2>2. /\ Size(stream, used + 1) = Size(stream, used) + Next1.len /\ Next1.len \in Nat
        /\ Next1.dist \in 0 .. Window
    BY <1>1, <2>1, TakenNext
  <2>3. pend'.left = Next1.len /\ pend'.dist = Next1.dist
    BY <2>1
  <2>4. Made' = Made
    BY <1>0, <1>2, <2>1, <2>2, <2>3 DEF Made
  <2>5. InWindow'
    BY <1>0, <1>1, <2>1, <2>4 DEF InWindow, Base
  <2>6. Copying'
    <3>1. stream'[used'] = Next1 /\ used' > 0 /\ Next1.dist # 0
      BY <1>0, <1>2, <2>1, <2>2 DEF Next1
    <3> QED
      BY <2>2, <2>3, <3>1 DEF Copying
  <2> QED
    BY <1>0, <1>1, <2>1, <2>5, <2>6 DEF InFile, AtOnce
<1>7. CASE CopyByte
  <2>1. /\ pc = "decode" /\ pc' = "decode" /\ pend.left > 0 /\ pos < Window
        /\ Put(win[(pos - pend.dist) % Window]) /\ pend' = [pend EXCEPT !.left = @ - 1]
        /\ used' = used /\ got' = got /\ file' = file
    BY <1>7 DEF CopyByte
  <2>2. PICK d, l : pend = [dist |-> d, left |-> l]
    BY <1>1 DEF Ranges
  <2>3. pend' = [dist |-> d, left |-> l - 1] /\ pend.left = l /\ pend.dist = d
    BY <2>1, <2>2
  <2>4. pend'.left = pend.left - 1 /\ pend'.dist = pend.dist
    BY <2>3
  <2>5. Made' = Made + 1
    BY <1>0, <1>2, <2>1, <2>4 DEF Made
  <2>6. /\ pend.dist \in 1 .. Window /\ pend.dist <= Made
        /\ Plain(stream)[Made + 1] = Plain(stream)[Made + 1 - pend.dist]
    BY <1>1, <2>1, NextCopy
  <2>7. win[(pos - pend.dist) % Window] = Plain(stream)[Made + 1 - pend.dist]
    BY <1>1, <2>1, <2>6, LooksBack
  <2>8. InWindow'
    <3>1. PICK v : v = win[(pos - pend.dist) % Window]
      OBVIOUS
    <3>2. v = Plain(stream)[Made + 1]
      BY <2>6, <2>7, <3>1
    <3>3. Put(v)
      BY <2>1, <3>1
    <3> QED
      BY <1>0, <1>1, <2>1, <2>5, <3>2, <3>3, Putting
  <2>9. Copying'
    <3>1. PICK x : x = stream[used]
      OBVIOUS
    <3>2. used > 0 /\ pend.dist = x.dist /\ pend.dist # 0 /\ pend.left <= x.len
      BY <1>1, <2>1, <3>1 DEF Copying
    <3>3. x.len \in Nat
      <4>1. used \in 1 .. Len(stream) /\ stream \in Streams
        BY <1>1, <1>2, <3>2 DEF Ranges
      <4> QED
        BY <3>1, <4>1, StreamFacts, TokenFacts
    <3>4. stream'[used'] = x /\ used' > 0 /\ pend'.left <= x.len
      BY <1>0, <1>2, <2>1, <2>4, <3>1, <3>2, <3>3
    <3> QED
      BY <2>4, <3>2, <3>4 DEF Copying
  <2> QED
    BY <1>0, <1>1, <2>1, <2>8, <2>9 DEF InFile, AtOnce
<1>8. CASE OutputFull \/ InputUsed
  <2>1. /\ pc = "decode" /\ pc' = "write" /\ got' = got /\ used' = used /\ pos' = pos
        /\ pend' = pend /\ file' = file /\ win' = win
        /\ status' = "HasMoreOutput" => pos = Window
    BY <1>8 DEF OutputFull, InputUsed, Returns
  <2>2. Made' = Made
    BY <1>0, <2>1 DEF Made
  <2>3. InWindow'
    BY <1>0, <1>1, <2>1, <2>2 DEF InWindow, Base
  <2> QED
    BY <1>0, <1>1, <2>1, <2>3 DEF InFile, AtOnce, Copying
<1>9. CASE WriteSome
  <2>1. PICK n \in 1 .. pos - out_start :
          /\ file' = file \o [k \in 1 .. n |-> win[out_start + k - 1]] /\ out_start' = out_start + n
    BY <1>9 DEF WriteSome, Advance
  <2>2. /\ pc = "write" /\ pc' = "write" /\ out_start < pos /\ status' = status
        /\ got' = got /\ used' = used /\ pos' = pos /\ pend' = pend /\ win' = win
    BY <1>9 DEF WriteSome
  <2>3. out_start \in 0 .. pos /\ Len(file) + pos - out_start = Made /\ InWindow
    BY <1>1, <2>2 DEF Counted
  <2>4. PICK a \in Nat, o \in Nat, m \in Nat, b \in Nat :
          a = Len(file) /\ o = out_start /\ m = pos /\ b = Base
    BY <1>2, <2>3 DEF InWindow
  <2>5. PICK T : T = Plain(stream)
    OBVIOUS
  <2>6. a = b + o /\ n \in 1 .. m - o /\ n \in Nat
    <3>1. Base = Made - pos
      BY DEF Base
    <3> QED
      BY <1>2, <2>1, <2>3, <2>4, <3>1
  <2>7. PICK s : s = [k \in 1 .. n |-> win[o + k - 1]]
    OBVIOUS
  <2>8. IsSeq(s) /\ Len(s) = n
    BY <2>6, <2>7 DEF IsSeq
  <2>9. file' = file \o s /\ IsSeq(file)
    BY <1>1, <2>1, <2>4, <2>7 DEF Ranges
  <2>10. /\ Len(file') = a + n
         /\ \A k \in 1 .. a : file'[k] = file[k]
         /\ \A k \in 1 .. n : file'[a + k] = s[k]
    <3>1. PICK c : c = file
      OBVIOUS
    <3>2. /\ Len(c \o s) = Len(c) + Len(s)
          /\ \A k \in 1 .. Len(c) : (c \o s)[k] = c[k]
          /\ \A k \in 1 .. Len(s) : (c \o s)[Len(c) + k] = s[k]
      <4>1. IsSeq(c) /\ IsSeq(s)
        BY <2>8, <2>9, <3>1
      <4> QED
        BY <4>1, ConcatFacts
    <3>3. PICK e : e = file'
      OBVIOUS
    <3>4. e = c \o s /\ Len(c) = a /\ Len(s) = n
      BY <2>4, <2>8, <2>9, <3>1, <3>3
    <3>5. Len(e) = a + n /\ (\A k \in 1 .. a : e[k] = c[k]) /\ \A k \in 1 .. n : e[a + k] = s[k]
      BY <3>2, <3>4
    <3> QED
      BY <3>1, <3>3, <3>5
  <2>11. \A k \in 1 .. n : s[k] = T[a + k]
    <3> TAKE k \in 1 .. n
    <3>1. o + k - 1 \in 0 .. m - 1 /\ b + (o + k - 1) + 1 = a + k
      BY <2>6
    <3>2. win[o + k - 1] = T[b + (o + k - 1) + 1]
      BY <2>3, <2>4, <2>5, <3>1 DEF InWindow
    <3> QED
      BY <2>7, <3>1, <3>2
  <2>12. InFile'
    <3>1. ASSUME NEW k \in 1 .. a + n PROVE file'[k] = T[k]
      <4>1. CASE k <= a
        <5>1. k \in 1 .. a
          BY <4>1
        <5> QED
          BY <1>1, <2>4, <2>5, <2>10, <5>1 DEF InFile
      <4>2. CASE k > a
        <5>1. k - a \in 1 .. n /\ a + (k - a) = k
          BY <2>6, <4>2
        <5> QED
          BY <2>10, <2>11, <5>1
      <4> QED
        BY <4>1, <4>2
    <3> QED
      BY <1>0, <2>5, <2>10, <3>1 DEF InFile
  <2>13. Made' = Made
    BY <1>0, <2>2 DEF Made
  <2>14. InWindow'
    BY <1>0, <2>2, <2>3, <2>13 DEF InWindow, Base
  <2> QED
    BY <1>0, <1>1, <2>2, <2>12, <2>14 DEF AtOnce, Copying
<1>10. CASE Written
  <2>1. /\ pc = "write" /\ status' = status
        /\ pc' = IF status = "HasMoreOutput" THEN "call" ELSE IF bytes_to_go > 0 THEN "read" ELSE "done"
        /\ got' = got /\ used' = used /\ pos' = pos /\ pend' = pend /\ file' = file /\ win' = win
    BY <1>10 DEF Written, KeepLooping
  <2>2. got = Len(stream) /\ (status = "HasMoreOutput" => pos = Window)
    BY <1>1, <2>1 DEF AtOnce
  <2>3. ~(bytes_to_go > 0)
    BY <1>2, <2>2 DEF bytes_to_go
  <2>4. pc' = IF status = "HasMoreOutput" THEN "call" ELSE "done"
    BY <2>1, <2>3
  <2>5. Made' = Made
    BY <1>0, <2>1 DEF Made
  <2>6. InWindow'
    BY <1>0, <1>1, <2>1, <2>5 DEF InWindow, Base
  <2> QED
    BY <1>0, <1>1, <2>1, <2>2, <2>4, <2>6 DEF InFile, AtOnce, Copying
<1>11. CASE Fails
  <2>1. /\ pc' = "error" /\ used' = used /\ pend' = pend /\ file' = file
    BY <1>11 DEF Fails
  <2> QED
    BY <1>0, <1>1, <2>1 DEF InFile, AtOnce, Copying
<1>12. CASE UNCHANGED inflateVars
  BY <1>1, <1>12 DEF inflateVars, InFile, AtOnce, Copying, InWindow, Base, Made
<1> QED
  BY <1>3, <1>4, <1>5, <1>6, <1>7, <1>8, <1>9, <1>10, <1>11, <1>12 DEF InflateNext, InflateProgress

--------------------------------------------------------------------------------
LEMMA InflateInvariant == InflateSpec => []InflateInv
<1>1. InflateInit => InflateInv
  BY LengthInitially, BytesInitially DEF InflateInv
<1>2. InflateInv /\ [InflateNext]_inflateVars => InflateInv'
  BY LengthKept, BytesKept DEF InflateInv
<1> QED
  BY <1>1, <1>2, PTL DEF InflateSpec

LEMMA LengthFollows == InflateInv => LengthIsRight
<1> SUFFICES ASSUME InflateInv, pc = "done" PROVE Len(file) = Len(Plain(stream))
  BY DEF LengthIsRight
<1>1. Ranges /\ Counted /\ Taken
  BY DEF InflateInv, LengthInv
<1>2. Len(file) = Made /\ pend.left = 0 /\ used = Len(stream)
  BY <1>1 DEF Counted, Taken, AllTaken
<1>3. Size(stream, used) \in Nat
  BY <1>1, Numbers
<1>4. Made = Size(stream, Len(stream))
  BY <1>2, <1>3 DEF Made
<1> QED
  BY <1>2, <1>4 DEF Plain, Size, Out

LEMMA Beginning ==
  ASSUME NEW s, IsSeq(s), NEW n \in 0 .. Len(s)
  PROVE  SubSeq(s, 1, n) = [k \in 1 .. n |-> s[k]]
<1>1. s \in Seq({s[k] : k \in 1 .. Len(s)}) /\ n \in Nat
  BY DEF IsSeq
<1> QED
  BY <1>1

(* Of any data, in however many buffers, as many bytes are written as the  *)
(* data stands for.                                                        *)
THEOREM LengthCorrect == InflateSpec => []LengthIsRight
BY LengthFollows, InflateInvariant, PTL

(* Data that fits the input buffer is expanded right: at every moment, and *)
(* in an error too, the file is the beginning of the plain data, and when  *)
(* inflate is done the whole of it.                                        *)
THEOREM OneBufferCorrect == InflateSpec => []OneBufferIsRight
<1>1. InflateInv => OneBufferIsRight
  <2> SUFFICES ASSUME InflateInv, Len(stream) <= InputBuf
               PROVE  IsPrefix(file, Plain(stream)) /\ (pc = "done" => file = Plain(stream))
    BY DEF OneBufferIsRight
  <2>1. Ranges /\ Counted /\ Taken /\ InFile
    BY DEF InflateInv, LengthInv, OneBufferInv
  <2>2. PICK T : T = Plain(stream)
    OBVIOUS
  <2>3. PICK f : f = file
    OBVIOUS
  <2>4. IsSeq(f) /\ Len(f) <= Made /\ stream \in Streams
    BY <2>1, <2>3 DEF Ranges
  <2>5. /\ Len(stream) \in Nat /\ got \in Nat /\ used \in Nat /\ got <= Len(stream) /\ used <= got
        /\ Len(file) \in Nat /\ pend.left \in Nat /\ Made \in Int /\ Size(stream, used) \in Nat
    BY <2>1, Numbers
  <2>6. used \in 0 .. Len(stream)
    BY <2>5
  <2>7. IsSeq(T) /\ Size(stream, used) \in 0 .. Len(T)
    BY <2>2, <2>4, <2>6, OutGrows
  <2>8. Len(T) \in Nat
    BY <2>7 DEF IsSeq
  <2>9. Made <= Size(stream, used)
    BY <2>5 DEF Made
  <2>10. Len(f) \in 0 .. Len(T)
    BY <2>3, <2>4, <2>5, <2>7, <2>8, <2>9
  <2>11. \A k \in 1 .. Len(f) : f[k] = T[k]
    BY <2>1, <2>2, <2>3 DEF InFile
  <2>12. SubSeq(f, 1, Len(f)) = [k \in 1 .. Len(f) |-> f[k]]
    BY <2>4, Beginning
  <2>13. SubSeq(T, 1, Len(f)) = [k \in 1 .. Len(f) |-> T[k]]
    BY <2>7, <2>10, Beginning
  <2>14. SubSeq(f, 1, Len(f)) = SubSeq(T, 1, Len(f))
    BY <2>11, <2>12, <2>13
  <2>15. IsPrefix(f, T)
    BY <2>8, <2>10, <2>14 DEF IsPrefix
  <2>16. ASSUME pc = "done" PROVE f = T
    <3>1. Len(f) = Len(T)
      BY <2>2, <2>3, <2>16, LengthFollows DEF LengthIsRight
    <3> QED
      BY <2>4, <2>7, <2>11, <3>1, SameSeq
  <2> QED
    BY <2>2, <2>3, <2>15, <2>16
<1> QED
  BY <1>1, InflateInvariant, PTL
================================================================================
