---------------------------- MODULE ReadLinesProofs ----------------------------
(***************************************************************************)
(* Proofs about read_lines, for files of every length, newlines in any     *)
(* places, blocks of every size and a device that reads as little as it    *)
(* likes.                                                                  *)
(***************************************************************************)
EXTENDS ReadLines, SequenceProofs

--------------------------------------------------------------------------------
(* What has been collected of the first n bytes: lines that end with their *)
(* only newline, and a line without any.                                   *)
Lined(found) ==
  /\ found = [lines |-> found.lines, ln |-> found.ln]
  /\ IsSeq(found.lines) /\ IsSeq(found.ln)
  /\ \A i \in 1 .. Len(found.lines) :
       /\ IsSeq(found.lines[i])
       /\ \A k \in 1 .. Len(found.lines[i]) :
            found.lines[i][k] \in nl <=> k = Len(found.lines[i])
  /\ \A k \in 1 .. Len(found.ln) : found.ln[k] \notin nl
Bytes(n) == [k \in 1 .. n |-> k - 1]
Collected(found, n) == Lined(found) /\ FlattenSeq(found.lines) \o found.ln = Bytes(n)

LEMMA NextByte ==
  ASSUME NEW n \in Nat
  PROVE  IsSeq(Bytes(n)) /\ Len(Bytes(n)) = n /\ Append(Bytes(n), n) = Bytes(n + 1)
<1>1. IsSeq(Bytes(n)) /\ Len(Bytes(n)) = n
  BY DEF Bytes, IsSeq
<1>2. IsSeq(Bytes(n + 1)) /\ Len(Bytes(n + 1)) = n + 1
  BY DEF Bytes, IsSeq
<1>3. PICK s : s = Bytes(n)
  OBVIOUS
<1>4. /\ IsSeq(Append(s, n)) /\ Len(Append(s, n)) = n + 1
      /\ Append(s, n)[n + 1] = n /\ \A k \in 1 .. n : Append(s, n)[k] = s[k]
  BY <1>1, <1>3, AppendFacts
<1>5. ASSUME NEW k \in 1 .. n + 1 PROVE Append(s, n)[k] = Bytes(n + 1)[k]
  <2>1. Bytes(n + 1)[k] = k - 1 /\ (k \in 1 .. n => s[k] = k - 1)
    BY <1>3 DEF Bytes
  <2> QED
    BY <1>4, <2>1
<1> QED
  BY <1>1, <1>2, <1>3, <1>4, <1>5, SameSeq

LEMMA ByteAdded ==
  ASSUME NEW n \in Nat, NEW found, Collected(found, n)
  PROVE  Collected(AddByte(found, n), n + 1)
<1>1. PICK ls, l : found = [lines |-> ls, ln |-> l]
  BY DEF Collected, Lined
<1>2. found.lines = ls /\ found.ln = l
  BY <1>1
<1>3. /\ IsSeq(ls) /\ IsSeq(l) /\ \A i \in 1 .. Len(ls) : IsSeq(ls[i])
      /\ \A i \in 1 .. Len(ls) : \A k \in 1 .. Len(ls[i]) : ls[i][k] \in nl <=> k = Len(ls[i])
      /\ \A k \in 1 .. Len(l) : l[k] \notin nl
      /\ FlattenSeq(ls) \o l = Bytes(n)
  BY <1>2 DEF Collected, Lined
<1>4. PICK m : m = Append(l, n)
  OBVIOUS
<1>5. /\ IsSeq(m) /\ Len(m) = Len(l) + 1 /\ m[Len(l) + 1] = n /\ Len(l) \in Nat
      /\ \A k \in 1 .. Len(l) : m[k] = l[k]
  BY <1>3, <1>4, AppendFacts DEF IsSeq
<1>6. IsSeq(FlattenSeq(ls))
  BY <1>3, FlattenIsSeq
<1>7. FlattenSeq(ls) \o m = Bytes(n + 1)
  <2>1. PICK t : t = FlattenSeq(ls)
    OBVIOUS
  <2>2. t \o Append(l, n) = Append(t \o l, n)
    BY <1>3, <1>6, <2>1, AppendConcat
  <2> QED
    BY <1>3, <1>4, <2>1, <2>2, NextByte
<1>8. CASE n \in nl
  <2>1. PICK ms : ms = Append(ls, m)
    OBVIOUS
  <2>2. AddByte(found, n) = [lines |-> ms, ln |-> <<>>]
    <3>1. AddByte(found, n) = [lines |-> Append(found.lines, Append(found.ln, n)), ln |-> <<>>]
      BY <1>8, Zenon DEF AddByte
    <3> QED
      BY <1>2, <1>4, <2>1, <3>1, Zenon
  <2>3. /\ IsSeq(ms) /\ Len(ms) = Len(ls) + 1 /\ ms[Len(ls) + 1] = m /\ Len(ls) \in Nat
        /\ \A k \in 1 .. Len(ls) : ms[k] = ls[k]
    <3>1. IsSeq(ls)
      BY <1>3
    <3>2. Len(ls) \in Nat
      BY <3>1 DEF IsSeq
    <3> QED
      BY <2>1, <3>1, <3>2, AppendFacts
  <2>4. ASSUME NEW k \in 1 .. Len(m) PROVE m[k] \in nl <=> k = Len(m)
    <3>1. CASE k = Len(l) + 1
      BY <1>5, <1>8, <3>1
    <3>2. CASE k # Len(l) + 1
      <4>1. k \in 1 .. Len(l) /\ k # Len(m)
        BY <1>5, <3>2
      <4> QED
        BY <1>3, <1>5, <4>1
    <3> QED
      BY <3>1, <3>2
  <2>5. ASSUME NEW i \in 1 .. Len(ms)
        PROVE  IsSeq(ms[i]) /\ \A k \in 1 .. Len(ms[i]) : ms[i][k] \in nl <=> k = Len(ms[i])
    <3>1. CASE i = Len(ls) + 1
      BY <1>5, <2>3, <2>4, <3>1
    <3>2. CASE i # Len(ls) + 1
      <4>1. i \in 1 .. Len(ls)
        BY <2>3, <3>2
      <4> QED
        BY <1>3, <2>3, <4>1
    <3> QED
      BY <3>1, <3>2
  <2>6. FlattenSeq(ms) \o <<>> = Bytes(n + 1)
    <3>1. FlattenSeq(ms) = FlattenSeq(ls) \o m
      BY <1>3, <1>5, <2>1, FlattenAppend
    <3>2. IsSeq(Bytes(n + 1))
      BY NextByte
    <3> QED
      BY <1>7, <3>1, <3>2, ConcatEmpty
  <2>7. PICK r : r = AddByte(found, n)
    OBVIOUS
  <2>8. r = [lines |-> r.lines, ln |-> r.ln] /\ r.lines = ms /\ r.ln = <<>>
    BY <2>2, <2>7
  <2>9. Lined(r)
    BY <2>3, <2>5, <2>8, NothingIsSeq DEF Lined
  <2> QED
    BY <2>6, <2>7, <2>8, <2>9 DEF Collected
<1>9. CASE n \notin nl
  <2>1. PICK r : r = AddByte(found, n)
    OBVIOUS
  <2>2. r = [found EXCEPT !.ln = m]
    BY <1>2, <1>4, <1>9, <2>1 DEF AddByte
  <2>3. r = [lines |-> r.lines, ln |-> r.ln] /\ r.lines = ls /\ r.ln = m
    BY <1>1, <2>2
  <2>4. \A k \in 1 .. Len(m) : m[k] \notin nl
    BY <1>3, <1>5, <1>9
  <2>5. Lined(r)
    BY <1>3, <1>5, <2>3, <2>4 DEF Lined
  <2> QED
    BY <1>7, <2>1, <2>3, <2>5 DEF Collected
<1> QED
  BY <1>8, <1>9

--------------------------------------------------------------------------------
(* The rounds of the inner loop.                                           *)
Adds(f, found, n) ==
  f = [k \in 0 .. n |-> IF k = 0 THEN found ELSE AddByte(f[k - 1], Cur.off + k - 1)]

LEMMA AddsExist ==
  ASSUME NEW found
  PROVE  \A n \in Nat : \E f : Adds(f, found, n)
<1> DEFINE S == {n \in Nat : \E f : Adds(f, found, n)}
<1>1. 0 \in S
  <2>1. PICK f : f = [k \in 0 .. 0 |-> found]
    OBVIOUS
  <2>2. Adds(f, found, 0)
    BY <2>1 DEF Adds
  <2> QED
    BY <2>2
<1>2. ASSUME NEW n \in Nat, n \in S PROVE n + 1 \in S
  <2>1. PICK f : Adds(f, found, n)
    BY <1>2
  <2>2. PICK last : last = AddByte(f[n], Cur.off + (n + 1) - 1)
    OBVIOUS
  <2>3. PICK g : g = [k \in 0 .. n + 1 |-> IF k = n + 1 THEN last ELSE f[k]]
    OBVIOUS
  <2>4. ASSUME NEW k \in 0 .. n + 1
        PROVE  g[k] = IF k = 0 THEN found ELSE AddByte(g[k - 1], Cur.off + k - 1)
    <3>1. CASE k = n + 1
      <4>1. k # 0 /\ k - 1 = n /\ n \in 0 .. n + 1 /\ n # n + 1
        BY <3>1
      <4>2. g[k] = last /\ g[k - 1] = f[n]
        BY <2>3, <3>1, <4>1
      <4> QED
        BY <2>2, <3>1, <4>1, <4>2
    <3>2. CASE k # n + 1
      <4>1. k \in 0 .. n /\ (k # 0 => k - 1 \in 0 .. n /\ k - 1 \in 0 .. n + 1 /\ k - 1 # n + 1)
        BY <3>2
      <4>2. f[k] = IF k = 0 THEN found ELSE AddByte(f[k - 1], Cur.off + k - 1)
        BY <2>1, <4>1 DEF Adds
      <4>3. g[k] = f[k] /\ (k # 0 => g[k - 1] = f[k - 1])
        BY <2>3, <3>2, <4>1
      <4> QED
        BY <4>2, <4>3
    <3> QED
      BY <3>1, <3>2
  <2>5. Adds(g, found, n + 1)
    BY <2>3, <2>4 DEF Adds
  <2> QED
    BY <2>5
<1> HIDE DEF S
<1>3. \A n \in Nat : n \in S
  BY <1>1, <1>2, SetInduction
<1> QED
  BY <1>3 DEF S

LEMMA SplitCollects ==
  ASSUME Cur.off \in Nat, Cur.len \in Nat, NEW found, Collected(found, Cur.off)
  PROVE  Collected(Split(found), Cur.off + Cur.len)
<1> DEFINE f == CHOOSE g : Adds(g, found, Cur.len)
<1>1. Adds(f, found, Cur.len)
  BY AddsExist
<1>2. Split(found) = f[Cur.len]
  BY DEF Split, After, Adds
<1> HIDE DEF f
<1>3. PICK h : h = f
  OBVIOUS
<1>4. PICK m \in Nat : m = Cur.len
  OBVIOUS
<1>5. PICK off \in Nat : off = Cur.off
  OBVIOUS
<1>6. /\ h[0] = found
      /\ \A k \in 0 .. m : k # 0 => h[k] = AddByte(h[k - 1], off + k - 1)
  BY <1>1, <1>3, <1>4, <1>5 DEF Adds
<1> DEFINE S == {k \in Nat : k <= m => Collected(h[k], off + k)}
<1>7. 0 \in S
  BY <1>5, <1>6
<1>8. ASSUME NEW k \in Nat, k \in S PROVE k + 1 \in S
  <2> SUFFICES ASSUME k + 1 <= m PROVE Collected(h[k + 1], off + (k + 1))
    OBVIOUS
  <2>1. Collected(h[k], off + k) /\ off + k \in Nat
    BY <1>8
  <2>2. k + 1 \in 0 .. m /\ k + 1 # 0 /\ (k + 1) - 1 = k /\ off + (k + 1) - 1 = off + k
    OBVIOUS
  <2>3. h[k + 1] = AddByte(h[k], off + k)
    BY <1>6, <2>2
  <2>4. Collected(AddByte(h[k], off + k), (off + k) + 1)
    BY <2>1, ByteAdded
  <2>5. (off + k) + 1 = off + (k + 1)
    OBVIOUS
  <2> QED
    BY <2>3, <2>4, <2>5
<1> HIDE DEF S
<1>9. \A k \in Nat : k \in S
  BY <1>7, <1>8, SetInduction
<1>10. Collected(h[m], off + m)
  BY <1>9 DEF S
<1> QED
  BY <1>2, <1>3, <1>4, <1>5, <1>10

--------------------------------------------------------------------------------
(* The reader as read_lines finds it in each round: the block under the    *)
(* cursor ends where the file handle stands, and what lies before it has   *)
(* been collected.                                                         *)
Found == [lines |-> lines, ln |-> ln]
InBlock ==
  /\ Cur.off \in Nat /\ Cur.len \in Nat /\ Cur.off + Cur.len = fpos
  /\ Collected(Found, Cur.off)
FileCut ==
  /\ FlattenSeq(lines) = Bytes(flen) /\ IsSeq(lines)
  /\ \A i \in 1 .. Len(lines) :
       /\ IsSeq(lines[i])
       /\ \A k \in 1 .. Len(lines[i]) :
            /\ lines[i][k] \in nl => k = Len(lines[i])
            /\ k = Len(lines[i]) /\ i < Len(lines) => lines[i][k] \in nl
LinesInv ==
  /\ flen \in Nat /\ fpos \in 0 .. flen /\ block_idx \in 0 .. 1 /\ ~peek_rolled
  /\ blocks = [i \in 0 .. 1 |-> blocks[i]]
  /\ stage = "loop" => InBlock
  /\ stage = "done" => FileCut

LEMMA LinesInitially == LinesInit => LinesInv
<1> SUFFICES ASSUME LinesInit PROVE LinesInv
  OBVIOUS
<1>1. flen \in Nat /\ lines = <<>> /\ ln = <<>> /\ stage = "loop" /\ block_idx = 0 /\ ~peek_rolled
  BY FileLensAssumption DEF LinesInit, Init
<1>2. PICK m \in ReadCounts(0) :
        /\ blocks = [i \in 0 .. 1 |-> IF i = 0 THEN [off |-> 0, len |-> m] ELSE [off |-> 0, len |-> 0]]
        /\ fpos = m
  BY DEF LinesInit, Init
<1>3. m \in 0 .. flen
  BY <1>1, BlockSizeAssumption DEF ReadCounts, Smaller
<1>4. Cur = [off |-> 0, len |-> m]
  BY <1>1, <1>2 DEF Cur
<1>5. Collected(Found, 0)
  <2>1. IsSeq(lines) /\ IsSeq(ln) /\ Len(lines) = 0 /\ Len(ln) = 0
    BY <1>1, NothingIsSeq
  <2>2. Found = [lines |-> Found.lines, ln |-> Found.ln] /\ Found.lines = lines /\ Found.ln = ln
    BY DEF Found
  <2>3. Lined(Found)
    BY <2>1, <2>2 DEF Lined
  <2>4. FlattenSeq(lines) \o ln = Bytes(0)
    <3>1. FlattenSeq(lines) \o ln = <<>>
      BY <1>1, FlattenEmpty, NothingIsSeq, ConcatEmpty
    <3>2. Bytes(0) = <<>>
      BY NextByte, ZeroLength
    <3> QED
      BY <3>1, <3>2
  <2> QED
    BY <2>2, <2>3, <2>4 DEF Collected
<1>6. blocks = [i \in 0 .. 1 |-> blocks[i]]
  BY <1>2
<1>7. InBlock
  BY <1>2, <1>3, <1>4, <1>5 DEF InBlock
<1> QED
  BY <1>1, <1>2, <1>3, <1>6, <1>7 DEF LinesInv

(* What is in the block is collected, and the next one is behind it. *)
LEMMA Loading ==
  ASSUME LinesInv, stage = "loop", LoadBlock
  PROVE  /\ Collected(Split(Found), fpos) /\ ~peek_rolled'
         /\ blocks' = [i \in 0 .. 1 |-> blocks'[i]]
         /\ blocks'[Other].off = fpos /\ blocks'[Other].len \in Nat
         /\ fpos' = fpos + blocks'[Other].len /\ fpos' \in 0 .. flen
         /\ blocks'[Other].len = 0 => fpos = flen
<1>1. Collected(Split(Found), fpos)
  BY SplitCollects DEF LinesInv, InBlock
<1>2. flen \in Nat /\ fpos \in 0 .. flen /\ Other \in 0 .. 1
  BY DEF LinesInv, Other
<1>3. PICK m \in ReadCounts(fpos) :
        blocks' = [blocks EXCEPT ![Other] = [off |-> fpos, len |-> m]] /\ fpos' = fpos + m
  BY DEF LinesInv, LoadBlock
<1>4. m \in Nat /\ m <= flen - fpos /\ (m = 0 => fpos = flen)
  BY <1>2, BlockSizeAssumption DEF ReadCounts, Smaller, PeekLen
<1>5. blocks' = [i \in 0 .. 1 |-> IF i = Other THEN [off |-> fpos, len |-> m] ELSE blocks[i]]
  BY <1>3 DEF LinesInv
<1>6. blocks'[Other] = [off |-> fpos, len |-> m] /\ blocks' = [i \in 0 .. 1 |-> blocks'[i]]
  BY <1>2, <1>5
<1>7. ~peek_rolled'
  BY DEF LoadBlock, LinesInv
<1> QED
  BY <1>1, <1>2, <1>3, <1>4, <1>6, <1>7

LEMMA NextBlockKeeps == LinesInv /\ NextBlock => LinesInv'
<1> SUFFICES ASSUME LinesInv, NextBlock PROVE LinesInv'
  OBVIOUS
<1>1. /\ stage = "loop" /\ stage' = stage /\ LoadBlock /\ block_idx' = Other /\ nl' = nl /\ flen' = flen
      /\ lines' = Split(Found).lines /\ ln' = Split(Found).ln
  BY DEF NextBlock, Found
<1>2. /\ Collected(Split(Found), fpos) /\ ~peek_rolled'
      /\ blocks' = [i \in 0 .. 1 |-> blocks'[i]]
      /\ blocks'[Other].off = fpos /\ blocks'[Other].len \in Nat
      /\ fpos' = fpos + blocks'[Other].len /\ fpos' \in 0 .. flen
  BY <1>1, Loading
<1>3. Cur' = blocks'[Other]
  BY <1>1 DEF Cur
<1>4. Found' = Split(Found)
  BY <1>1, <1>2 DEF Found, Collected, Lined
<1>5. Collected(Found, Cur.off)'
  <2>1. Cur'.off = fpos
    BY <1>2, <1>3
  <2>2. Lined(Split(Found)) /\ FlattenSeq(lines') \o ln' = Bytes(fpos)
    BY <1>1, <1>2 DEF Collected
  <2>3. PICK r : r = Split(Found)
    OBVIOUS
  <2>4. Lined(Found)'
    BY <1>1, <1>4, <2>2, <2>3 DEF Lined
  <2>5. Found'.lines = lines' /\ Found'.ln = ln'
    BY DEF Found
  <2> QED
    BY <2>1, <2>2, <2>4, <2>5 DEF Collected
<1>6. flen \in Nat /\ fpos \in Nat /\ block_idx' \in 0 .. 1
  BY <1>1 DEF LinesInv, Other
<1>7. InBlock'
  BY <1>2, <1>3, <1>5, <1>6 DEF InBlock
<1> QED
  BY <1>1, <1>2, <1>6, <1>7 DEF LinesInv

LEMMA LastBlockKeeps == LinesInv /\ LastBlock => LinesInv'
<1> SUFFICES ASSUME LinesInv, LastBlock PROVE LinesInv'
  OBVIOUS
<1>1. /\ stage = "loop" /\ stage' = "done" /\ LoadBlock /\ UNCHANGED <<block_idx, nl, flen>>
      /\ blocks'[Other].len = 0 /\ lines' = LeftOver(Split(Found))
  BY DEF LastBlock, Found, Loaded
<1>2. /\ Collected(Split(Found), fpos) /\ ~peek_rolled'
      /\ blocks' = [i \in 0 .. 1 |-> blocks'[i]]
      /\ fpos' \in 0 .. flen /\ fpos = flen
  BY <1>1, Loading
<1>3. PICK r : r = Split(Found)
  OBVIOUS
<1>4. PICK ls : ls = r.lines
  OBVIOUS
<1>5. PICK l : l = r.ln
  OBVIOUS
<1>6. /\ IsSeq(ls) /\ IsSeq(l) /\ \A i \in 1 .. Len(ls) : IsSeq(ls[i])
      /\ \A i \in 1 .. Len(ls) : \A k \in 1 .. Len(ls[i]) : ls[i][k] \in nl <=> k = Len(ls[i])
      /\ \A k \in 1 .. Len(l) : l[k] \notin nl
      /\ FlattenSeq(ls) \o l = Bytes(flen)
      /\ Len(ls) \in Nat
  <2>1. Lined(r) /\ FlattenSeq(ls) \o l = Bytes(flen)
    BY <1>2, <1>3, <1>4, <1>5 DEF Collected
  <2>2. IsSeq(ls)
    BY <1>4, <2>1 DEF Lined
  <2>3. Len(ls) \in Nat
    BY <2>2 DEF IsSeq
  <2> QED
    BY <1>4, <1>5, <2>1, <2>3 DEF Lined
<1>7. lines' = IF l = <<>> THEN ls ELSE Append(ls, l)
  BY <1>1, <1>3, <1>4, <1>5 DEF LeftOver
<1>8. FileCut'
  <2>1. CASE l = <<>>
    <3>1. IsSeq(FlattenSeq(ls))
      BY <1>6, FlattenIsSeq
    <3>2. FlattenSeq(ls) = Bytes(flen)
      BY <1>6, <2>1, <3>1, ConcatEmpty
    <3> QED
      BY <1>1, <1>6, <1>7, <2>1, <3>2 DEF FileCut
  <2>2. CASE l # <<>>
    <3>1. PICK ms : ms = Append(ls, l)
      OBVIOUS
    <3>2. IsSeq(ls)
      BY <1>6
    <3>3. /\ IsSeq(ms) /\ Len(ms) = Len(ls) + 1 /\ ms[Len(ls) + 1] = l
          /\ \A k \in 1 .. Len(ls) : ms[k] = ls[k]
      BY <3>1, <3>2, AppendFacts
    <3>4. FlattenSeq(ms) = Bytes(flen)
      BY <1>6, <3>1, FlattenAppend
    <3>5. ASSUME NEW i \in 1 .. Len(ms)
          PROVE  /\ IsSeq(ms[i])
                 /\ \A k \in 1 .. Len(ms[i]) :
                      /\ ms[i][k] \in nl => k = Len(ms[i])
                      /\ k = Len(ms[i]) /\ i < Len(ms) => ms[i][k] \in nl
      <4>1. CASE i = Len(ls) + 1
        BY <1>6, <3>3, <4>1
      <4>2. CASE i # Len(ls) + 1
        <5>1. i \in 1 .. Len(ls)
          BY <1>6, <3>3, <4>2
        <5> QED
          BY <1>6, <3>3, <5>1
      <4> QED
        BY <4>1, <4>2
    <3>6. lines' = ms
      BY <1>7, <2>2, <3>1
    <3> QED
      BY <1>1, <3>3, <3>4, <3>5, <3>6 DEF FileCut
  <2> QED
    BY <2>1, <2>2
<1> QED
  BY <1>1, <1>2, <1>8 DEF LinesInv

(* The inductive invariant. *)
LEMMA LinesInvariant == LinesSpec => []LinesInv
<1>1. LinesInv /\ [Round \/ LinesFail]_allVars => LinesInv'
  <2> SUFFICES ASSUME LinesInv, [Round \/ LinesFail]_allVars PROVE LinesInv'
    OBVIOUS
  <2>1. CASE NextBlock \/ LastBlock
    BY <2>1, NextBlockKeeps, LastBlockKeeps
  <2>2. CASE LinesFail
    BY <2>2 DEF LinesFail, vars, fileVars, bufVars, LinesInv
  <2>3. CASE UNCHANGED allVars
    <3>1. UNCHANGED <<flen, fpos, blocks, block_idx, peek_rolled, nl, ln, lines, stage>>
      BY <2>3 DEF allVars, vars, fileVars, bufVars, lineVars
    <3> QED
      BY <3>1 DEF LinesInv, InBlock, FileCut, Cur, Found, Collected, Lined
  <2> QED
    BY <2>1, <2>2, <2>3 DEF Round
<1> QED
  BY <1>1, LinesInitially, PTL DEF LinesSpec

(* While read_lines carries lines over from block to block, nothing of the *)
(* file is lost, repeated or out of order, for every file, every block     *)
(* size and every number of bytes that a read returns.                     *)
THEOREM NothingLost == LinesSpec => []CollectedSoFar
<1>1. LinesInv => CollectedSoFar
  BY DEF LinesInv, InBlock, Collected, Found, Bytes, CollectedSoFar
<1> QED
  BY <1>1, LinesInvariant, PTL

(* The lines that read_lines returns are the file, cut behind each newline *)
(* and nowhere else.                                                       *)
THEOREM LinesCorrect == LinesSpec => []LinesAreFile
<1>1. LinesInv => LinesAreFile
  BY DEF LinesInv, FileCut, Bytes, IsSeq, LinesAreFile
<1> QED
  BY <1>1, LinesInvariant, PTL
================================================================================
