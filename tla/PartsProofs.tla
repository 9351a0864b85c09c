------------------------------ MODULE PartsProofs ------------------------------
(***************************************************************************)
(* The local file header, the bump allocator and get_partition, for every  *)
(* word size and every length: what the first two promise comes down to    *)
(* sums that wrap around where the model checker's small numbers might not.*)
(* Then the path functions, for every path.                                *)
(***************************************************************************)
EXTENDS ZipHeader, BumpAlloc, Mbr, Paths, SequenceProofs, FiniteSetTheorems

--------------------------------------------------------------------------------
(* The header.  What is left of the extra field is the distance from here  *)
(* to where it ends, once that has been passed by, a word more.            *)
HeaderTypeOK ==
  /\ hpc \in {"start", "fixed", "named", "extra", "ok", "error", "panic", "pastend"}
  /\ archive_len \in 0 .. MaxArchive /\ taken \in 0 .. archive_len
  /\ name_len \in Nat /\ extra_len \in Nat /\ data_left \in Nat

CountsDown ==
  /\ hpc \in {"start", "fixed"} => taken = 0
  /\ hpc = "named" => taken = FixedLen
  /\ hpc \in {"extra", "ok"} =>
       taken + data_left = Declared \/ taken + data_left = Declared + WordSize
  /\ hpc = "ok" => data_left = 0

HeaderInv == HeaderTypeOK /\ CountsDown

(* Reading a record keeps the sum of what is taken and what is left, up to *)
(* one wrap-around, as the archive is too short for another.               *)
LEMMA RecordCounted ==
  ASSUME HeaderInv, NEW d \in Nat, hpc = "extra",
         taken + (RecordLen + d) <= archive_len
  PROVE  /\ Counted(d) \in Nat
         /\ \/ taken + (RecordLen + d) + Counted(d) = Declared
            \/ taken + (RecordLen + d) + Counted(d) = Declared + WordSize
<1> DEFINE r == RecordLen + d
<1>1. /\ taken \in Nat /\ data_left \in Nat /\ r \in Nat /\ archive_len \in Nat
      /\ WordSize \in Nat /\ archive_len < WordSize /\ Declared \in Nat
  BY WordAssumption DEF HeaderInv, HeaderTypeOK, RecordLen, Declared, FixedLen
<1>2. taken + data_left = Declared \/ taken + data_left = Declared + WordSize
  BY DEF HeaderInv, CountsDown
<1>3. Counted(d) = IF data_left >= r THEN data_left - r ELSE data_left + WordSize - r
  BY DEF Counted, Minus, RecordLen
<1>4. taken + r <= archive_len
  OBVIOUS
<1> HIDE DEF r
<1>5. /\ Counted(d) \in Nat
      /\ taken + r + Counted(d) = Declared \/ taken + r + Counted(d) = Declared + WordSize
  BY <1>1, <1>2, <1>3, <1>4
<1> QED
  BY <1>5 DEF r

LEMMA HeaderInductive == HeaderInv /\ [HeaderNext]_headerVars => HeaderInv'
<1> SUFFICES ASSUME HeaderInv, [HeaderNext]_headerVars PROVE HeaderInv'
  OBVIOUS
<1> USE DEF HeaderInv, HeaderTypeOK, CountsDown, Declared
<1>1. CASE HeaderCall
  BY <1>1, WordAssumption DEF HeaderCall
<1>2. CASE ReadFixed
  <2>1. taken = 0 /\ taken' = 30 /\ 30 <= archive_len /\ archive_len' = archive_len
    BY <1>2 DEF ReadFixed, TakesBytes, FixedLen
  <2>2. hpc' \in {"named", "error"} /\ name_len' \in Nat /\ extra_len' \in Nat /\ data_left' = data_left
    BY <1>2, LensAssumption DEF ReadFixed
  <2>3. HeaderTypeOK'
    BY <2>1, <2>2, WordAssumption
  <2>4. CountsDown'
    BY <2>1, <2>2 DEF FixedLen
  <2> QED
    BY <2>3, <2>4
<1>3. CASE ReadName
  BY <1>3, WordAssumption DEF ReadName, TakesBytes, FixedLen
<1>4. ASSUME NEW d \in DataLens, ReadRecord(d) PROVE HeaderInv'
  <2>1. d \in Nat /\ hpc = "extra" /\ taken + (RecordLen + d) <= archive_len
    BY <1>4, LensAssumption DEF ReadRecord, TakesBytes
  <2>2. /\ Counted(d) \in Nat
        /\ \/ taken + (RecordLen + d) + Counted(d) = Declared
           \/ taken + (RecordLen + d) + Counted(d) = Declared + WordSize
    BY <2>1, RecordCounted
  <2>3. /\ taken' = taken + (RecordLen + d)
        /\ UNCHANGED <<archive_len, name_len, extra_len>>
    BY <1>4 DEF ReadRecord, TakesBytes
  <2>4. HeaderTypeOK' /\ hpc' \in {"extra", "panic"}
    BY <1>4, <2>1, <2>2, <2>3, WordAssumption DEF ReadRecord, RecordLen
  <2>5. CASE data_left' = Counted(d) /\ hpc' = hpc
    BY <2>1, <2>2, <2>3, <2>4, <2>5
  <2>6. CASE hpc' = "panic"
    BY <2>4, <2>6
  <2> QED
    BY <1>4, <2>5, <2>6 DEF ReadRecord
<1>5. CASE HeaderOk
  BY <1>5 DEF HeaderOk
<1>6. CASE HeaderFails
  BY <1>6 DEF HeaderFails
<1>7. CASE UNCHANGED headerVars
  BY <1>7 DEF headerVars
<1> QED
  BY <1>1, <1>2, <1>3, <1>4, <1>5, <1>6, <1>7 DEF HeaderNext

(* A header that is accepted ends where its length fields say: a wrapped   *)
(* count is never zero again inside an archive that fits the address space.*)
THEOREM HeaderCorrect == HeaderSpec => []HeaderEndsExactly
<1>1. HeaderInit => HeaderInv
  BY WordAssumption DEF HeaderInit, HeaderInv, HeaderTypeOK, CountsDown
<1>2. HeaderInv => HeaderEndsExactly
  BY WordAssumption
  DEF HeaderInv, HeaderTypeOK, CountsDown, HeaderEndsExactly, Declared, FixedLen
<1> QED
  BY <1>1, <1>2, HeaderInductive, PTL DEF HeaderSpec

--------------------------------------------------------------------------------
(* The allocator.  All blocks are below the head.                          *)
AllocInv ==
  /\ head \in Base .. End
  /\ \A b \in blocks : /\ b.start \in Nat /\ b.size \in Nat /\ b.align \in Nat \ {0}
                       /\ b.start + b.size <= head
  /\ BlocksApart

(* A start is a multiple of the alignment at or behind the head, less than *)
(* one alignment away: neither sum wraps around.                           *)
LEMMA StartAligned ==
  ASSUME NEW a \in Aligns, head \in Base .. End
  PROVE  /\ Start(a) \in Nat /\ Start(a) % a = 0
         /\ head <= Start(a) /\ Start(a) < head + a
<1>1. a \in Nat /\ 1 <= a /\ 4 * a <= W /\ W \in Nat /\ 4 * End <= W /\ End \in Nat
  BY RegionAssumption, LayoutAssumption
<1>2. head \in Nat /\ head <= End
  BY RegionAssumption
<1> DEFINE x == head + a - 1
<1>3. x \in Nat /\ x < W /\ head <= x /\ x < head + a
  BY <1>1, <1>2
<1> HIDE DEF x
<1>4. Start(a) = x - (x % a)
  <2>1. x % W = x
    BY <1>1, <1>3
  <2> QED
    BY <2>1 DEF Start, x
<1>5. x % a \in 0 .. a - 1 /\ x \div a \in Nat /\ x = a * (x \div a) + (x % a)
  BY <1>1, <1>3
<1>6. Start(a) = a * (x \div a)
  BY <1>1, <1>3, <1>4, <1>5
<1>7. \A q \in Nat : (a * q) % a = 0
  BY <1>1
<1>8. x - (x % a) \in Nat /\ x - (x % a) <= x /\ head <= x - (x % a)
  <2>1. x = head + a - 1
    BY DEF x
  <2> QED
    BY <1>1, <1>2, <1>3, <1>5, <2>1
<1>9. Start(a) % a = 0
  BY <1>5, <1>6, <1>7
<1>10. Start(a) \in Nat /\ head <= Start(a) /\ Start(a) < head + a
  BY <1>1, <1>2, <1>3, <1>4, <1>8
<1> QED
  BY <1>9, <1>10

LEMMA NoWrap ==
  ASSUME NEW a \in Aligns, NEW s \in Sizes, head \in Base .. End
  PROVE  /\ Start(a) + s \in Nat
         /\ Passes(Start(a), s) <=> Start(a) + s > End
<1>1. a \in Nat /\ 4 * a <= W /\ s \in Nat /\ 2 * s <= W /\ 1 <= a
  BY LayoutAssumption
<1>2. W \in Nat /\ End \in Nat /\ 4 * End <= W /\ head \in Nat /\ head <= End
  BY RegionAssumption
<1>3. Start(a) \in Nat /\ Start(a) < head + a
  BY StartAligned
<1>4. Start(a) + s \in Nat /\ Start(a) + s < W
  BY <1>1, <1>2, <1>3
<1>5. (Start(a) + s) % W = Start(a) + s
  BY <1>2, <1>4
<1> QED
  BY <1>4, <1>5 DEF Passes

LEMMA AllocInductive == AllocInv /\ [AllocNext]_allocVars => AllocInv'
<1> SUFFICES ASSUME AllocInv, [AllocNext]_allocVars PROVE AllocInv'
  OBVIOUS
<1>1. ASSUME NEW s \in Sizes, NEW a \in Aligns, Alloc(s, a) PROVE AllocInv'
  <2> DEFINE new == [start |-> Start(a), size |-> s, align |-> a]
  <2>1. head \in Base .. End /\ Base \in Nat /\ End \in Nat /\ s \in Nat /\ a \in Nat \ {0}
    BY RegionAssumption, LayoutAssumption DEF AllocInv
  <2>2. Start(a) \in Nat /\ Start(a) % a = 0 /\ head <= Start(a)
    BY <2>1, StartAligned
  <2>3. Start(a) + s \in Nat /\ Start(a) + s <= End
    <3>1. Passes(Start(a), s) <=> Start(a) + s > End
      BY <2>1, NoWrap
    <3> QED
      BY <1>1, <2>1, <2>2, <3>1 DEF Alloc
  <2>4. head' = Start(a) + s /\ blocks' = blocks \cup {new}
    BY <1>1 DEF Alloc
  <2>5. /\ new.start = Start(a) /\ new.size = s /\ new.align = a
    OBVIOUS
  <2> HIDE DEF new
  <2>6. head' \in Base .. End /\ head <= head'
    BY <2>1, <2>2, <2>3, <2>4
  <2>7. \A b \in blocks : /\ b.start \in Nat /\ b.size \in Nat /\ b.align \in Nat \ {0}
                          /\ b.start + b.size <= head /\ b.start % b.align = 0
                          /\ Base <= b.start /\ b.start + b.size <= End
    BY DEF AllocInv, BlocksApart
  <2>8. \A b \in blocks' : /\ b.start \in Nat /\ b.size \in Nat /\ b.align \in Nat \ {0}
                           /\ b.start + b.size <= head' /\ b.start % b.align = 0
                           /\ Base <= b.start /\ b.start + b.size <= End
    <3>1. ASSUME NEW b \in blocks
          PROVE  b.start + b.size <= head'
      BY <2>1, <2>6, <2>7
    <3> QED
      BY <2>1, <2>2, <2>3, <2>4, <2>5, <2>7, <3>1
  <2>9. ASSUME NEW b \in blocks', NEW c \in blocks', b # c
        PROVE  b.start + b.size <= c.start \/ c.start + c.size <= b.start
    <3>1. CASE b \in blocks /\ c \in blocks
      BY <2>9, <3>1 DEF AllocInv, BlocksApart
    <3>2. CASE b \in blocks /\ c = new
      BY <2>1, <2>2, <2>5, <2>7, <3>2
    <3>3. CASE b = new /\ c \in blocks
      BY <2>1, <2>2, <2>5, <2>7, <3>3
    <3> QED
      BY <2>4, <2>9, <3>1, <3>2, <3>3
  <2> QED
    BY <2>6, <2>8, <2>9 DEF AllocInv, BlocksApart
<1>2. ASSUME NEW s \in Sizes, NEW a \in Aligns, Null(s, a) PROVE AllocInv'
  BY <1>2 DEF Null, AllocInv, BlocksApart
<1>3. CASE UNCHANGED allocVars
  BY <1>3 DEF allocVars, AllocInv, BlocksApart
<1> QED
  BY <1>1, <1>2, <1>3 DEF AllocNext

LEMMA AllocInitially == AllocInit => AllocInv
  BY RegionAssumption DEF AllocInit, AllocInv, BlocksApart

(* No two blocks share a byte, whatever is asked for and in what order. *)
THEOREM AllocCorrect == AllocSpec => []BlocksApart
<1>1. AllocInv => BlocksApart
  BY DEF AllocInv
<1> QED
  BY <1>1, AllocInitially, AllocInductive, PTL DEF AllocSpec

--------------------------------------------------------------------------------
(* A multiple of the alignment in front of the start that is chosen is in  *)
(* front of the head: the multiples before it are one alignment away.      *)
LEMMA StartIsFirst ==
  ASSUME NEW a \in Aligns, head \in Base .. End, NEW p \in Nat, head <= p, p % a = 0
  PROVE  Start(a) <= p
<1>1. a \in Nat /\ 1 <= a
  BY LayoutAssumption
<1>2. head \in Nat
  BY RegionAssumption
<1>3. Start(a) \in Nat /\ Start(a) % a = 0 /\ Start(a) < head + a
  BY StartAligned
<1> DEFINE i == Start(a) \div a
           j == p \div a
<1>4. i \in Nat /\ Start(a) = a * i
  BY <1>1, <1>3
<1>5. j \in Nat /\ p = a * j
  BY <1>1
<1> HIDE DEF i, j
<1>6. SUFFICES ASSUME p < Start(a) PROVE FALSE
  BY <1>3
<1>7. j + 1 <= i
  <2>1. a * j < a * i
    BY <1>4, <1>5, <1>6
  <2>2. SUFFICES ASSUME i <= j PROVE FALSE
    BY <1>4, <1>5
  <2>3. a * i <= a * j
    BY <1>1, <1>4, <1>5, <2>2
  <2> QED
    BY <1>1, <1>4, <1>5, <2>1, <2>3
<1>8. a * (j + 1) <= a * i
  BY <1>1, <1>4, <1>5, <1>7
<1>9. a * (j + 1) = a * j + a
  BY <1>1, <1>5
<1> QED
  BY <1>1, <1>2, <1>3, <1>4, <1>5, <1>8, <1>9

(* Null is the answer only when nothing aligned is left in the region. *)
THEOREM NullCorrect == AllocSpec => []NullMeansFull
<1>1. AllocInit => NullMeansFull
  BY DEF AllocInit, NullMeansFull
<1>2. AllocInv /\ NullMeansFull /\ [AllocNext]_allocVars => NullMeansFull'
  <2> SUFFICES ASSUME AllocInv, NullMeansFull, [AllocNext]_allocVars PROVE NullMeansFull'
    OBVIOUS
  <2>1. ASSUME NEW s \in Sizes, NEW a \in Aligns, Alloc(s, a) PROVE NullMeansFull'
    BY <2>1 DEF Alloc, NullMeansFull
  <2>2. ASSUME NEW s \in Sizes, NEW a \in Aligns, Null(s, a) PROVE NullMeansFull'
    <3>1. head \in Base .. End /\ Base \in Nat /\ End \in Nat /\ s \in Nat
      BY RegionAssumption, LayoutAssumption DEF AllocInv
    <3>2. Start(a) \in Nat /\ Start(a) + s > End
      BY <2>2, <3>1, NoWrap, StartAligned DEF Null
    <3>3. ASSUME NEW p \in head .. End, p % a = 0 PROVE p + s > End
      <4>1. p \in Nat /\ head <= p
        BY <3>1
      <4>2. Start(a) <= p
        BY <3>1, <3>3, <4>1, StartIsFirst
      <4> QED
        BY <3>1, <3>2, <4>1, <4>2
    <3>4. head' = head /\ refused' = [size |-> s, align |-> a]
      BY <2>2 DEF Null
    <3> QED
      BY <3>3, <3>4 DEF NullMeansFull
  <2>3. CASE UNCHANGED allocVars
    BY <2>3 DEF allocVars, NullMeansFull
  <2> QED
    BY <2>1, <2>2, <2>3 DEF AllocNext
<1> QED
  BY <1>1, <1>2, AllocInitially, AllocInductive, PTL DEF AllocSpec

--------------------------------------------------------------------------------
(* get_partition: what was read is what the tests are about.               *)
MbrInv ==
  /\ mpc \in {"start", "check", "ok", "error"}
  /\ mpc # "start" => card \in Cards /\ nread \in 0 .. BlockLen /\ volume_idx \in 0 .. 4

LEMMA MbrInductive == MbrInv /\ [MbrNext]_mbrVars => MbrInv'
BY CountsAssumption DEF MbrInv, MbrNext, MbrRead, TakePartition, MbrRefuses, mbrVars

(* A byte that is not zero was read.                                       *)
LEMMA TakenWasRead ==
  ASSUME MbrInv, TakePartition
  PROVE  PartitionWasRead'
<1>1. card \in Cards /\ nread \in Nat /\ volume_idx \in 0 .. 3
  BY DEF MbrInv, TakePartition, BlockLen
<1>2. FooterAt + 1 < nread /\ card[FooterAt + 1] = FooterHigh
  BY <1>1 DEF TakePartition, FooterIsRight, Byte, FooterHigh
<1>3. EntryAt(volume_idx) \in 446 .. 494 /\ EntryAt(volume_idx) + EntryLen <= FooterAt
  BY <1>1 DEF EntryAt, EntryLen, FooterAt
<1>4. card[EntryAt(volume_idx)] \in {0, 1, 128} /\ card[EntryAt(volume_idx)] % 128 = 0
  BY <1>1, <1>2, <1>3 DEF TakePartition, StatusIsRight, Byte, FooterAt, Cards
<1>5. card[EntryAt(volume_idx)] \in {0, 128}
  BY <1>4
<1>6. partition' = EntryAt(volume_idx) /\ card' = card /\ nread' = nread
  BY DEF TakePartition
<1>7. EntryAt(volume_idx) + EntryLen <= nread
  BY <1>1, <1>2, <1>3 DEF FooterAt, EntryLen
<1> QED
  BY <1>1, <1>2, <1>5, <1>6, <1>7 DEF PartitionWasRead

(* Whatever the card holds and however little of it the one read returns,  *)
(* a partition is made only of an entry that was read to its last byte.    *)
THEOREM PartitionCorrect == MbrSpec => []PartitionWasRead
<1>1. MbrInit => MbrInv /\ PartitionWasRead
  BY DEF MbrInit, MbrInv, PartitionWasRead
<1>2. MbrInv /\ PartitionWasRead /\ [MbrNext]_mbrVars => PartitionWasRead'
  <2> SUFFICES ASSUME MbrInv, PartitionWasRead, [MbrNext]_mbrVars PROVE PartitionWasRead'
    OBVIOUS
  <2>1. MbrRead \/ MbrRefuses => PartitionWasRead'
    BY DEF MbrRead, MbrRefuses, PartitionWasRead
  <2>2. UNCHANGED mbrVars => PartitionWasRead'
    BY DEF mbrVars, PartitionWasRead
  <2> QED
    BY <2>1, <2>2, TakenWasRead DEF MbrNext
<1> QED
  BY <1>1, <1>2, MbrInductive, PTL DEF MbrSpec

--------------------------------------------------------------------------------
(* The path functions.  The names of a path p, as found among its first n  *)
(* characters.                                                             *)
NoneYet == [names |-> <<>>, chunk |-> <<>>]
Finds(f, p, n) == f = [k \in 0 .. n |-> IF k = 0 THEN NoneYet ELSE AddChar(f[k - 1], p[k])]

LEMMA FindsExist ==
  ASSUME NEW p
  PROVE  \A n \in Nat : \E f : Finds(f, p, n)
<1> DEFINE S == {n \in Nat : \E f : Finds(f, p, n)}
<1>1. 0 \in S
  <2>1. PICK f : f = [k \in 0 .. 0 |-> NoneYet]
    OBVIOUS
  <2>2. Finds(f, p, 0)
    BY <2>1 DEF Finds
  <2> QED
    BY <2>2
<1>2. ASSUME NEW n \in Nat, n \in S PROVE n + 1 \in S
  <2>1. PICK f : Finds(f, p, n)
    BY <1>2
  <2>2. PICK last : last = AddChar(f[n], p[n + 1])
    OBVIOUS
  <2>3. PICK g : g = [k \in 0 .. n + 1 |-> IF k = n + 1 THEN last ELSE f[k]]
    OBVIOUS
  <2>4. ASSUME NEW k \in 0 .. n + 1
        PROVE  g[k] = IF k = 0 THEN NoneYet ELSE AddChar(g[k - 1], p[k])
    <3>1. CASE k = n + 1
      <4>1. k # 0 /\ k - 1 = n /\ n \in 0 .. n + 1 /\ n # n + 1
        BY <3>1
      <4>2. g[k] = last /\ g[k - 1] = f[n]
        BY <2>3, <3>1, <4>1
      <4> QED
        BY <2>2, <3>1, <4>1, <4>2
    <3>2. CASE k # n + 1
      <4>1. k \in 0 .. n /\ (k # 0 => k - 1 \in 0 .. n /\ k - 1 \in 0 .. n + 1 /\ k - 1 # n + 1)
        BY <3>2
      <4>2. f[k] = IF k = 0 THEN NoneYet ELSE AddChar(f[k - 1], p[k])
        BY <2>1, <4>1 DEF Finds
      <4>3. g[k] = f[k] /\ (k # 0 => g[k - 1] = f[k - 1])
        BY <2>3, <3>2, <4>1
      <4> QED
        BY <4>2, <4>3
    <3> QED
      BY <3>1, <3>2
  <2>5. Finds(g, p, n + 1)
    BY <2>3, <2>4 DEF Finds
  <2> QED
    BY <2>5
<1> HIDE DEF S
<1>3. \A n \in Nat : n \in S
  BY <1>1, <1>2, SetInduction
<1> QED
  BY <1>3 DEF S

(* The runs that start among the first n characters.                       *)
Starts(p, n) == {i \in 1 .. n : p[i] # Slash /\ (i = 1 \/ p[i - 1] = Slash)}
Count(p, n) == Cardinality(Starts(p, n))
Run(p, i, n) == SubSeq(p, i, n)
IsRun(p, i, n) == /\ i \in Starts(p, n) /\ \A k \in i .. n : p[k] # Slash
                  /\ n = Len(p) \/ p[n + 1] = Slash

LEMMA CountSteps ==
  ASSUME NEW p
  PROVE  /\ Count(p, 0) = 0
         /\ \A n \in Nat : /\ Count(p, n) \in Nat
                           /\ Count(p, n + 1) = Count(p, n) +
                                (IF n + 1 \in Starts(p, n + 1) THEN 1 ELSE 0)
<1>1. ASSUME NEW n \in Nat PROVE IsFiniteSet(Starts(p, n)) /\ Count(p, n) \in Nat
  <2>1. IsFiniteSet(1 .. n)
    BY FS_Interval
  <2>2. Starts(p, n) \in SUBSET (1 .. n)
    BY DEF Starts
  <2>3. IsFiniteSet(Starts(p, n))
    BY <2>1, <2>2, FS_Subset
  <2> QED
    BY <2>3, FS_CardinalityType DEF Count
<1>2. Count(p, 0) = 0
  <2>1. Starts(p, 0) = {}
    BY DEF Starts
  <2> QED
    BY <2>1, FS_EmptySet DEF Count
<1>3. ASSUME NEW n \in Nat
      PROVE  Count(p, n + 1) = Count(p, n) + (IF n + 1 \in Starts(p, n + 1) THEN 1 ELSE 0)
  <2>1. CASE n + 1 \in Starts(p, n + 1)
    <3>1. Starts(p, n + 1) = Starts(p, n) \cup {n + 1} /\ n + 1 \notin Starts(p, n)
      BY <2>1 DEF Starts
    <3>2. Cardinality(Starts(p, n) \cup {n + 1}) = Cardinality(Starts(p, n)) + 1
      BY <1>1, <3>1, FS_AddElement
    <3> QED
      BY <2>1, <3>1, <3>2 DEF Count
  <2>2. CASE n + 1 \notin Starts(p, n + 1)
    <3>1. Starts(p, n + 1) = Starts(p, n)
      BY <2>2 DEF Starts
    <3> QED
      BY <1>1, <2>2, <3>1 DEF Count
  <2> QED
    BY <2>1, <2>2
<1> QED
  BY <1>1, <1>2, <1>3

(* No run starts inside of another. *)
LEMMA CountOfRun ==
  ASSUME NEW p, NEW n \in Nat, NEW i \in Starts(p, n), \A k \in i .. n : p[k] # Slash
  PROVE  Count(p, i) = Count(p, n)
<1>1. i \in 1 .. n
  BY DEF Starts
<1>2. ASSUME NEW j \in Starts(p, n) PROVE j <= i
  <2> SUFFICES ASSUME j > i PROVE FALSE
    BY <1>1 DEF Starts
  <2>1. j \in 1 .. n /\ j # 1 /\ j - 1 \in i .. n
    BY <1>1 DEF Starts
  <2> QED
    BY <2>1 DEF Starts
<1>3. Starts(p, i) = Starts(p, n)
  <2>1. ASSUME NEW j \in Starts(p, n) PROVE j \in Starts(p, i)
    BY <1>1, <1>2, <2>1 DEF Starts
  <2>2. ASSUME NEW j \in Starts(p, i) PROVE j \in Starts(p, n)
    BY <1>1, <2>2 DEF Starts
  <2> QED
    BY <2>1, <2>2
<1> QED
  BY <1>3 DEF Count

(* The names are the runs, each at the place of its start among the starts.*)
Names(names, p, n) ==
  \A i \in Starts(p, n) :
    /\ Count(p, i) \in 1 .. Len(names)
    /\ \E e \in i .. n : IsRun(p, i, e) /\ names[Count(p, i)] = Run(p, i, e)
AllRuns(names, p, n) == IsSeq(names) /\ Len(names) = Count(p, n) /\ Names(names, p, n)

(* What is found among n characters: the runs that have ended, and in the  *)
(* chunk the one that has not.                                             *)
ChunkOf(chunk, p, n) ==
  /\ IsSeq(chunk) /\ Len(chunk) <= n
  /\ \A k \in 1 .. Len(chunk) : chunk[k] = p[n - Len(chunk) + k] /\ chunk[k] # Slash
  /\ Len(chunk) = n \/ p[n - Len(chunk)] = Slash
Found(r, p, n) ==
  /\ r = [names |-> r.names, chunk |-> r.chunk]
  /\ IsSeq(r.names) /\ ChunkOf(r.chunk, p, n)
  /\ Count(p, n) = Len(r.names) + (IF Len(r.chunk) = 0 THEN 0 ELSE 1)
  /\ Names(r.names, p, n - Len(r.chunk))

LEMMA RunFacts ==
  ASSUME NEW p, IsSeq(p), NEW i \in 1 .. Len(p), NEW n \in i .. Len(p)
  PROVE  /\ IsSeq(Run(p, i, n)) /\ Len(Run(p, i, n)) = n - i + 1
         /\ \A k \in 1 .. n - i + 1 : Run(p, i, n)[k] = p[i + k - 1]
<1>1. p \in Seq({p[k] : k \in 1 .. Len(p)}) /\ Len(p) \in Nat
  BY DEF IsSeq
<1>2. i \in Nat /\ n \in Nat /\ n - i + 1 \in Nat
  BY <1>1
<1>3. Run(p, i, n) = [k \in 1 .. n - i + 1 |-> p[i + k - 1]]
  BY <1>1, <1>2 DEF Run
<1> QED
  BY <1>2, <1>3 DEF IsSeq

LEMMA ChunkIsRun ==
  ASSUME NEW p, IsSeq(p), NEW n \in 1 .. Len(p), NEW chunk, ChunkOf(chunk, p, n), Len(chunk) > 0
  PROVE  /\ n - Len(chunk) + 1 \in Starts(p, n)
         /\ \A k \in n - Len(chunk) + 1 .. n : p[k] # Slash
         /\ chunk = Run(p, n - Len(chunk) + 1, n)
<1>1. PICK l \in Nat, m \in Nat : l = Len(chunk) /\ m = Len(p)
  BY DEF ChunkOf, IsSeq
<1>2. PICK i \in Nat : i = n - l + 1
  <2>1. l <= n /\ n \in Nat
    BY <1>1 DEF ChunkOf
  <2>2. n - l + 1 \in Nat
    BY <2>1
  <2> QED
    BY <2>2
<1>3. /\ l > 0 /\ l <= n /\ n \in 1 .. m /\ (l = n \/ p[n - l] = Slash)
      /\ \A k \in 1 .. l : chunk[k] = p[n - l + k] /\ chunk[k] # Slash
  BY <1>1 DEF ChunkOf
<1>4. i \in 1 .. n /\ n \in i .. m /\ i \in 1 .. m
  BY <1>1, <1>2, <1>3
<1>5. ASSUME NEW k \in i .. n PROVE p[k] # Slash
  <2>1. k - (n - l) \in 1 .. l /\ n - l + (k - (n - l)) = k
    BY <1>2, <1>3, <1>4
  <2> QED
    BY <1>3, <2>1
<1>6. i = 1 \/ p[i - 1] = Slash
  <2>1. l # n => i - 1 = n - l
    BY <1>2, <1>3
  <2>2. l = n => i = 1
    BY <1>2, <1>3
  <2> QED
    BY <1>3, <2>1, <2>2
<1>7. p[i] # Slash
  BY <1>4, <1>5
<1>8. i \in Starts(p, n)
  BY <1>4, <1>6, <1>7 DEF Starts
<1>9. chunk = Run(p, i, n)
  <2>1. /\ IsSeq(Run(p, i, n)) /\ Len(Run(p, i, n)) = n - i + 1
        /\ \A k \in 1 .. n - i + 1 : Run(p, i, n)[k] = p[i + k - 1]
    BY <1>1, <1>4, RunFacts
  <2>2. n - i + 1 = l /\ \A k \in 1 .. l : i + k - 1 = n - l + k
    BY <1>2, <1>3
  <2>3. IsSeq(chunk)
    BY DEF ChunkOf
  <2>4. \A k \in 1 .. l : chunk[k] = Run(p, i, n)[k]
    BY <1>3, <2>1, <2>2
  <2> QED
    BY <1>1, <2>1, <2>2, <2>3, <2>4, SameSeq
<1> QED
  BY <1>1, <1>2, <1>5, <1>8, <1>9

(* A chunk that ends is a name. *)
LEMMA ChunkEnds ==
  ASSUME NEW p, IsSeq(p), NEW n \in 0 .. Len(p), NEW r, Found(r, p, n), n = Len(p) \/ p[n + 1] = Slash
  PROVE  AllRuns(Kept(r.names, r.chunk), p, n)
<1>1. PICK names, chunk : names = r.names /\ chunk = r.chunk
  OBVIOUS
<1>2. /\ IsSeq(names) /\ IsSeq(chunk) /\ ChunkOf(chunk, p, n)
      /\ Count(p, n) = Len(names) + (IF Len(chunk) = 0 THEN 0 ELSE 1)
      /\ Names(names, p, n - Len(chunk))
  BY <1>1 DEF Found, ChunkOf
<1>3. PICK l \in Nat, m \in Nat : l = Len(chunk) /\ m = Len(names) /\ n \in Nat /\ l <= n
  BY <1>2 DEF IsSeq, ChunkOf
<1>4. chunk = <<>> <=> l = 0
  BY <1>2, <1>3, ZeroLength
<1>5. CASE l = 0
  <2>1. Kept(names, chunk) = names /\ n - l = n
    BY <1>4, <1>5 DEF Kept
  <2> QED
    BY <1>1, <1>2, <1>3, <1>5, <2>1 DEF AllRuns
<1>6. CASE l > 0
  <2>1. PICK all : all = Append(names, chunk)
    OBVIOUS
  <2>2. Kept(names, chunk) = all
    BY <1>4, <1>6, <2>1 DEF Kept
  <2>3. /\ IsSeq(all) /\ Len(all) = m + 1 /\ all[m + 1] = chunk
        /\ \A k \in 1 .. m : all[k] = names[k]
    BY <1>2, <1>3, <2>1, AppendFacts
  <2>4. Count(p, n) = m + 1
    BY <1>2, <1>3, <1>6
  <2>5. PICK i \in Nat : i = n - l + 1 /\ i <= n /\ n \in 1 .. Len(p)
    BY <1>3, <1>6
  <2>6. i \in Starts(p, n) /\ (\A k \in i .. n : p[k] # Slash) /\ chunk = Run(p, i, n)
    BY <1>2, <1>3, <1>6, <2>5, ChunkIsRun
  <2>7. ASSUME NEW j \in Starts(p, n)
        PROVE  /\ Count(p, j) \in 1 .. m + 1
               /\ \E e \in j .. n : IsRun(p, j, e) /\ all[Count(p, j)] = Run(p, j, e)
    <3>1. j \in 1 .. n
      BY DEF Starts
    <3>2. CASE j = i
      <4>1. Count(p, j) = m + 1
        BY <1>3, <2>4, <2>6, <3>2, CountOfRun
      <4>2. IsRun(p, j, n)
        BY <2>6, <3>2 DEF IsRun
      <4>3. n \in j .. n
        BY <3>1
      <4> QED
        BY <1>3, <2>3, <2>6, <3>2, <4>1, <4>2, <4>3
    <3>3. CASE j # i
      <4>1. j <= n - l
        <5> SUFFICES ASSUME j > i PROVE FALSE
          BY <1>3, <2>5, <3>1, <3>3
        <5>1. j # 1 /\ j - 1 \in i .. n
          BY <1>3, <2>5, <3>1
        <5> QED
          BY <2>6, <5>1 DEF Starts
      <4>2. j \in Starts(p, n - l)
        BY <1>3, <3>1, <4>1 DEF Starts
      <4>3. /\ Count(p, j) \in 1 .. m
            /\ \E e \in j .. n - l : IsRun(p, j, e) /\ names[Count(p, j)] = Run(p, j, e)
        BY <1>2, <1>3, <4>2 DEF Names
      <4>4. \A e \in j .. n - l : e \in j .. n
        BY <1>3, <3>1
      <4>5. Count(p, j) \in 1 .. m + 1
        BY <1>3, <4>3
      <4> QED
        BY <2>3, <4>3, <4>4, <4>5
    <3> QED
      BY <3>2, <3>3
  <2>8. Names(all, p, n)
    BY <2>3, <2>7 DEF Names
  <2> QED
    BY <1>1, <1>3, <2>2, <2>3, <2>4, <2>8 DEF AllRuns
<1> QED
  BY <1>3, <1>5, <1>6

LEMMA OneMore ==
  ASSUME NEW p, IsSeq(p), NEW n \in 0 .. Len(p) - 1, NEW r, Found(r, p, n)
  PROVE  Found(AddChar(r, p[n + 1]), p, n + 1)
<1>1. PICK names, chunk : names = r.names /\ chunk = r.chunk /\ r = [names |-> names, chunk |-> chunk]
  BY DEF Found
<1>2. /\ IsSeq(names) /\ IsSeq(chunk) /\ ChunkOf(chunk, p, n)
      /\ Count(p, n) = Len(names) + (IF Len(chunk) = 0 THEN 0 ELSE 1)
      /\ Names(names, p, n - Len(chunk))
  BY <1>1 DEF Found, ChunkOf
<1>3. PICK l \in Nat, m \in Nat, s \in Nat :
        l = Len(chunk) /\ m = Len(names) /\ s = Len(p) /\ n \in Nat /\ n < s
  BY <1>2 DEF IsSeq
<1>4. /\ l <= n /\ (l = n \/ p[n - l] = Slash)
      /\ \A k \in 1 .. l : chunk[k] = p[n - l + k] /\ chunk[k] # Slash
  BY <1>2, <1>3 DEF ChunkOf
<1>5. PICK c : c = p[n + 1]
  OBVIOUS
<1>6. Count(p, n + 1) = Count(p, n) + (IF n + 1 \in Starts(p, n + 1) THEN 1 ELSE 0) /\ Count(p, n) \in Nat
  BY <1>3, CountSteps
<1>7. PICK q : q = AddChar(r, c)
  OBVIOUS
<1>8. CASE c = Slash
  <2>1. PICK all : all = Kept(names, chunk)
    OBVIOUS
  <2>2. q = [names |-> all, chunk |-> <<>>]
    BY <1>1, <1>7, <1>8, <2>1 DEF AddChar
  <2>3. q.names = all /\ q.chunk = <<>> /\ q = [names |-> q.names, chunk |-> q.chunk]
    BY <2>2
  <2>4. AllRuns(all, p, n)
    <3>1. n \in 0 .. Len(p)
      BY <1>3
    <3> QED
      BY <1>1, <1>5, <1>8, <2>1, <3>1, ChunkEnds
  <2>5. Starts(p, n + 1) = Starts(p, n) /\ n + 1 \notin Starts(p, n + 1)
    <3>1. p[n + 1] = Slash
      BY <1>5, <1>8
    <3>2. n + 1 \notin Starts(p, n + 1)
      BY <3>1 DEF Starts
    <3>3. \A i : i \in 1 .. n + 1 <=> i \in 1 .. n \/ i = n + 1
      BY <1>3
    <3>4. \A i : i \in Starts(p, n + 1) => i # n + 1 /\ i \in Starts(p, n)
      BY <3>2, <3>3 DEF Starts
    <3>5. \A i : i \in Starts(p, n) => i \in Starts(p, n + 1)
      BY <3>3 DEF Starts
    <3> QED
      BY <3>2, <3>4, <3>5
  <2>6. Len(<<>>) = 0 /\ IsSeq(<<>>)
    BY NothingIsSeq
  <2>7. ChunkOf(<<>>, p, n + 1)
    <3>1. (n + 1) - 0 = n + 1 /\ 0 <= n + 1 /\ 1 .. 0 = {}
      BY <1>3
    <3>2. p[(n + 1) - 0] = Slash
      BY <1>5, <1>8, <3>1
    <3> QED
      BY <2>6, <3>1, <3>2 DEF ChunkOf
  <2>8. Names(all, p, n + 1)
    <3>1. \A i \in Starts(p, n) : \A e \in i .. n : e \in i .. n + 1
      BY <1>3 DEF Starts
    <3> QED
      BY <2>4, <2>5, <3>1 DEF AllRuns, Names
  <2>9. (n + 1) - Len(q.chunk) = n + 1
    BY <1>3, <2>3, <2>6
  <2>10. Count(p, n + 1) = Len(all) + 0 /\ IsSeq(all)
    BY <1>6, <2>4, <2>5 DEF AllRuns
  <2>11. Found(q, p, n + 1)
    BY <2>3, <2>6, <2>7, <2>8, <2>9, <2>10 DEF Found
  <2> QED
    BY <1>5, <1>7, <2>11
<1>9. CASE c # Slash
  <2>1. PICK more : more = Append(chunk, c)
    OBVIOUS
  <2>2. q = [names |-> names, chunk |-> more]
    BY <1>1, <1>7, <1>9, <2>1 DEF AddChar
  <2>3. q.names = names /\ q.chunk = more /\ q = [names |-> q.names, chunk |-> q.chunk]
    BY <2>2
  <2>4. IsSeq(more) /\ Len(more) = l + 1 /\ more[l + 1] = c /\ \A k \in 1 .. l : more[k] = chunk[k]
    BY <1>2, <1>3, <2>1, AppendFacts
  <2>5. (n + 1) - (l + 1) = n - l
    BY <1>3
  <2>6. ASSUME NEW k \in 1 .. l + 1 PROVE more[k] = p[(n - l) + k] /\ more[k] # Slash
    <3>1. CASE k = l + 1
      <4>1. (n - l) + k = n + 1
        BY <1>3, <3>1
      <4> QED
        BY <1>5, <1>9, <2>4, <3>1, <4>1
    <3>2. CASE k # l + 1
      <4>1. k \in 1 .. l
        BY <1>3, <3>2
      <4> QED
        BY <1>4, <2>4, <4>1
    <3> QED
      BY <3>1, <3>2
  <2>7. ChunkOf(more, p, n + 1)
    BY <1>3, <1>4, <2>4, <2>5, <2>6 DEF ChunkOf
  <2>8. Names(names, p, n - l)
    BY <1>2, <1>3
  <2>9. n + 1 \in Starts(p, n + 1) <=> l = 0
    <3>1. CASE l = 0
      <4>1. n + 1 = 1 \/ p[(n + 1) - 1] = Slash
        BY <1>3, <1>4, <3>1
      <4> QED
        BY <1>3, <1>5, <1>9, <3>1, <4>1 DEF Starts
    <3>2. CASE l # 0
      <4>1. l \in 1 .. l /\ n - l + l = n /\ n # 0 /\ (n + 1) - 1 = n /\ n + 1 # 1
        BY <1>3, <1>4, <3>2
      <4>2. p[n] # Slash
        BY <1>4, <4>1
      <4> QED
        BY <3>2, <4>1, <4>2 DEF Starts
    <3> QED
      BY <3>1, <3>2
  <2>10. Count(p, n + 1) = m + 1
    <3>1. Count(p, n) = m + (IF l = 0 THEN 0 ELSE 1)
      BY <1>2, <1>3
    <3>2. CASE l = 0
      <4>1. Count(p, n) = m + 0 /\ Count(p, n + 1) = Count(p, n) + 1
        BY <1>6, <2>9, <3>1, <3>2
      <4> QED
        BY <1>3, <4>1
    <3>3. CASE l # 0
      <4>1. Count(p, n) = m + 1 /\ Count(p, n + 1) = Count(p, n) + 0
        BY <1>6, <2>9, <3>1, <3>3
      <4> QED
        BY <1>3, <4>1
    <3> QED
      BY <3>2, <3>3
  <2>11. Found(q, p, n + 1)
    BY <1>2, <1>3, <2>3, <2>4, <2>5, <2>7, <2>8, <2>10 DEF Found
  <2> QED
    BY <1>5, <1>7, <2>11
<1> QED
  BY <1>8, <1>9

(* What Chunks finds in a whole path, and what split_path makes of it.     *)
LEMMA ChunksFound == ASSUME NEW p, IsSeq(p) PROVE Found(Chunks(p), p, Len(p))
<1>1. PICK m \in Nat : m = Len(p)
  BY DEF IsSeq
<1> DEFINE f == CHOOSE g : Finds(g, p, Len(p))
<1>2. Finds(f, p, Len(p))
  BY <1>1, FindsExist
<1>3. Chunks(p) = f[Len(p)]
  BY DEF Chunks, Finds, NoneYet
<1> HIDE DEF f
<1>4. PICK h : h = f
  OBVIOUS
<1>5. \A k \in 0 .. m : h[k] = IF k = 0 THEN NoneYet ELSE AddChar(h[k - 1], p[k])
  BY <1>1, <1>2, <1>4 DEF Finds
<1> DEFINE S == {k \in Nat : k <= m => Found(h[k], p, k)}
<1>6. 0 \in S
  <2>1. h[0] = NoneYet
    BY <1>1, <1>5
  <2>2. NoneYet.names = <<>> /\ NoneYet.chunk = <<>> /\ NoneYet = [names |-> NoneYet.names, chunk |-> NoneYet.chunk]
    BY DEF NoneYet
  <2>3. IsSeq(<<>>) /\ Len(<<>>) = 0
    BY NothingIsSeq
  <2>4. Count(p, 0) = 0 /\ Starts(p, 0) = {}
    BY CountSteps DEF Starts
  <2>5. ChunkOf(<<>>, p, 0)
    BY <2>3 DEF ChunkOf
  <2>6. Names(<<>>, p, 0)
    BY <2>4 DEF Names
  <2>7. Found(NoneYet, p, 0)
    BY <2>2, <2>3, <2>4, <2>5, <2>6 DEF Found
  <2> QED
    BY <2>1, <2>7
<1>7. ASSUME NEW k \in Nat, k \in S PROVE k + 1 \in S
  <2> SUFFICES ASSUME k + 1 <= m PROVE Found(h[k + 1], p, k + 1)
    OBVIOUS
  <2>1. k \in 0 .. Len(p) - 1 /\ k + 1 \in 0 .. m /\ k + 1 # 0 /\ (k + 1) - 1 = k /\ k <= m
    BY <1>1
  <2>2. Found(h[k], p, k)
    BY <1>7, <2>1
  <2>3. h[k + 1] = AddChar(h[k], p[k + 1])
    BY <1>5, <2>1
  <2> QED
    BY <2>1, <2>2, <2>3, OneMore
<1> HIDE DEF S
<1>8. \A k \in Nat : k \in S
  BY <1>6, <1>7, SetInduction
<1>9. Found(h[m], p, m)
  BY <1>8 DEF S
<1> QED
  BY <1>1, <1>3, <1>4, <1>9

LEMMA SplitFacts == ASSUME NEW p, IsSeq(p) PROVE AllRuns(SplitPath(p), p, Len(p))
<1>1. Len(p) \in 0 .. Len(p)
  BY DEF IsSeq
<1> QED
  BY <1>1, ChunksFound, ChunkEnds DEF SplitPath


--------------------------------------------------------------------------------
(* What the steps keep: the directory reached is the first names of the    *)
(* path, and it and those on the way to it are there.                      *)
DisksAsAssumed ==
  /\ made = [dirs |-> made.dirs, files |-> made.files]
  /\ \A d \in made.dirs : Len(d) > 1 => Front(d) \in made.dirs
  /\ made.dirs \cap made.files = {}
ReachedIsLeading ==
  LET names == SplitPath(path)
  IN  /\ IsSeq(curdir) /\ Len(curdir) <= Len(names)
      /\ curdir = SubSeq(names, 1, Len(curdir))
      /\ \A n \in 1 .. Len(curdir) : SubSeq(names, 1, n) \in made.dirs
      /\ ppc = "ok" => Len(curdir) = Len(names)
PathInv ==
  /\ IsSeq(path) /\ DisksAsAssumed /\ ReachedIsLeading
  /\ ppc \in {"start", "given"} => curdir = <<>>
  /\ ppc \in {"start", "given", "walk", "ok", "error"}

LEMMA SplitIsSeq == ASSUME NEW p, IsSeq(p) PROVE IsSeq(SplitPath(p)) /\ Len(SplitPath(p)) \in Nat
BY SplitFacts DEF AllRuns, IsSeq

LEMMA NoNames == ASSUME NEW p, IsSeq(p) PROVE <<>> = SubSeq(SplitPath(p), 1, 0) /\ 0 <= Len(SplitPath(p))
<1>1. IsSeq(SplitPath(p)) /\ 0 \in 0 .. Len(SplitPath(p))
  BY SplitIsSeq
<1>2. IsSeq(SubSeq(SplitPath(p), 1, 0)) /\ Len(SubSeq(SplitPath(p), 1, 0)) = 0
  BY <1>1, LeadingFacts
<1> QED
  BY <1>1, <1>2, ZeroLength

LEMMA PathInitially == PathInit => PathInv
<1> SUFFICES ASSUME PathInit PROVE PathInv
  OBVIOUS
<1>1. ppc = "start" /\ IsSeq(path) /\ IsSeq(curdir) /\ Len(curdir) = 0 /\ curdir = <<>>
  BY NothingIsSeq DEF PathInit
<1>2. DisksAsAssumed
  BY DEF PathInit, DisksAsAssumed
<1>3. ReachedIsLeading
  <2>1. 1 .. 0 = {}
    OBVIOUS
  <2> QED
    BY <1>1, <2>1, NoNames DEF ReachedIsLeading
<1> QED
  BY <1>1, <1>2, <1>3 DEF PathInv

LEMMA PathInductive == PathInv /\ [PathNext]_pathVars => PathInv'
<1> SUFFICES ASSUME PathInv, [PathNext]_pathVars PROVE PathInv'
  OBVIOUS
<1> DEFINE names == SplitPath(path)
<1>0. IsSeq(path) /\ IsSeq(names) /\ Len(names) \in Nat /\ IsSeq(curdir) /\ Len(curdir) \in Nat
  BY SplitIsSeq DEF PathInv, ReachedIsLeading, IsSeq
<1>1. ASSUME NEW n \in 0 .. MaxPath, NEW p \in [1 .. n -> Chars], Given(p) PROVE PathInv'
  <2>1. IsSeq(p)
    <3>1. n \in Nat
      BY MaxPathAssumption
    <3>2. Len(p) = n /\ p = [k \in 1 .. n |-> p[k]]
      BY <3>1
    <3> QED
      BY <3>1, <3>2 DEF IsSeq
  <2>2. path' = p /\ curdir' = curdir /\ made' \in Trees /\ ppc' = "given" /\ curdir = <<>>
    BY <1>1 DEF Given, PathInv
  <2>3. PICK t : t \in Trees /\ t = made'
    BY <2>2
  <2>4. /\ t = [dirs |-> t.dirs, files |-> t.files] /\ t.dirs \cap t.files = {}
        /\ \A d \in t.dirs : Len(d) > 1 => Front(d) \in t.dirs
    BY <2>3, TreesAssumption
  <2>5. DisksAsAssumed'
    BY <2>3, <2>4 DEF DisksAsAssumed
  <2>6. IsSeq(<<>>) /\ Len(<<>>) = 0 /\ 1 .. 0 = {}
    BY NothingIsSeq
  <2>7. <<>> = SubSeq(SplitPath(p), 1, 0) /\ 0 <= Len(SplitPath(p))
    BY <2>1, NoNames
  <2>8. ReachedIsLeading'
    BY <2>2, <2>6, <2>7 DEF ReachedIsLeading
  <2> QED
    BY <2>1, <2>2, <2>5, <2>8 DEF PathInv
<1>2. CASE CreateDirs
  BY <1>2 DEF CreateDirs, PathInv, DisksAsAssumed, ReachedIsLeading
<1>3. CASE OpenOrCreate
  <2>1. PICK l \in Nat : l = Len(curdir) /\ l < Len(names)
    BY <1>0, <1>3 DEF OpenOrCreate, Walking
  <2>2. curdir = SubSeq(names, 1, l) /\ \A n \in 1 .. l : SubSeq(names, 1, n) \in made.dirs
    BY <2>1 DEF PathInv, ReachedIsLeading
  <2>3. PICK next : next = NextDir
    OBVIOUS
  <2>4. next = SubSeq(names, 1, l + 1) /\ Front(next) = curdir
    BY <1>0, <2>1, <2>2, <2>3, LeadingMore DEF NextDir
  <2>5. IsSeq(next) /\ Len(next) = l + 1
    <3>1. l + 1 \in 0 .. Len(names)
      BY <1>0, <2>1
    <3> QED
      BY <1>0, <2>4, <3>1, LeadingFacts
  <2>6. /\ curdir' = next /\ path' = path /\ ppc' = "walk" /\ next \notin made.files
        /\ made' = [made EXCEPT !.dirs = @ \cup {next}]
    BY <1>3, <2>3 DEF OpenOrCreate, Walking, Placed
  <2>7. /\ made'.dirs = made.dirs \cup {next} /\ made'.files = made.files
        /\ made' = [dirs |-> made'.dirs, files |-> made'.files]
    BY <2>6 DEF PathInv, DisksAsAssumed
  <2>8. Len(next) > 1 => Front(next) \in made.dirs
    <3>1. l + 1 > 1 => l \in 1 .. l
      BY <2>1
    <3> QED
      BY <2>2, <2>4, <2>5, <3>1
  <2>9. DisksAsAssumed'
    BY <2>6, <2>7, <2>8 DEF PathInv, DisksAsAssumed
  <2>10. ASSUME NEW n \in 1 .. l + 1 PROVE SubSeq(names, 1, n) \in made'.dirs
    <3>1. n = l + 1 \/ n \in 1 .. l
      BY <2>1
    <3> QED
      BY <2>2, <2>4, <2>7, <3>1
  <2>11. l + 1 <= Len(names)
    BY <1>0, <2>1
  <2>12. SplitPath(path') = names
    BY <2>6
  <2>13. ReachedIsLeading'
    BY <2>4, <2>5, <2>6, <2>10, <2>11, <2>12 DEF ReachedIsLeading
  <2> QED
    BY <1>0, <2>6, <2>9, <2>13 DEF PathInv
<1>4. CASE CreateFails
  BY <1>4 DEF CreateFails, Walking, PathInv, DisksAsAssumed, ReachedIsLeading
<1>5. CASE CreateDone
  <2>1. Len(curdir) = Len(names)
    BY <1>0, <1>5 DEF CreateDone, Walking, PathInv, ReachedIsLeading
  <2> QED
    BY <1>5, <2>1 DEF CreateDone, PathInv, DisksAsAssumed, ReachedIsLeading
<1>6. CASE UNCHANGED pathVars
  BY <1>6 DEF pathVars, PathInv, DisksAsAssumed, ReachedIsLeading
<1> QED
  BY <1>1, <1>2, <1>3, <1>4, <1>5, <1>6 DEF PathNext

(* create_dirs leaves every directory of the path on the disk, each in one *)
(* that is there and none under a file's name.                             *)
THEOREM DirsCorrect == PathSpec => []DirsArePath
<1>1. PathInv => DirsArePath
  <2> SUFFICES ASSUME PathInv PROVE DirsArePath
    OBVIOUS
  <2>1. IsSeq(SplitPath(path))
    BY SplitIsSeq DEF PathInv
  <2>2. DOMAIN SplitPath(path) = 1 .. Len(SplitPath(path))
    BY <2>1 DEF IsSeq
  <2> QED
    BY <2>2 DEF PathInv, DisksAsAssumed, ReachedIsLeading, DirsArePath
<1> QED
  BY <1>1, PathInitially, PathInductive, PTL DEF PathSpec

(* Each name split_path makes is the longest run of characters that are no *)
(* slash from its start, the names being in the order of their starts.     *)
THEOREM SplitCorrect == PathSpec => []SplitIsRuns
<1>1. PathInv => SplitIsRuns
  <2> SUFFICES ASSUME PathInv PROVE SplitIsRuns
    OBVIOUS
  <2>0. PICK p : p = path
    OBVIOUS
  <2>1. PICK m \in Nat : p = path /\ IsSeq(p) /\ m = Len(p) /\ DOMAIN p = 1 .. m
    BY <2>0 DEF PathInv, IsSeq
  <2>2. AllRuns(SplitPath(p), p, m)
    BY <2>1, SplitFacts
  <2> DEFINE starts == {i \in DOMAIN path : path[i] # Slash /\ (i = 1 \/ path[i - 1] = Slash)}
  <2>3. starts = Starts(p, m)
    BY <2>1 DEF Starts
  <2>4. Len(SplitPath(path)) = Cardinality(starts)
    BY <2>1, <2>2, <2>3 DEF AllRuns, Count
  <2>5. ASSUME NEW i \in starts
        PROVE  SplitPath(path)[Cardinality({j \in starts : j <= i})] = RunAt(i)
    <3>1. i \in Starts(p, m) /\ i \in 1 .. m
      BY <2>3 DEF Starts
    <3>2. {j \in Starts(p, m) : j <= i} = Starts(p, i)
      BY <2>1, <3>1 DEF Starts
    <3>3. Cardinality({j \in starts : j <= i}) = Count(p, i)
      BY <2>3, <3>2 DEF Count
    <3>4. PICK e \in i .. m : IsRun(p, i, e) /\ SplitPath(p)[Count(p, i)] = Run(p, i, e)
      BY <2>2, <3>1 DEF AllRuns, Names
    <3>5. e \in Nat /\ i \in Nat /\ \A k \in i .. e : p[k] # Slash
      BY <2>1, <3>1, <3>4 DEF IsRun
    <3> DEFINE ends == {j \in i .. Len(path) : \A k \in i .. j : path[k] # Slash}
    <3>6. ASSUME NEW j \in ends PROVE j \in i .. e
      <4>1. j \in i .. m /\ \A k \in i .. j : p[k] # Slash
        BY <2>1
      <4>2. SUFFICES ASSUME j > e PROVE FALSE
        BY <3>5, <4>1
      <4>3. e # m /\ e + 1 \in i .. j
        BY <2>1, <3>1, <3>4, <3>5, <4>1, <4>2
      <4>4. p[e + 1] = Slash
        BY <2>1, <3>4, <4>3 DEF IsRun
      <4> QED
        BY <4>1, <4>3, <4>4
    <3>7. ASSUME NEW j \in i .. e PROVE j \in ends
      <4>1. j \in i .. m /\ \A k \in i .. j : k \in i .. e
        BY <2>1, <3>1, <3>4, <3>5
      <4> QED
        BY <2>1, <3>5, <4>1
    <3>8. ends = i .. e
      BY <3>6, <3>7
    <3>9. Cardinality(i .. e) = e - i + 1
      BY <3>4, <3>5, FS_Interval
    <3>10. i + (e - i + 1) - 1 = e
      BY <3>5
    <3>11. RunAt(i) = SubSeq(path, i, i + Cardinality(ends) - 1)
      BY DEF RunAt
    <3>12. RunAt(i) = Run(p, i, e)
      BY <2>1, <3>8, <3>9, <3>10, <3>11 DEF Run
    <3> QED
      BY <2>1, <3>3, <3>4, <3>12
  <2> QED
    BY <2>4, <2>5 DEF SplitIsRuns
<1> QED
  BY <1>1, PathInitially, PathInductive, PTL DEF PathSpec

(* The first dot, if there is one, is at a place in the name.              *)
LEMMA BasenameLeads ==
  ASSUME NEW name, IsSeq(name)
  PROVE  \E d \in 0 .. Len(name) : Basename(name) = SubSeq(name, 1, d)
<1>1. PICK l \in Nat : l = Len(name)
  BY DEF IsSeq
<1>2. CASE Dot \in Range(name)
  <2> DEFINE I == {i \in 1 .. Len(name) : IsDot(name[i])}
  <2>1. I # {}
    BY <1>2 DEF Range, IsDot, IsSeq
  <2>2. SelectInSeq(name, IsDot) = Min(I)
    BY <2>1 DEF SelectInSeq
  <2>3. \E n \in I : \A k \in I : n <= k
    <3>1. I \subseteq Nat
      BY <1>1
    <3> HIDE DEF I
    <3> QED
      BY <2>1, <3>1, LeastExists
  <2>4. Min(I) \in I
    BY <2>3 DEF Min
  <2>5. PICK d \in 1 .. l : d = SelectInSeq(name, IsDot)
    BY <1>1, <2>2, <2>4
  <2>6. d - 1 \in 0 .. Len(name)
    BY <1>1, <2>5
  <2> QED
    BY <1>2, <2>5, <2>6 DEF Basename
<1>3. CASE Dot \notin Range(name)
  <2>1. Len(name) \in 0 .. Len(name)
    BY <1>1
  <2>2. SubSeq(name, 1, Len(name)) = name
    BY <1>1, <2>1, LeadingFacts, SameSeq
  <2> QED
    BY <1>3, <2>1, <2>2 DEF Basename
<1> QED
  BY <1>2, <1>3

(* The last name of a path that does not end with a slash is its end.      *)
LEMMA LastNameEnds ==
  ASSUME NEW p, IsSeq(p), p # <<>>, Last(p) # Slash
  PROVE  \E l \in 1 .. Len(p) :
           Last(SplitPath(p)) = Run(p, Len(p) - l + 1, Len(p))
<1>1. PICK n \in Nat : n = Len(p) /\ n > 0 /\ n \in 1 .. n
  BY ZeroLength DEF IsSeq
<1>2. PICK names, chunk : names = Chunks(p).names /\ chunk = Chunks(p).chunk
  OBVIOUS
<1>3. Found(Chunks(p), p, n)
  BY <1>1, ChunksFound
<1>4. IsSeq(names) /\ ChunkOf(chunk, p, n)
  BY <1>2, <1>3 DEF Found
<1>5. PICK l \in Nat : l = Len(chunk) /\ l <= n /\ IsSeq(chunk)
  BY <1>4 DEF ChunkOf, IsSeq
<1>6. l # 0
  <2> SUFFICES ASSUME l = 0 PROVE FALSE
    OBVIOUS
  <2>1. n - l = n /\ l # n
    BY <1>1
  <2>2. p[n - l] = Slash
    BY <1>4, <1>5, <2>1 DEF ChunkOf
  <2> QED
    BY <1>1, <2>1, <2>2 DEF Last
<1>7. chunk = Run(p, n - l + 1, n)
  BY <1>1, <1>4, <1>5, <1>6, ChunkIsRun
<1>8. SplitPath(p) = Append(names, chunk)
  BY <1>2, <1>5, <1>6, NothingIsSeq DEF SplitPath, Kept
<1>9. Last(SplitPath(p)) = chunk
  BY <1>4, <1>8, AppendFacts DEF Last
<1> QED
  BY <1>1, <1>5, <1>6, <1>7, <1>9

(* The directory Package::read resolves hrefs in is what is in front of the*)
(* opf file's name, unless the base name is found in it; it is empty if the*)
(* name has nothing in front of its dot.                                   *)
THEOREM BaseDirCorrect == PathSpec => []BaseDirIsLeading
<1>1. PathInv => BaseDirIsLeading
  <2> SUFFICES ASSUME PathInv, path # <<>>, Last(path) # Slash
               PROVE  LET name == Last(SplitPath(path))
                          leading == SubSeq(path, 1, Len(path) - Len(name))
                          before == {i \in FoundAt(path, Basename(name)) : i <= Len(leading)}
                      IN  /\ Basename(name) # <<>> /\ before = {} => BaseDir(path) = leading
                          /\ Basename(name) = <<>> => BaseDir(path) = <<>>
    BY DEF BaseDirIsLeading
  <2>0. PICK p, name : p = path /\ name = Last(SplitPath(p))
    OBVIOUS
  <2>1. PICK n \in Nat : p = path /\ IsSeq(p) /\ n = Len(p) /\ p # <<>> /\ Last(p) # Slash
    BY <2>0 DEF PathInv, IsSeq
  <2>2. PICK l \in 1 .. n : Last(SplitPath(p)) = Run(p, n - l + 1, n)
    BY <2>1, LastNameEnds
  <2>3. PICK s \in Nat : s = n - l /\ n - l + 1 = s + 1 /\ s < n
    BY <2>2
  <2>4. /\ IsSeq(name) /\ Len(name) = l
        /\ \A k \in 1 .. l : name[k] = p[s + k]
    <3>1. /\ IsSeq(name) /\ Len(name) = n - (s + 1) + 1
          /\ \A k \in 1 .. n - (s + 1) + 1 : name[k] = p[(s + 1) + k - 1]
      <4>1. s + 1 \in 1 .. Len(p) /\ n \in s + 1 .. Len(p)
        BY <2>1, <2>3
      <4>2. name = Run(p, s + 1, n)
        BY <2>0, <2>2, <2>3
      <4>3. PICK i \in Nat : i = s + 1
        OBVIOUS
      <4>4. /\ IsSeq(Run(p, i, n)) /\ Len(Run(p, i, n)) = n - i + 1
            /\ \A k \in 1 .. n - i + 1 : Run(p, i, n)[k] = p[i + k - 1]
        BY <2>1, <4>1, <4>3, RunFacts
      <4> QED
        BY <4>2, <4>3, <4>4
    <3>2. n - (s + 1) + 1 = l /\ \A k \in 1 .. l : (s + 1) + k - 1 = s + k
      BY <2>1, <2>2, <2>3
    <3> QED
      BY <3>1, <3>2
  <2>5. PICK base : base = Basename(name)
    OBVIOUS
  <2>6. PICK b \in 0 .. l : base = SubSeq(name, 1, b)
    BY <2>4, <2>5, BasenameLeads
  <2>7. IsSeq(base) /\ Len(base) = b /\ \A k \in 1 .. b : base[k] = name[k]
    BY <2>4, <2>6, LeadingFacts
  <2> DEFINE at == CHOOSE i \in FoundAt(p, base) : \A j \in FoundAt(p, base) : i <= j
  <2>8. BaseDir(p) = SubSeq(p, 1, at - 1)
    BY <2>0, <2>5 DEF BaseDir, BasenameAndExt
  <2>9. FoundAt(p, base) = {i \in 1 .. n + 1 - b : SubSeq(p, i, i + b - 1) = base}
    BY <2>1, <2>7 DEF FoundAt
  <2>10. PICK leading : leading = SubSeq(p, 1, s) /\ Len(leading) = s
    <3>1. s \in 0 .. Len(p)
      BY <2>1, <2>3
    <3> QED
      BY <2>1, <3>1, LeadingFacts
  <2>11. Len(path) - Len(name) = s
    BY <2>1, <2>2, <2>3, <2>4
  <2>12. \A i, j \in FoundAt(p, base) : i \in Nat /\ (i <= j /\ j <= i => i = j)
    BY <2>1, <2>6, <2>9
  <2>13. ASSUME base # <<>>, {i \in FoundAt(p, base) : i <= s} = {} PROVE BaseDir(p) = leading
    <3>1. b > 0
      BY <2>6, <2>7, <2>13, ZeroLength
    <3>2. SubSeq(p, s + 1, s + b) = base
      <4>1. s + 1 \in 1 .. Len(p) /\ s + b \in s + 1 .. Len(p)
        BY <2>1, <2>2, <2>3, <2>6, <3>1
      <4>2. PICK r : r = Run(p, s + 1, s + b)
        OBVIOUS
      <4>3. /\ IsSeq(r) /\ Len(r) = (s + b) - (s + 1) + 1
            /\ \A k \in 1 .. (s + b) - (s + 1) + 1 : r[k] = p[(s + 1) + k - 1]
        BY <2>1, <4>1, <4>2, RunFacts
      <4>4. /\ (s + b) - (s + 1) + 1 = b
            /\ \A k \in 1 .. b : (s + 1) + k - 1 = s + k /\ k \in 1 .. l
        BY <2>2, <2>3, <2>6
      <4>5. \A k \in 1 .. b : r[k] = base[k]
        BY <2>4, <2>7, <4>3, <4>4
      <4>6. r = base
        BY <2>7, <4>3, <4>4, <4>5, SameSeq
      <4> QED
        BY <4>2, <4>6 DEF Run
    <3>3. s + 1 \in FoundAt(p, base)
      <4>1. s + 1 \in 1 .. n + 1 - b /\ (s + 1) + b - 1 = s + b
        BY <2>1, <2>2, <2>3, <2>6
      <4> QED
        BY <2>9, <3>2, <4>1
    <3>4. \A j \in FoundAt(p, base) : s + 1 <= j
      BY <2>3, <2>12, <2>13
    <3>5. at = s + 1
      BY <2>12, <3>3, <3>4
    <3>6. (s + 1) - 1 = s
      BY <2>3
    <3> QED
      BY <2>8, <2>10, <3>5, <3>6
  <2>14. ASSUME base = <<>> PROVE BaseDir(p) = <<>>
    <3>1. b = 0
      BY <2>6, <2>7, <2>14, ZeroLength
    <3>2. SubSeq(p, 1, 0) = <<>>
      <4>1. 0 \in 0 .. Len(p)
        BY <2>1
      <4> QED
        BY <2>1, <4>1, LeadingFacts, ZeroLength
    <3>3. 1 \in FoundAt(p, base)
      <4>1. 1 \in 1 .. n + 1 - b /\ 1 + b - 1 = 0
        BY <2>1, <3>1
      <4> QED
        BY <2>9, <2>14, <3>2, <4>1
    <3>4. \A j \in FoundAt(p, base) : 1 <= j
      BY <2>9
    <3>5. at = 1
      BY <2>12, <3>3, <3>4
    <3>6. 1 - 1 = 0
      OBVIOUS
    <3> HIDE DEF at
    <3>7. BaseDir(p) = SubSeq(p, 1, 0)
      BY <2>8, <3>5, <3>6
    <3> QED
      BY <3>2, <3>7
  <2>15. Last(SplitPath(path)) = name /\ Basename(name) = base
    BY <2>0, <2>5
  <2>16. SubSeq(path, 1, Len(path) - Len(name)) = leading
    BY <2>1, <2>10, <2>11
  <2> HIDE DEF at
  <2> QED
    BY <2>1, <2>10, <2>13, <2>14, <2>15, <2>16
<1> QED
  BY <1>1, PathInitially, PathInductive, PTL DEF PathSpec
================================================================================
