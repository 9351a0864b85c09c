---------------------------- MODULE BufReaderProofs ----------------------------
(***************************************************************************)
(* Proofs about BufReader, for every block size of at least four, every    *)
(* set of file lengths and every set of array lengths.  The type invariant *)
(* holds of any device; the rest assumes one whose File::read fills the    *)
(* buffer unless the file ends (ShortReads = FALSE).                       *)
(***************************************************************************)
EXTENDS BufReader, TLAPS

USE DEF PeekLen

(* The constants, in the form the steps below cite. *)
LEMMA ConstantFacts ==
  /\ BlockSize \in Nat /\ BlockSize >= 4
  /\ FileLens \subseteq Nat
  /\ ArraySizes \subseteq Nat
  /\ ShortReads \in BOOLEAN
BY BlockSizeAssumption, FileLensAssumption, ArraySizesAssumption, ShortReadsAssumption

(* File::read returns between nothing and all that is left. *)
LEMMA ReadCountsBounded ==
  ASSUME NEW at \in Nat, flen \in Nat, at <= flen, NEW m \in ReadCounts(at)
  PROVE  m \in Nat /\ at + m <= flen
BY ConstantFacts DEF ReadCounts, Smaller

(* A load keeps the handle inside the file and the buffers typed. *)
LEMMA LoadBlockTyped ==
  ASSUME TypeOK, LoadBlock
  PROVE  /\ fpos' \in 0 .. flen
         /\ blocks' \in [0 .. 1 -> [off : Nat, len : Nat]]
         /\ peek_rolled' \in BOOLEAN
<1>1. CASE peek_rolled
  BY <1>1 DEF LoadBlock, TypeOK
<1>2. CASE ~peek_rolled
  <2>1. PICK m \in ReadCounts(fpos) :
          /\ blocks' = [blocks EXCEPT ![Other] = [off |-> fpos, len |-> m]]
          /\ fpos' = fpos + m
    BY <1>2 DEF LoadBlock
  <2>2. m \in Nat /\ fpos + m <= flen
    BY ReadCountsBounded DEF TypeOK
  <2>3. [off |-> fpos, len |-> m] \in [off : Nat, len : Nat]
    BY <2>2 DEF TypeOK
  <2>4. UNCHANGED peek_rolled
    BY <1>2 DEF LoadBlock
  <2>. QED
    BY <2>1, <2>2, <2>3, <2>4 DEF TypeOK, Other
<1>. QED
  BY <1>1, <1>2

(* The chunk of an iteration is a number, and never reaches past the array. *)
LEMMA ChunkBounded ==
  ASSUME TypeOK, Looping
  PROVE  /\ Chunk \in Nat
         /\ arr_idx + Chunk <= nbytes
         /\ Chunk <= Cur.len
         /\ Cur.off \in Nat /\ Cur.len \in Nat
<1>1. Cur \in [off : Nat, len : Nat]
  BY DEF TypeOK, Cur
<1>. QED
  BY <1>1 DEF TypeOK, Looping, Chunk

(* Filling any part of the array with bytes leaves an array of its length. *)
LEMMA FilledTyped ==
  ASSUME TypeOK, NEW first \in Int, NEW rest \in Int, NEW b \in [off : Nat, len : Nat]
  PROVE  Filled(first, rest, b) \in [0 .. nbytes - 1 -> Int]
<1>1. /\ Cur.off \in Int /\ b.off \in Int /\ cursor \in Int
      /\ arr_idx \in Int /\ nbytes \in Int
  BY DEF TypeOK, Cur
<1>2. DOMAIN arr = 0 .. nbytes - 1
  BY DEF TypeOK
<1>3. ASSUME NEW k \in 0 .. nbytes - 1
      PROVE  /\ arr[k] \in Int
             /\ Cur.off + cursor + (k - arr_idx) \in Int
             /\ b.off + (k - arr_idx - first) \in Int
  <2>1. arr[k] \in Int
    BY DEF TypeOK
  <2>2. k \in Int
    BY <1>1
  <2>3. Cur.off + cursor + (k - arr_idx) \in Int
    BY <1>1, <2>2
  <2>4. b.off + (k - arr_idx - first) \in Int
    BY <1>1, <2>2
  <2>. QED
    BY <2>1, <2>3, <2>4
<1>. QED
  BY <1>2, <1>3 DEF Filled

(* TypeOK is inductive, on any device. *)
LEMMA TypeCorrectInit == Init => TypeOK
<1>. SUFFICES ASSUME Init PROVE TypeOK
  OBVIOUS
<1>1. flen \in Nat
  BY ConstantFacts DEF Init
<1>2. PICK m \in ReadCounts(0) :
        /\ blocks = [i \in 0 .. 1 |-> IF i = 0 THEN [off |-> 0, len |-> m]
                                               ELSE [off |-> 0, len |-> 0]]
        /\ fpos = m
  BY DEF Init
<1>3. m \in Nat /\ 0 + m <= flen
  BY <1>1, ReadCountsBounded
<1>4. /\ blocks \in [0 .. 1 -> [off : Nat, len : Nat]]
      /\ fpos \in 0 .. flen
  BY <1>1, <1>2, <1>3
<1>5. EmptyArray \in [0 .. 0 - 1 -> Int]
  <2>1. 0 .. 0 - 1 = {}
    OBVIOUS
  <2>. QED
    BY <2>1 DEF EmptyArray
<1>6. /\ block_idx \in 0 .. 1 /\ cursor \in Nat
      /\ op \in {"idle", "read", "peek", "panic"}
      /\ nbytes = 0 /\ arr_idx \in Nat /\ arr = EmptyArray
  BY DEF Init
<1>7. saved \in [cursor : Nat, idx : 0 .. 1]
  BY DEF Init
<1>8. ret.ok \in BOOLEAN
  BY DEF Init
<1>9. peek_rolled \in BOOLEAN
  BY DEF Init
<1>. QED
  BY <1>1, <1>4, <1>5, <1>6, <1>7, <1>8, <1>9 DEF TypeOK

LEMMA TypeCorrectStep == TypeOK /\ [Next]_vars => TypeOK'
<1>. SUFFICES ASSUME TypeOK, [Next]_vars PROVE TypeOK'
  OBVIOUS
<1>. USE DEF fileVars, bufVars
<1>1. ASSUME NEW n \in ArraySizes, Read(n) PROVE TypeOK'
  BY <1>1, ConstantFacts DEF TypeOK, Read, Call, Unread
<1>2. CASE Peek4
  BY <1>2 DEF TypeOK, Peek4, Call, Unread
<1>3. CASE CopyWithinBlock
  <2>1. Chunk \in Nat
    BY <1>3, ChunkBounded DEF CopyWithinBlock
  <2>2. Cur \in [off : Nat, len : Nat]
    BY DEF Cur, TypeOK
  <2>3. arr' = Filled(Chunk, 0, Cur) /\ cursor' = cursor + Chunk /\ arr_idx' = arr_idx + Chunk
    BY <1>3 DEF CopyWithinBlock
  <2>4. arr' \in [0 .. nbytes - 1 -> Int]
    BY <2>1, <2>2, <2>3, FilledTyped
  <2>5. cursor' \in Nat /\ arr_idx' \in Nat
    BY <2>1, <2>3 DEF TypeOK
  <2>. QED
    BY <1>3, <2>4, <2>5 DEF TypeOK, CopyWithinBlock
<1>4. CASE Rollover
  <2>. DEFINE j == Cur.len - cursor
  <2>1. Looping /\ LoadBlock
    BY <1>4 DEF Rollover
  <2>2. /\ fpos' \in 0 .. flen
        /\ blocks' \in [0 .. 1 -> [off : Nat, len : Nat]]
        /\ peek_rolled' \in BOOLEAN
    BY <2>1, LoadBlockTyped
  <2>3. j \in Int /\ Chunk - j \in Nat
    <3>1. Chunk \in Nat /\ Cur.len \in Nat /\ cursor \in Nat
      BY <2>1, ChunkBounded DEF TypeOK
    <3>2. cursor + Chunk >= Cur.len
      BY <1>4 DEF Rollover, RollsOver
    <3>. QED
      BY <3>1, <3>2
  <2>4. blocks'[Other] \in [off : Nat, len : Nat]
    BY <2>2 DEF Other, TypeOK
  <2>5. arr' = Filled(j, Chunk - j, blocks'[Other]) /\ cursor' = Chunk - j
    BY <1>4 DEF Rollover
  <2>6. arr' \in [0 .. nbytes - 1 -> Int]
    BY <2>3, <2>4, <2>5, FilledTyped
  <2>7. block_idx' \in 0 .. 1 /\ arr_idx' \in Nat
    <3>1. Chunk \in Nat /\ arr_idx' = arr_idx + Chunk /\ block_idx' = Other
      BY <1>4, <2>1, ChunkBounded DEF Rollover
    <3>. QED
      BY <3>1 DEF Other, TypeOK
  <2>. QED
    BY <1>4, <2>2, <2>3, <2>5, <2>6, <2>7 DEF TypeOK, Rollover
<1>5. CASE IndexPanic
  <2>1. /\ fpos' \in 0 .. flen
        /\ blocks' \in [0 .. 1 -> [off : Nat, len : Nat]]
        /\ peek_rolled' \in BOOLEAN
    BY <1>5, LoadBlockTyped DEF IndexPanic
  <2>. QED
    BY <1>5, <2>1 DEF TypeOK, IndexPanic
<1>6. CASE ReturnRead
  BY <1>6 DEF TypeOK, ReturnRead
<1>7. CASE ReturnPeek
  BY <1>7 DEF TypeOK, ReturnPeek
<1>8. CASE LoadError
  BY <1>8, ConstantFacts DEF TypeOK, LoadError, Other
<1>9. CASE UNCHANGED vars
  BY <1>9 DEF TypeOK, vars, callVars
<1>. QED
  BY <1>1, <1>2, <1>3, <1>4, <1>5, <1>6, <1>7, <1>8, <1>9
     DEF Next, CallStep, Progress

(* The types of the reader's state, on any device (TypeOK). *)
THEOREM TypeCorrect == Spec => []TypeOK
BY TypeCorrectInit, TypeCorrectStep, PTL DEF Spec

--------------------------------------------------------------------------------
(* From here on the device fills the buffer.                               *)

(* File::read then has exactly one answer. *)
LEMMA FullReads ==
  ASSUME ~ShortReads, NEW at, NEW m \in ReadCounts(at)
  PROVE  m = Smaller(BlockSize, flen - at)
BY DEF ReadCounts

(* The block behind the cursor's is the next window of the file after any  *)
(* load, whether a peek had loaded it or not, and the handle is behind it. *)
LEMMA LoadedIsNextWindow ==
  ASSUME ~ShortReads, TypeOK, BlocksAreWindows, op # "panic", LoadBlock
  PROVE  /\ blocks'[Other].off = Cur.off + Cur.len
         /\ blocks'[Other].len = Smaller(BlockSize, flen - blocks'[Other].off)
         /\ fpos' = blocks'[Other].off + blocks'[Other].len
         /\ blocks'[block_idx] = Cur
         /\ peek_rolled' = FALSE
<1>1. Other \in 0 .. 1 /\ block_idx \in 0 .. 1 /\ Other # block_idx
  BY DEF TypeOK, Other
<1>2. CASE peek_rolled
  BY <1>1, <1>2 DEF LoadBlock, BlocksAreWindows, Cur
<1>3. CASE ~peek_rolled
  <2>1. PICK m \in ReadCounts(fpos) :
          /\ blocks' = [blocks EXCEPT ![Other] = [off |-> fpos, len |-> m]]
          /\ fpos' = fpos + m
    BY <1>3 DEF LoadBlock
  <2>2. m = Smaller(BlockSize, flen - fpos)
    BY FullReads
  <2>3. fpos = Cur.off + Cur.len
    BY <1>3 DEF BlocksAreWindows
  <2>4. blocks'[Other] = [off |-> fpos, len |-> m] /\ blocks'[block_idx] = Cur
    BY <1>1, <2>1 DEF TypeOK, Cur
  <2>5. peek_rolled' = FALSE
    BY <1>3 DEF LoadBlock
  <2>. QED
    BY <2>1, <2>2, <2>3, <2>4, <2>5
<1>. QED
  BY <1>2, <1>3

(* An array whose filled part follows the stream still does when the next  *)
(* bytes come from the cursor and the ones after them from a block that    *)
(* starts where the first stop.                                            *)
LEMMA FilledFollows ==
  ASSUME TypeOK, NEW first \in Nat, NEW rest \in Nat, NEW b \in [off : Nat, len : Nat],
         arr_idx + first + rest <= nbytes,
         rest > 0 => b.off = Cur.off + cursor + first,
         \A k \in 0 .. arr_idx - 1 : arr[k] = Cur.off + cursor - arr_idx + k
  PROVE  \A k \in 0 .. arr_idx + first + rest - 1 :
            Filled(first, rest, b)[k] = Cur.off + cursor - arr_idx + k
<1>. SUFFICES ASSUME NEW k \in 0 .. arr_idx + first + rest - 1
              PROVE  Filled(first, rest, b)[k] = Cur.off + cursor - arr_idx + k
  OBVIOUS
<1>1. Cur.off \in Nat /\ b.off \in Nat /\ cursor \in Nat /\ arr_idx \in Nat /\ nbytes \in Nat
  BY DEF TypeOK, Cur
<1>2. k \in DOMAIN arr
  BY <1>1 DEF TypeOK
<1>3. CASE FromCursor(k, first)
  BY <1>1, <1>2, <1>3 DEF Filled
<1>4. CASE FromNext(k, first, rest)
  <2>1. ~FromCursor(k, first) /\ rest > 0
    BY <1>1, <1>4 DEF FromCursor, FromNext
  <2>2. Filled(first, rest, b)[k] = b.off + (k - arr_idx - first)
    BY <1>2, <1>4, <2>1 DEF Filled
  <2>. QED
    BY <1>1, <2>1, <2>2
<1>5. CASE ~FromCursor(k, first) /\ ~FromNext(k, first, rest)
  <2>1. k \in 0 .. arr_idx - 1
    BY <1>1, <1>5 DEF FromCursor, FromNext
  <2>. QED
    BY <1>1, <1>2, <1>5, <2>1 DEF Filled
<1>. QED
  BY <1>3, <1>4, <1>5

(* What an iteration that crosses into the other block does. *)
LEMMA RolloverFacts ==
  ASSUME ~ShortReads, IInv, Rollover
  PROVE  /\ Cur'.off = Cur.off + Cur.len
         /\ Cur'.len = Smaller(BlockSize, flen - Cur'.off)
         /\ fpos' = Cur'.off + Cur'.len
         /\ cursor' = Chunk - (Cur.len - cursor)
         /\ cursor' \in Nat /\ cursor' <= Cur'.len
         /\ Cur.len - cursor \in Nat
         /\ arr_idx' = arr_idx + Chunk /\ Chunk \in Nat /\ arr_idx' <= nbytes
         /\ StreamPos' = StreamPos
         /\ \A k \in 0 .. arr_idx' - 1 : arr'[k] = StreamPos' + k
         /\ Cur' = blocks'[Other] /\ blocks'[block_idx] = Cur
         /\ Other' = block_idx
         /\ peek_rolled' = FALSE
<1>. DEFINE j == Cur.len - cursor
            rest == Chunk - j
            next == blocks'[Other]
<1>1. /\ Looping /\ RollsOver /\ LoadBlock
      /\ rest <= next.len
      /\ arr' = Filled(j, rest, next)
      /\ cursor' = rest
      /\ block_idx' = Other
      /\ arr_idx' = arr_idx + Chunk
      /\ UNCHANGED <<flen, op, nbytes, saved, ret>>
  BY DEF Rollover
<1>2. TypeOK /\ BlocksAreWindows /\ CallFollowsStream
  BY DEF IInv
<1>3. op \in {"read", "peek"} /\ op # "panic" /\ op # "idle"
  BY <1>1 DEF Looping
<1>4. /\ Chunk \in Nat /\ arr_idx + Chunk <= nbytes
      /\ Cur.off \in Nat /\ Cur.len \in Nat /\ cursor \in Nat /\ arr_idx \in Nat
  BY <1>1, <1>2, ChunkBounded DEF TypeOK
<1>5. cursor <= Cur.len
  BY <1>2, <1>3 DEF BlocksAreWindows
<1>6. j \in Nat /\ rest \in Nat
  BY <1>1, <1>4, <1>5 DEF RollsOver
<1>7. /\ next.off = Cur.off + Cur.len
      /\ next.len = Smaller(BlockSize, flen - next.off)
      /\ fpos' = next.off + next.len
      /\ blocks'[block_idx] = Cur
      /\ peek_rolled' = FALSE
  BY <1>1, <1>2, <1>3, LoadedIsNextWindow
<1>8. Cur' = next /\ Other' = block_idx
  BY <1>1, <1>2 DEF Cur, Other, TypeOK
<1>9. next \in [off : Nat, len : Nat]
  BY <1>1, <1>2, LoadBlockTyped DEF Other, TypeOK
<1>10. StreamPos = Cur.off + cursor - arr_idx /\ StreamPos' = Cur'.off + cursor' - arr_idx'
  BY <1>1, <1>3 DEF StreamPos
<1>11. StreamPos' = StreamPos
  <2>1. Cur'.off = Cur.off + Cur.len /\ cursor' = Chunk - (Cur.len - cursor)
    BY <1>1, <1>7, <1>8
  <2>2. arr_idx' = arr_idx + Chunk
    BY <1>1
  <2>. QED
    BY <1>4, <1>10, <2>1, <2>2
<1>12. \A k \in 0 .. arr_idx' - 1 : arr'[k] = StreamPos' + k
  <2>1. \A k \in 0 .. arr_idx - 1 : arr[k] = Cur.off + cursor - arr_idx + k
    BY <1>2, <1>3, <1>10 DEF CallFollowsStream
  <2>2. arr_idx + j + rest = arr_idx + Chunk
    BY <1>4, <1>6
  <2>3. rest > 0 => next.off = Cur.off + cursor + j
    BY <1>4, <1>7
  <2>4. \A k \in 0 .. arr_idx + j + rest - 1 :
           Filled(j, rest, next)[k] = Cur.off + cursor - arr_idx + k
    BY <1>2, <1>4, <1>6, <1>9, <2>1, <2>2, <2>3, FilledFollows
  <2>5. arr_idx' = arr_idx + j + rest
    BY <1>1, <2>2
  <2>8. arr' = Filled(j, rest, next)
    BY <1>1
  <2>6. StreamPos' = Cur.off + cursor - arr_idx
    BY <1>10, <1>11
  <2>7. ASSUME NEW k \in 0 .. arr_idx' - 1
        PROVE  arr'[k] = StreamPos' + k
    <3>1. k \in 0 .. arr_idx + j + rest - 1
      BY <1>4, <1>6, <2>5
    <3>2. Filled(j, rest, next)[k] = Cur.off + cursor - arr_idx + k
      BY <2>4, <3>1
    <3>3. arr'[k] = Filled(j, rest, next)[k]
      BY <2>8
    <3>. QED
      BY <2>6, <3>2, <3>3
  <2>. QED
    BY <2>7
<1>. QED
  BY <1>1, <1>4, <1>6, <1>7, <1>8, <1>11, <1>12

(* One lemma per action that moves the cursor: each keeps the windows and  *)
(* what is known of the call in progress.                                  *)
LEMMA CopyKeepsIInv ==
  ASSUME ~ShortReads, IInv, CopyWithinBlock
  PROVE  BlocksAreWindows' /\ CallFollowsStream'
<1>1. /\ Looping /\ ~RollsOver
      /\ arr' = Filled(Chunk, 0, Cur)
      /\ cursor' = cursor + Chunk
      /\ arr_idx' = arr_idx + Chunk
      /\ UNCHANGED <<flen, fpos, blocks, block_idx, peek_rolled, op, nbytes, saved, ret>>
  BY DEF CopyWithinBlock, fileVars
<1>2. TypeOK /\ BlocksAreWindows /\ CallFollowsStream
  BY DEF IInv
<1>3. op \in {"read", "peek"} /\ arr_idx < nbytes
  BY <1>1 DEF Looping
<1>4. /\ Chunk \in Nat /\ arr_idx + Chunk <= nbytes
      /\ Cur \in [off : Nat, len : Nat] /\ cursor \in Nat /\ arr_idx \in Nat /\ nbytes \in Nat
      /\ Cur' = Cur
  BY <1>1, <1>2, ChunkBounded DEF TypeOK, Cur
<1>5. cursor + Chunk < Cur.len
  BY <1>1, <1>4 DEF RollsOver
<1>6. StreamPos = Cur.off + cursor - arr_idx /\ StreamPos' = StreamPos
  BY <1>1, <1>3, <1>4 DEF StreamPos
<1>7. BlocksAreWindows'
  <2>1. Other' = Other
    BY <1>1 DEF Other
  <2>. QED
    BY <1>1, <1>2, <1>3, <1>4, <1>5, <2>1 DEF BlocksAreWindows
<1>8. \A k \in 0 .. arr_idx' - 1 : arr'[k] = StreamPos' + k
  <2>1. \A k \in 0 .. arr_idx - 1 : arr[k] = Cur.off + cursor - arr_idx + k
    BY <1>2, <1>3, <1>6 DEF CallFollowsStream
  <2>2. \A k \in 0 .. arr_idx + Chunk + 0 - 1 :
           Filled(Chunk, 0, Cur)[k] = Cur.off + cursor - arr_idx + k
    BY <1>2, <1>4, <2>1, FilledFollows
  <2>3. ASSUME NEW k \in 0 .. arr_idx' - 1
        PROVE  arr'[k] = StreamPos' + k
    <3>1. k \in 0 .. arr_idx + Chunk + 0 - 1
      BY <1>1, <1>4
    <3>2. arr'[k] = Filled(Chunk, 0, Cur)[k]
      BY <1>1
    <3>. QED
      BY <1>6, <2>2, <3>1, <3>2
  <2>. QED
    BY <2>3
<1>9. op' = "peek" => nbytes' = PeekLen /\ PeekDoneInBlock'
  <2>. SUFFICES ASSUME op = "peek" PROVE nbytes' = PeekLen /\ PeekDoneInBlock'
    BY <1>1
  <2>1. nbytes = 4
    BY <1>2 DEF CallFollowsStream
  <2>2. PeekNotStarted
    BY <1>2, <1>3, <1>4, <1>5
       DEF CallFollowsStream, PeekDoneInBlock, PeekDoneRolled, PeekStuckAtEnd
  <2>3. Chunk = 4
    BY <1>4, <1>5, <2>1, <2>2 DEF Chunk, PeekNotStarted
  <2>. QED
    BY <1>1, <1>4, <2>1, <2>2, <2>3 DEF PeekNotStarted, PeekDoneInBlock
<1>10. CallFollowsStream'
  BY <1>1, <1>2, <1>4, <1>8, <1>9 DEF CallFollowsStream
<1>. QED
  BY <1>7, <1>10

LEMMA RolloverKeepsIInv ==
  ASSUME ~ShortReads, IInv, Rollover
  PROVE  BlocksAreWindows' /\ CallFollowsStream'
<1>1. /\ Cur'.off = Cur.off + Cur.len
      /\ Cur'.len = Smaller(BlockSize, flen - Cur'.off)
      /\ fpos' = Cur'.off + Cur'.len
      /\ cursor' \in Nat /\ cursor' <= Cur'.len
      /\ arr_idx' = arr_idx + Chunk /\ Chunk \in Nat /\ arr_idx' <= nbytes
      /\ StreamPos' = StreamPos
      /\ \A k \in 0 .. arr_idx' - 1 : arr'[k] = StreamPos' + k
      /\ blocks'[block_idx] = Cur
      /\ Other' = block_idx
      /\ peek_rolled' = FALSE
  BY RolloverFacts
<1>2. UNCHANGED <<flen, op, nbytes, saved, ret>> /\ Looping
  BY DEF Rollover
<1>3. TypeOK /\ BlocksAreWindows /\ CallFollowsStream
  BY DEF IInv
<1>4. op \in {"read", "peek"} /\ arr_idx < nbytes /\ op # "panic"
  BY <1>2 DEF Looping
<1>5. /\ Cur \in [off : Nat, len : Nat] /\ cursor \in Nat /\ arr_idx \in Nat
      /\ nbytes \in Nat /\ flen \in Nat
  BY <1>3 DEF TypeOK, Cur
<1>6. BlocksAreWindows'
  BY <1>1, <1>2 DEF BlocksAreWindows
<1>7. op' = "peek" => nbytes' = PeekLen /\ (PeekDoneRolled' \/ PeekStuckAtEnd')
  <2>. SUFFICES ASSUME op = "peek"
                PROVE  nbytes' = PeekLen /\ (PeekDoneRolled' \/ PeekStuckAtEnd')
    BY <1>2
  <2>1. nbytes = 4
    BY <1>3 DEF CallFollowsStream
  <2>2. Cur.len = Smaller(BlockSize, flen - Cur.off) /\ cursor <= Cur.len
    BY <1>3, <1>4 DEF BlocksAreWindows
  <2>3. PeekNotStarted \/ PeekStuckAtEnd
    BY <1>3, <1>4, <1>5 DEF CallFollowsStream, PeekDoneInBlock, PeekDoneRolled
  <2>4. CASE PeekNotStarted /\ Cur.len >= 4
    <3>1. Chunk = 4 /\ arr_idx' = nbytes
      BY <1>1, <1>5, <2>1, <2>4 DEF Chunk, PeekNotStarted
    <3>2. StreamPos = Cur.off + cursor
      BY <1>4, <1>5, <2>4 DEF StreamPos, PeekNotStarted
    <3>3. blocks'[saved'.idx] = Cur /\ saved'.idx = Other' /\ saved'.cursor = cursor
      BY <1>1, <1>2, <2>4 DEF PeekNotStarted
    <3>4. PeekDoneRolled'
      BY <1>1, <1>2, <2>2, <3>1, <3>2, <3>3 DEF PeekDoneRolled
    <3>. QED
      BY <1>2, <2>1, <3>4
  <2>5. CASE PeekNotStarted /\ Cur.len < 4
    <3>1. Cur.off + Cur.len = flen
      BY <1>5, <2>2, <2>5, ConstantFacts DEF Smaller
    <3>2. Cur'.off = flen /\ Cur'.len = 0
      BY <1>1, <1>5, <3>1, ConstantFacts DEF Smaller
    <3>3. Chunk = Cur.len /\ arr_idx' < nbytes
      BY <1>1, <1>5, <2>1, <2>5 DEF Chunk, PeekNotStarted
    <3>. QED
      BY <1>2, <2>1, <3>2, <3>3 DEF PeekStuckAtEnd
  <2>6. CASE PeekStuckAtEnd
    <3>1. Cur'.off = flen /\ Cur'.len = 0
      BY <1>1, <1>5, <2>6, ConstantFacts DEF Smaller, PeekStuckAtEnd
    <3>2. Chunk = 0 /\ arr_idx' = arr_idx
      BY <1>1, <1>4, <1>5, <2>6 DEF Chunk, PeekStuckAtEnd
    <3>. QED
      BY <1>2, <1>4, <2>1, <3>1, <3>2 DEF PeekStuckAtEnd
  <2>. QED
    BY <1>5, <2>3, <2>4, <2>5, <2>6
<1>8. CallFollowsStream'
  BY <1>1, <1>2, <1>3, <1>7 DEF CallFollowsStream
<1>. QED
  BY <1>6, <1>8

(* The other actions leave the windows, or put the peek's place back. *)
LEMMA CallKeepsIInv ==
  ASSUME IInv, NEW n \in Nat, NEW kind \in {"read", "peek"}, Call(kind, n),
         kind = "read" => n \in ArraySizes,
         kind = "peek" => n = PeekLen /\ saved' = [cursor |-> cursor, idx |-> block_idx]
  PROVE  BlocksAreWindows' /\ CallFollowsStream' /\ StreamPos' = StreamPos
<1>1. /\ op = "idle" /\ op' = kind /\ arr_idx' = 0 /\ nbytes' = n
      /\ UNCHANGED <<flen, fpos, blocks, block_idx, cursor, peek_rolled>>
  BY DEF Call, fileVars, bufVars
<1>2. TypeOK /\ BlocksAreWindows
  BY DEF IInv
<1>3. Cur' = Cur /\ Other' = Other
  BY <1>1 DEF Cur, Other
<1>4. BlocksAreWindows'
  BY <1>1, <1>2, <1>3 DEF BlocksAreWindows
<1>5. 0 .. arr_idx' - 1 = {}
  BY <1>1
<1>6. op' = "peek" => PeekNotStarted'
  BY <1>1, <1>2 DEF PeekNotStarted
<1>7. CallFollowsStream'
  BY <1>1, <1>5, <1>6 DEF CallFollowsStream
<1>8. StreamPos' = StreamPos
  <2>1. Cur.off \in Nat /\ cursor \in Nat
    BY <1>2 DEF TypeOK, Cur
  <2>. QED
    BY <1>1, <1>3, <2>1 DEF StreamPos
<1>. QED
  BY <1>4, <1>7, <1>8

LEMMA ReturnReadKeepsIInv ==
  ASSUME IInv, ReturnRead
  PROVE  BlocksAreWindows' /\ CallFollowsStream'
<1>1. /\ op = "read" /\ op' = "idle"
      /\ UNCHANGED <<flen, fpos, blocks, block_idx, cursor, peek_rolled>>
  BY DEF ReturnRead, fileVars, bufVars
<1>2. Cur' = Cur /\ Other' = Other /\ BlocksAreWindows
  BY <1>1 DEF Cur, Other, IInv
<1>. QED
  BY <1>1, <1>2 DEF BlocksAreWindows, CallFollowsStream

(* peek4 puts the cursor back at the byte it started from. *)
LEMMA ReturnPeekFacts ==
  ASSUME IInv, ReturnPeek
  PROVE  BlocksAreWindows' /\ CallFollowsStream' /\ StreamPos' = StreamPos
<1>1. /\ op = "peek" /\ op' = "idle" /\ arr_idx >= nbytes
      /\ cursor' = saved.cursor /\ block_idx' = saved.idx
      /\ peek_rolled' = (peek_rolled \/ block_idx # saved.idx)
      /\ UNCHANGED <<flen, fpos, blocks>>
  BY DEF ReturnPeek, fileVars
<1>2. TypeOK /\ BlocksAreWindows /\ CallFollowsStream
  BY DEF IInv
<1>3. /\ Cur \in [off : Nat, len : Nat] /\ cursor \in Nat /\ arr_idx \in Nat
      /\ saved.cursor \in Nat /\ saved.idx \in 0 .. 1 /\ block_idx \in 0 .. 1
      /\ nbytes = 4
  BY <1>1, <1>2 DEF TypeOK, Cur, CallFollowsStream
<1>4. StreamPos = Cur.off + cursor - arr_idx /\ StreamPos' = Cur'.off + cursor'
  <2>1. Cur' = blocks[saved.idx]
    BY <1>1 DEF Cur
  <2>2. Cur'.off \in Nat
    BY <1>2, <1>3, <2>1 DEF TypeOK
  <2>. QED
    BY <1>1, <1>3, <2>2 DEF StreamPos
<1>5. PeekDoneInBlock \/ PeekDoneRolled
  BY <1>1, <1>2, <1>3 DEF CallFollowsStream, PeekNotStarted, PeekStuckAtEnd
<1>6. CASE PeekDoneInBlock
  <2>1. /\ block_idx' = block_idx /\ (peek_rolled' <=> peek_rolled)
        /\ arr_idx = 4 /\ cursor = cursor' + 4
    BY <1>1, <1>3, <1>6 DEF PeekDoneInBlock
  <2>2. Cur' = Cur /\ Other' = Other
    BY <1>1, <2>1 DEF Cur, Other
  <2>3. cursor' <= Cur.len
    BY <1>1, <1>2, <1>3, <2>1 DEF BlocksAreWindows
  <2>4. BlocksAreWindows'
    BY <1>1, <1>2, <2>1, <2>2, <2>3 DEF BlocksAreWindows
  <2>5. StreamPos' = StreamPos
    BY <1>1, <1>3, <1>4, <2>1, <2>2
  <2>. QED
    BY <1>1, <2>4, <2>5 DEF CallFollowsStream
<1>7. CASE PeekDoneRolled
  <2>1. /\ saved.idx = Other /\ ~peek_rolled /\ arr_idx = nbytes
        /\ blocks[saved.idx].off + blocks[saved.idx].len = Cur.off
        /\ blocks[saved.idx].len = Smaller(BlockSize, flen - blocks[saved.idx].off)
        /\ saved.cursor <= blocks[saved.idx].len
        /\ blocks[saved.idx].off + saved.cursor = StreamPos
    BY <1>7 DEF PeekDoneRolled
  <2>2. Cur' = blocks[saved.idx] /\ Other' = block_idx
    BY <1>1, <1>3, <2>1 DEF Cur, Other
  <2>3. peek_rolled'
    <3>1. block_idx # saved.idx
      BY <1>3, <2>1 DEF Other
    <3>. QED
      BY <1>1, <3>1, Zenon
  <2>4. blocks'[Other'] = Cur
    BY <1>1, <2>2 DEF Cur
  <2>5. Cur.len = Smaller(BlockSize, flen - Cur.off) /\ fpos = Cur.off + Cur.len
    BY <1>1, <1>2, <2>1 DEF BlocksAreWindows
  <2>6. BlocksAreWindows'
    BY <1>1, <2>1, <2>2, <2>3, <2>4, <2>5 DEF BlocksAreWindows
  <2>7. StreamPos' = StreamPos
    BY <1>1, <1>4, <2>1, <2>2
  <2>. QED
    BY <1>1, <2>6, <2>7 DEF CallFollowsStream
<1>. QED
  BY <1>5, <1>6, <1>7

LEMMA LoadErrorFacts ==
  ASSUME IInv, LoadError
  PROVE  /\ BlocksAreWindows' /\ CallFollowsStream'
         /\ StreamPos' = StreamPos + arr_idx
         /\ arr_idx \in 0 .. nbytes /\ StreamPos' <= flen
<1>1. /\ Looping /\ op' = "idle" /\ ~peek_rolled
      /\ blocks' = [blocks EXCEPT ![Other] = [off |-> flen, len |-> BlockSize]]
      /\ UNCHANGED <<flen, fpos, block_idx, cursor, peek_rolled>>
  BY DEF LoadError, fileVars
<1>2. TypeOK /\ BlocksAreWindows /\ op \in {"read", "peek"} /\ op # "idle" /\ op # "panic"
  BY <1>1 DEF IInv, Looping
<1>3. /\ Cur \in [off : Nat, len : Nat] /\ cursor \in Nat /\ arr_idx \in Nat
      /\ nbytes \in Nat /\ arr_idx < nbytes /\ flen \in Nat /\ fpos <= flen
  BY <1>1, <1>2 DEF TypeOK, Cur, Looping
<1>4. Other # block_idx /\ Other' = Other
  BY <1>1, <1>2 DEF TypeOK, Other
<1>5. Cur' = Cur
  BY <1>1, <1>2, <1>4 DEF TypeOK, Cur
<1>6. BlocksAreWindows'
  BY <1>1, <1>2, <1>5 DEF BlocksAreWindows
<1>7. StreamPos = Cur.off + cursor - arr_idx /\ StreamPos' = Cur'.off + cursor'
  BY <1>1, <1>2, <1>3, <1>5 DEF StreamPos
<1>8. StreamPos' = StreamPos + arr_idx
  BY <1>1, <1>3, <1>5, <1>7
<1>9. cursor <= Cur.len /\ fpos = Cur.off + Cur.len
  BY <1>1, <1>2 DEF BlocksAreWindows
<1>10. StreamPos' <= flen
  BY <1>1, <1>3, <1>5, <1>7, <1>9
<1>. QED
  BY <1>1, <1>3, <1>6, <1>8, <1>10 DEF CallFollowsStream

(* The inductive invariant of the reader (load_block, read_to_array, peek4 *)
(* together): the blocks are consecutive windows, the bytes taken follow   *)
(* the stream, and a peek can always put its place back.                   *)
THEOREM InductiveInvariant == ASSUME ~ShortReads PROVE Spec => []IInv
<1>1. Init => IInv
  <2>. SUFFICES ASSUME Init PROVE BlocksAreWindows /\ CallFollowsStream /\ TypeOK
    BY DEF IInv
  <2>1. PICK m \in ReadCounts(0) :
          /\ blocks = [i \in 0 .. 1 |-> IF i = 0 THEN [off |-> 0, len |-> m]
                                                 ELSE [off |-> 0, len |-> 0]]
          /\ fpos = m
    BY DEF Init
  <2>2. m = Smaller(BlockSize, flen - 0) /\ flen \in Nat
    BY FullReads, ConstantFacts DEF Init
  <2>3. m \in Nat
    BY <2>2, ConstantFacts DEF Smaller
  <2>4. block_idx = 0 /\ cursor = 0 /\ peek_rolled = FALSE /\ op = "idle"
    BY DEF Init
  <2>5. Cur = [off |-> 0, len |-> m]
    BY <2>1, <2>4 DEF Cur
  <2>6. BlocksAreWindows
    BY <2>1, <2>2, <2>3, <2>4, <2>5 DEF BlocksAreWindows
  <2>7. CallFollowsStream
    BY <2>4 DEF CallFollowsStream
  <2>. QED
    BY <2>6, <2>7, TypeCorrectInit
<1>2. IInv /\ [Next]_vars => IInv'
  <2>. SUFFICES ASSUME IInv, [Next]_vars PROVE IInv'
    OBVIOUS
  <2>1. TypeOK'
    BY TypeCorrectStep DEF IInv
  <2>2. BlocksAreWindows' /\ CallFollowsStream'
    <3>1. ASSUME NEW n \in ArraySizes, Read(n)
          PROVE  BlocksAreWindows' /\ CallFollowsStream'
      <4>1. n \in Nat /\ Call("read", n)
        BY <3>1, ConstantFacts DEF Read
      <4>. QED
        BY <4>1, CallKeepsIInv
    <3>2. CASE Peek4
      BY <3>2, CallKeepsIInv DEF Peek4
    <3>3. CASE CopyWithinBlock
      BY <3>3, CopyKeepsIInv
    <3>4. CASE Rollover
      BY <3>4, RolloverKeepsIInv
    <3>5. CASE IndexPanic
      BY <3>5 DEF IndexPanic, BlocksAreWindows, CallFollowsStream
    <3>6. CASE ReturnRead
      BY <3>6, ReturnReadKeepsIInv
    <3>7. CASE ReturnPeek
      BY <3>7, ReturnPeekFacts
    <3>8. CASE LoadError
      BY <3>8, LoadErrorFacts
    <3>9. CASE UNCHANGED vars
      BY <3>9 DEF vars, fileVars, bufVars, callVars, IInv, BlocksAreWindows,
         CallFollowsStream, PeekNotStarted, PeekDoneInBlock, PeekDoneRolled,
         PeekStuckAtEnd, StreamPos, Cur, Other
    <3>. QED
      BY <3>1, <3>2, <3>3, <3>4, <3>5, <3>6, <3>7, <3>8, <3>9
         DEF Next, CallStep, Progress
  <2>. QED
    BY <2>1, <2>2 DEF IInv
<1>. QED
  BY <1>1, <1>2, PTL DEF Spec

(* The two halves the runs check by name. *)
THEOREM WindowsCorrect == ASSUME ~ShortReads PROVE Spec => []BlocksAreWindows
<1>1. IInv => BlocksAreWindows
  BY DEF IInv
<1>. QED
  BY <1>1, InductiveInvariant, PTL

THEOREM CallsFollowStream == ASSUME ~ShortReads PROVE Spec => []CallFollowsStream
<1>1. IInv => CallFollowsStream
  BY DEF IInv
<1>. QED
  BY <1>1, InductiveInvariant, PTL

--------------------------------------------------------------------------------
(* The cursor is never past the end of the file. *)
LEMMA CursorInFile ==
  ASSUME TypeOK, BlocksAreWindows, op # "panic"
  PROVE  /\ Cur.off \in Nat /\ Cur.len \in Nat /\ cursor \in Nat /\ flen \in Nat
         /\ Cur.len <= BlockSize /\ Cur.off + cursor <= flen
<1>1. Cur \in [off : Nat, len : Nat] /\ cursor \in Nat /\ flen \in Nat
  BY DEF TypeOK, Cur
<1>2. cursor <= Cur.len /\ Cur.len = Smaller(BlockSize, flen - Cur.off)
  BY DEF BlocksAreWindows
<1>. QED
  BY <1>1, <1>2, ConstantFacts DEF Smaller

(* A call that aborts the process asked for bytes the file does not have.  *)
LEMMA PanicStep ==
  ASSUME ~ShortReads, IInv, IndexPanic
  PROVE  PanicOnlyPastEnd'
<1>. DEFINE next == blocks'[Other]
<1>1. /\ Looping /\ LoadBlock /\ Chunk - (Cur.len - cursor) > next.len
      /\ op' = "panic"
      /\ UNCHANGED <<flen, block_idx, cursor, arr_idx, nbytes>>
  BY DEF IndexPanic
<1>2. TypeOK /\ BlocksAreWindows /\ op # "panic"
  BY <1>1 DEF IInv, Looping
<1>3. /\ next.off = Cur.off + Cur.len
      /\ next.len = Smaller(BlockSize, flen - next.off)
      /\ blocks'[block_idx] = Cur
  BY <1>1, <1>2, LoadedIsNextWindow
<1>4. /\ Chunk \in Nat /\ Chunk <= Cur.len /\ arr_idx + Chunk <= nbytes
      /\ arr_idx \in Nat /\ nbytes \in Nat
  BY <1>1, <1>2, ChunkBounded DEF TypeOK
<1>5. /\ Cur.off \in Nat /\ Cur.len \in Nat /\ cursor \in Nat /\ flen \in Nat
      /\ Cur.len <= BlockSize /\ Cur.off + cursor <= flen
  BY <1>2, CursorInFile
<1>6. cursor <= Cur.len
  BY <1>2 DEF BlocksAreWindows
<1>7. Cur.off + cursor + Chunk > flen
  BY <1>1, <1>3, <1>4, <1>5, <1>6, ConstantFacts DEF Smaller
<1>8. Cur' = Cur
  BY <1>1, <1>3 DEF Cur
<1>9. StreamPos' = Cur.off + cursor - arr_idx
  BY <1>1, <1>4, <1>5, <1>8 DEF StreamPos
<1>10. BytesLeft' = flen - (Cur.off + cursor - arr_idx)
  BY <1>1, <1>9 DEF BytesLeft
<1>. QED
  BY <1>1, <1>4, <1>5, <1>7, <1>10 DEF PanicOnlyPastEnd

(* read_to_array indexes out of bounds only for a caller that asks for     *)
(* more bytes than the file has left (PanicOnlyPastEnd).                   *)
THEOREM NoPanicInBounds == ASSUME ~ShortReads PROVE Spec => []PanicOnlyPastEnd
<1>1. Init => PanicOnlyPastEnd
  BY DEF Init, PanicOnlyPastEnd
<1>2. PanicOnlyPastEnd /\ IInv /\ [Next]_vars => PanicOnlyPastEnd'
  <2>. SUFFICES ASSUME PanicOnlyPastEnd, IInv, [Next]_vars PROVE PanicOnlyPastEnd'
    OBVIOUS
  <2>1. CASE IndexPanic
    BY <2>1, PanicStep
  <2>2. CASE UNCHANGED vars
    BY <2>2 DEF vars, fileVars, bufVars, callVars, PanicOnlyPastEnd, BytesLeft,
                StreamPos, Cur
  <2>3. CASE (Next /\ ~IndexPanic)
    <3>1. op' # "panic"
      BY <2>3 DEF Next, CallStep, Progress, Read, Peek4, Call, CopyWithinBlock,
                  Rollover, LoadError, ReturnRead, ReturnPeek, Looping
    <3>. QED
      BY <3>1 DEF PanicOnlyPastEnd
  <2>. QED
    BY <2>1, <2>2, <2>3
<1>. QED
  BY <1>1, <1>2, InductiveInvariant, PTL DEF Spec

(* A peek whose bytes are in the file has taken none of them when the      *)
(* device fails, so the restore that `?` skips was not needed.             *)
LEMMA PeekFailsUnmoved ==
  ASSUME IInv, LoadError, op = "peek", PeekLen <= BytesLeft
  PROVE  arr_idx = 0
<1>1. TypeOK /\ BlocksAreWindows /\ CallFollowsStream /\ arr_idx < nbytes
  BY DEF IInv, LoadError, Looping
<1>2. arr_idx \in Nat /\ nbytes = 4
  BY <1>1 DEF TypeOK, CallFollowsStream
<1>3. PeekNotStarted \/ PeekStuckAtEnd
  BY <1>1, <1>2 DEF CallFollowsStream, PeekDoneInBlock, PeekDoneRolled
<1>4. ~PeekStuckAtEnd
  <2>1. /\ Cur.off \in Nat /\ cursor \in Nat /\ flen \in Nat
        /\ Cur.off + cursor <= flen
    BY <1>1, CursorInFile
  <2>2. BytesLeft = flen - (Cur.off + cursor - arr_idx)
    BY <1>2, <2>1 DEF BytesLeft, StreamPos
  <2>. QED
    BY <1>1, <1>2, <2>1, <2>2 DEF PeekStuckAtEnd
<1>. QED
  BY <1>3, <1>4 DEF PeekNotStarted

(* A failing device never costs a peek its place (peek4 returns with `?`   *)
(* before it restores the cursor).                                         *)
THEOREM FailedPeekTheorem == ASSUME ~ShortReads PROVE Spec => FailedPeekKeepsPlace
<1>1. IInv /\ [Next]_vars =>
        [op = "peek" /\ op' = "idle" /\ PeekLen <= BytesLeft => StreamPos' = StreamPos]_vars
  <2>. SUFFICES ASSUME IInv, Next, op = "peek", op' = "idle", PeekLen <= BytesLeft
                PROVE  StreamPos' = StreamPos
    OBVIOUS
  <2>1. ReturnPeek \/ LoadError
    BY DEF Next, CallStep, Progress, Read, Peek4, Call, CopyWithinBlock, Rollover,
           IndexPanic, ReturnRead
  <2>2. CASE ReturnPeek
    BY <2>2, ReturnPeekFacts
  <2>3. CASE LoadError
    <3>1. StreamPos' = StreamPos + arr_idx /\ arr_idx = 0
      BY <2>3, LoadErrorFacts, PeekFailsUnmoved
    <3>2. StreamPos \in Int
      BY DEF IInv, TypeOK, StreamPos, Cur
    <3>. QED
      BY <3>1, <3>2
  <2>. QED
    BY <2>1, <2>2, <2>3
<1>. QED
  BY <1>1, InductiveInvariant, PTL DEF Spec, FailedPeekKeepsPlace

--------------------------------------------------------------------------------
(* The stream the reader implements, step by step.                         *)
LEMMA EmptyIsEmpty == Stream!Bytes(0, 0) = EmptyArray
<1>1. 0 .. 0 - 1 = {}
  OBVIOUS
<1>. QED
  BY <1>1 DEF Stream!Bytes, EmptyArray

(* Work inside a call is invisible: nothing is delivered before it returns. *)
LEMMA InnerStepsStutter ==
  ASSUME ~ShortReads, IInv, CopyWithinBlock \/ Rollover \/ IndexPanic
  PROVE  UNCHANGED Stream!vars
<1>1. TypeOK /\ BlocksAreWindows /\ op # "panic"
  BY DEF IInv, CopyWithinBlock, Rollover, IndexPanic, Looping
<1>2. UNCHANGED <<flen, ret>>
  BY DEF CopyWithinBlock, Rollover, IndexPanic, fileVars
<1>3. CASE CopyWithinBlock
  <2>1. /\ Looping /\ op' = op /\ cursor' = cursor + Chunk /\ arr_idx' = arr_idx + Chunk
        /\ UNCHANGED <<blocks, block_idx>>
    BY <1>3 DEF CopyWithinBlock
  <2>2. /\ Chunk \in Nat /\ Cur.off \in Nat /\ cursor \in Nat /\ arr_idx \in Nat
        /\ Cur' = Cur
    BY <1>1, <2>1, ChunkBounded DEF TypeOK, Cur
  <2>3. StreamPos' = StreamPos
    BY <2>1, <2>2 DEF StreamPos, Looping
  <2>. QED
    BY <1>2, <2>3 DEF Stream!vars
<1>4. CASE Rollover
  BY <1>2, <1>4, RolloverFacts DEF Stream!vars
<1>5. CASE IndexPanic
  <2>1. /\ Looping /\ LoadBlock /\ op' = "panic"
        /\ UNCHANGED <<block_idx, cursor, arr_idx>>
    BY <1>5 DEF IndexPanic
  <2>2. Cur' = Cur
    BY <1>1, <2>1, LoadedIsNextWindow DEF Cur
  <2>3. /\ Cur.off \in Nat /\ cursor \in Nat /\ arr_idx \in Nat
    BY <1>1 DEF TypeOK, Cur
  <2>4. StreamPos' = StreamPos
    BY <2>1, <2>2, <2>3 DEF StreamPos, Looping
  <2>. QED
    BY <1>2, <2>4 DEF Stream!vars
<1>. QED
  BY <1>3, <1>4, <1>5

(* A full array is the next bytes of the stream. *)
LEMMA FullArrayIsNextBytes ==
  ASSUME IInv, op \in {"read", "peek"}, arr_idx >= nbytes
  PROVE  /\ arr = Stream!Bytes(StreamPos, nbytes)
         /\ arr_idx = nbytes /\ nbytes \in Nat
         /\ StreamPos = Cur.off + cursor - nbytes
         /\ StreamPos \in Int /\ StreamPos + nbytes <= flen
<1>1. TypeOK /\ BlocksAreWindows /\ CallFollowsStream /\ op # "panic"
  BY DEF IInv
<1>2. arr_idx \in Nat /\ nbytes \in Nat /\ arr_idx = nbytes
  BY <1>1 DEF TypeOK, CallFollowsStream
<1>3. /\ Cur.off \in Nat /\ cursor \in Nat /\ flen \in Nat
      /\ Cur.off + cursor <= flen
  BY <1>1, CursorInFile
<1>4. StreamPos = Cur.off + cursor - nbytes
  BY <1>2, <1>3 DEF StreamPos
<1>5. arr \in [0 .. nbytes - 1 -> Int]
  BY <1>1 DEF TypeOK
<1>6. \A k \in 0 .. nbytes - 1 : arr[k] = StreamPos + k
  BY <1>1, <1>2 DEF CallFollowsStream
<1>7. arr = Stream!Bytes(StreamPos, nbytes)
  BY <1>5, <1>6 DEF Stream!Bytes
<1>8. StreamPos \in Int /\ StreamPos + nbytes <= flen
  BY <1>2, <1>3, <1>4
<1>. QED
  BY <1>2, <1>4, <1>7, <1>8

LEMMA ReturnReadImplements ==
  ASSUME IInv, ReturnRead
  PROVE  Stream!ReadToArray(nbytes) /\ nbytes \in ArraySizes
<1>1. /\ op = "read" /\ op' = "idle" /\ arr_idx >= nbytes
      /\ ret' = [ok |-> TRUE, data |-> arr]
      /\ UNCHANGED <<flen, blocks, block_idx, cursor>>
  BY DEF ReturnRead, fileVars, bufVars
<1>2. /\ arr = Stream!Bytes(StreamPos, nbytes)
      /\ nbytes \in Nat
      /\ StreamPos = Cur.off + cursor - nbytes
      /\ StreamPos \in Int /\ StreamPos + nbytes <= flen
  BY <1>1, FullArrayIsNextBytes
<1>3. Cur.off \in Nat /\ cursor \in Nat
  BY DEF IInv, TypeOK, Cur
<1>4. Cur' = Cur
  BY <1>1 DEF Cur
<1>5. StreamPos' = Cur.off + cursor
  BY <1>1, <1>3, <1>4 DEF StreamPos
<1>6. StreamPos' = StreamPos + nbytes
  BY <1>2, <1>3, <1>5
<1>7. nbytes \in ArraySizes
  BY <1>1 DEF IInv, CallFollowsStream
<1>8. ret' = Stream!Delivered(Stream!Bytes(StreamPos, nbytes))
  BY <1>1, <1>2 DEF Stream!Delivered
<1>. QED
  BY <1>1, <1>2, <1>6, <1>7, <1>8 DEF Stream!ReadToArray

LEMMA ReturnPeekImplements ==
  ASSUME IInv, ReturnPeek
  PROVE  Stream!Peek4
<1>1. /\ op = "peek" /\ arr_idx >= nbytes
      /\ ret' = [ok |-> TRUE, data |-> arr] /\ UNCHANGED flen
  BY DEF ReturnPeek, fileVars
<1>2. nbytes = 4
  BY <1>1 DEF IInv, CallFollowsStream
<1>3. arr = Stream!Bytes(StreamPos, nbytes) /\ StreamPos + nbytes <= flen
  BY <1>1, FullArrayIsNextBytes
<1>4. StreamPos' = StreamPos
  BY ReturnPeekFacts
<1>. QED
  BY <1>1, <1>2, <1>3, <1>4 DEF Stream!Peek4, Stream!Delivered, Stream!PeekLen

LEMMA LoadErrorImplements ==
  ASSUME IInv, LoadError
  PROVE  Stream!Next
<1>1. /\ StreamPos' = StreamPos + arr_idx /\ arr_idx \in 0 .. nbytes /\ StreamPos' <= flen
  BY LoadErrorFacts
<1>2. ret' = Stream!Failed /\ UNCHANGED flen
  BY EmptyIsEmpty DEF LoadError, Stream!Failed, fileVars
<1>3. StreamPos \in Int /\ nbytes \in Nat
  BY DEF IInv, TypeOK, StreamPos, Cur
<1>4. Stream!Fail(nbytes)
  BY <1>1, <1>2, <1>3 DEF Stream!Fail
<1>5. nbytes \in ArraySizes \/ nbytes = Stream!PeekLen
  BY DEF IInv, CallFollowsStream, LoadError, Looping, Stream!PeekLen
<1>. QED
  BY <1>4, <1>5 DEF Stream!Next

(* The two-block reader implements the stream of bytes (ByteStream): what  *)
(* read_to_array and peek4 return are the file's bytes, in order, none     *)
(* skipped, repeated or swapped, wherever the block boundaries fall.       *)
THEOREM ReaderImplementsStream == ASSUME ~ShortReads PROVE Spec => ImplementsByteStream
<1>1. Init => Stream!Init
  <2>. SUFFICES ASSUME Init PROVE Stream!Init
    OBVIOUS
  <2>1. ret = Stream!NothingYet /\ flen \in FileLens
    BY EmptyIsEmpty DEF Init, Stream!NothingYet, Stream!Delivered
  <2>2. StreamPos = 0
    BY DEF Init, StreamPos, Cur
  <2>. QED
    BY <2>1, <2>2 DEF Stream!Init
<1>2. IInv /\ [Next]_vars => [Stream!Next]_(Stream!vars)
  <2>. SUFFICES ASSUME IInv, [Next]_vars PROVE [Stream!Next]_(Stream!vars)
    OBVIOUS
  <2>1. ASSUME NEW n \in ArraySizes, Read(n) PROVE UNCHANGED Stream!vars
    <3>1. n \in Nat /\ Call("read", n) /\ UNCHANGED <<flen, ret>>
      BY <2>1, ConstantFacts DEF Read, Call, fileVars
    <3>. QED
      BY <3>1, CallKeepsIInv DEF Stream!vars
  <2>2. CASE Peek4
    <3>1. Call("peek", 4) /\ UNCHANGED <<flen, ret>>
      BY <2>2 DEF Peek4, Call, fileVars
    <3>2. StreamPos' = StreamPos
      BY <2>2, CallKeepsIInv DEF Peek4
    <3>. QED
      BY <3>1, <3>2 DEF Stream!vars
  <2>3. CASE CopyWithinBlock \/ Rollover \/ IndexPanic
    BY <2>3, InnerStepsStutter
  <2>4. CASE ReturnRead
    BY <2>4, ReturnReadImplements DEF Stream!Next
  <2>5. CASE ReturnPeek
    BY <2>5, ReturnPeekImplements DEF Stream!Next
  <2>6. CASE LoadError
    BY <2>6, LoadErrorImplements
  <2>7. CASE UNCHANGED vars
    BY <2>7 DEF vars, fileVars, bufVars, callVars, Stream!vars, StreamPos, Cur
  <2>. QED
    BY <2>1, <2>2, <2>3, <2>4, <2>5, <2>6, <2>7 DEF Next, CallStep, Progress
<1>. QED
  BY <1>1, <1>2, InductiveInvariant, PTL DEF Spec, ImplementsByteStream, Stream!Spec
================================================================================
