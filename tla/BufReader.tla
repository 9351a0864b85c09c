------------------------------- MODULE BufReader -------------------------------
(***************************************************************************)
(* io::BufReader (src/src/io.rs): a forward-only reader over a fatfs File  *)
(* that keeps two blocks in memory, swaps them as the cursor advances, and *)
(* lets the caller peek four bytes ahead across the boundary.              *)
(*                                                                         *)
(* Data abstraction: a byte is identified with its offset in the file.     *)
(* File::read fills a buffer with consecutive bytes, so the contents of a  *)
(* block are the offsets off .. off+len-1 and a block is the record        *)
(* [off, len].  Control is kept: one action per iteration of the loop in   *)
(* read_to_array, with the load_block call that iteration makes.           *)
(***************************************************************************)
EXTENDS Integers

CONSTANTS
  BlockSize,   \* BUFBLOCKSIZE
  FileLens,    \* the lengths a file may have
  ArraySizes,  \* the lengths of the arrays passed to read_to_array
  ShortReads   \* may File::read stop before the buffer is full and before EOF?

PeekLen == 4

ASSUME BlockSizeAssumption == BlockSize \in Nat /\ BlockSize >= PeekLen
ASSUME FileLensAssumption == FileLens \subseteq Nat
ASSUME ArraySizesAssumption == ArraySizes \subseteq Nat
ASSUME ShortReadsAssumption == ShortReads \in BOOLEAN

VARIABLES
  flen,         \* the length of the file (never changes while it is read)
  fpos,         \* the file handle's own offset: the next byte File::read returns
  blocks,       \* the two block buffers
  block_idx,    \* the block the cursor is in
  cursor,       \* the cursor's position in that block
  peek_rolled,  \* a peek loaded the other block: do not load it again
  op,           \* the call in progress: "idle", "read", "peek", or "panic"
  arr,          \* the array being filled
  arr_idx,      \* how much of it is filled
  nbytes,       \* its length
  saved,        \* peek4's copy of cursor and block_idx
  ret           \* what the last call returned

fileVars == <<flen, fpos>>
bufVars == <<blocks, block_idx, cursor, peek_rolled>>
callVars == <<op, arr, arr_idx, nbytes, saved, ret>>
vars == <<fileVars, bufVars, callVars>>

Smaller(a, b) == IF a <= b THEN a ELSE b
Unread == -1
Other == 1 - block_idx
Cur == blocks[block_idx]
EmptyArray == [k \in {} |-> 0]

(* As if a block were always full. *)
ReadCountsPastEnd(at) == {BlockSize}

(* How many bytes File::read may return for a whole block: none at the end *)
(* of the file only, all that are left or a full buffer unless the device  *)
(* below fatfs stops short.                                                *)
ReadCounts(at) ==
  LET most == Smaller(BlockSize, flen - at)
  IN  IF ShortReads /\ most > 0 THEN 1 .. most ELSE {most}

(* new(): block 0 is loaded, block 1 is empty. *)
Init ==
  /\ flen \in FileLens
  /\ \E m \in ReadCounts(0) :
        /\ blocks = [i \in 0 .. 1 |-> IF i = 0 THEN [off |-> 0, len |-> m]
                                               ELSE [off |-> 0, len |-> 0]]
        /\ fpos = m
  /\ block_idx = 0 /\ cursor = 0 /\ peek_rolled = FALSE
  /\ op = "idle" /\ arr = EmptyArray /\ arr_idx = 0 /\ nbytes = 0
  /\ saved = [cursor |-> 0, idx |-> 0]
  /\ ret = [ok |-> TRUE, data |-> EmptyArray]

(* As if what a peek has loaded were loaded over. *)
LoadBlockAgain ==
  /\ \E m \in ReadCounts(fpos) :
        /\ blocks' = [blocks EXCEPT ![Other] = [off |-> fpos, len |-> m]]
        /\ fpos' = fpos + m
  /\ peek_rolled' = FALSE

(* load_block(): fill the block the cursor is not in, unless a peek did. *)
LoadBlock ==
  \/ /\ peek_rolled
     /\ peek_rolled' = FALSE
     /\ UNCHANGED <<blocks, fpos>>
  \/ /\ ~peek_rolled
     /\ \E m \in ReadCounts(fpos) :
           /\ blocks' = [blocks EXCEPT ![Other] = [off |-> fpos, len |-> m]]
           /\ fpos' = fpos + m
     /\ UNCHANGED peek_rolled

(* A call of read_to_array with an array of n bytes, and of peek4, which   *)
(* reads four bytes and puts the cursor back.  read1, read2 and read4 are  *)
(* Read(1), Read(2) and Read(4).                                           *)
Call(kind, n) ==
  /\ op = "idle"
  /\ op' = kind
  /\ arr' = [k \in 0 .. n - 1 |-> Unread]
  /\ arr_idx' = 0
  /\ nbytes' = n
  /\ UNCHANGED <<fileVars, bufVars, ret>>

Read(n) == Call("read", n) /\ UNCHANGED saved
Peek4 == Call("peek", PeekLen) /\ saved' = [cursor |-> cursor, idx |-> block_idx]

(* As if an iteration took all that is missing, or all up to the end of    *)
(* the block.                                                              *)
ChunkMissing == nbytes - arr_idx
ChunkToBlockEnd == Smaller(Cur.len - cursor, nbytes - arr_idx)

(* The n of one iteration: a whole block when that is not enough, what is  *)
(* missing otherwise.                                                      *)
Chunk == IF arr_idx + Cur.len < nbytes THEN Cur.len ELSE nbytes - arr_idx
Looping == op \in {"read", "peek"} /\ arr_idx < nbytes
RollsOver == cursor + Chunk >= Cur.len

(* arr with its next `first` bytes taken from the cursor on and the `rest` *)
(* after them from the start of block b (the variant forgets what has been *)
(* taken when it indexes b).                                               *)
FromCursor(k, first) == k >= arr_idx /\ k < arr_idx + first
FromNext(k, first, rest) == k >= arr_idx + first /\ k < arr_idx + first + rest
FilledUnshifted(first, rest, b) ==
  [k \in DOMAIN arr |->
     IF FromCursor(k, first) THEN Cur.off + cursor + (k - arr_idx)
     ELSE IF FromNext(k, first, rest) THEN b.off + (k - arr_idx)
     ELSE arr[k]]
Filled(first, rest, b) ==
  [k \in DOMAIN arr |->
     IF FromCursor(k, first) THEN Cur.off + cursor + (k - arr_idx)
     ELSE IF FromNext(k, first, rest) THEN b.off + (k - arr_idx - first)
     ELSE arr[k]]

(* An iteration that stays inside the block. *)
CopyWithinBlock ==
  /\ Looping /\ ~RollsOver
  /\ arr' = Filled(Chunk, 0, Cur)
  /\ cursor' = cursor + Chunk
  /\ arr_idx' = arr_idx + Chunk
  /\ UNCHANGED <<fileVars, blocks, block_idx, peek_rolled, op, nbytes, saved, ret>>

(* An iteration that crosses into the other block. *)
Rollover ==
  /\ Looping /\ RollsOver
  /\ LoadBlock
  /\ LET j == Cur.len - cursor
         rest == Chunk - j
         next == blocks'[Other]
     IN  /\ rest <= next.len
         /\ arr' = Filled(j, rest, next)
         /\ cursor' = rest
  /\ block_idx' = Other
  /\ arr_idx' = arr_idx + Chunk
  /\ UNCHANGED <<flen, op, nbytes, saved, ret>>

(* The other block does not hold the rest: the index is out of bounds and  *)
(* the process aborts (panic = "abort" in Cargo.toml).                     *)
IndexPanic ==
  /\ Looping /\ RollsOver
  /\ LoadBlock
  /\ Chunk - (Cur.len - cursor) > blocks'[Other].len
  /\ op' = "panic"
  /\ UNCHANGED <<flen, block_idx, cursor, arr, arr_idx, nbytes, saved, ret>>

(* File::read fails: the error is returned at once, by peek4 without       *)
(* putting the cursor back.  The other block holds no byte of the file.    *)
LoadError ==
  /\ Looping /\ RollsOver /\ ~peek_rolled
  /\ blocks' = [blocks EXCEPT ![Other] = [off |-> flen, len |-> BlockSize]]
  /\ op' = "idle"
  /\ ret' = [ok |-> FALSE, data |-> EmptyArray]
  /\ UNCHANGED <<fileVars, block_idx, cursor, peek_rolled, arr, arr_idx, nbytes, saved>>

ReturnRead ==
  /\ op = "read" /\ arr_idx >= nbytes
  /\ op' = "idle"
  /\ ret' = [ok |-> TRUE, data |-> arr]
  /\ UNCHANGED <<fileVars, bufVars, arr, arr_idx, nbytes, saved>>

(* As if a peek did not mark the block it has loaded. *)
ReturnPeekUnmarked ==
  /\ op = "peek" /\ arr_idx >= nbytes
  /\ op' = "idle"
  /\ ret' = [ok |-> TRUE, data |-> arr]
  /\ cursor' = saved.cursor
  /\ block_idx' = saved.idx
  /\ UNCHANGED <<fileVars, blocks, peek_rolled, arr, arr_idx, nbytes, saved>>

ReturnPeek ==
  /\ op = "peek" /\ arr_idx >= nbytes
  /\ op' = "idle"
  /\ ret' = [ok |-> TRUE, data |-> arr]
  /\ cursor' = saved.cursor
  /\ block_idx' = saved.idx
  /\ peek_rolled' = (peek_rolled \/ block_idx # saved.idx)
  /\ UNCHANGED <<fileVars, blocks, arr, arr_idx, nbytes, saved>>

(* The caller's code between two calls, and the reader's own steps. *)
CallStep == (\E n \in ArraySizes : Read(n)) \/ Peek4
Progress == CopyWithinBlock \/ Rollover \/ IndexPanic \/ ReturnRead \/ ReturnPeek
Next == CallStep \/ Progress \/ LoadError

Spec == Init /\ [][Next]_vars

(* A call that was made runs on: the code is sequential and nothing in it  *)
(* waits.  Callers need not call, and the device need not fail.            *)
FairSpec == Spec /\ WF_vars(Progress)

--------------------------------------------------------------------------------
TypeOK ==
  /\ flen \in Nat /\ fpos \in 0 .. flen
  /\ blocks \in [0 .. 1 -> [off : Nat, len : Nat]]
  /\ block_idx \in 0 .. 1 /\ cursor \in Nat /\ peek_rolled \in BOOLEAN
  /\ op \in {"idle", "read", "peek", "panic"}
  /\ nbytes \in Nat /\ arr_idx \in Nat
  /\ arr \in [0 .. nbytes - 1 -> Int]
  /\ saved \in [cursor : Nat, idx : 0 .. 1]
  /\ ret.ok \in BOOLEAN

(* The offset of the next byte the caller has not been given: what an      *)
(* unfinished call has taken so far still counts as not given.             *)
StreamPos == Cur.off + cursor - (IF op = "idle" THEN 0 ELSE arr_idx)
BytesLeft == flen - StreamPos

(* The blocks are consecutive windows of the file: the cursor is inside    *)
(* its block, the block is full unless the file ends in it, and the file   *)
(* handle stands right behind the last block loaded, which is the other    *)
(* one exactly when a peek has rolled.  A wrong swap, a block loaded twice *)
(* or one skipped breaks it (load_block, peek4).                           *)
BlocksAreWindows == op # "panic" =>
  LET last == IF peek_rolled THEN blocks[Other] ELSE Cur
  IN  /\ cursor <= Cur.len
      /\ Cur.len = Smaller(BlockSize, flen - Cur.off)
      /\ peek_rolled => /\ blocks[Other].off = Cur.off + Cur.len
                        /\ blocks[Other].len = Smaller(BlockSize, flen - blocks[Other].off)
      /\ fpos = last.off + last.len

(* A call in progress is always somewhere the code can finish it from: the *)
(* bytes taken so far are the next ones of the stream, and a peek has      *)
(* either not moved yet, or finished in its block, or finished one block   *)
(* on from where it started, or met the end of the file and can never      *)
(* return.  With BlocksAreWindows this is the inductive invariant of the   *)
(* reader: it is what lets peek4 restore cursor and block_idx.             *)
PeekNotStarted == arr_idx = 0 /\ saved.idx = block_idx /\ saved.cursor = cursor
PeekDoneInBlock ==
  arr_idx = nbytes /\ saved.idx = block_idx /\ saved.cursor + PeekLen = cursor
PeekDoneRolled ==
  LET from == blocks[saved.idx]
  IN  /\ arr_idx = nbytes /\ saved.idx = Other /\ ~peek_rolled
      /\ from.off + from.len = Cur.off
      /\ from.len = Smaller(BlockSize, flen - from.off)
      /\ saved.cursor <= from.len
      /\ from.off + saved.cursor = StreamPos
PeekStuckAtEnd == arr_idx < nbytes /\ Cur.len = 0 /\ Cur.off = flen

CallFollowsStream ==
  /\ op \in {"read", "peek"} =>
        /\ arr_idx <= nbytes
        /\ \A k \in 0 .. arr_idx - 1 : arr[k] = StreamPos + k
  /\ op = "read" => nbytes \in ArraySizes
  /\ op = "peek" =>
        /\ nbytes = PeekLen
        /\ PeekNotStarted \/ PeekDoneInBlock \/ PeekDoneRolled \/ PeekStuckAtEnd

IInv == TypeOK /\ BlocksAreWindows /\ CallFollowsStream

(* The array index goes out of bounds only for a caller that asks for more *)
(* bytes than the file has left (who may also be left in an endless loop,  *)
(* which this property allows).                                            *)
PanicOnlyPastEnd == op = "panic" => nbytes > BytesLeft

(* A failing device never costs a peek its place: if the four bytes are in *)
(* the file, a peek that returns an error leaves the stream where it was,  *)
(* so the caller may try again (the `?` in peek4 skips the restore).       *)
FailedPeekKeepsPlace ==
  [][op = "peek" /\ op' = "idle" /\ PeekLen <= BytesLeft
       => StreamPos' = StreamPos]_vars

(* The reader implements the stream of bytes: whatever the array lengths   *)
(* and however peeks and reads fall on block boundaries, the bytes that a  *)
(* call returns are the next ones of the file, in order.                   *)
Stream == INSTANCE ByteStream WITH pos <- StreamPos
ImplementsByteStream == Stream!Spec

(* A call whose bytes are in the file returns: the loop of read_to_array   *)
(* makes progress on every such call.  Of a call past the end of the file, *)
(* which may loop for ever, nothing is said.                               *)
InBoundsCallReturns ==
  (op \in {"read", "peek"} /\ nbytes <= BytesLeft) ~> (op = "idle")
================================================================================
