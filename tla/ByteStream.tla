------------------------------ MODULE ByteStream ------------------------------
(***************************************************************************)
(* What a reader of an epub file is promised: a stream of the bytes of the *)
(* file, in order, each delivered once, with a look-ahead of four bytes    *)
(* that does not consume them.  Nothing here knows about blocks; module    *)
(* BufReader is shown to implement this one.                               *)
(*                                                                         *)
(* A byte is identified with its offset in the file, so "the right bytes"  *)
(* are the offsets pos, pos+1, ...                                         *)
(***************************************************************************)
EXTENDS Integers

CONSTANTS
  FileLens,   \* the lengths a file may have
  ArraySizes  \* the lengths of the arrays callers ask to have filled

PeekLen == 4

VARIABLES
  flen,  \* the length of the file
  pos,   \* the offset of the next byte to deliver
  ret    \* what the last operation returned

vars == <<flen, pos, ret>>

(* The n bytes that start at offset p, and the two other kinds of result. *)
Bytes(p, n) == [k \in 0 .. n - 1 |-> p + k]
Delivered(bytes) == [ok |-> TRUE, data |-> bytes]
Failed == [ok |-> FALSE, data |-> Bytes(0, 0)]
NothingYet == Delivered(Bytes(0, 0))

Init ==
  /\ flen \in FileLens
  /\ pos = 0
  /\ ret = NothingYet

(* n bytes are delivered and consumed; only when the file has them. *)
ReadToArray(n) ==
  /\ pos + n <= flen
  /\ ret' = Delivered(Bytes(pos, n))
  /\ pos' = pos + n
  /\ UNCHANGED flen

(* The next four bytes are delivered and stay in the stream. *)
Peek4 ==
  /\ pos + PeekLen <= flen
  /\ ret' = Delivered(Bytes(pos, PeekLen))
  /\ UNCHANGED <<flen, pos>>

(* The device fails.  Bytes of the array that was being filled may have    *)
(* been consumed, never more than the file has.                            *)
Fail(n) ==
  /\ ret' = Failed
  /\ pos' \in pos .. (pos + n)
  /\ pos' <= flen
  /\ UNCHANGED flen

Next ==
  \/ \E n \in ArraySizes : ReadToArray(n) \/ Fail(n)
  \/ Peek4 \/ Fail(PeekLen)

Spec == Init /\ [][Next]_vars
===============================================================================
