-------------------------------- MODULE Inflate --------------------------------
(***************************************************************************)
(* LocalFileHeader::inflate (src/src/container.rs): the data of an entry   *)
(* is read a buffer at a time, decompressed into an output buffer that is  *)
(* also the decompressor's window, and written to the file.                *)
(*                                                                         *)
(* miniz_oxide's core::decompress is external and modelled from its use:   *)
(* without the flag for an output that holds everything, the output buffer *)
(* is circular.  A call decodes from `out_pos` on; a match copies from     *)
(* `dist` places back in the buffer, around its start; the call ends when  *)
(* the buffer is full to its end, or the input is used up.                 *)
(*                                                                         *)
(* Data abstraction: a byte of input is a token, either a literal or a     *)
(* match, each byte of whose copy is taken from the output.                *)
(***************************************************************************)
EXTENDS Integers, SequencesExt

CONSTANTS
  InputBuf,  \* the length of `input`
  Window,    \* the length of `output`
  Literals,  \* the bytes a literal may be
  Lengths,   \* the lengths a match may have
  MaxInput   \* bound: the length of the compressed data

ASSUME SizesAssumption == InputBuf \in Nat \ {0} /\ Window \in Nat \ {0}
ASSUME LengthsAssumption == Lengths \subseteq Nat
ASSUME MaxInputAssumption == MaxInput \in Nat

Literal(v) == [value |-> v, dist |-> 0, len |-> 1]
Match(d, l) == [value |-> 0, dist |-> d, len |-> l]
Tokens == {Literal(v) : v \in Literals} \cup {Match(d, l) : d \in 1 .. Window, l \in Lengths}

(* What the tokens stand for, by the definition of the format. *)
Unfold(plain, t) ==
  plain \o [k \in 1 .. t.len |->
              IF t.dist = 0 THEN t.value ELSE plain[Len(plain) - t.dist + 1 + ((k - 1) % t.dist)]]
Unfolded(tokens) ==
  LET after[n \in 0 .. Len(tokens)] == IF n = 0 THEN <<>> ELSE Unfold(after[n - 1], tokens[n])
  IN  after
Plain(tokens) == Unfolded(tokens)[Len(tokens)]

(* A match never reaches back before the first byte. *)
WellFormed(tokens) == \A i \in DOMAIN tokens : tokens[i].dist <= Len(Unfolded(tokens)[i - 1])
Streams == {s \in UNION {[1 .. n -> Tokens] : n \in 1 .. MaxInput} : WellFormed(s)}

VARIABLES
  stream,     \* the compressed data
  got,        \* how much of it has been read from the epub
  used,       \* how much of it the decompressor has taken
  win,        \* the output buffer
  pos,        \* how far the call has filled it
  pend,       \* the match being copied: dist, left
  status,     \* what the call returned
  out_start,  \* how much of the output has been written
  file,       \* the bytes written to the output file
  pc          \* "read", "call", "decode", "write", "done", "error"

inflateVars == <<stream, got, used, win, pos, pend, status, out_start, file, pc>>

NoMatch == [dist |-> 0, left |-> 0]
Shorter(a, b) == IF a <= b THEN a ELSE b
bytes_to_go == Len(stream) - got

InflateInit ==
  /\ stream \in Streams
  /\ got = 0 /\ used = 0
  /\ win = [k \in 0 .. Window - 1 |-> 0] /\ pos = 0 /\ pend = NoMatch
  /\ status = "none" /\ out_start = 0 /\ file = <<>>
  /\ pc = "read"

ReadBuffer ==
  /\ pc = "read" /\ bytes_to_go > 0
  /\ got' = got + Shorter(InputBuf, bytes_to_go)
  /\ pc' = "call"
  /\ UNCHANGED <<stream, used, win, pos, pend, status, out_start, file>>

(* Every call is made with out_pos = 0. *)
Decompress ==
  /\ pc = "call"
  /\ pos' = 0
  /\ pc' = "decode"
  /\ UNCHANGED <<stream, got, used, win, pend, status, out_start, file>>

Next1 == stream[used + 1]
NeedsOutput == pend.left > 0 \/ (used < got /\ Next1.dist = 0)
Put(v) == win' = [win EXCEPT ![pos] = v] /\ pos' = pos + 1

DecodeLiteral ==
  /\ pc = "decode" /\ pend.left = 0 /\ used < got /\ Next1.dist = 0 /\ pos < Window
  /\ Put(Next1.value)
  /\ used' = used + 1
  /\ UNCHANGED <<stream, got, pend, status, out_start, file, pc>>

DecodeMatch ==
  /\ pc = "decode" /\ pend.left = 0 /\ used < got /\ Next1.dist > 0
  /\ pend' = [dist |-> Next1.dist, left |-> Next1.len]
  /\ used' = used + 1
  /\ UNCHANGED <<stream, got, win, pos, status, out_start, file, pc>>

CopyByte ==
  /\ pc = "decode" /\ pend.left > 0 /\ pos < Window
  /\ Put(win[(pos - pend.dist) % Window])
  /\ pend' = [pend EXCEPT !.left = @ - 1]
  /\ UNCHANGED <<stream, got, used, status, out_start, file, pc>>

Returns(s) ==
  /\ status' = s
  /\ out_start' = 0
  /\ pc' = "write"
  /\ UNCHANGED <<stream, got, used, win, pos, pend, file>>
OutputFull == pc = "decode" /\ NeedsOutput /\ pos = Window /\ Returns("HasMoreOutput")
InputUsed ==
  /\ pc = "decode" /\ pend.left = 0 /\ used = got
  /\ Returns(IF bytes_to_go > 0 THEN "NeedsMoreInput" ELSE "Done")

(* File::write takes some of the bytes; the loop goes on with the rest. *)
AdvanceAll(n) == pos
Advance(n) == out_start + n
WriteSome ==
  /\ pc = "write" /\ out_start < pos
  /\ \E n \in 1 .. pos - out_start :
        /\ file' = file \o [k \in 1 .. n |-> win[out_start + k - 1]]
        /\ out_start' = Advance(n)
  /\ UNCHANGED <<stream, got, used, win, pos, pend, status, pc>>

(* All is written: decompress again, read on, or stop. *)
KeepLoopingNever == FALSE
KeepLoopingAlways == TRUE
KeepLooping == status = "HasMoreOutput"
Written ==
  /\ pc = "write" /\ out_start >= pos
  /\ pc' = IF KeepLooping THEN "call" ELSE IF bytes_to_go > 0 THEN "read" ELSE "done"
  /\ UNCHANGED <<stream, got, used, win, pos, pend, status, out_start, file>>

(* The data is corrupt, or the disk fails: inflate returns the error. *)
Fails ==
  /\ pc \in {"read", "decode", "write"}
  /\ pc' = "error"
  /\ UNCHANGED <<stream, got, used, win, pos, pend, status, out_start, file>>

InflateProgress ==
  \/ ReadBuffer \/ Decompress
  \/ DecodeLiteral \/ DecodeMatch \/ CopyByte \/ OutputFull \/ InputUsed
  \/ WriteSome \/ Written
InflateNext == InflateProgress \/ Fails

(* Nothing in inflate waits; no error need come. *)
InflateSpec == InflateInit /\ [][InflateNext]_inflateVars /\ WF_inflateVars(InflateProgress)

--------------------------------------------------------------------------------
(* An entry whose data fits the input buffer is expanded right, however    *)
(* many times over its output fills the window, whatever matches reach     *)
(* across its end, and however little each write takes.                    *)
OneBufferIsRight ==
  Len(stream) <= InputBuf =>
    /\ IsPrefix(file, Plain(stream))
    /\ pc = "done" => file = Plain(stream)

(* Of any entry, as many bytes are written as it has. *)
LengthIsRight == pc = "done" => Len(file) = Len(Plain(stream))

(* inflate returns. *)
InflateReturns == <>(pc \in {"done", "error"})

(* The comment of inflate: "inflate compressed data from a BufReader into  *)
(* a file", of any length.                                                 *)
InflatedIsPlain == pc = "done" => file = Plain(stream)
================================================================================
