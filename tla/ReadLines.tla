------------------------------- MODULE ReadLines -------------------------------
(***************************************************************************)
(* BufReader::read_lines (src/src/io.rs), which every parser of the crate  *)
(* and has_expanded read their file with.  It is always called on a reader *)
(* just made ("TODO: make sure that file hasn't yet been read"), so it     *)
(* starts from BufReader's Init and no peek is pending.                    *)
(*                                                                         *)
(* One step is one round of the loop: the block under the cursor is split  *)
(* at its newlines, the part behind the last of them is carried over in    *)
(* ln, and the next block is loaded into the other buffer.                 *)
(***************************************************************************)
EXTENDS BufReader, SequencesExt

VARIABLES
  nl,     \* the offsets at which the file has a newline
  ln,     \* the line being collected, as the offsets of its bytes
  lines,  \* the lines found
  stage   \* "loop", or how the call ended: "done", "error"

lineVars == <<nl, ln, lines, stage>>
allVars == <<vars, lineVars>>

LinesInit ==
  /\ Init
  /\ nl \in SUBSET (0 .. flen - 1)
  /\ ln = <<>> /\ lines = <<>> /\ stage = "loop"

(* The bytes of the block, added one by one to what has been collected.    *)
(* As it might go wrong: the newline is left out, the line carried over is *)
(* dropped.                                                                *)
AddByteBare(found, o) ==
  IF o \in nl THEN [lines |-> Append(found.lines, found.ln), ln |-> <<>>]
  ELSE [found EXCEPT !.ln = Append(@, o)]
AddByte(found, o) ==
  IF o \in nl THEN [lines |-> Append(found.lines, Append(found.ln, o)), ln |-> <<>>]
  ELSE [found EXCEPT !.ln = Append(@, o)]

After(found, n) ==
  LET upto[k \in 0 .. n] == IF k = 0 THEN found ELSE AddByte(upto[k - 1], Cur.off + k - 1)
  IN  upto[n]
SplitAnew(found) == After([found EXCEPT !.ln = <<>>], Cur.len)
Split(found) == After(found, Cur.len)

(* What load_block returns; as if it were the length of the buffer.        *)
LoadedBuffer == BlockSize
Loaded == blocks'[Other].len

(* A round that finds another block. *)
NextBlock ==
  /\ stage = "loop"
  /\ LoadBlock
  /\ Loaded > 0
  /\ LET found == Split([lines |-> lines, ln |-> ln])
     IN  lines' = found.lines /\ ln' = found.ln
  /\ block_idx' = Other
  /\ UNCHANGED <<flen, cursor, callVars, nl, stage>>

(* A round that loads nothing: what is left, if anything, is the last line.*)
LeftOver(found) ==
  IF found.ln = <<>> THEN found.lines ELSE Append(found.lines, found.ln)
LastBlock ==
  /\ stage = "loop"
  /\ LoadBlock
  /\ Loaded = 0
  /\ LET found == Split([lines |-> lines, ln |-> ln])
     IN  lines' = LeftOver(found) /\ ln' = <<>>
  /\ stage' = "done"
  /\ UNCHANGED <<flen, block_idx, cursor, callVars, nl>>

(* A line is not UTF-8, or the device fails: the lines are lost. *)
LinesFail ==
  /\ stage = "loop"
  /\ stage' = "error" /\ lines' = <<>> /\ ln' = <<>>
  /\ UNCHANGED <<vars, nl>>

Round == NextBlock \/ LastBlock
LinesSpec == LinesInit /\ [][Round \/ LinesFail]_allVars /\ WF_allVars(Round)

--------------------------------------------------------------------------------
(* Nothing is lost, repeated or reordered while lines are carried over     *)
(* from block to block: what has been collected is the file up to the      *)
(* block under the cursor.                                                 *)
CollectedSoFar ==
  stage = "loop" => FlattenSeq(lines) \o ln = [k \in 1 .. Cur.off |-> k - 1]

(* The lines returned are the file cut behind each newline, whatever the   *)
(* places of the newlines in the blocks and however short the reads.       *)
LinesAreFile ==
  stage = "done" =>
    /\ FlattenSeq(lines) = [k \in 1 .. flen |-> k - 1]
    /\ \A i \in DOMAIN lines : \A k \in DOMAIN lines[i] :
         /\ lines[i][k] \in nl => k = Len(lines[i])
         /\ k = Len(lines[i]) /\ i < Len(lines) => lines[i][k] \in nl

(* read_lines returns. *)
LinesReturn == <>(stage # "loop")
================================================================================
