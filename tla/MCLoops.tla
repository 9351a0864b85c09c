-------------------------------- MODULE MCLoops --------------------------------
(***************************************************************************)
(* The two loops that carry data over from one buffer to the next, each on *)
(* its own: in a behaviour one of them runs, and the other has ended with  *)
(* nothing to do.                                                          *)
(*                                                                         *)
(* read_lines: files of up to eight bytes with newlines anywhere, in blocks*)
(* of four that the device may fill only in part, so up to eight blocks.   *)
(* inflate: every compressed stream of up to four tokens, for an input     *)
(* buffer of three and a window of four, so one or two buffers of input and*)
(* up to six windows of output.                                            *)
(***************************************************************************)
EXTENDS ReadLines, Inflate

MCFileLens == 0 .. 8
MCArraySizes == {4}
MCLiterals == {1, 2}
MCLengths == {1, 3, 6}

(* An empty file is read, an empty stream inflated. *)
NoLines ==
  /\ Init /\ flen = 0
  /\ nl = {} /\ ln = <<>> /\ lines = <<>> /\ stage = "done"
NoInflate ==
  /\ stream = <<>> /\ got = 0 /\ used = 0
  /\ win = [k \in 0 .. Window - 1 |-> 0] /\ pos = 0 /\ pend = NoMatch
  /\ status = "Done" /\ out_start = 0 /\ file = <<>> /\ pc = "done"

LoopsInit == (LinesInit /\ NoInflate) \/ (NoLines /\ InflateInit)

Goes ==
  \/ Round /\ UNCHANGED inflateVars
  \/ InflateProgress /\ UNCHANGED allVars
Breaks ==
  \/ LinesFail /\ UNCHANGED inflateVars
  \/ Fails /\ UNCHANGED allVars

LoopsSpec ==
  LoopsInit /\ [][Goes \/ Breaks]_<<allVars, inflateVars>> /\ WF_<<allVars, inflateVars>>(Goes)
================================================================================
