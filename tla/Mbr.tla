---------------------------------- MODULE Mbr ----------------------------------
(***************************************************************************)
(* get_partition (src/src/mbr.rs).  Of the 512 bytes only those that are   *)
(* tested are told apart: the status of each of the four entries and the   *)
(* two bytes of the footer.                                                *)
(***************************************************************************)
EXTENDS Naturals

CONSTANT Counts   \* how many bytes the one read may return

BlockLen == 512
EntryLen == 16
EntryAt(idx) == 446 + EntryLen * idx
FooterAt == 510
Tested == {EntryAt(i) : i \in 0 .. 3} \cup {FooterAt, FooterAt + 1}
FooterLow == 85    \* 0x55
FooterHigh == 170  \* 0xAA

ASSUME CountsAssumption == Counts \subseteq 0 .. BlockLen

VARIABLES
  mpc,       \* "start", "check", "ok" or "error"
  card,      \* the tested bytes as they are on the card
  volume_idx,
  nread,     \* the bytes the read has returned
  partition  \* where the entry is that was taken

mbrVars == <<mpc, card, volume_idx, nread, partition>>

Cards ==
  {c \in [Tested -> {0, 1, 128, FooterLow, FooterHigh}] :
     /\ \A i \in 0 .. 3 : c[EntryAt(i)] \in {0, 1, 128}
     /\ c[FooterAt] \in {0, FooterLow} /\ c[FooterAt + 1] \in {0, FooterHigh}}

MbrInit ==
  /\ mpc = "start" /\ card = [o \in Tested |-> 0] /\ volume_idx = 0
  /\ nread = 0 /\ partition = 0

(* The block is zero where nothing was read into it. *)
MbrRead ==
  /\ mpc = "start"
  /\ card' \in Cards /\ volume_idx' \in 0 .. 4 /\ nread' \in Counts
  /\ mpc' \in {"check", "error"}
  /\ UNCHANGED partition

Byte(o) == IF o < nread THEN card[o] ELSE 0

(* The footer is compared as one number; as if only its first byte were.   *)
FooterIsLow == Byte(FooterAt) = FooterLow
FooterIsRight == Byte(FooterAt) = FooterLow /\ Byte(FooterAt + 1) = FooterHigh
StatusIsRight == Byte(EntryAt(volume_idx)) % 128 = 0

TakePartition ==
  /\ mpc = "check" /\ FooterIsRight /\ volume_idx <= 3 /\ StatusIsRight
  /\ partition' = EntryAt(volume_idx) /\ mpc' = "ok"
  /\ UNCHANGED <<card, volume_idx, nread>>

MbrRefuses ==
  /\ mpc = "check"
  /\ \/ ~FooterIsRight
     \/ volume_idx > 3
     \/ volume_idx <= 3 /\ ~StatusIsRight
  /\ mpc' = "error"
  /\ UNCHANGED <<card, volume_idx, nread, partition>>

MbrNext == MbrRead \/ TakePartition \/ MbrRefuses

MbrSpec == MbrInit /\ [][MbrNext]_mbrVars

--------------------------------------------------------------------------------
(* The number of bytes the read returned is not looked at; yet a partition *)
(* is only ever made of an entry that was read to its last byte, with the  *)
(* status that is on the card: a short read leaves the footer zero.        *)
PartitionWasRead ==
  mpc = "ok" =>
    /\ partition \in {EntryAt(i) : i \in 0 .. 3}
    /\ partition + EntryLen <= nread
    /\ card[partition] \in {0, 128} /\ card[FooterAt + 1] = FooterHigh
================================================================================
