------------------------------- MODULE ZipHeader -------------------------------
(***************************************************************************)
(* LocalFileHeader::read (src/src/container.rs): thirty bytes, a name and  *)
(* the records of an extra field, whose length is counted down in a usize. *)
(* Container takes the whole of it for one step; what this module adds is  *)
(* an archive in which lengths, name and records are what they like.       *)
(***************************************************************************)
EXTENDS Naturals

CONSTANTS
  WordSize,    \* a usize is a number below WordSize
  NameLens, ExtraLens, DataLens,   \* what the length fields of a header may say
  MaxArchive   \* bound: the bytes from here to the end of the epub

(* The archive fits the address space, as fatfs has files below 2^32 only. *)
ASSUME WordAssumption == WordSize \in Nat /\ MaxArchive \in Nat /\ MaxArchive < WordSize

ASSUME LensAssumption == NameLens \subseteq Nat /\ ExtraLens \subseteq Nat /\ DataLens \subseteq Nat

FixedLen == 30
RecordLen == 4   \* id and length of a record of the extra field

VARIABLES
  hpc,         \* "start", "fixed", "named", "extra", or how it ended
  archive_len, \* the bytes there are
  taken,       \* the bytes read from the BufReader
  name_len, extra_len,
  data_left    \* of the extra field

headerVars == <<hpc, archive_len, taken, name_len, extra_len, data_left>>

HeaderInit ==
  /\ hpc = "start" /\ archive_len = 0 /\ taken = 0
  /\ name_len = 0 /\ extra_len = 0 /\ data_left = 0

HeaderCall ==
  /\ hpc = "start" /\ hpc' = "fixed"
  /\ archive_len' \in 0 .. MaxArchive
  /\ UNCHANGED <<taken, name_len, extra_len, data_left>>

TakesBytes(n) == taken + n <= archive_len /\ taken' = taken + n

ReadFixed ==
  /\ hpc = "fixed" /\ TakesBytes(FixedLen)
  /\ hpc' \in {"named", "error"}   \* the signature is another
  /\ name_len' \in NameLens /\ extra_len' \in ExtraLens
  /\ UNCHANGED <<archive_len, data_left>>

ReadName ==
  /\ hpc = "named" /\ TakesBytes(name_len)
  /\ hpc' \in {"extra", "error"}   \* it is no utf8
  /\ data_left' = extra_len
  /\ UNCHANGED <<archive_len, name_len, extra_len>>

(* data_left -= data_len + 4, in a build that wraps around; as if the four *)
(* bytes in front of the data did not count.                               *)
Minus(a, b) == IF a >= b THEN a - b ELSE a + WordSize - b
CountedBare(d) == Minus(data_left, d)
Counted(d) == Minus(data_left, d + RecordLen)

(* The length of a record is not compared with what is left of the field:  *)
(* one that is too long is a panic where overflow is checked.              *)
ReadRecord(d) ==
  /\ hpc = "extra" /\ data_left > 0
  /\ TakesBytes(RecordLen + d)
  /\ \/ data_left' = Counted(d) /\ UNCHANGED hpc
     \/ data_left < RecordLen + d /\ hpc' = "panic" /\ UNCHANGED data_left
  /\ UNCHANGED <<archive_len, name_len, extra_len>>

HeaderOk ==
  /\ hpc = "extra" /\ data_left = 0 /\ hpc' = "ok"
  /\ UNCHANGED <<archive_len, taken, name_len, extra_len, data_left>>

(* A read that is longer than the archive does not come back with its      *)
(* bytes (what it does is in BufReader), or the device fails.              *)
HeaderFails ==
  /\ hpc \in {"fixed", "named", "extra"} /\ hpc' \in {"error", "pastend"}
  /\ UNCHANGED <<archive_len, taken, name_len, extra_len, data_left>>

HeaderNext ==
  \/ HeaderCall \/ ReadFixed \/ ReadName
  \/ \E d \in DataLens : ReadRecord(d)
  \/ HeaderOk \/ HeaderFails

HeaderSpec == HeaderInit /\ [][HeaderNext]_headerVars

--------------------------------------------------------------------------------
Declared == FixedLen + name_len + extra_len

(* A header that is accepted ends where its length fields say, so the data *)
(* of the entry is read from the right place: records that do not add up to*)
(* the extra field are never accepted, though nothing compares them, and   *)
(* though the count may have wrapped around on the way.                    *)
HeaderEndsExactly == hpc = "ok" => taken = Declared
================================================================================
