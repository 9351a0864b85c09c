------------------------------- MODULE Container -------------------------------
(***************************************************************************)
(* container::Container::expand (src/src/container.rs): the local entries  *)
(* of an epub, which is a zip file, are read one after the other and       *)
(* written to files and directories of a FAT disk.                         *)
(*                                                                         *)
(* Data abstraction: the reader is a position between entries (`at`) and   *)
(* the number of bytes of the current one it has not consumed (`unread`,   *)
(* zero exactly when the next four bytes are a signature); module          *)
(* BufReader is what delivers those bytes.  A byte of an expanded file is  *)
(* <<book, name, k>>.  Entries are well-formed: sizes in a header are      *)
(* those of the data, or zero when a data descriptor holds them instead.   *)
(***************************************************************************)
EXTENDS Integers, Sequences

CONSTANTS
  Books,        \* the epub files on the disk
  Archive,      \* the local entries of each, in the order of the file
  RootDir,      \* the directory they are expanded into
  CopyChunk,    \* the buffer of the stored-file loop
  InputBuf,     \* the input buffer of inflate
  DescLen,      \* the length of a data descriptor
  ClusterSize   \* the disk's: one File::write stops at the end of a cluster

Members(b) == {Archive[b][i] : i \in 1 .. Len(Archive[b])}
Entries == UNION {Members(b) : b \in Books}

(* No entry of an epub has the name of another, and none comes to something*)
(* out of no bytes at all.                                                 *)
ASSUME ArchiveAssumption ==
  \A b \in Books :
    /\ Archive[b] \in Seq(Entries)
    /\ \A e \in Members(b) :
         /\ e.len \in Nat /\ e.full \in Nat /\ (e.full > 0 => e.len > 0)
         /\ e.method = "stored" => e.len = e.full
    /\ \A i, j \in 1 .. Len(Archive[b]) : Archive[b][i].name = Archive[b][j].name => i = j
ASSUME BufferAssumption ==
  /\ CopyChunk \in Nat \ {0} /\ InputBuf \in Nat \ {0} /\ DescLen \in Nat \ {0}
(* A FAT cluster is 512 bytes times a power of two, the chunk is 256. *)
ASSUME ClusterAssumption == ClusterSize \in Nat \ {0} /\ ClusterSize % CopyChunk = 0

VARIABLES
  files,   \* the files on the disk and their contents
  dirs,    \* the directories on the disk
  lost,    \* history, for the properties: the files whose last close failed
           \* with no one told, and that the directory records too short
  pc,      \* where expand is, or how the last call of it ended
  book,    \* the epub it expands
  at,      \* how many headers it has read
  unread,  \* bytes of entry `at` it has not consumed; negative: bytes too many
  todo,    \* bytes_to_go
  off,     \* the offset of the open output file
  flushed  \* the length of the output file that the directory records

diskVars == <<files, dirs, lost>>
jobVars == <<pc, book, at, unread, todo, off, flushed>>
vars == <<diskVars, jobVars>>

Final == {"idle", "ok", "unimplemented", "format", "io"}
Running == {"scan", "header", "stored", "deflated", "after"}

(* What a header says.  Bit 3 of the flags: the sizes are zero and a data  *)
(* descriptor follows the data.                                            *)
Streamed(e) == 3 \in e.bits
csize(e) == IF Streamed(e) THEN 0 ELSE e.len
usize(e) == IF Streamed(e) THEN 0 ELSE e.full
have_data_descriptor(e) == 4 \in e.bits
is_file(e) == csize(e) > 0 /\ usize(e) > 0
is_dir(e) == csize(e) = 0 /\ usize(e) = 0 /\ e.dir
Supported(e) == e.method \in {"stored", "deflated"}

At == Archive[book][at]
Contents(b, e) == [k \in 1 .. e.full |-> <<b, e.name, k>>]
Smaller(a, b) == IF a <= b THEN a ELSE b

(* The disk, as fatfs provides it: create_file opens a file that is there  *)
(* without truncating it, a write goes over what is there, and what was    *)
(* written since the last flush or close is not safe from a power cut.     *)
Exists(name) == name \in DOMAIN files
Put(name, content) ==
  [n \in DOMAIN files \cup {name} |-> IF n = name THEN content ELSE files[n]]
Opened(name) == Put(name, IF Exists(name) THEN files[name] ELSE <<>>)
WriteAt(old, p, bytes) ==
  [k \in 1 .. (IF p + Len(bytes) > Len(old) THEN p + Len(bytes) ELSE Len(old)) |->
     IF k > p /\ k <= p + Len(bytes) THEN bytes[k - p] ELSE old[k]]
Accepted(n) == Smaller(n, ClusterSize - (off % ClusterSize))

Init ==
  /\ files = [n \in {} |-> <<>>] /\ dirs = {RootDir} /\ lost = {}
  /\ pc = "idle" /\ book \in Books
  /\ at = 0 /\ unread = 0 /\ todo = 0 /\ off = 0 /\ flushed = 0

(* A call that fails is over, and what it held in its locals is gone. *)
Ends(how) ==
  /\ pc' = how
  /\ at' = 0 /\ unread' = 0 /\ todo' = 0 /\ off' = 0 /\ flushed' = 0
  /\ UNCHANGED book

(* The epub file is opened and its first block read.  Directories are the  *)
(* caller's: EPubFile::expand makes some in the same step.                 *)
Open(b) ==
  /\ pc \in Final
  /\ pc' = "scan" /\ book' = b
  /\ at' = 0 /\ unread' = 0
  /\ UNCHANGED <<files, lost, todo, off, flushed>>

(* peek4 sees the signature of a local file header, which is then read. *)
ReadHeader ==
  /\ pc = "scan" /\ unread = 0 /\ at < Len(Archive[book])
  /\ pc' = "header"
  /\ at' = at + 1
  /\ LET e == Archive[book][at + 1]
     IN  unread' = e.len + (IF Streamed(e) THEN DescLen ELSE 0)
  /\ UNCHANGED <<diskVars, book, todo, off, flushed>>

(* peek4 sees the signature of the central directory: all is expanded. *)
CentralDirectory ==
  /\ pc = "scan" /\ unread = 0 /\ at = Len(Archive[book])
  /\ pc' = "ok"
  /\ UNCHANGED <<diskVars, book, at, unread, todo, off, flushed>>

(* The reader is not at a record: peek4 sees bytes of an entry's data, or  *)
(* the middle of a header.  They are taken not to look like a signature.   *)
UnknownSignature ==
  /\ pc = "scan" /\ unread # 0
  /\ Ends("format")
  /\ UNCHANGED diskVars

RefusedFlags(e) == e.bits # {} /\ ~have_data_descriptor(e)

RefuseFlags ==
  /\ pc = "header" /\ RefusedFlags(At)
  /\ Ends("unimplemented")
  /\ UNCHANGED diskVars

MakesFile(e) == Supported(e) /\ is_file(e)
MakesDir(e) == Supported(e) /\ ~is_file(e) /\ is_dir(e)

(* The file an entry is written to: created, but not truncated; as if it   *)
(* were.                                                                   *)
CreatesTruncated(name) == files' = Put(name, <<>>)
Creates(name) == files' = Opened(name)

CreateFile ==
  /\ pc = "header" /\ ~RefusedFlags(At) /\ MakesFile(At) /\ At.parent \in dirs
  /\ Creates(At.name)
  /\ off' = 0
  /\ flushed' = Len(files'[At.name])
  /\ todo' = (IF At.method = "deflated" THEN csize(At) ELSE usize(At))
  /\ pc' = At.method
  /\ UNCHANGED <<dirs, lost, book, at, unread>>

CreateDir ==
  /\ pc = "header" /\ ~RefusedFlags(At) /\ MakesDir(At) /\ At.parent \in dirs
  /\ dirs' = dirs \cup {At.name}
  /\ pc' = "after"
  /\ UNCHANGED <<files, lost, book, at, unread, todo, off, flushed>>

(* create_file and create_dir do not make the directories on the way. *)
NoParent ==
  /\ pc = "header" /\ ~RefusedFlags(At)
  /\ MakesFile(At) \/ MakesDir(At)
  /\ At.parent \notin dirs
  /\ Ends("io")
  /\ UNCHANGED diskVars

(* Neither a file nor a directory, or an unknown compression method:       *)
(* nothing is written, and the data of the entry is not read either.       *)
PassOver ==
  /\ pc = "header" /\ ~RefusedFlags(At) /\ ~MakesFile(At) /\ ~MakesDir(At)
  /\ pc' = "after"
  /\ UNCHANGED <<diskVars, book, at, unread, todo, off, flushed>>

(* The v[..n] of a round, and what a wrong size of it would be. *)
StoredChunkFull == CopyChunk
StoredChunkOdd == Smaller(CopyChunk + 1, todo)
StoredChunkLess == Smaller(CopyChunk, todo - 1)
StoredChunk == Smaller(CopyChunk, todo)

(* One round of the loop that copies a stored file: a chunk is read whole, *)
(* and written with a single write, whose result is not looked at.         *)
CopyStored ==
  /\ pc = "stored" /\ todo > 0
  /\ LET n == StoredChunk
         first == usize(At) - todo
         written == [k \in 1 .. Accepted(n) |-> <<book, At.name, first + k>>]
     IN  /\ files' = Put(At.name, WriteAt(files[At.name], off, written))
         /\ off' = off + Len(written)
         /\ todo' = todo - n
         /\ unread' = unread - n
  /\ UNCHANGED <<dirs, lost, pc, book, at, flushed>>

(* What one input buffer decompresses to: m bytes of the file, all that    *)
(* are left when it is the last.  The bytes are right in the first buffer  *)
(* of an entry; in later ones they need not be (module Inflate), which     *)
(* k = 0 stands for.                                                       *)
Produced(m, right) ==
  [k \in 1 .. m |-> <<book, At.name, IF right THEN off + k ELSE 0>>]
MayProduce(n, m, right) ==
  /\ m \in 0 .. usize(At) - off
  /\ todo = n => m = usize(At) - off
  /\ todo = csize(At) => right

(* One round of the outer loop of inflate: a buffer is read, decompressed, *)
(* and written in a loop that counts what each write took, then flushed.   *)
InflateBuffer ==
  /\ pc = "deflated" /\ todo > 0
  /\ LET n == Smaller(InputBuf, todo)
     IN  /\ \E m \in 0 .. At.full, right \in BOOLEAN :
              /\ MayProduce(n, m, right)
              /\ files' = Put(At.name, WriteAt(files[At.name], off, Produced(m, right)))
              /\ off' = off + m
         /\ todo' = todo - n
         /\ unread' = unread - n
  /\ flushed' = Len(files'[At.name])
  /\ UNCHANGED <<dirs, lost, pc, book, at>>

(* The same round, cut short by an error of the decompressor or the disk;  *)
(* a smaller m stands for what the file's drop then fails to record.       *)
InflateFails ==
  /\ pc = "deflated" /\ todo > 0
  /\ \E m \in 0 .. At.full, right \in BOOLEAN :
        /\ m <= usize(At) - off
        /\ todo = csize(At) => right
        /\ files' = Put(At.name, WriteAt(files[At.name], off, Produced(m, right)))
  /\ Ends("io")
  /\ UNCHANGED <<dirs, lost>>

(* The output file is closed by being dropped.  inflate has flushed it; a  *)
(* stored file is flushed only here, and a drop has nowhere to report an   *)
(* error to: the directory then keeps the length it had, and expand goes on*)
(* as after any other close.                                               *)
NotRecorded(name) ==
  flushed < Len(files[name]) /\ files' = Put(name, SubSeq(files[name], 1, flushed))

CloseFile ==
  /\ pc \in {"stored", "deflated"} /\ todo = 0
  /\ pc' = "after"
  /\ lost' = lost \ {At.name}
  /\ UNCHANGED <<files, dirs, book, at, unread, todo, off, flushed>>

CloseLoses ==
  /\ pc = "stored" /\ todo = 0
  /\ NotRecorded(At.name)
  /\ pc' = "after"
  /\ lost' = lost \cup {At.name}
  /\ UNCHANGED <<dirs, book, at, unread, todo, off, flushed>>

(* As if the data passed over were skipped, the next header found. *)
FinishEntrySkipping ==
  /\ pc = "after"
  /\ unread' = 0
  /\ pc' = "scan"
  /\ UNCHANGED <<diskVars, book, at, todo, off, flushed>>

(* The entry is done; its data descriptor, if there is thought to be one,  *)
(* is read.                                                                *)
FinishEntry ==
  /\ pc = "after"
  /\ unread' = unread - (IF have_data_descriptor(At) THEN DescLen ELSE 0)
  /\ pc' = "scan"
  /\ UNCHANGED <<diskVars, book, at, todo, off, flushed>>

(* Any call into the disk may fail: expand returns the error at once and   *)
(* drops the output file, which may fail too.                              *)
IOFailure ==
  /\ pc \in Running
  /\ UNCHANGED files \/ (pc = "stored" /\ NotRecorded(At.name))
  /\ Ends("io")
  /\ UNCHANGED <<dirs, lost>>

(* The power goes, at any point.  The output file keeps what it held when  *)
(* it was last flushed, and may keep some of what was written since.       *)
LosesUnflushed(name) ==
  \E n \in flushed .. Len(files[name]) : files' = Put(name, SubSeq(files[name], 1, n))
Crash ==
  /\ pc \in Running
  /\ IF pc = "stored" THEN LosesUnflushed(At.name) ELSE UNCHANGED files
  /\ Ends("idle")
  /\ UNCHANGED <<dirs, lost>>

Step ==
  \/ ReadHeader \/ CentralDirectory \/ UnknownSignature
  \/ RefuseFlags \/ CreateFile \/ CreateDir \/ NoParent \/ PassOver
  \/ CopyStored \/ InflateBuffer \/ CloseFile \/ FinishEntry
Fault == InflateFails \/ CloseLoses \/ IOFailure \/ Crash

(* One book, expanded again and again into the same directory. *)
Again == Open(book) /\ UNCHANGED dirs
Next == Again \/ Step \/ Fault

Spec == Init /\ [][Next]_vars

(* expand runs to its end once it is called: nothing in it waits. *)
FairSpec == Spec /\ WF_vars(Step)

--------------------------------------------------------------------------------
TypeOK ==
  /\ \A n \in DOMAIN files : n \in {e.name : e \in Entries}
  /\ dirs \subseteq {RootDir} \cup {e.name : e \in Entries}
  /\ lost \subseteq DOMAIN files
  /\ pc \in Final \cup Running /\ book \in Books
  /\ at \in 0 .. Len(Archive[book])
  /\ unread \in Int /\ todo \in Nat /\ off \in Nat /\ flushed \in Nat

(* Inflate gets an entry right when its data fits one input buffer. *)
OneBuffer(e) == e.method = "deflated" => e.len <= InputBuf
Intact(b, e) == Exists(e.name) /\ files[e.name] = Contents(b, e)
IntactOrLost(b, e) == Intact(b, e) \/ e.name \in lost

(* An entry of an unknown method that has bit 4 set, and data as long as a *)
(* data descriptor: the data is read for one, so it is gone with no error. *)
TakenForDescriptor(e) == ~Supported(e) /\ have_data_descriptor(e) /\ e.len = DescLen
Due(e) == e.full > 0 /\ OneBuffer(e) /\ ~TakenForDescriptor(e)

(* When expand returns Ok every entry that has data is on the disk with    *)
(* exactly that data, but for the stored files whose closing failed in this*)
(* very expansion: the one error that Ok hides.  An entry whose data the   *)
(* code passes over unread must not let expand succeed, with the exception *)
(* above; nor may a short write, or a chunk too many, go unseen; nor may a *)
(* file that an earlier expansion lost stay short.                         *)
ExpandedIntact == pc = "ok" => \A e \in Members(book) : Due(e) => IntactOrLost(book, e)

(* Errors, power cuts and second attempts never leave a hole or a foreign  *)
(* byte: each file holds a prefix of its entry.                            *)
CleanPrefixes ==
  \A e \in Members(book) :
     Exists(e.name) /\ OneBuffer(e) =>
       /\ Len(files[e.name]) <= e.full
       /\ files[e.name] = SubSeq(Contents(book, e), 1, Len(files[e.name]))

(* Expanding the book once more, even in vain, takes nothing away: a file  *)
(* that is on the disk intact stays so at every moment of the second       *)
(* expansion, a power cut included.                                        *)
Saved(e) == Intact(book, e) /\ (pc = "stored" /\ At = e => flushed = Len(files[e.name]))
RepeatNeverHarms ==
  [][\A e \in Members(book) : OneBuffer(e) /\ Saved(e) => Saved(e)']_vars

(* expand returns: each round of its loops consumes something. *)
ExpandReturns == (pc \in Running) ~> (pc \in Final)

(* container.rs says of is_file "does this header describe a file": every  *)
(* entry that is not a directory is one, and is on the disk after expand.  *)
EveryFileIsThere ==
  pc = "ok" => \A e \in Members(book) : ~e.dir => Exists(e.name)

(* container.rs says of have_data_descriptor "is there data descriptor for *)
(* this header": an epub whose entries have that flag (bit 3) or none is   *)
(* not refused as unimplemented.                                           *)
DescriptorIsSeen ==
  pc = "unimplemented" => \E e \in Members(book) : e.bits \notin {{}, {3}}
================================================================================
