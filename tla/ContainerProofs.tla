----------------------------- MODULE ContainerProofs -----------------------------
(***************************************************************************)
(* Proofs about Container, for every archive, every chunk and buffer size  *)
(* and every cluster size that the chunk divides.                          *)
(*                                                                         *)
(* The invariants speak of the book that is being expanded and of the files*)
(* its entries name, and nowhere say what the other files hold, so that    *)
(* EPubFile, where other books come and go, can use the same lemmas.       *)
(***************************************************************************)
EXTENDS Container, TLAPS

AtWork == {"header", "stored", "deflated", "after"}
Writing == {"stored", "deflated"}

(* Files are sequences, however they have come about. *)
IsSeq(s) == Len(s) \in Nat /\ s = [k \in 1 .. Len(s) |-> s[k]]
FilesOK == \A n \in DOMAIN files : IsSeq(files[n])

JobOK ==
  /\ book \in Books /\ at \in 0 .. Len(Archive[book])
  /\ unread \in Int /\ todo \in Nat /\ off \in Nat /\ flushed \in Nat
  /\ pc \in AtWork => at > 0

NotTooLong == \A e \in Members(book) : Exists(e.name) => Len(files[e.name]) <= e.full

(* The first n bytes of the file are those of its entry. *)
Right(e, n) ==
  /\ Exists(e.name) /\ n <= Len(files[e.name])
  /\ OneBuffer(e) => \A k \in 1 .. n : files[e.name][k] = <<book, e.name, k>>

(* The reader, the loop's count and the output file are in step; a stored  *)
(* file has been written in whole chunks so far.                           *)
InStep ==
  pc \in Writing =>
    /\ MakesFile(At) /\ pc = At.method
    /\ unread = todo
    /\ Right(At, off) /\ off <= At.full
    /\ todo = 0 => off = At.full
    /\ pc = "stored" => off + todo = At.full /\ (todo > 0 => off % CopyChunk = 0)
    /\ pc = "deflated" => todo <= At.len /\ (OneBuffer(At) /\ todo > 0 => todo = At.len)

Past(e) == e.len + (IF Streamed(e) THEN DescLen ELSE 0)
DoneUpTo(n) == \A i \in 1 .. n : Due(Archive[book][i]) => IntactOrLost(book, Archive[book][i])

(* What is behind the reader is on the disk, or its close failed unseen.   *)
(* If it stands at a record again, so is the entry it has just left.       *)
DoneSoFar ==
  /\ pc \in AtWork \cup {"scan"} => DoneUpTo(at - 1)
  /\ pc = "scan" /\ unread = 0 => DoneUpTo(at)
  /\ pc = "ok" => DoneUpTo(Len(Archive[book]))
  /\ pc = "header" => unread = Past(At)
  /\ pc = "after" =>
       \/ unread = 0 /\ (Due(At) => IntactOrLost(book, At))
       \/ ~MakesFile(At) /\ ~RefusedFlags(At) /\ unread = Past(At)

ExpandInv == FilesOK /\ JobOK /\ NotTooLong /\ InStep /\ DoneSoFar

--------------------------------------------------------------------------------
(* Entries, contents and what a write makes of a file.                     *)
LEMMA EntryFacts ==
  ASSUME NEW b \in Books, NEW e \in Members(b)
  PROVE  /\ e.len \in Nat /\ e.full \in Nat /\ (e.full > 0 => e.len > 0)
         /\ e.method = "stored" => e.len = e.full
         /\ e \in Entries
BY ArchiveAssumption DEF Entries

LEMMA ArchiveFacts ==
  ASSUME NEW b \in Books
  PROVE  /\ Len(Archive[b]) \in Nat
         /\ \A i \in 1 .. Len(Archive[b]) : Archive[b][i] \in Members(b)
         /\ \A e \in Members(b) : \E i \in 1 .. Len(Archive[b]) : e = Archive[b][i]
         /\ \A i, j \in 1 .. Len(Archive[b]) : Archive[b][i].name = Archive[b][j].name => i = j
BY ArchiveAssumption DEF Members

LEMMA AtFacts ==
  ASSUME JobOK, pc \in AtWork
  PROVE  /\ at \in 1 .. Len(Archive[book]) /\ At \in Members(book)
         /\ \A e \in Members(book) : e.name = At.name => e = At
         /\ \A i \in 1 .. at - 1 : Archive[book][i] \in Members(book) /\ Archive[book][i].name # At.name
BY ArchiveFacts DEF JobOK, At

(* A file is written for an entry with its sizes in the header only. *)
LEMMA MakesFileFacts ==
  ASSUME NEW b \in Books, NEW e \in Members(b), MakesFile(e)
  PROVE  /\ ~Streamed(e) /\ csize(e) = e.len /\ usize(e) = e.full
         /\ e.len > 0 /\ e.full > 0 /\ e.method \in {"stored", "deflated"}
         /\ Past(e) = e.len
BY EntryFacts DEF MakesFile, is_file, csize, usize, Supported, Past

LEMMA FunSeq ==
  ASSUME NEW n \in Nat, NEW s, s = [k \in 1 .. n |-> s[k]]
  PROVE  IsSeq(s) /\ Len(s) = n
BY DEF IsSeq

LEMMA ContentsFacts ==
  ASSUME NEW b \in Books, NEW e \in Members(b)
  PROVE  /\ IsSeq(Contents(b, e)) /\ Len(Contents(b, e)) = e.full
         /\ \A k \in 1 .. e.full : Contents(b, e)[k] = <<b, e.name, k>>
<1>1. e.full \in Nat
  BY EntryFacts
<1> QED
  BY <1>1, FunSeq DEF Contents

LEMMA IntactFacts ==
  ASSUME NEW b \in Books, NEW e \in Members(b), FilesOK
  PROVE  Intact(b, e) <=> /\ Exists(e.name) /\ Len(files[e.name]) = e.full
                          /\ \A k \in 1 .. e.full : files[e.name][k] = <<b, e.name, k>>
<1>1. e.full \in Nat
  BY EntryFacts
<1>2. Exists(e.name) => files[e.name] = [k \in 1 .. Len(files[e.name]) |-> files[e.name][k]]
  BY DEF FilesOK, IsSeq, Exists
<1> QED
  BY <1>1, <1>2, ContentsFacts DEF Intact, Contents

LEMMA WriteAtFacts ==
  ASSUME NEW old, IsSeq(old), NEW p \in 0 .. Len(old), NEW bytes, IsSeq(bytes),
         NEW new, new = WriteAt(old, p, bytes)
  PROVE  /\ IsSeq(new)
         /\ Len(new) = IF p + Len(bytes) > Len(old) THEN p + Len(bytes) ELSE Len(old)
         /\ \A k \in 1 .. Len(new) :
              new[k] = IF k > p /\ k <= p + Len(bytes) THEN bytes[k - p] ELSE old[k]
<1> DEFINE n == IF p + Len(bytes) > Len(old) THEN p + Len(bytes) ELSE Len(old)
<1>1. n \in Nat
  BY DEF IsSeq
<1>2. new = [k \in 1 .. n |-> IF k > p /\ k <= p + Len(bytes) THEN bytes[k - p] ELSE old[k]]
  BY DEF WriteAt
<1> HIDE DEF n
<1>3. new = [k \in 1 .. n |-> new[k]]
  BY <1>2
<1>4. IsSeq(new) /\ Len(new) = n
  BY <1>1, <1>3, FunSeq
<1> QED
  BY <1>2, <1>4 DEF n

LEMMA SubSeqFacts ==
  ASSUME NEW s, IsSeq(s), NEW n \in 0 .. Len(s)
  PROVE  /\ IsSeq(SubSeq(s, 1, n)) /\ Len(SubSeq(s, 1, n)) = n
         /\ \A k \in 1 .. n : SubSeq(s, 1, n)[k] = s[k]
<1>1. s \in Seq({s[k] : k \in 1 .. Len(s)})
  BY DEF IsSeq
<1>2. n \in Nat
  BY DEF IsSeq
<1>3. SubSeq(s, 1, n) = [k \in 1 .. n |-> s[k]]
  BY <1>1, <1>2
<1> QED
  BY <1>2, <1>3, FunSeq

--------------------------------------------------------------------------------
(* What the disk and the finished entries are after a file of the current  *)
(* entry has been written: the other files are what they were.             *)
LEMMA PutFacts ==
  ASSUME NEW name, NEW c, IsSeq(c), FilesOK, files' = Put(name, c)
  PROVE  /\ FilesOK'
         /\ DOMAIN files' = DOMAIN files \cup {name} /\ files'[name] = c
         /\ \A n \in DOMAIN files : n # name => files'[n] = files[n]
BY DEF Put, FilesOK

LEMMA WritesOneFile ==
  ASSUME FilesOK, JobOK, NotTooLong, pc \in AtWork, DoneUpTo(at - 1),
         NEW c, IsSeq(c), Len(c) <= At.full, files' = Put(At.name, c),
         lost \subseteq lost', book' = book
  PROVE  /\ FilesOK' /\ NotTooLong' /\ files'[At.name] = c
         /\ at' = at => DoneUpTo(at - 1)' /\ Exists(At.name)'
<1>1. /\ FilesOK' /\ DOMAIN files' = DOMAIN files \cup {At.name} /\ files'[At.name] = c
      /\ \A n \in DOMAIN files : n # At.name => files'[n] = files[n]
  BY PutFacts
<1>2. /\ At \in Members(book) /\ \A e \in Members(book) : e.name = At.name => e = At
      /\ \A i \in 1 .. at - 1 : Archive[book][i].name # At.name
  BY AtFacts
<1>3. NotTooLong'
  BY <1>1, <1>2 DEF NotTooLong, Exists, Members
<1>4. ASSUME at' = at PROVE DoneUpTo(at - 1)'
  <2>1. SUFFICES ASSUME NEW i \in 1 .. at - 1, Due(Archive[book][i])
                 PROVE  IntactOrLost(book, Archive[book][i])'
    BY <1>4 DEF DoneUpTo, Due
  <2>2. IntactOrLost(book, Archive[book][i])
    BY <2>1 DEF DoneUpTo
  <2>3. Intact(book, Archive[book][i]) => Intact(book, Archive[book][i])'
    BY <1>1, <1>2, <2>1 DEF Intact, Exists, Contents
  <2> QED
    BY <2>2, <2>3 DEF IntactOrLost
<1>5. at' = at => Exists(At.name)'
  BY <1>1 DEF Exists, At
<1> QED
  BY <1>1, <1>3, <1>4, <1>5

(* A prefix of the entry's bytes goes over what is there, from off on.     *)
LEMMA WriteRight ==
  ASSUME FilesOK, JobOK, NotTooLong, pc \in AtWork, Right(At, off), At.full \in Nat,
         NEW bytes, IsSeq(bytes), off + Len(bytes) <= At.full,
         OneBuffer(At) => \A k \in 1 .. Len(bytes) : bytes[k] = <<book, At.name, off + k>>,
         NEW c, c = WriteAt(files[At.name], off, bytes)
  PROVE  /\ IsSeq(c) /\ Len(c) <= At.full
         /\ off + Len(bytes) <= Len(c) /\ Len(files[At.name]) <= Len(c)
         /\ OneBuffer(At) => \A k \in 1 .. off + Len(bytes) : c[k] = <<book, At.name, k>>
         /\ \A k \in off + Len(bytes) + 1 .. Len(c) :
              k <= Len(files[At.name]) /\ c[k] = files[At.name][k]
<1> DEFINE old == files[At.name]
<1>1. IsSeq(old) /\ off \in 0 .. Len(old) /\ Len(old) \in Nat /\ Len(bytes) \in Nat
  <2>1. IsSeq(old)
    BY DEF FilesOK, Right, Exists
  <2>2. Len(old) \in Nat /\ Len(bytes) \in Nat
    BY <2>1 DEF IsSeq
  <2>3. off \in Nat /\ off <= Len(old)
    BY DEF JobOK, Right
  <2> QED
    BY <2>1, <2>2, <2>3
<1>2. Len(old) <= At.full
  BY AtFacts DEF NotTooLong, Right
<1>3. /\ IsSeq(c)
      /\ Len(c) = IF off + Len(bytes) > Len(old) THEN off + Len(bytes) ELSE Len(old)
      /\ \A k \in 1 .. Len(c) :
           c[k] = IF k > off /\ k <= off + Len(bytes) THEN bytes[k - off] ELSE old[k]
  BY <1>1, WriteAtFacts
<1>4. OneBuffer(At) => \A k \in 1 .. off : old[k] = <<book, At.name, k>>
  BY DEF Right
<1> HIDE DEF old
<1>5. ASSUME OneBuffer(At), NEW k \in 1 .. off + Len(bytes) PROVE c[k] = <<book, At.name, k>>
  <2>1. CASE k <= off
    BY <1>1, <1>3, <1>4, <1>5, <2>1
  <2>2. CASE k > off
    <3>1. k - off \in 1 .. Len(bytes) /\ off + (k - off) = k /\ k \in 1 .. Len(c)
      BY <1>1, <1>3, <2>2
    <3>2. bytes[k - off] = <<book, At.name, off + (k - off)>>
      BY <1>5, <3>1
    <3> QED
      BY <1>1, <1>3, <2>2, <3>1, <3>2
  <2> QED
    BY <1>1, <2>1, <2>2
<1>6. ASSUME NEW k \in off + Len(bytes) + 1 .. Len(c) PROVE k <= Len(old) /\ c[k] = old[k]
  <2>1. Len(c) = Len(old) /\ k \in 1 .. Len(c) /\ ~(k <= off + Len(bytes))
    BY <1>1, <1>3
  <2> QED
    BY <1>1, <1>3, <2>1
<1>7. Len(c) <= At.full /\ off + Len(bytes) <= Len(c) /\ Len(old) <= Len(c)
  BY <1>1, <1>2, <1>3
<1> QED
  BY <1>3, <1>5, <1>6, <1>7 DEF old

--------------------------------------------------------------------------------
(* The actions, one by one.                                                *)
LEMMA OpenKeeps ==
  ASSUME ExpandInv, NEW b \in Books, Open(b),
         \A e \in Members(b) : Exists(e.name) => Len(files[e.name]) <= e.full
  PROVE  ExpandInv'
<1>1. FilesOK' /\ NotTooLong'
  BY DEF ExpandInv, Open, FilesOK, NotTooLong, Exists
<1>2. Len(Archive[b]) \in Nat
  BY ArchiveFacts
<1> QED
  BY <1>1, <1>2
  DEF ExpandInv, Open, JobOK, InStep, DoneSoFar, DoneUpTo, AtWork, Writing

LEMMA ReadHeaderKeeps == ASSUME ExpandInv, ReadHeader PROVE ExpandInv'
<1>1. /\ pc = "scan" /\ unread = 0 /\ at < Len(Archive[book]) /\ pc' = "header" /\ at' = at + 1
      /\ UNCHANGED <<files, lost, book, todo, off, flushed>>
      /\ unread' = Past(Archive[book][at + 1])
  BY DEF ReadHeader, diskVars, Past
<1>2. FilesOK' /\ NotTooLong'
  BY <1>1 DEF ExpandInv, FilesOK, NotTooLong, Exists
<1>3. book \in Books /\ at \in 0 .. Len(Archive[book]) /\ Len(Archive[book]) \in Nat
  BY ArchiveFacts DEF ExpandInv, JobOK
<1>4. Archive[book][at + 1] \in Members(book)
  BY <1>1, <1>3, ArchiveFacts
<1>5. Past(Archive[book][at + 1]) \in Int
  BY <1>3, <1>4, EntryFacts, BufferAssumption DEF Past
<1>6. JobOK'
  BY <1>1, <1>3, <1>5 DEF ExpandInv, JobOK
<1>7. DoneUpTo(at)
  BY <1>1 DEF ExpandInv, DoneSoFar
<1>8. (at - 1)' = at
  BY <1>1, <1>3
<1>9. DoneUpTo(at - 1)'
  BY <1>1, <1>7, <1>8 DEF DoneUpTo, Due, IntactOrLost, Intact, Exists, Contents
<1> QED
  BY <1>1, <1>2, <1>6, <1>9 DEF ExpandInv, InStep, DoneSoFar, Writing, AtWork, Past, At

(* Steps that leave the disk and the place in the archive alone.           *)
LEMMA SameDisk ==
  ASSUME ExpandInv, UNCHANGED <<files, lost, book, at>>
  PROVE  /\ FilesOK' /\ NotTooLong' /\ At' = At
         /\ \A n : DoneUpTo(n) => DoneUpTo(n)'
         /\ \A e : Due(e)' = Due(e) /\ IntactOrLost(book, e)' = IntactOrLost(book, e)
BY DEF ExpandInv, FilesOK, NotTooLong, Exists, At, DoneUpTo, Due, IntactOrLost, Intact, Contents

LEMMA CentralDirectoryKeeps == ASSUME ExpandInv, CentralDirectory PROVE ExpandInv'
<1>1. pc = "scan" /\ unread = 0 /\ at = Len(Archive[book]) /\ pc' = "ok"
      /\ UNCHANGED <<files, lost, book, at, unread, todo, off, flushed>>
  BY DEF CentralDirectory, diskVars
<1>2. DoneUpTo(Len(Archive[book]))'
  BY <1>1, SameDisk DEF ExpandInv, DoneSoFar
<1> QED
  BY <1>1, <1>2, SameDisk DEF ExpandInv, JobOK, InStep, DoneSoFar, Writing, AtWork

(* All the ways expand ends without the disk being written.                *)
LEMMA EndedJob ==
  ASSUME JobOK, NEW how \in {"unimplemented", "format", "io", "idle"}, Ends(how)
  PROVE  JobOK' /\ InStep' /\ DoneSoFar' /\ book' = book
<1>1. Len(Archive[book]) \in Nat
  BY ArchiveFacts DEF JobOK
<1> QED
  BY <1>1 DEF Ends, JobOK, InStep, DoneSoFar, Writing, AtWork

LEMMA EndingKeeps ==
  ASSUME ExpandInv, files' = files,
         NEW how \in {"unimplemented", "format", "io", "idle"}, Ends(how)
  PROVE  ExpandInv'
BY EndedJob DEF ExpandInv, FilesOK, NotTooLong, Exists

LEMMA CreateFileKeeps == ASSUME ExpandInv, CreateFile PROVE ExpandInv'
<1>1. /\ pc = "header" /\ ~RefusedFlags(At) /\ MakesFile(At)
      /\ files' = Opened(At.name) /\ off' = 0 /\ flushed' = Len(files'[At.name])
      /\ todo' = (IF At.method = "deflated" THEN csize(At) ELSE usize(At)) /\ pc' = At.method
      /\ UNCHANGED <<lost, book, at, unread>>
  BY DEF CreateFile, Creates
<1>2. FilesOK /\ JobOK /\ NotTooLong /\ pc \in AtWork /\ DoneUpTo(at - 1) /\ unread = Past(At)
  BY <1>1 DEF ExpandInv, AtWork, DoneSoFar
<1>3. book \in Books /\ At \in Members(book)
  BY <1>2, AtFacts DEF JobOK
<1>4. /\ csize(At) = At.len /\ usize(At) = At.full /\ At.len > 0 /\ At.full > 0
      /\ At.len \in Nat /\ At.full \in Nat /\ (At.method = "stored" => At.len = At.full)
      /\ At.method \in {"stored", "deflated"} /\ Past(At) = At.len
  BY <1>1, <1>3, EntryFacts, MakesFileFacts
<1> DEFINE c == IF Exists(At.name) THEN files[At.name] ELSE <<>>
<1>5. IsSeq(c) /\ Len(c) <= At.full
  <2>1. CASE Exists(At.name)
    BY <1>2, <1>3, <2>1 DEF FilesOK, Exists, NotTooLong
  <2>2. CASE ~Exists(At.name)
    BY <1>4, <2>2 DEF IsSeq
  <2> QED
    BY <2>1, <2>2
<1>6. files' = Put(At.name, c)
  BY <1>1 DEF Opened
<1> HIDE DEF c
<1>7. /\ FilesOK' /\ NotTooLong' /\ DoneUpTo(at - 1)'
      /\ Exists(At.name)' /\ files'[At.name] = c
  BY <1>1, <1>2, <1>5, <1>6, WritesOneFile
<1>8. At' = At /\ Len(c) \in Nat
  BY <1>1, <1>5 DEF At, IsSeq
<1>9. JobOK'
  BY <1>1, <1>2, <1>4, <1>7, <1>8 DEF JobOK, AtWork
<1>10. Right(At, off)'
  BY <1>1, <1>7, <1>8 DEF Right
<1>11. MakesFile(At)'
  BY <1>1, <1>8 DEF MakesFile, Supported, is_file, csize, usize, Streamed
<1>12. off' % CopyChunk = 0
  BY <1>1, BufferAssumption
<1>13. InStep'
  BY <1>1, <1>2, <1>4, <1>8, <1>10, <1>11, <1>12 DEF InStep, OneBuffer
<1>14. DoneSoFar'
  BY <1>1, <1>4, <1>7 DEF DoneSoFar, AtWork
<1> QED
  BY <1>7, <1>9, <1>13, <1>14 DEF ExpandInv

LEMMA PassesKeep == ASSUME ExpandInv, CreateDir \/ PassOver PROVE ExpandInv'
<1>1. /\ pc = "header" /\ ~RefusedFlags(At) /\ ~MakesFile(At) /\ pc' = "after"
      /\ UNCHANGED <<files, lost, book, at, unread, todo, off, flushed>>
  BY DEF CreateDir, PassOver, MakesFile, MakesDir, diskVars
<1>2. DoneUpTo(at - 1) /\ unread = Past(At)
  BY <1>1 DEF ExpandInv, DoneSoFar, AtWork
<1>3. FilesOK' /\ NotTooLong' /\ At' = At /\ DoneUpTo(at - 1)'
  BY <1>1, <1>2, SameDisk
<1>4. JobOK' /\ InStep'
  BY <1>1 DEF ExpandInv, JobOK, InStep, AtWork, Writing
<1>5. (~MakesFile(At) /\ ~RefusedFlags(At) /\ unread = Past(At))'
  BY <1>1, <1>2, <1>3
  DEF MakesFile, Supported, is_file, csize, usize, RefusedFlags, have_data_descriptor, Streamed, Past
<1>6. DoneSoFar'
  BY <1>1, <1>3, <1>5 DEF DoneSoFar, AtWork
<1> QED
  BY <1>3, <1>4, <1>6 DEF ExpandInv

(* The file is closed, and nothing is lost by it: what the entry is, is in *)
(* the file.                                                               *)
LEMMA CloseFileKeeps == ASSUME ExpandInv, CloseFile PROVE ExpandInv'
<1>1. /\ pc \in Writing /\ todo = 0 /\ pc' = "after" /\ lost' = lost \ {At.name}
      /\ UNCHANGED <<files, book, at, unread, todo, off, flushed>>
  BY DEF CloseFile, Writing
<1>2. /\ DoneUpTo(at - 1) /\ unread = 0 /\ off = At.full /\ Right(At, off)
      /\ FilesOK /\ JobOK /\ NotTooLong /\ pc \in AtWork
  BY <1>1 DEF ExpandInv, InStep, DoneSoFar, AtWork, Writing
<1>3. /\ book \in Books /\ At \in Members(book)
      /\ \A i \in 1 .. at - 1 : Archive[book][i].name # At.name
  BY <1>2, AtFacts DEF JobOK
<1>4. Due(At) => Intact(book, At)
  <2>1. At.full \in Nat /\ Exists(At.name) /\ At.full <= Len(files[At.name])
    BY <1>2, <1>3, EntryFacts DEF Right
  <2>2. Len(files[At.name]) <= At.full /\ Len(files[At.name]) \in Nat
    BY <1>2, <1>3, <2>1 DEF NotTooLong, FilesOK, IsSeq, Exists
  <2>3. Due(At) => \A k \in 1 .. At.full : files[At.name][k] = <<book, At.name, k>>
    BY <1>2 DEF Right, Due
  <2> QED
    BY <1>2, <1>3, <2>1, <2>2, <2>3, IntactFacts
<1>5. FilesOK' /\ NotTooLong' /\ At' = At
  BY <1>1, <1>2 DEF FilesOK, NotTooLong, Exists, At
<1>6. DoneUpTo(at - 1)'
  <2>1. SUFFICES ASSUME NEW i \in 1 .. at - 1, Due(Archive[book][i])
                 PROVE  IntactOrLost(book, Archive[book][i])'
    BY <1>1 DEF DoneUpTo, Due
  <2>2. IntactOrLost(book, Archive[book][i]) /\ Archive[book][i].name # At.name
    BY <1>2, <1>3, <2>1 DEF DoneUpTo
  <2> QED
    BY <1>1, <2>2 DEF IntactOrLost, Intact, Exists, Contents
<1>7. (Due(At) => IntactOrLost(book, At))'
  BY <1>1, <1>4, <1>5 DEF IntactOrLost, Due, Intact, Exists, Contents, OneBuffer
<1>8. JobOK' /\ InStep'
  BY <1>1 DEF ExpandInv, JobOK, InStep, AtWork, Writing
<1>9. DoneSoFar'
  BY <1>1, <1>2, <1>6, <1>7 DEF DoneSoFar, AtWork
<1> QED
  BY <1>5, <1>8, <1>9 DEF ExpandInv

(* The one entry that can be gone although the reader is at a record again *)
(* is one whose data was read for a data descriptor.                       *)
LEMMA FinishEntryKeeps == ASSUME ExpandInv, FinishEntry PROVE ExpandInv'
<1>1. /\ pc = "after" /\ pc' = "scan"
      /\ unread' = unread - (IF have_data_descriptor(At) THEN DescLen ELSE 0)
      /\ UNCHANGED <<files, lost, book, at, todo, off, flushed>>
  BY DEF FinishEntry, diskVars
<1>2. /\ FilesOK /\ JobOK /\ NotTooLong /\ pc \in AtWork /\ DoneUpTo(at - 1)
      /\ \/ unread = 0 /\ (Due(At) => IntactOrLost(book, At))
         \/ ~MakesFile(At) /\ ~RefusedFlags(At) /\ unread = Past(At)
  BY <1>1 DEF ExpandInv, DoneSoFar, AtWork
<1>3. /\ book \in Books /\ At \in Members(book) /\ at \in 1 .. Len(Archive[book])
      /\ At.len \in Nat /\ At.full \in Nat /\ (At.full > 0 => At.len > 0)
  BY <1>2, AtFacts, EntryFacts DEF JobOK
<1>4. unread' \in Int
  BY <1>1, <1>2, BufferAssumption DEF JobOK
<1>5. unread' = 0 => (Due(At) => IntactOrLost(book, At))
  <2>1. CASE unread = 0 /\ (Due(At) => IntactOrLost(book, At))
    BY <2>1
  <2>2. CASE ~MakesFile(At) /\ ~RefusedFlags(At) /\ unread = Past(At)
    <3>1. SUFFICES ASSUME unread' = 0, Due(At) PROVE FALSE
      OBVIOUS
    <3>2. At.len > 0 /\ ~TakenForDescriptor(At)
      BY <1>3, <3>1 DEF Due
    <3>3. CASE Streamed(At)
      <4>1. have_data_descriptor(At)
        BY <2>2, <3>3 DEF RefusedFlags, Streamed
      <4> QED
        BY <1>1, <1>3, <2>2, <3>1, <3>2, <3>3, <4>1, BufferAssumption DEF Past
    <3>4. CASE ~Streamed(At)
      <4>1. is_file(At)
        BY <1>3, <3>1, <3>2, <3>4 DEF is_file, csize, usize, Due
      <4>2. ~Supported(At)
        BY <2>2, <4>1 DEF MakesFile
      <4>3. have_data_descriptor(At) /\ At.len = DescLen
        BY <1>1, <1>3, <2>2, <3>1, <3>2, <3>4, BufferAssumption DEF Past
      <4> QED
        BY <3>2, <4>2, <4>3 DEF TakenForDescriptor
    <3> QED
      BY <3>3, <3>4
  <2> QED
    BY <1>2, <2>1, <2>2
<1>6. unread' = 0 => DoneUpTo(at)
  BY <1>2, <1>3, <1>5 DEF DoneUpTo, At
<1>7. FilesOK' /\ NotTooLong' /\ DoneUpTo(at - 1)' /\ (unread' = 0 => DoneUpTo(at)')
  BY <1>1, <1>2, <1>6, SameDisk
<1>8. JobOK' /\ InStep'
  BY <1>1, <1>2, <1>4 DEF JobOK, InStep, AtWork, Writing
<1>9. DoneSoFar'
  BY <1>1, <1>7 DEF DoneSoFar, AtWork
<1> QED
  BY <1>7, <1>8, <1>9 DEF ExpandInv

(* A chunk starts where a chunk ended, so it fits into what is left of its *)
(* cluster: the single write of the loop is never short.                   *)
LEMMA ChunkFits ==
  ASSUME off \in Nat, off % CopyChunk = 0
  PROVE  CopyChunk <= ClusterSize - (off % ClusterSize)
<1> DEFINE c == CopyChunk
           C == ClusterSize
           q == off \div c
           m == C \div c
           j == off \div C
           t == m - q + m * j
<1>1. c \in Nat /\ c >= 1 /\ C \in Nat /\ C >= 1 /\ C % c = 0
  BY BufferAssumption, ClusterAssumption
<1>2. q \in Nat /\ off = c * q
  BY <1>1
<1>3. m \in Nat /\ C = c * m
  BY <1>1
<1>4. j \in Nat /\ off % C \in 0 .. C - 1 /\ off = C * j + (off % C)
  BY <1>1
<1>5. t \in Int
  BY <1>2, <1>3, <1>4
<1> HIDE DEF q, m, j, c, C
<1>6. C - (off % C) = c * t
  <2>1. C - (off % C) = C - off + C * j
    BY <1>1, <1>4
  <2>2. C * j = c * (m * j)
    BY <1>1, <1>3, <1>4
  <2>3. c * t = c * m - c * q + c * (m * j)
    BY <1>1, <1>2, <1>3, <1>4
  <2> QED
    BY <1>2, <1>3, <2>1, <2>2, <2>3
<1> HIDE DEF t
<1>7. c * t > 0
  BY <1>1, <1>4, <1>6
<1>8. t >= 1
  BY <1>1, <1>5, <1>7
<1>9. c * t >= c
  BY <1>1, <1>5, <1>8
<1> QED
  BY <1>6, <1>9 DEF c, C

LEMMA NextMultiple ==
  ASSUME off \in Nat, off % CopyChunk = 0
  PROVE  (off + CopyChunk) % CopyChunk = 0
<1> DEFINE c == CopyChunk
           q == off \div c
<1>1. c \in Nat /\ c >= 1
  BY BufferAssumption
<1>2. q \in Nat /\ off = c * q
  BY <1>1
<1> HIDE DEF q, c
<1>3. off + c = c * (q + 1)
  BY <1>1, <1>2
<1>4. \A k \in Nat : (c * k) % c = 0
  BY <1>1
<1>5. (off + c) % c = 0
  BY <1>2, <1>3, <1>4
<1> QED
  BY <1>5 DEF c

(* The round of the stored loop, in the terms of WriteRight.               *)
LEMMA StoredRound ==
  ASSUME ExpandInv, CopyStored
  PROVE  \E n \in Nat \ {0} : \E bytes :
           /\ n <= todo /\ todo' = todo - n /\ unread' = unread - n /\ off' = off + n
           /\ (todo' > 0 => n = CopyChunk)
           /\ IsSeq(bytes) /\ Len(bytes) = n
           /\ \A k \in 1 .. n : bytes[k] = <<book, At.name, off + k>>
           /\ files' = Put(At.name, WriteAt(files[At.name], off, bytes))
<1> DEFINE n == StoredChunk
           bytes == [k \in 1 .. Accepted(n) |-> <<book, At.name, usize(At) - todo + k>>]
<1>1. /\ pc = "stored" /\ todo > 0 /\ todo' = todo - n /\ unread' = unread - n
      /\ files' = Put(At.name, WriteAt(files[At.name], off, bytes))
      /\ off' = off + Len(bytes)
  BY DEF CopyStored
<1>2. /\ JobOK /\ pc \in AtWork /\ MakesFile(At) /\ off + todo = At.full
      /\ off % CopyChunk = 0 /\ off \in Nat /\ todo \in Nat
  BY <1>1 DEF ExpandInv, InStep, Writing, JobOK, AtWork
<1>3. usize(At) = At.full
  BY <1>2, AtFacts, MakesFileFacts DEF JobOK
<1>4. n \in Nat \ {0} /\ n <= todo /\ n <= CopyChunk /\ (todo - n > 0 => n = CopyChunk)
  BY <1>1, <1>2, BufferAssumption DEF StoredChunk, Smaller
<1>5. Accepted(n) = n
  <2>1. CopyChunk <= ClusterSize - (off % ClusterSize) /\ off % ClusterSize \in Nat
    BY <1>2, ChunkFits, ClusterAssumption
  <2> HIDE DEF n
  <2> QED
    BY <1>4, <2>1, BufferAssumption, ClusterAssumption DEF Accepted, Smaller
<1> HIDE DEF n
<1>6. bytes = [k \in 1 .. n |-> <<book, At.name, off + k>>]
  BY <1>2, <1>3, <1>5
<1> HIDE DEF bytes
<1>7. IsSeq(bytes) /\ Len(bytes) = n /\ \A k \in 1 .. n : bytes[k] = <<book, At.name, off + k>>
  <2>1. bytes = [k \in 1 .. n |-> bytes[k]]
    BY <1>6
  <2> QED
    BY <1>4, <1>6, <2>1, FunSeq
<1> QED
  BY <1>1, <1>4, <1>7

LEMMA CopyWrites ==
  ASSUME ExpandInv, CopyStored
  PROVE  \E n \in Nat \ {0} :
           /\ n <= todo /\ todo' = todo - n /\ unread' = unread - n /\ off' = off + n
           /\ (todo' > 0 => n = CopyChunk)
           /\ FilesOK' /\ NotTooLong' /\ DoneUpTo(at - 1)' /\ Exists(At.name)'
           /\ off + n <= Len(files'[At.name]) /\ Len(files[At.name]) <= Len(files'[At.name])
           /\ \A k \in 1 .. off + n : files'[At.name][k] = <<book, At.name, k>>
           /\ \A k \in off + n + 1 .. Len(files'[At.name]) :
                k <= Len(files[At.name]) /\ files'[At.name][k] = files[At.name][k]
           /\ \A n2 \in DOMAIN files : n2 # At.name => n2 \in DOMAIN files' /\ files'[n2] = files[n2]
<1>1. PICK n, bytes :
        /\ n \in Nat \ {0}
        /\ n <= todo /\ todo' = todo - n /\ unread' = unread - n /\ off' = off + n
        /\ (todo' > 0 => n = CopyChunk)
        /\ IsSeq(bytes) /\ Len(bytes) = n
        /\ \A k \in 1 .. n : bytes[k] = <<book, At.name, off + k>>
        /\ files' = Put(At.name, WriteAt(files[At.name], off, bytes))
  BY StoredRound
<1>2. pc = "stored" /\ UNCHANGED <<lost, pc, book, at, flushed>>
  BY DEF CopyStored
<1>3. /\ FilesOK /\ JobOK /\ NotTooLong /\ pc \in AtWork /\ DoneUpTo(at - 1) /\ Right(At, off)
      /\ pc = At.method /\ off + todo = At.full
  BY <1>2 DEF ExpandInv, InStep, Writing, AtWork, DoneSoFar
<1>4. At.full \in Nat /\ off \in Nat /\ todo \in Nat /\ OneBuffer(At)
  BY <1>2, <1>3, AtFacts, EntryFacts DEF JobOK, OneBuffer
<1> DEFINE c == WriteAt(files[At.name], off, bytes)
<1>5. off + Len(bytes) <= At.full
  BY <1>1, <1>3, <1>4
<1>6. /\ IsSeq(c) /\ Len(c) <= At.full
      /\ off + Len(bytes) <= Len(c) /\ Len(files[At.name]) <= Len(c)
      /\ \A k \in 1 .. off + Len(bytes) : c[k] = <<book, At.name, k>>
      /\ \A k \in off + Len(bytes) + 1 .. Len(c) :
           k <= Len(files[At.name]) /\ c[k] = files[At.name][k]
  <2>1. OneBuffer(At) => \A k \in 1 .. Len(bytes) : bytes[k] = <<book, At.name, off + k>>
    BY <1>1
  <2>2. FilesOK /\ JobOK /\ NotTooLong /\ pc \in AtWork /\ Right(At, off) /\ At.full \in Nat /\ IsSeq(bytes)
    BY <1>1, <1>3, <1>4
  <2>3. /\ IsSeq(c) /\ Len(c) <= At.full
        /\ off + Len(bytes) <= Len(c) /\ Len(files[At.name]) <= Len(c)
        /\ OneBuffer(At) => \A k \in 1 .. off + Len(bytes) : c[k] = <<book, At.name, k>>
        /\ \A k \in off + Len(bytes) + 1 .. Len(c) :
             k <= Len(files[At.name]) /\ c[k] = files[At.name][k]
    BY <1>5, <2>1, <2>2, WriteRight
  <2> QED
    BY <1>4, <2>3
<1>7. files' = Put(At.name, c)
  BY <1>1
<1> HIDE DEF c
<1>8. /\ FilesOK' /\ NotTooLong' /\ DoneUpTo(at - 1)'
      /\ Exists(At.name)' /\ files'[At.name] = c
  BY <1>2, <1>3, <1>6, <1>7, WritesOneFile
<1>9. \A n2 \in DOMAIN files : n2 # At.name => n2 \in DOMAIN files' /\ files'[n2] = files[n2]
  <2>1. FilesOK /\ IsSeq(c)
    BY <1>3, <1>6
  <2> QED
    BY <1>7, <2>1, PutFacts
<1> QED
  BY <1>1, <1>6, <1>8, <1>9

LEMMA CopyStoredKeeps == ASSUME ExpandInv, CopyStored PROVE ExpandInv'
<1>1. PICK n \in Nat \ {0} :
        /\ n <= todo /\ todo' = todo - n /\ unread' = unread - n /\ off' = off + n
        /\ (todo' > 0 => n = CopyChunk)
        /\ FilesOK' /\ NotTooLong' /\ DoneUpTo(at - 1)' /\ Exists(At.name)'
        /\ off + n <= Len(files'[At.name])
        /\ \A k \in 1 .. off + n : files'[At.name][k] = <<book, At.name, k>>
  BY CopyWrites
<1>2. pc = "stored" /\ UNCHANGED <<lost, pc, book, at, flushed>>
  BY DEF CopyStored
<1>3. /\ JobOK /\ MakesFile(At) /\ pc = At.method /\ unread = todo /\ off + todo = At.full
      /\ todo > 0 => off % CopyChunk = 0
  BY <1>2 DEF ExpandInv, InStep, Writing
<1>4. At.full \in Nat /\ off \in Nat /\ todo \in Nat /\ At' = At
  BY <1>2, <1>3, AtFacts, EntryFacts DEF JobOK, AtWork, At
<1>5. Right(At, off)'
  BY <1>1, <1>2, <1>4 DEF Right, OneBuffer
<1>6. JobOK'
  BY <1>1, <1>2, <1>3, <1>4 DEF JobOK
<1>7. todo' > 0 => off' % CopyChunk = 0
  <2>1. SUFFICES ASSUME todo' > 0 PROVE off' % CopyChunk = 0
    OBVIOUS
  <2>2. off' = off + CopyChunk /\ todo > 0
    BY <1>1, <1>4, <2>1
  <2> QED
    BY <1>3, <1>4, <2>2, NextMultiple
<1>8. MakesFile(At)'
  BY <1>3, <1>4 DEF MakesFile, Supported, is_file, csize, usize, Streamed
<1>9. InStep'
  <2>1. unread' = todo' /\ off' + todo' = At.full /\ off' <= At.full /\ (todo' = 0 => off' = At.full)
    BY <1>1, <1>3, <1>4
  <2> QED
    BY <1>2, <1>3, <1>4, <1>5, <1>7, <1>8, <2>1 DEF InStep
<1>10. DoneSoFar'
  BY <1>1, <1>2 DEF DoneSoFar, AtWork
<1> QED
  BY <1>1, <1>6, <1>9, <1>10 DEF ExpandInv

(* What inflate writes in a round, whole or cut short by an error.         *)
LEMMA InflateWrites ==
  ASSUME ExpandInv, pc = "deflated", todo > 0, UNCHANGED <<lost, book>>,
         NEW m \in 0 .. At.full, m <= usize(At) - off,
         NEW right \in BOOLEAN, todo = csize(At) => right,
         files' = Put(At.name, WriteAt(files[At.name], off, Produced(m, right)))
  PROVE  /\ FilesOK' /\ NotTooLong' /\ At.name \in DOMAIN files'
         /\ at' = at => DoneUpTo(at - 1)' /\ Exists(At.name)'
         /\ off + m <= Len(files'[At.name]) /\ Len(files[At.name]) <= Len(files'[At.name])
         /\ Len(files'[At.name]) <= At.full
         /\ OneBuffer(At) => \A k \in 1 .. off + m : files'[At.name][k] = <<book, At.name, k>>
         /\ \A k \in off + m + 1 .. Len(files'[At.name]) :
              k <= Len(files[At.name]) /\ files'[At.name][k] = files[At.name][k]
         /\ \A n2 \in DOMAIN files : n2 # At.name => n2 \in DOMAIN files' /\ files'[n2] = files[n2]
<1>1. /\ FilesOK /\ JobOK /\ NotTooLong /\ pc \in AtWork /\ DoneUpTo(at - 1) /\ Right(At, off)
      /\ MakesFile(At) /\ (OneBuffer(At) => todo = At.len)
  BY DEF ExpandInv, InStep, Writing, AtWork, DoneSoFar
<1>2. /\ csize(At) = At.len /\ usize(At) = At.full /\ At.full \in Nat
      /\ off \in Nat /\ Len(files[At.name]) \in Nat
  BY <1>1, AtFacts, MakesFileFacts, EntryFacts DEF JobOK, Right, FilesOK, Exists, IsSeq
<1> DEFINE bytes == Produced(m, right)
<1>3. bytes = [k \in 1 .. m |-> <<book, At.name, IF right THEN off + k ELSE 0>>] /\ m \in Nat
  BY <1>2 DEF Produced
<1>4. IsSeq(bytes) /\ Len(bytes) = m
  <2> HIDE DEF bytes
  <2>1. bytes = [k \in 1 .. m |-> bytes[k]]
    BY <1>3
  <2> QED
    BY <1>3, <2>1, FunSeq
<1>5. OneBuffer(At) => \A k \in 1 .. Len(bytes) : bytes[k] = <<book, At.name, off + k>>
  <2>1. OneBuffer(At) => right
    BY <1>1, <1>2
  <2> HIDE DEF bytes
  <2> QED
    BY <1>3, <1>4, <2>1
<1> HIDE DEF bytes
<1> DEFINE c == WriteAt(files[At.name], off, bytes)
<1>6. off + Len(bytes) <= At.full
  BY <1>2, <1>3, <1>4
<1>7. /\ IsSeq(c) /\ Len(c) <= At.full /\ off + Len(bytes) <= Len(c) /\ Len(files[At.name]) <= Len(c)
      /\ OneBuffer(At) => \A k \in 1 .. off + Len(bytes) : c[k] = <<book, At.name, k>>
      /\ \A k \in off + Len(bytes) + 1 .. Len(c) :
           k <= Len(files[At.name]) /\ c[k] = files[At.name][k]
  <2>1. FilesOK /\ JobOK /\ NotTooLong /\ pc \in AtWork /\ Right(At, off) /\ At.full \in Nat /\ IsSeq(bytes)
    BY <1>1, <1>2, <1>4
  <2> QED
    BY <1>5, <1>6, <2>1, WriteRight
<1>8. files' = Put(At.name, c)
  BY DEF bytes
<1> HIDE DEF c
<1>9. /\ FilesOK' /\ NotTooLong' /\ files'[At.name] = c /\ At.name \in DOMAIN files'
      /\ at' = at => DoneUpTo(at - 1)' /\ Exists(At.name)'
  BY <1>1, <1>7, <1>8, WritesOneFile DEF Put
<1>10. \A n2 \in DOMAIN files : n2 # At.name => n2 \in DOMAIN files' /\ files'[n2] = files[n2]
  BY <1>1, <1>7, <1>8, PutFacts
<1> QED
  BY <1>4, <1>7, <1>9, <1>10

LEMMA InflateBufferKeeps == ASSUME ExpandInv, InflateBuffer PROVE ExpandInv'
<1> DEFINE n == Smaller(InputBuf, todo)
<1>1. /\ pc = "deflated" /\ todo > 0 /\ UNCHANGED <<lost, pc, book, at>>
      /\ todo' = todo - n /\ unread' = unread - n /\ flushed' = Len(files'[At.name])
  BY DEF InflateBuffer
<1>2. PICK m \in 0 .. At.full, right \in BOOLEAN :
        /\ MayProduce(n, m, right)
        /\ files' = Put(At.name, WriteAt(files[At.name], off, Produced(m, right)))
        /\ off' = off + m
  BY DEF InflateBuffer
<1>3. /\ JobOK /\ pc \in AtWork /\ MakesFile(At) /\ pc = At.method /\ unread = todo
      /\ todo <= At.len /\ (OneBuffer(At) => todo = At.len)
  BY <1>1 DEF ExpandInv, InStep, Writing, AtWork
<1>4. /\ csize(At) = At.len /\ usize(At) = At.full /\ At.full \in Nat /\ At.len \in Nat
      /\ off \in Nat /\ todo \in Nat
  BY <1>3, AtFacts, MakesFileFacts, EntryFacts DEF JobOK
<1>5. m \in Nat /\ m <= At.full - off /\ (todo = n => m = At.full - off) /\ (todo = csize(At) => right)
  BY <1>2, <1>4 DEF MayProduce
<1>6. /\ FilesOK' /\ NotTooLong' /\ DoneUpTo(at - 1)' /\ Exists(At.name)'
      /\ off + m <= Len(files'[At.name])
      /\ OneBuffer(At) => \A k \in 1 .. off + m : files'[At.name][k] = <<book, At.name, k>>
  BY <1>1, <1>2, <1>4, <1>5, InflateWrites
<1>7. n \in Nat /\ n >= 1 /\ n <= todo /\ (todo <= InputBuf => n = todo)
  BY <1>1, <1>4, BufferAssumption DEF Smaller
<1> HIDE DEF n
<1>8. At' = At
  BY <1>1 DEF At
<1>9. Right(At, off)'
  BY <1>1, <1>2, <1>6, <1>8 DEF Right, OneBuffer
<1>10. JobOK'
  <2>1. Len(files'[At.name]) \in Nat
    BY <1>6, <1>8 DEF FilesOK, IsSeq, Exists
  <2> QED
    BY <1>1, <1>2, <1>3, <1>4, <1>5, <1>7, <2>1 DEF JobOK
<1>11. MakesFile(At)'
  BY <1>3, <1>8 DEF MakesFile, Supported, is_file, csize, usize, Streamed
<1>12. InStep'
  <2>1. /\ unread' = todo' /\ off' <= At.full /\ (todo' = 0 => off' = At.full) /\ todo' <= At.len
    BY <1>1, <1>2, <1>3, <1>4, <1>5, <1>7
  <2>2. OneBuffer(At) => todo' = 0
    BY <1>1, <1>3, <1>4, <1>7, BufferAssumption DEF OneBuffer
  <2> QED
    BY <1>1, <1>3, <1>8, <1>9, <1>11, <2>1, <2>2 DEF InStep, OneBuffer
<1>13. DoneSoFar'
  BY <1>1, <1>6 DEF DoneSoFar, AtWork
<1> QED
  BY <1>6, <1>10, <1>12, <1>13 DEF ExpandInv

LEMMA InflateFailsKeeps == ASSUME ExpandInv, InflateFails PROVE ExpandInv'
<1>1. /\ pc = "deflated" /\ todo > 0 /\ Ends("io") /\ lost' = lost /\ book' = book
  BY DEF InflateFails, Ends
<1>2. PICK m \in 0 .. At.full, right \in BOOLEAN :
        /\ m <= usize(At) - off
        /\ todo = csize(At) => right
        /\ files' = Put(At.name, WriteAt(files[At.name], off, Produced(m, right)))
  BY DEF InflateFails
<1>3. FilesOK' /\ NotTooLong'
  BY <1>1, <1>2, InflateWrites
<1> QED
  BY <1>1, <1>3, EndedJob DEF ExpandInv

(* A power cut takes bytes from the end of one file only. *)
LEMMA Loses ==
  ASSUME FilesOK, flushed \in Nat, NEW name, Exists(name), LosesUnflushed(name)
  PROVE  \E n \in flushed .. Len(files[name]) : \E c :
           /\ IsSeq(c) /\ Len(c) = n /\ files' = Put(name, c)
           /\ \A k \in 1 .. n : c[k] = files[name][k]
<1>1. PICK n \in flushed .. Len(files[name]) : files' = Put(name, SubSeq(files[name], 1, n))
  BY DEF LosesUnflushed
<1>2. IsSeq(files[name]) /\ n \in 0 .. Len(files[name])
  BY DEF FilesOK, Exists, IsSeq
<1> DEFINE c == SubSeq(files[name], 1, n)
<1>3. IsSeq(c) /\ Len(c) = n /\ \A k \in 1 .. n : c[k] = files[name][k]
  BY <1>2, SubSeqFacts
<1>4. files' = Put(name, c)
  BY <1>1
<1> HIDE DEF c
<1> QED
  BY <1>3, <1>4

(* A close that fails takes all that was written since the last flush.     *)
LEMMA NotRecordedLoses ==
  ASSUME FilesOK, flushed \in Nat, NEW name, Exists(name), NotRecorded(name)
  PROVE  LosesUnflushed(name)
<1>1. Len(files[name]) \in Nat
  BY DEF FilesOK, Exists, IsSeq
<1> QED
  BY <1>1 DEF NotRecorded, LosesUnflushed

(* A power cut or a failing close cuts off the file of a stored entry, and *)
(* disturbs no other.                                                      *)
LEMMA CutKeeps ==
  ASSUME ExpandInv, pc = "stored", LosesUnflushed(At.name) \/ NotRecorded(At.name),
         lost \subseteq lost', book' = book
  PROVE  FilesOK' /\ NotTooLong' /\ (at' = at => DoneUpTo(at - 1)')
<1>1. /\ FilesOK /\ JobOK /\ NotTooLong /\ pc \in AtWork
      /\ Exists(At.name) /\ DoneUpTo(at - 1) /\ flushed \in Nat
  BY DEF ExpandInv, InStep, DoneSoFar, Writing, AtWork, Right, JobOK
<1>2. LosesUnflushed(At.name)
  BY <1>1, NotRecordedLoses
<1>3. PICK n, c :
        n \in flushed .. Len(files[At.name]) /\ IsSeq(c) /\ Len(c) = n /\ files' = Put(At.name, c)
  BY <1>1, <1>2, Loses
<1>4. Len(c) <= At.full
  <2>1. Len(files[At.name]) <= At.full /\ Len(files[At.name]) \in Nat /\ At.full \in Nat
    BY <1>1, AtFacts, EntryFacts DEF NotTooLong, JobOK, FilesOK, Exists, IsSeq
  <2> QED
    BY <1>1, <1>3, <2>1
<1> QED
  BY <1>1, <1>3, <1>4, WritesOneFile

LEMMA CloseLosesKeeps == ASSUME ExpandInv, CloseLoses PROVE ExpandInv'
<1>1. /\ pc = "stored" /\ todo = 0 /\ pc' = "after" /\ NotRecorded(At.name)
      /\ lost' = lost \cup {At.name} /\ UNCHANGED <<book, at, unread, todo, off, flushed>>
  BY DEF CloseLoses
<1>2. FilesOK' /\ NotTooLong' /\ DoneUpTo(at - 1)'
  BY <1>1, CutKeeps
<1>3. unread' = 0
  BY <1>1 DEF ExpandInv, InStep, Writing
<1>4. IntactOrLost(book, At)'
  BY <1>1 DEF IntactOrLost, At
<1>5. JobOK' /\ InStep'
  BY <1>1 DEF ExpandInv, JobOK, InStep, AtWork, Writing
<1>6. DoneSoFar'
  BY <1>1, <1>2, <1>3, <1>4 DEF DoneSoFar, AtWork
<1> QED
  BY <1>2, <1>5, <1>6 DEF ExpandInv

(* A power cut, or an error that ends expand: the output file of a stored  *)
(* entry may be cut off by it.                                             *)
LEMMA BreakKeeps == ASSUME ExpandInv, IOFailure \/ Crash PROVE ExpandInv'
<1>1. lost' = lost /\ book' = book /\ (Ends("io") \/ Ends("idle"))
  BY DEF IOFailure, Crash, Ends
<1>2. CASE UNCHANGED files
  BY <1>1, <1>2, EndingKeeps
<1>3. CASE pc = "stored" /\ (LosesUnflushed(At.name) \/ NotRecorded(At.name))
  <2>1. FilesOK' /\ NotTooLong'
    BY <1>1, <1>3, CutKeeps
  <2> QED
    BY <1>1, <2>1, EndedJob DEF ExpandInv
<1> QED
  BY <1>2, <1>3 DEF IOFailure, Crash

LEMMA WorkKeeps == ASSUME ExpandInv, Step \/ Fault PROVE ExpandInv'
<1>1. CASE UnknownSignature \/ RefuseFlags \/ NoParent
  BY <1>1, EndingKeeps DEF UnknownSignature, RefuseFlags, NoParent, diskVars
<1> QED
  BY <1>1, ReadHeaderKeeps, CentralDirectoryKeeps, CreateFileKeeps, PassesKeep, CopyStoredKeeps,
     InflateBufferKeeps, CloseFileKeeps, CloseLosesKeeps, FinishEntryKeeps, InflateFailsKeeps,
     BreakKeeps
  DEF Step, Fault

--------------------------------------------------------------------------------
(* The theorems about single states.                                       *)
LEMMA ExpandInitially == Init => ExpandInv
<1> SUFFICES ASSUME Init PROVE ExpandInv
  OBVIOUS
<1>1. book \in Books /\ Len(Archive[book]) \in Nat
  BY ArchiveFacts DEF Init
<1> QED
  BY <1>1 DEF Init, ExpandInv, FilesOK, JobOK, NotTooLong, InStep, DoneSoFar, Exists, AtWork, Writing

LEMMA NextKeeps == ExpandInv /\ [Next]_vars => ExpandInv'
<1> SUFFICES ASSUME ExpandInv, [Next]_vars PROVE ExpandInv'
  OBVIOUS
<1>1. CASE Again
  <2>1. book \in Books /\ \A e \in Members(book) : Exists(e.name) => Len(files[e.name]) <= e.full
    BY DEF ExpandInv, JobOK, NotTooLong
  <2> QED
    BY <1>1, <2>1, OpenKeeps DEF Again
<1>2. CASE UNCHANGED vars
  BY <1>2, SameDisk
  DEF vars, jobVars, diskVars, ExpandInv, JobOK, InStep, DoneSoFar, Right, Exists, MakesFile, At,
      Supported, is_file, csize, usize, Streamed, RefusedFlags, have_data_descriptor, Past, OneBuffer
<1> QED
  BY <1>1, <1>2, WorkKeeps DEF Next

THEOREM ExpandInvariant == Spec => []ExpandInv
BY ExpandInitially, NextKeeps, PTL DEF Spec

(* A book that expands without an error is on the disk, but for the stored *)
(* files whose closing failed unseen, whatever attempts, errors and power  *)
(* cuts came before, and whatever the sizes of entries, buffers, clusters. *)
THEOREM ExpandedCorrect == Spec => []ExpandedIntact
<1>1. ExpandInv => ExpandedIntact
  <2> SUFFICES ASSUME ExpandInv, pc = "ok", NEW e \in Members(book), Due(e)
               PROVE  IntactOrLost(book, e)
    BY DEF ExpandedIntact
  <2>1. book \in Books /\ DoneUpTo(Len(Archive[book]))
    BY DEF ExpandInv, JobOK, DoneSoFar
  <2> QED
    BY <2>1, ArchiveFacts DEF DoneUpTo
<1> QED
  BY <1>1, ExpandInvariant, PTL

(* No step removes a file, and only a close that fails adds a lost one.    *)
LEMMA FilesStay == ASSUME [Next]_vars PROVE DOMAIN files \subseteq DOMAIN files'
<1>1. CASE Step
  BY <1>1
  DEF Step, ReadHeader, CentralDirectory, UnknownSignature, RefuseFlags, CreateFile, CreateDir,
      NoParent, PassOver, CopyStored, InflateBuffer, CloseFile, FinishEntry, diskVars, Creates,
      Opened, Put
<1>2. CASE Again \/ Fault \/ UNCHANGED vars
  BY <1>2
  DEF Again, Open, Fault, InflateFails, CloseLoses, IOFailure, Crash, LosesUnflushed, NotRecorded,
      vars, diskVars, Put
<1> QED
  BY <1>1, <1>2 DEF Next

LEMMA LostGrows == ASSUME [Next]_vars PROVE lost' \subseteq lost \/ CloseLoses
BY DEF Next, Again, Open, Step, ReadHeader, CentralDirectory, UnknownSignature, RefuseFlags,
       CreateFile, CreateDir, NoParent, PassOver, CopyStored, InflateBuffer, CloseFile, FinishEntry,
       Fault, InflateFails, IOFailure, Crash, vars, diskVars

(* The names on the disk are those of entries; the counts never go below   *)
(* zero, so the last round of every loop ends it.                          *)
THEOREM TypeCorrect == Spec => []TypeOK
<1>1. Init => TypeOK
  <2> SUFFICES ASSUME Init PROVE TypeOK
    OBVIOUS
  <2>1. book \in Books /\ Len(Archive[book]) \in Nat
    BY ArchiveFacts DEF Init
  <2> QED
    BY <2>1 DEF Init, TypeOK, Final
<1>2. ExpandInv /\ ExpandInv' /\ TypeOK /\ [Next]_vars => TypeOK'
  <2> SUFFICES ASSUME ExpandInv, ExpandInv', TypeOK, [Next]_vars PROVE TypeOK'
    OBVIOUS
  <2>1. /\ (book \in Books /\ at \in 0 .. Len(Archive[book]))'
        /\ (unread \in Int /\ todo \in Nat /\ off \in Nat /\ flushed \in Nat)'
    BY DEF ExpandInv, JobOK
  <2>2. pc \in AtWork => At \in Entries
    <3>1. pc \in AtWork => book \in Books /\ At \in Members(book)
      BY AtFacts DEF ExpandInv, JobOK
    <3> QED
      BY <3>1, EntryFacts
  <2>3. pc' \in Final \cup Running
    <3>1. CASE CreateFile
      BY <3>1 DEF CreateFile, MakesFile, Supported, Running
    <3>2. CASE Step /\ ~CreateFile
      BY <3>2
      DEF Step, ReadHeader, CentralDirectory, UnknownSignature, RefuseFlags, CreateDir, NoParent,
          PassOver, CopyStored, InflateBuffer, CloseFile, FinishEntry, Ends, TypeOK, Final, Running
    <3>3. CASE Again \/ Fault \/ UNCHANGED vars
      BY <3>3 DEF Again, Open, Fault, InflateFails, CloseLoses, IOFailure, Crash, Ends, vars,
                   jobVars, TypeOK, Final, Running
    <3> QED
      BY <3>1, <3>2, <3>3 DEF Next
  <2>4. /\ DOMAIN files' \subseteq DOMAIN files \cup (IF pc \in AtWork THEN {At.name} ELSE {})
        /\ dirs' \subseteq dirs \cup (IF pc \in AtWork THEN {At.name} ELSE {})
    <3>1. CASE Step
      BY <3>1
      DEF Step, ReadHeader, CentralDirectory, UnknownSignature, RefuseFlags, CreateFile, CreateDir,
          NoParent, PassOver, CopyStored, InflateBuffer, CloseFile, FinishEntry, diskVars, Creates,
          Opened, Put, AtWork
    <3>2. CASE Again \/ Fault \/ UNCHANGED vars
      BY <3>2 DEF Again, Open, Fault, InflateFails, CloseLoses, IOFailure, Crash, LosesUnflushed,
                  NotRecorded, vars, diskVars, Put, AtWork
    <3> QED
      BY <3>1, <3>2 DEF Next
  <2>5. /\ \A n \in DOMAIN files' : n \in {e.name : e \in Entries}
        /\ dirs' \subseteq {RootDir} \cup {e.name : e \in Entries}
    BY <2>2, <2>4 DEF TypeOK
  <2>6. lost' \subseteq DOMAIN files'
    <3>1. DOMAIN files \subseteq DOMAIN files' /\ lost \subseteq DOMAIN files
      BY FilesStay DEF TypeOK
    <3>2. lost' \subseteq lost \/ CloseLoses
      BY LostGrows
    <3>3. CASE CloseLoses
      BY <3>1, <3>3 DEF CloseLoses, NotRecorded, Put
    <3> QED
      BY <3>1, <3>2, <3>3
  <2> QED
    BY <2>1, <2>3, <2>5, <2>6 DEF TypeOK
<1> QED
  BY <1>1, <1>2, ExpandInvariant, PTL DEF Spec

--------------------------------------------------------------------------------
(* What one step can do to the file of an entry: leave it, create it,      *)
(* write the entry's bytes over it, or, if the power goes or a close fails,*)
(* cut it off.                                                             *)
Kept(e) == Exists(e.name) /\ Exists(e.name)' /\ files'[e.name] = files[e.name]
Absent(e) == ~Exists(e.name) /\ ~Exists(e.name)'
Made(e) == Exists(e.name)' /\ Len(files'[e.name]) = 0
Overwritten(e) ==
  /\ e = At /\ pc \in Writing /\ Exists(e.name) /\ Exists(e.name)'
  /\ Len(files[e.name]) <= Len(files'[e.name])
  /\ OneBuffer(e) => \A k \in 1 .. Len(files'[e.name]) :
       \/ files'[e.name][k] = <<book, e.name, k>>
       \/ k <= Len(files[e.name]) /\ files'[e.name][k] = files[e.name][k]
CutOff(e) ==
  /\ e = At /\ pc = "stored" /\ Exists(e.name) /\ Exists(e.name)'
  /\ Len(files'[e.name]) \in flushed .. Len(files[e.name])
  /\ \A k \in 1 .. Len(files'[e.name]) : files'[e.name][k] = files[e.name][k]

LEMMA FileSteps ==
  ASSUME ExpandInv, Step \/ Fault, NEW e \in Members(book)
  PROVE  Kept(e) \/ Absent(e) \/ (Made(e) /\ ~Exists(e.name)) \/ Overwritten(e) \/ CutOff(e)
<1>1. CASE UNCHANGED files
  BY <1>1 DEF Kept, Absent, Exists
<1>2. CASE CreateFile
  <2> DEFINE c == IF Exists(At.name) THEN files[At.name] ELSE <<>>
  <2>1. files' = Put(At.name, c) /\ FilesOK /\ JobOK /\ pc \in AtWork
    BY <1>2 DEF CreateFile, Creates, Opened, ExpandInv, AtWork
  <2>2. IsSeq(c)
    BY <2>1 DEF FilesOK, Exists, IsSeq
  <2>3. /\ DOMAIN files' = DOMAIN files \cup {At.name} /\ files'[At.name] = c
        /\ \A n \in DOMAIN files : n # At.name => files'[n] = files[n]
    BY <2>1, <2>2, PutFacts
  <2> QED
    BY <2>3 DEF Kept, Absent, Made, Exists
<1>3. CASE CopyStored
  <2>1. PICK n \in Nat \ {0} :
          /\ Exists(At.name)'
          /\ off + n <= Len(files'[At.name]) /\ Len(files[At.name]) <= Len(files'[At.name])
          /\ \A k \in 1 .. off + n : files'[At.name][k] = <<book, At.name, k>>
          /\ \A k \in off + n + 1 .. Len(files'[At.name]) :
               k <= Len(files[At.name]) /\ files'[At.name][k] = files[At.name][k]
          /\ \A n2 \in DOMAIN files : n2 # At.name => n2 \in DOMAIN files' /\ files'[n2] = files[n2]
    BY <1>3, CopyWrites
  <2>2. /\ JobOK /\ pc \in Writing /\ pc \in AtWork /\ Right(At, off) /\ off \in Nat
        /\ Exists(At.name) /\ UNCHANGED <<book, at>>
    BY <1>3 DEF CopyStored, ExpandInv, InStep, Writing, AtWork, JobOK, Right
  <2>3. CASE e = At
    <3>1. ASSUME NEW k \in 1 .. Len(files'[At.name])
          PROVE  \/ files'[At.name][k] = <<book, At.name, k>>
                 \/ k <= Len(files[At.name]) /\ files'[At.name][k] = files[At.name][k]
      BY <2>1, <2>2
    <3> QED
      BY <2>1, <2>2, <2>3, <3>1 DEF Overwritten, Exists, At
  <2>4. CASE e # At
    <3>1. e.name # At.name /\ DOMAIN files' = DOMAIN files \cup {At.name}
      BY <1>3, <2>2, <2>4, AtFacts DEF CopyStored, Put
    <3> QED
      BY <2>1, <3>1 DEF Kept, Absent, Exists
  <2> QED
    BY <2>3, <2>4
<1>4. CASE InflateBuffer \/ InflateFails
  <2>1. pc = "deflated" /\ todo > 0 /\ UNCHANGED <<lost, book>>
    BY <1>4 DEF InflateBuffer, InflateFails, Ends
  <2>2. /\ JobOK /\ pc \in Writing /\ pc \in AtWork /\ Right(At, off) /\ off \in Nat /\ At.full \in Nat
        /\ Exists(At.name)
    BY <2>1, AtFacts, EntryFacts DEF ExpandInv, InStep, Writing, AtWork, JobOK, Right
  <2>3. PICK m \in 0 .. At.full, right \in BOOLEAN :
          /\ m <= usize(At) - off /\ (todo = csize(At) => right)
          /\ files' = Put(At.name, WriteAt(files[At.name], off, Produced(m, right)))
    <3>1. ASSUME NEW n, NEW m, NEW right, MayProduce(n, m, right), m \in Nat
          PROVE  m <= usize(At) - off /\ (todo = csize(At) => right)
      BY <2>2, <3>1 DEF MayProduce, usize
    <3> QED
      BY <1>4, <2>2, <3>1 DEF InflateBuffer, InflateFails
  <2>4. /\ At.name \in DOMAIN files' /\ Len(files[At.name]) <= Len(files'[At.name])
        /\ off + m <= Len(files'[At.name])
        /\ OneBuffer(At) => \A k \in 1 .. off + m : files'[At.name][k] = <<book, At.name, k>>
        /\ \A k \in off + m + 1 .. Len(files'[At.name]) :
             k <= Len(files[At.name]) /\ files'[At.name][k] = files[At.name][k]
        /\ \A n2 \in DOMAIN files : n2 # At.name => n2 \in DOMAIN files' /\ files'[n2] = files[n2]
    BY <2>1, <2>3, InflateWrites
  <2>5. CASE e = At
    <3>1. ASSUME OneBuffer(At), NEW k \in 1 .. Len(files'[At.name])
          PROVE  \/ files'[At.name][k] = <<book, At.name, k>>
                 \/ k <= Len(files[At.name]) /\ files'[At.name][k] = files[At.name][k]
      BY <2>2, <2>4, <3>1
    <3> QED
      BY <2>1, <2>2, <2>4, <2>5, <3>1 DEF Overwritten, Exists, At
  <2>6. CASE e # At
    <3>1. e.name # At.name /\ DOMAIN files' = DOMAIN files \cup {At.name}
      BY <2>2, <2>3, <2>6, AtFacts DEF Put
    <3> QED
      BY <2>4, <3>1 DEF Kept, Absent, Exists
  <2> QED
    BY <2>5, <2>6
<1>5. CASE /\ pc = "stored" /\ (Crash \/ IOFailure \/ CloseLoses)
           /\ LosesUnflushed(At.name) \/ NotRecorded(At.name)
  <2>1. /\ LosesUnflushed(At.name) /\ FilesOK /\ JobOK /\ pc \in AtWork
        /\ Exists(At.name) /\ flushed \in Nat /\ book' = book
    <3>1. FilesOK /\ JobOK /\ pc \in AtWork /\ Exists(At.name) /\ flushed \in Nat
      BY <1>5 DEF ExpandInv, InStep, Writing, AtWork, Right, JobOK
    <3>2. book' = book
      BY <1>5 DEF Crash, IOFailure, CloseLoses, Ends
    <3> QED
      BY <1>5, <3>1, <3>2, NotRecordedLoses
  <2>2. PICK n, c :
          /\ n \in flushed .. Len(files[At.name])
          /\ IsSeq(c) /\ Len(c) = n /\ files' = Put(At.name, c)
          /\ \A k \in 1 .. n : c[k] = files[At.name][k]
    BY <2>1, Loses
  <2>3. /\ DOMAIN files' = DOMAIN files \cup {At.name} /\ files'[At.name] = c
        /\ \A n2 \in DOMAIN files : n2 # At.name => files'[n2] = files[n2]
    BY <2>1, <2>2, PutFacts
  <2>4. CASE e = At
    <3>1. pc = "stored" /\ Exists(e.name) /\ Exists(e.name)' /\ files'[e.name] = c
      BY <1>5, <2>1, <2>3, <2>4 DEF Exists, At
    <3> QED
      BY <2>2, <2>4, <3>1 DEF CutOff
  <2>5. CASE e # At
    <3>1. e.name # At.name
      BY <2>1, <2>5, AtFacts
    <3> QED
      BY <2>3, <3>1 DEF Kept, Absent, Exists
  <2> QED
    BY <2>4, <2>5
<1> QED
  BY <1>1, <1>2, <1>3, <1>4, <1>5
  DEF Step, Fault, ReadHeader, CentralDirectory, UnknownSignature, RefuseFlags, CreateDir, NoParent,
      PassOver, CloseFile, FinishEntry, CloseLoses, IOFailure, Crash, diskVars

--------------------------------------------------------------------------------
(* No step puts a byte of another entry, or at another place, into a file  *)
(* that has none.                                                          *)
Clean ==
  \A e \in Members(book) : Exists(e.name) /\ OneBuffer(e) =>
    \A k \in 1 .. Len(files[e.name]) : files[e.name][k] = <<book, e.name, k>>

LEMMA CleanKept == ExpandInv /\ ExpandInv' /\ Clean /\ [Next]_vars => Clean'
<1> SUFFICES ASSUME ExpandInv, ExpandInv', Clean, [Next]_vars,
                    NEW e \in Members(book'), Exists(e.name)', OneBuffer(e),
                    NEW k \in 1 .. Len(files'[e.name])
             PROVE  files'[e.name][k] = <<book', e.name, k>>
  BY DEF Clean, OneBuffer, Members
<1>1. CASE Again \/ UNCHANGED vars
  BY <1>1 DEF Again, Open, vars, diskVars, jobVars, Clean, Exists
<1>2. CASE Step \/ Fault
  <2>1. book' = book
    BY <1>2
    DEF Step, Fault, ReadHeader, CentralDirectory, UnknownSignature, RefuseFlags, CreateFile,
        CreateDir, NoParent, PassOver, CopyStored, InflateBuffer, CloseFile, FinishEntry,
        InflateFails, CloseLoses, IOFailure, Crash, Ends
  <2>2. Kept(e) \/ Absent(e) \/ (Made(e) /\ ~Exists(e.name)) \/ Overwritten(e) \/ CutOff(e)
    BY <1>2, <2>1, FileSteps
  <2>3. Exists(e.name) => /\ Len(files[e.name]) \in Nat
                          /\ \A i \in 1 .. Len(files[e.name]) : files[e.name][i] = <<book, e.name, i>>
    BY <2>1 DEF Clean, ExpandInv, FilesOK, IsSeq, Exists
  <2>4. CASE Kept(e)
    BY <2>1, <2>3, <2>4 DEF Kept
  <2>5. CASE Overwritten(e)
    <3>1. Len(files[e.name]) \in Nat /\ k \in Nat /\ k >= 1 /\ Exists(e.name)
      BY <2>3, <2>5 DEF Overwritten, ExpandInv, FilesOK, IsSeq, Exists
    <3>2. \/ files'[e.name][k] = <<book, e.name, k>>
          \/ k <= Len(files[e.name]) /\ files'[e.name][k] = files[e.name][k]
      BY <2>5 DEF Overwritten
    <3> QED
      BY <2>1, <2>3, <3>1, <3>2
  <2>6. CASE CutOff(e)
    <3>1. Len(files[e.name]) \in Nat /\ Exists(e.name) /\ flushed \in Nat
      BY <2>3, <2>6 DEF CutOff, ExpandInv, JobOK
    <3>2. k \in 1 .. Len(files[e.name]) /\ files'[e.name][k] = files[e.name][k]
      BY <2>6, <3>1 DEF CutOff
    <3> QED
      BY <2>1, <2>3, <3>1, <3>2
  <2> QED
    BY <2>2, <2>4, <2>5, <2>6 DEF Absent, Made
<1> QED
  BY <1>1, <1>2 DEF Next

(* Whatever went wrong and however often, each file holds a prefix of what *)
(* its entry is, and nothing else.                                         *)
THEOREM PrefixesClean == Spec => []CleanPrefixes
<1>1. Init => Clean
  BY DEF Init, Clean, Exists
<1>2. ExpandInv /\ Clean => CleanPrefixes
  <2> SUFFICES ASSUME ExpandInv, Clean, NEW e \in Members(book), Exists(e.name), OneBuffer(e)
               PROVE  /\ Len(files[e.name]) <= e.full
                      /\ files[e.name] = SubSeq(Contents(book, e), 1, Len(files[e.name]))
    BY DEF CleanPrefixes
  <2>1. book \in Books /\ e.full \in Nat /\ IsSeq(files[e.name]) /\ Len(files[e.name]) <= e.full
    BY EntryFacts DEF ExpandInv, JobOK, FilesOK, NotTooLong, Exists
  <2>2. /\ IsSeq(Contents(book, e)) /\ Len(Contents(book, e)) = e.full
        /\ \A k \in 1 .. e.full : Contents(book, e)[k] = <<book, e.name, k>>
    BY <2>1, ContentsFacts
  <2> DEFINE n == Len(files[e.name])
             s == SubSeq(Contents(book, e), 1, n)
  <2>3. n \in 0 .. e.full
    BY <2>1 DEF IsSeq
  <2>4. IsSeq(s) /\ Len(s) = n /\ \A k \in 1 .. n : s[k] = Contents(book, e)[k]
    BY <2>2, <2>3, SubSeqFacts
  <2>5. \A k \in 1 .. n : files[e.name][k] = s[k]
    <3>1. \A k \in 1 .. n : files[e.name][k] = <<book, e.name, k>>
      BY DEF Clean
    <3> HIDE DEF s
    <3> QED
      BY <2>2, <2>3, <2>4, <3>1
  <2>6. files[e.name] = s
    <3> HIDE DEF s
    <3> QED
      BY <2>1, <2>4, <2>5 DEF IsSeq
  <2> QED
    BY <2>1, <2>6
<1> QED
  BY <1>1, <1>2, CleanKept, ExpandInvariant, PTL DEF Spec

--------------------------------------------------------------------------------
(* A file that is whole and safe stays so: what is written over it is what *)
(* it holds, and neither a power cut nor a close that fails takes anything *)
(* that was flushed.                                                       *)
LEMMA SavedKept ==
  ASSUME ExpandInv, ExpandInv', Step \/ Fault, NEW e \in Members(book), OneBuffer(e), Saved(e)
  PROVE  Saved(e)'
<1>1. book \in Books /\ book' = book /\ FilesOK /\ FilesOK' /\ NotTooLong' /\ e.full \in Nat
  <2>1. book' = book
    BY DEF Step, Fault, ReadHeader, CentralDirectory, UnknownSignature, RefuseFlags, CreateFile,
        CreateDir, NoParent, PassOver, CopyStored, InflateBuffer, CloseFile, FinishEntry,
        InflateFails, CloseLoses, IOFailure, Crash, Ends
  <2> QED
    BY <2>1, EntryFacts DEF ExpandInv, JobOK
<1>2. /\ Exists(e.name) /\ Len(files[e.name]) = e.full
      /\ \A k \in 1 .. e.full : files[e.name][k] = <<book, e.name, k>>
  BY <1>1, IntactFacts DEF Saved
<1>3. /\ Exists(e.name)' /\ Len(files'[e.name]) = e.full
      /\ \A k \in 1 .. e.full : files'[e.name][k] = <<book, e.name, k>>
  <2>1. Kept(e) \/ Overwritten(e) \/ CutOff(e)
    BY <1>2, FileSteps DEF Absent
  <2>2. Exists(e.name)' => Len(files'[e.name]) \in Nat /\ Len(files'[e.name]) <= e.full
    BY <1>1 DEF FilesOK, NotTooLong, IsSeq, Exists
  <2>3. CASE Kept(e)
    BY <1>2, <2>3 DEF Kept
  <2>4. CASE Overwritten(e)
    <3>1. Exists(e.name)' /\ Len(files'[e.name]) = e.full
      BY <1>1, <1>2, <2>2, <2>4 DEF Overwritten
    <3> QED
      BY <1>2, <2>4, <3>1 DEF Overwritten
  <2>5. CASE CutOff(e)
    <3>1. flushed = e.full
      BY <1>2, <2>5 DEF CutOff, Saved
    <3>2. Exists(e.name)' /\ Len(files'[e.name]) = e.full
      BY <1>1, <1>2, <2>2, <2>5, <3>1 DEF CutOff
    <3> QED
      BY <1>2, <2>5, <3>2 DEF CutOff
  <2> QED
    BY <2>1, <2>3, <2>4, <2>5
<1>4. Intact(book, e)'
  <2>1. files'[e.name] = [k \in 1 .. e.full |-> files'[e.name][k]]
    BY <1>1, <1>3 DEF FilesOK, IsSeq, Exists
  <2>2. files'[e.name] = Contents(book, e)
    BY <1>3, <2>1 DEF Contents
  <2> QED
    BY <1>1, <1>3, <2>2 DEF Intact, Contents
<1>5. ASSUME (pc = "stored" /\ At = e)' PROVE flushed' = Len(files'[e.name])
  <2>1. CASE CreateFile
    BY <1>5, <2>1 DEF CreateFile, At
  <2>2. CASE CopyStored
    <3>1. pc = "stored" /\ At = e /\ flushed' = flushed
      BY <1>5, <2>2 DEF CopyStored, At
    <3> QED
      BY <1>2, <1>3, <3>1 DEF Saved
  <2> QED
    BY <1>5, <2>1, <2>2
    DEF Step, Fault, ReadHeader, CentralDirectory, UnknownSignature, RefuseFlags, CreateDir,
        NoParent, PassOver, InflateBuffer, CloseFile, FinishEntry, InflateFails,
        CloseLoses, IOFailure, Crash, Ends
<1> QED
  BY <1>1, <1>4, <1>5 DEF Saved, At

(* Expanding again takes nothing away, at any moment of it. *)
THEOREM RepeatHarmless == Spec => RepeatNeverHarms
<1>1. ExpandInv /\ ExpandInv' /\ [Next]_vars
        => [\A e \in Members(book) : OneBuffer(e) /\ Saved(e) => Saved(e)']_vars
  <2> SUFFICES ASSUME ExpandInv, ExpandInv', Next,
                      NEW e \in Members(book), OneBuffer(e), Saved(e)
               PROVE  Saved(e)'
    OBVIOUS
  <2>1. CASE Again
    BY <2>1 DEF Again, Open, Saved, Intact, Exists, Contents
  <2> QED
    BY <2>1, SavedKept DEF Next
<1> QED
  BY <1>1, ExpandInvariant, PTL DEF Spec, RepeatNeverHarms
================================================================================
