----------------------------- MODULE EPubFileProofs -----------------------------
(***************************************************************************)
(* Proofs about EPubFile, for any number of instances, books and entries.  *)
(* What is proved of the caches takes no hypothesis.  What is proved of the*)
(* disk after several expansions takes the ones that the runs epub_mixed   *)
(* and epub_tail show it cannot do without.                                *)
(***************************************************************************)
EXTENDS EPubFile, ContainerProofs

(* An instance, and what the parsers may make of the metadata.             *)
Held ==
  [book : Books \cup {None}, container : BOOLEAN, package : Books \cup {Torn, None},
   toc : Books \cup {Torn, None}, via : Books \cup {Torn, None}]
Outcomes ==
  [res : {"error", "panic", "ok"}, package : Books \cup {Torn, None}, toc : Books \cup {Torn, None}]
InstancesOK == inst \in [Instances -> Held] /\ CacheCoherent

LEMMA ParsesTypes == \A name : Parses(name) \subseteq Books \cup {Torn, "error"}
BY DEF Parses

LEMMA ResultTypes == Results \subseteq Outcomes
<1>1. Failed \in Outcomes /\ Panics \in Outcomes
  BY DEF Failed, Panics, Outcomes
<1>2. ASSUME NEW source, NEW rs, rs \subseteq Outcomes
      PROVE  Parsed(source, rs) \subseteq Outcomes
  BY <1>1, <1>2 DEF Parsed
<1>3. ASSUME NEW p \in Books \cup {Torn, None}, NEW t \in Books \cup {Torn, None}
      PROVE  Got(p, t) \in Outcomes
  BY DEF Got, Outcomes
<1>4. ASSUME NEW p \in Books \cup {Torn}, NEW n PROVE TocResults(p, n) \subseteq Outcomes
  <2>1. ASSUME NEW t \in Parses(n) PROVE Parsed(t, {Got(p, t)}) \subseteq Outcomes
    <3>1. CASE t = "error"
      BY <1>1, <3>1 DEF Parsed
    <3>2. CASE t # "error"
      <4>1. t \in Books \cup {Torn}
        BY <3>2, ParsesTypes
      <4> QED
        BY <1>2, <1>3, <4>1
    <3> QED
      BY <3>1, <3>2
  <2> QED
    BY <1>3, <2>1 DEF TocResults
<1>5. ASSUME NEW o PROVE PackageResults(o) \subseteq Outcomes
  <2>1. ASSUME NEW p \in Parses(o)
        PROVE  Parsed(p, UNION {TocResults(p, n) : n \in Names(Ncx, p)}) \subseteq Outcomes
    <3>1. CASE p = "error"
      BY <1>1, <3>1 DEF Parsed
    <3>2. CASE p # "error"
      <4>1. p \in Books \cup {Torn}
        BY <3>2, ParsesTypes
      <4> QED
        BY <1>2, <1>4, <4>1
    <3> QED
      BY <3>1, <3>2
  <2> QED
    BY <1>3, <2>1 DEF PackageResults
<1>6. ASSUME NEW r PROVE Parsed(r, UNION {PackageResults(o) : o \in Names(Opf, r)}) \subseteq Outcomes
  BY <1>2, <1>5
<1> QED
  BY <1>6 DEF Results

(* What an instance holds after a call that has read the disk: the toc is  *)
(* set with the package it was found through, or neither.                  *)
LEMMA HoldingFacts ==
  ASSUME NEW e \in Held, NEW r \in Outcomes, ~Cached(e),
         e.toc # None => e.package # None /\ e.via = e.package
  PROVE  /\ Holding(e, r) \in Held
         /\ Holding(e, r).toc # None =>
              Holding(e, r).package # None /\ Holding(e, r).via = Holding(e, r).package
<1>1. e.toc = None
  BY DEF Cached
<1> QED
  BY <1>1 DEF Holding, Held, Outcomes

LEMMA InstancesKept == InstancesOK /\ [EPubNext]_allVars => InstancesOK'
<1> SUFFICES ASSUME InstancesOK, [EPubNext]_allVars PROVE InstancesOK'
  OBVIOUS
<1>1. ASSUME NEW i \in Instances, NEW h \in Held, inst' = [inst EXCEPT ![i] = h],
             h.toc # None => h.package # None /\ h.via = h.package
      PROVE  InstancesOK'
  BY <1>1 DEF InstancesOK, CacheCoherent
<1>2. CASE \E i \in Instances, b \in Books : New(i, b)
  <2>1. PICK i \in Instances, b \in Books : inst' = [inst EXCEPT ![i] = Fresh(b)]
    BY <1>2 DEF New
  <2>2. Fresh(b) \in Held /\ Fresh(b).toc = None
    BY DEF Fresh, NoInstance, Held
  <2> QED
    BY <1>1, <2>1, <2>2
<1>3. CASE \E i \in Instances : ExpandStart(i) \/ ExpandRefused(i)
  <2>1. PICK i \in Instances :
          \/ inst' = [inst EXCEPT ![i] = [Cleared(inst[i]) EXCEPT !.container = TRUE]]
          \/ inst' = [inst EXCEPT ![i] = Cleared(inst[i])]
    BY <1>3 DEF ExpandStart, ExpandRefused
  <2>2. inst[i] \in Held
    BY DEF InstancesOK
  <2>3. /\ Cleared(inst[i]) \in Held /\ Cleared(inst[i]).toc = None
        /\ [Cleared(inst[i]) EXCEPT !.container = TRUE] \in Held
        /\ [Cleared(inst[i]) EXCEPT !.container = TRUE].toc = None
    BY <2>2 DEF Cleared, Held
  <2> QED
    BY <1>1, <2>1, <2>3
<1>4. CASE \E i \in Instances, what \in Getters : Get(i, what)
  <2>1. PICK i \in Instances, r \in Results :
          ~Cached(inst[i]) /\ inst' = [inst EXCEPT ![i] = Holding(inst[i], r)]
    BY <1>4 DEF Get, ReadsDisk
  <2>2. /\ inst[i] \in Held /\ r \in Outcomes
        /\ inst[i].toc # None => inst[i].package # None /\ inst[i].via = inst[i].package
    BY ResultTypes DEF InstancesOK, CacheCoherent
  <2> QED
    BY <1>1, <2>1, <2>2, HoldingFacts
<1>5. CASE inst' = Nobody
  <2>1. Nobody \in [Instances -> Held]
    BY DEF Nobody, NoInstance, Held
  <2> QED
    BY <1>5, <2>1 DEF InstancesOK, CacheCoherent, Nobody, NoInstance
<1>6. CASE UNCHANGED inst
  BY <1>6 DEF InstancesOK, CacheCoherent
<1> QED
  BY <1>2, <1>3, <1>4, <1>5, <1>6
  DEF EPubNext, AppCall, GetPanics, ExpandContinues, MemoStep, MemoCreate, MemoWrite, ExpandReturn,
      ReturnWithoutMemo, ReturnsOk, MemoFails, Restart, PowerCut, epubVars, allVars

THEOREM InstancesInvariant == EPubSpec => []InstancesOK
<1>1. EPubInit => InstancesOK
  BY DEF EPubInit, InstancesOK, CacheCoherent, Nobody, NoInstance, Held
<1> QED
  BY <1>1, InstancesKept, PTL DEF EPubSpec

(* Whatever calls are made of however many instances, and whatever the     *)
(* files of the directory are by then: a cached toc is the one that the    *)
(* cached package names.                                                   *)
THEOREM CachesCoherent == EPubSpec => []CacheCoherent
BY InstancesInvariant, PTL DEF InstancesOK

--------------------------------------------------------------------------------
(* A file that is not empty is of one book at most, as its bytes say.      *)
LEMMA ParsesWhole ==
  ASSUME NEW b \in Books, NEW name, HoldsWhole(b, name),
         \A e \in Members(b) : e.name = name => e.full > 0
  PROVE  Parses(name) = {"error", b}
<1>1. PICK e \in Members(b) : e.name = name /\ Intact(b, e)
  BY DEF HoldsWhole
<1>2. Exists(name) /\ files[name] = Contents(b, e) /\ e.full \in Nat /\ e.full > 0
  BY <1>1, EntryFacts DEF Intact
<1>3. ASSUME NEW c \in Books, HoldsWhole(c, name) PROVE c = b
  <2>1. PICK f \in Members(c) : f.name = name /\ Intact(c, f)
    BY <1>3 DEF HoldsWhole
  <2>2. f.full \in Nat /\ Contents(b, e) = Contents(c, f)
    BY <1>2, <2>1, EntryFacts DEF Intact
  <2>3. Len(Contents(b, e)) = e.full /\ Len(Contents(c, f)) = f.full
    BY ContentsFacts
  <2>4. 1 \in 1 .. e.full /\ 1 \in 1 .. f.full
    BY <1>2, <2>2, <2>3
  <2>5. Contents(b, e)[1] = <<b, e.name, 1>> /\ Contents(c, f)[1] = <<c, f.name, 1>>
    BY <2>4, ContentsFacts
  <2> QED
    BY <2>2, <2>5
<1>4. {c \in Books : HoldsWhole(c, name)} = {b}
  BY <1>3
<1> QED
  BY <1>2, <1>4 DEF Parses

(* What a book whose metadata is whole on the disk is read as: as itself,  *)
(* with the parts it has; or not at all.                                   *)
Whole(b) == IF Opf[b] = None THEN Got(None, None) ELSE Got(b, IF Ncx[b] = None THEN None ELSE b)

LEMMA WholeBookResults ==
  ASSUME NEW b \in Books, MetadataOnDisk(b)
  PROVE  Results \subseteq {Failed, Whole(b)}
<1>1. /\ Parses(RootXml) = {"error", b}
      /\ Opf[b] # None => Parses(Opf[b]) = {"error", b}
      /\ Ncx[b] # None => Parses(Ncx[b]) = {"error", b}
  <2>1. ASSUME NEW n \in {RootXml, Opf[b], Ncx[b]}, n \in Metadata(b)
        PROVE  Parses(n) = {"error", b}
    BY <2>1, ParsesWhole, MetadataAssumption DEF MetadataOnDisk
  <2> QED
    BY <2>1 DEF Metadata
<1>2. b # "error" /\ b # Torn /\ b # None
  BY NameAssumption
<1>3. \A rs : Parsed("error", rs) = {Failed} /\ Parsed(b, rs) = rs
  BY <1>2 DEF Parsed
<1>4. Names(Opf, b) = {Opf[b]} /\ Names(Ncx, b) = {Ncx[b]}
  BY <1>2 DEF Names
<1> DEFINE g == Got(b, IF Ncx[b] = None THEN None ELSE b)
<1>5. TocResults(b, Ncx[b]) \subseteq {Failed, g}
  <2>1. CASE Ncx[b] = None
    BY <2>1 DEF TocResults
  <2>2. CASE Ncx[b] # None
    <3>1. g = Got(b, b) /\ Parses(Ncx[b]) = {"error", b}
      BY <1>1, <2>2
    <3>2. Parsed("error", {Got(b, "error")}) = {Failed} /\ Parsed(b, {Got(b, b)}) = {Got(b, b)}
      BY <1>3
    <3> HIDE DEF g
    <3>3. TocResults(b, Ncx[b]) = UNION {Parsed(t, {Got(b, t)}) : t \in {"error", b}}
      BY <2>2, <3>1 DEF TocResults
    <3> QED
      BY <3>1, <3>2, <3>3
  <2> QED
    BY <2>1, <2>2
<1>6. PackageResults(Opf[b]) \subseteq {Failed, Whole(b)}
  <2>1. CASE Opf[b] = None
    BY <2>1 DEF PackageResults, Whole
  <2>2. CASE Opf[b] # None
    <3>1. UNION {TocResults(b, n) : n \in Names(Ncx, b)} \subseteq {Failed, g}
      BY <1>4, <1>5
    <3>2. Whole(b) = g
      BY <2>2 DEF Whole
    <3> HIDE DEF g
    <3>3. PackageResults(Opf[b]) =
            UNION {Parsed(p, UNION {TocResults(p, n) : n \in Names(Ncx, p)}) : p \in {"error", b}}
      BY <1>1, <2>2 DEF PackageResults
    <3> QED
      BY <1>3, <3>1, <3>2, <3>3
  <2> QED
    BY <2>1, <2>2
<1>7. UNION {PackageResults(o) : o \in Names(Opf, b)} \subseteq {Failed, Whole(b)}
  BY <1>4, <1>6
<1> QED
  BY <1>1, <1>3, <1>7 DEF Results

(* The unwraps of get_package and get_toc find what they unwrap, and no    *)
(* parser is given a file to panic over, while the metadata of one book is *)
(* on the disk: whatever the state of the instance, and for books without  *)
(* a toc or a rootfile too, when what they do have is asked for.           *)
THEOREM NoPanic == EPubSpec => []NoPanicOnWholeBook
<1>1. InstancesOK => NoPanicOnWholeBook
  <2> SUFFICES ASSUME InstancesOK, NEW b \in Books, MetadataOnDisk(b), NEW i \in Instances,
                      NEW what \in Getters, Offers(b, what), MayPanic(i, what)
               PROVE  FALSE
    BY DEF NoPanicOnWholeBook
  <2>1. PICK r \in {Failed, Whole(b)} : Aborts(inst[i], r, what)
    BY WholeBookResults DEF MayPanic
  <2>2. r.res # "panic" /\ (r.res = "ok" => r = Whole(b))
    BY <2>1 DEF Failed, Got, Whole
  <2>3. inst[i] \in Held /\ b # None /\ r = Whole(b) /\ what \in {"package", "toc"}
    BY <2>1, <2>2, NameAssumption DEF InstancesOK, Aborts, Unwraps
  <2>4. Opf[b] # None /\ (what = "toc" => Ncx[b] # None)
    BY <2>3 DEF Offers
  <2>5. r.package = b /\ (what = "toc" => r.toc = b)
    BY <2>3, <2>4 DEF Whole, Got
  <2>6. Holding(inst[i], r).package = b /\ (what = "toc" => Holding(inst[i], r).toc = b)
    BY <2>3, <2>5 DEF Holding, Held
  <2> QED
    BY <2>1, <2>2, <2>3, <2>6 DEF Aborts, Unwraps
<1> QED
  BY <1>1, InstancesInvariant, PTL

--------------------------------------------------------------------------------
(* The memo.  What it takes to follow it: where the reader is, so that no  *)
(* entry is written to the memo's name, and that the memo's stages find it *)
(* there.                                                                  *)
PlaceOK == book \in Books /\ at \in 0 .. Len(Archive[book]) /\ (pc \in AtWork => at > 0)
MemoInv ==
  /\ PlaceOK
  /\ Exists(Memo) => IsSeq(files[Memo])
  /\ pc \in {"memo", "written"} => Exists(Memo) /\ flushed \in Nat
  /\ pc = "memo" => flushed = Len(files[Memo])

LEMMA PathFacts ==
  ASSUME NEW b \in Books
  PROVE  IsSeq(Path[b]) /\ Len(Path[b]) > 0
<1> DEFINE bytes == {Path[b][k] : k \in 1 .. Len(Path[b])}
<1>1. Path[b] \in Seq(bytes) /\ Len(Path[b]) \in 1 .. ClusterSize
  BY PathAssumption
<1> HIDE DEF bytes
<1>2. Len(Path[b]) \in Nat /\ Path[b] = [k \in 1 .. Len(Path[b]) |-> Path[b][k]]
  BY <1>1
<1> QED
  BY <1>1, <1>2, ClusterAssumption DEF IsSeq

(* Container::expand writes to the file of the entry it is at, if to any.  *)
LEMMA WhatStepsWrite ==
  ASSUME Step \/ Fault, PlaceOK
  PROVE  /\ book' = book
         /\ UNCHANGED files \/ \E c : files' = Put(At.name, c) /\ At \in Members(book)
         /\ PlaceOK'
<1>1. pc \in AtWork => At \in Members(book)
  BY ArchiveFacts DEF PlaceOK, At
<1>2. Len(Archive[book]) \in Nat
  BY ArchiveFacts DEF PlaceOK
<1>3. CASE ReadHeader
  BY <1>2, <1>3 DEF ReadHeader, diskVars, PlaceOK
<1>4. CASE CreateFile
  BY <1>1, <1>4 DEF CreateFile, Creates, Opened, PlaceOK, AtWork, MakesFile, Supported
<1>5. CASE CopyStored \/ InflateBuffer \/ InflateFails
  BY <1>1, <1>2, <1>5 DEF CopyStored, InflateBuffer, InflateFails, Ends, PlaceOK, AtWork
<1>6. CASE Crash \/ IOFailure \/ CloseLoses
  BY <1>1, <1>2, <1>6
  DEF Crash, IOFailure, CloseLoses, LosesUnflushed, NotRecorded, Ends, PlaceOK, AtWork
<1>7. CASE CentralDirectory \/ UnknownSignature \/ RefuseFlags \/ NoParent
  BY <1>2, <1>7
  DEF CentralDirectory, UnknownSignature, RefuseFlags, NoParent, Ends, diskVars, PlaceOK, AtWork
<1>8. CASE CreateDir \/ PassOver \/ CloseFile \/ FinishEntry
  BY <1>8 DEF CreateDir, PassOver, CloseFile, FinishEntry, diskVars, PlaceOK, AtWork
<1> QED
  BY <1>3, <1>4, <1>5, <1>6, <1>7, <1>8 DEF Step, Fault

LEMMA MemoUntouched ==
  ASSUME Step \/ Fault, PlaceOK
  PROVE  (Exists(Memo)' <=> Exists(Memo)) /\ (Exists(Memo) => files'[Memo] = files[Memo])
<1>1. At \in Members(book) => At.name # Memo
  BY NameAssumption DEF Entries, PlaceOK
<1> QED
  BY <1>1, WhatStepsWrite DEF Put, Exists

(* The memo is cut off by a power cut, or by a close that fails unseen.    *)
MemoIsCut ==
  /\ pc = "written"
  /\ (MemoCrash /\ last' = last) \/ ReturnWithoutMemo

(* The steps by what they do to the disk: those of Container::expand, its  *)
(* start, those around the memo, and the rest, which leave it alone.       *)
Works == (Step \/ Fault) /\ last' = last
Starts == \E i \in Instances : ExpandStart(i)
AtMemo == pc \in MemoStages /\ (MemoStep \/ MemoFails \/ (MemoCrash /\ last' = last))
Rests ==
  /\ UNCHANGED <<files, lost, book, at, unread, todo, off, flushed>>
  /\ last' \in {last, None}
  /\ \/ pc' = pc
     \/ pc \notin AtWork \cup MemoStages \cup {"scan"} /\ pc' \in {"io", "idle", "panicked"}

LEMMA StepsByKind == [EPubNext]_allVars => Works \/ Starts \/ AtMemo \/ Rests
<1> SUFFICES ASSUME [EPubNext]_allVars PROVE Works \/ Starts \/ AtMemo \/ Rests
  OBVIOUS
<1>1. CASE ExpandContinues \/ (Crash /\ PowerCut)
  BY <1>1 DEF ExpandContinues, PowerCut, Fault, Works, epubVars
<1>2. CASE MemoStep \/ MemoFails \/ (MemoCrash /\ PowerCut)
  BY <1>2
  DEF MemoStep, MemoCreate, MemoWrite, ExpandReturn, ReturnWithoutMemo, ReturnsOk, MemoFails,
      MemoCrash, PowerCut, MemoStages, AtMemo
<1>3. CASE \E i \in Instances : ExpandRefused(i)
  BY <1>3 DEF ExpandRefused, Idle, Final, MemoStages, AtWork, diskVars, Rests
<1>4. CASE \E i \in Instances, what \in Getters : GetPanics(i, what)
  BY <1>4 DEF GetPanics, MayPanic, ReadsDisk, Idle, Final, MemoStages, AtWork, diskVars, Rests
<1>5. CASE Restart
  BY <1>5 DEF Restart, MemoStages, AtWork, diskVars, epubVars, Rests
<1>6. CASE UNCHANGED <<vars, last>>
  BY <1>6 DEF vars, diskVars, jobVars, Rests
<1>7. CASE AppCall
  BY <1>3, <1>4, <1>6, <1>7 DEF AppCall, New, Get, Starts
<1>8. CASE PowerCut
  BY <1>1, <1>2, <1>6, <1>8 DEF PowerCut
<1> QED
  BY <1>1, <1>2, <1>5, <1>6, <1>7, <1>8 DEF EPubNext, allVars, epubVars

(* The new file, where the memo is created, written, or cut off.           *)
LEMMA MemoCreated ==
  ASSUME MemoInv, MemoCreate
  PROVE  \E c : /\ IsSeq(c) /\ files' = Put(Memo, c) /\ files'[Memo] = c /\ flushed' = Len(c)
                /\ c = IF Exists(Memo) THEN files[Memo] ELSE <<>>
<1> DEFINE c == IF Exists(Memo) THEN files[Memo] ELSE <<>>
<1>1. files' = Put(Memo, c) /\ flushed' = Len(files'[Memo])
  BY DEF MemoCreate, Creates, Opened
<1>2. IsSeq(c)
  BY DEF MemoInv, IsSeq
<1>3. files'[Memo] = c
  BY <1>1 DEF Put
<1> QED
  BY <1>1, <1>2, <1>3

LEMMA MemoWritten ==
  ASSUME MemoInv, MemoWrite
  PROVE  \E c : /\ IsSeq(c) /\ files' = Put(Memo, c) /\ files'[Memo] = c
                /\ Exists(Memo) /\ Len(files[Memo]) <= Len(c)
                /\ Len(c) = IF Len(Path[book]) > Len(files[Memo]) THEN Len(Path[book]) ELSE Len(files[Memo])
                /\ Len(files[Memo]) <= Len(Path[book]) => c = Path[book]
<1>0. PICK c : c = WriteAt(files[Memo], 0, Path[book])
  OBVIOUS
<1>1. book \in Books /\ Exists(Memo) /\ IsSeq(files[Memo]) /\ files' = Put(Memo, c)
  BY <1>0 DEF MemoInv, PlaceOK, MemoWrite
<1>2. IsSeq(Path[book]) /\ Len(Path[book]) \in Nat /\ Len(files[Memo]) \in Nat
  BY <1>1, PathFacts DEF IsSeq
<1>3. /\ IsSeq(c)
      /\ Len(c) = IF Len(Path[book]) > Len(files[Memo]) THEN Len(Path[book]) ELSE Len(files[Memo])
      /\ \A k \in 1 .. Len(c) :
           c[k] = IF k > 0 /\ k <= 0 + Len(Path[book]) THEN Path[book][k - 0] ELSE files[Memo][k]
  BY <1>0, <1>1, <1>2, WriteAtFacts
<1>4. files'[Memo] = c
  BY <1>1 DEF Put
<1>5. ASSUME Len(files[Memo]) <= Len(Path[book]) PROVE c = Path[book]
  <2>1. Len(c) = Len(Path[book]) /\ \A k \in 1 .. Len(c) : c[k] = Path[book][k]
    BY <1>2, <1>3, <1>5
  <2> QED
    BY <1>2, <1>3, <2>1 DEF IsSeq
<1> QED
  BY <1>1, <1>2, <1>3, <1>4, <1>5

LEMMA MemoCut ==
  ASSUME MemoInv, pc = "written", LosesUnflushed(Memo) \/ NotRecorded(Memo)
  PROVE  \E n \in flushed .. Len(files[Memo]) : \E c :
           /\ IsSeq(c) /\ Len(c) = n /\ files' = Put(Memo, c) /\ files'[Memo] = c
           /\ n = Len(files[Memo]) => c = files[Memo]
<1>1. IsSeq(files[Memo]) /\ flushed \in Nat /\ Len(files[Memo]) \in Nat
  BY DEF MemoInv, IsSeq
<1>2. PICK n \in flushed .. Len(files[Memo]) : files' = Put(Memo, SubSeq(files[Memo], 1, n))
  BY <1>1 DEF LosesUnflushed, NotRecorded
<1> DEFINE c == SubSeq(files[Memo], 1, n)
<1>3. IsSeq(c) /\ Len(c) = n /\ \A k \in 1 .. n : c[k] = files[Memo][k]
  BY <1>1, SubSeqFacts
<1>4. files' = Put(Memo, c) /\ files'[Memo] = c
  BY <1>2 DEF Put
<1> HIDE DEF c
<1>5. n = Len(files[Memo]) => c = files[Memo]
  BY <1>1, <1>3 DEF IsSeq
<1> QED
  BY <1>3, <1>4, <1>5

LEMMA MemoKept == MemoInv /\ InstancesOK /\ [EPubNext]_allVars => MemoInv'
<1> SUFFICES ASSUME MemoInv, InstancesOK, [EPubNext]_allVars PROVE MemoInv'
  OBVIOUS
<1>1. CASE Works
  <2>1. /\ PlaceOK' /\ (Exists(Memo)' <=> Exists(Memo))
        /\ Exists(Memo) => files'[Memo] = files[Memo]
    BY <1>1, WhatStepsWrite, MemoUntouched DEF Works, MemoInv
  <2>2. pc' \notin {"memo", "written"}
    BY <1>1
    DEF Works, Step, Fault, ReadHeader, CentralDirectory, UnknownSignature, RefuseFlags, CreateFile,
        CreateDir, NoParent, PassOver, CopyStored, InflateBuffer, CloseFile, FinishEntry,
        InflateFails, CloseLoses, IOFailure, Crash, Ends, MakesFile, Supported
  <2> QED
    BY <2>1, <2>2 DEF MemoInv
<1>2. CASE Starts
  <2>1. PICK i \in Instances : inst[i].book # None /\ Open(inst[i].book)
    BY <1>2 DEF Starts, ExpandStart
  <2>2. inst[i].book \in Books
    BY <2>1 DEF InstancesOK, Held
  <2> QED
    BY <2>1, <2>2, ArchiveFacts DEF Open, MemoInv, PlaceOK, Exists, AtWork
<1>3. CASE AtMemo
  <2>1. CASE MemoCreate
    BY <2>1, MemoCreated DEF MemoCreate, MemoInv, PlaceOK, Exists, Put, AtWork, IsSeq
  <2>2. CASE MemoWrite
    BY <2>2, MemoWritten DEF MemoWrite, MemoInv, PlaceOK, Exists, Put, AtWork
  <2>3. CASE MemoIsCut
    <3>1. PICK c : IsSeq(c) /\ files' = Put(Memo, c) /\ files'[Memo] = c
      BY <2>3, MemoCut DEF MemoIsCut, MemoCrash, ReturnWithoutMemo
    <3>2. book' = book /\ at' = 0 /\ pc' = "idle"
      BY <2>3 DEF MemoIsCut, MemoCrash, ReturnWithoutMemo, ReturnsOk, Ends
    <3> QED
      BY <3>1, <3>2, ArchiveFacts DEF MemoInv, PlaceOK, Exists, Put, AtWork
  <2>4. CASE ExpandReturn \/ MemoFails \/ (MemoCrash /\ pc # "written")
    BY <2>4, ArchiveFacts
    DEF ExpandReturn, ReturnsOk, MemoFails, MemoCrash, Ends, diskVars, MemoInv, PlaceOK, Exists, AtWork
  <2> QED
    BY <1>3, <2>1, <2>2, <2>3, <2>4
    DEF AtMemo, MemoStep, MemoIsCut, ReturnWithoutMemo, ReturnsOk
<1>4. CASE Rests
  BY <1>4 DEF Rests, MemoInv, PlaceOK, Exists, AtWork
<1> QED
  BY <1>1, <1>2, <1>3, <1>4, StepsByKind

THEOREM MemoInvariant == EPubSpec => []MemoInv
<1>1. EPubInit => MemoInv
  BY ArchiveFacts DEF EPubInit, Init, MemoInv, PlaceOK, Exists, AtWork
<1> QED
  BY <1>1, MemoKept, InstancesInvariant, PTL DEF EPubSpec

--------------------------------------------------------------------------------
(* Paths of one length, which a shorter memo cannot outlive.               *)
SamePathLengths == \A b, c \in Books : Len(Path[b]) = Len(Path[c])

MemoNotLonger == Exists(Memo) => \A b \in Books : Len(files[Memo]) <= Len(Path[b])
LastInMemo ==
  /\ pc = "written" => HasExpanded(book)
  /\ last # None =>
       (HasExpanded(last) \/ Memo \in lost) /\ pc \notin AtWork \cup MemoStages \cup {"scan"}

LEMMA LastInMemoKept ==
  ASSUME SamePathLengths, InstancesOK, MemoInv, MemoNotLonger, LastInMemo, [EPubNext]_allVars
  PROVE  MemoNotLonger' /\ LastInMemo'
<1>1. CASE Works
  <2>1. (Exists(Memo)' <=> Exists(Memo)) /\ (Exists(Memo) => files'[Memo] = files[Memo])
    BY <1>1, MemoUntouched DEF Works, MemoInv
  <2>2. pc \in AtWork \cup {"scan"} /\ pc' # "written"
    BY <1>1
    DEF Works, Step, Fault, ReadHeader, CentralDirectory, UnknownSignature, RefuseFlags, CreateFile,
        CreateDir, NoParent, PassOver, CopyStored, InflateBuffer, CloseFile, FinishEntry,
        InflateFails, CloseLoses, IOFailure, Crash, Ends, MakesFile, Supported, AtWork, Running
  <2> QED
    BY <1>1, <2>1, <2>2 DEF Works, MemoNotLonger, LastInMemo
<1>2. CASE Starts
  BY <1>2 DEF Starts, ExpandStart, Open, MemoNotLonger, LastInMemo, Exists
<1>3. CASE AtMemo
  <2>1. last = None /\ book \in Books /\ Len(Path[book]) \in Nat
    BY <1>3, PathFacts DEF AtMemo, LastInMemo, MemoInv, PlaceOK, IsSeq
  <2>2. CASE MemoCreate
    <3>1. MemoNotLonger'
      BY <2>2, MemoCreated, PathFacts DEF MemoNotLonger, Exists, Put, IsSeq
    <3> QED
      BY <2>1, <2>2, <3>1 DEF MemoCreate, epubVars, LastInMemo
  <2>3. CASE MemoWrite
    <3>1. files'[Memo] = Path[book] /\ Exists(Memo)' /\ book' = book /\ last' = last
      BY <2>1, <2>3, MemoWritten DEF MemoWrite, MemoNotLonger, epubVars, Exists, Put
    <3>2. MemoNotLonger'
      BY <2>1, <3>1 DEF MemoNotLonger, SamePathLengths
    <3> QED
      BY <2>1, <3>1, <3>2 DEF LastInMemo, HasExpanded
  <2>4. CASE MemoIsCut
    <3>0. pc = "written" /\ (LosesUnflushed(Memo) \/ NotRecorded(Memo))
      BY <2>4 DEF MemoIsCut, MemoCrash, ReturnWithoutMemo
    <3>1. MemoNotLonger'
      <4>1. PICK n \in flushed .. Len(files[Memo]) : Len(files'[Memo]) = n
        BY <3>0, MemoCut
      <4>2. flushed \in Nat /\ Exists(Memo) /\ Len(files[Memo]) \in Nat
        BY <3>0 DEF MemoInv, IsSeq
      <4>3. \A b \in Books : Len(Path[b]) \in Nat
        BY PathFacts DEF IsSeq
      <4> QED
        BY <4>1, <4>2, <4>3 DEF MemoNotLonger
    <3>2. pc' = "idle" /\ (last' # None => Memo \in lost')
      BY <2>1, <2>4 DEF MemoIsCut, MemoCrash, ReturnWithoutMemo, ReturnsOk, Ends
    <3> QED
      BY <3>1, <3>2 DEF LastInMemo, AtWork, MemoStages
  <2>5. CASE ExpandReturn
    BY <2>5
    DEF ExpandReturn, ReturnsOk, Ends, MemoNotLonger, LastInMemo, HasExpanded, Exists, AtWork, MemoStages
  <2>6. CASE MemoFails \/ (MemoCrash /\ last' = last /\ pc # "written")
    BY <2>1, <2>6 DEF MemoFails, MemoCrash, Ends, diskVars, epubVars, MemoNotLonger, LastInMemo, Exists
  <2> QED
    BY <1>3, <2>2, <2>3, <2>4, <2>5, <2>6
    DEF AtMemo, MemoStep, MemoIsCut, ReturnWithoutMemo, ReturnsOk
<1>4. CASE Rests
  BY <1>4 DEF Rests, MemoNotLonger, LastInMemo, HasExpanded, Exists, AtWork, MemoStages
<1> QED
  BY <1>1, <1>2, <1>3, <1>4, StepsByKind

(* If all paths are of one length, the memo names the book that expand last*)
(* returned Ok for, whatever was expanded into the directory before, unless*)
(* the close of the memo was what failed.                                  *)
THEOREM LastHasMemo ==
  ASSUME SamePathLengths
  PROVE  EPubSpec => []LastExpandedHasMemo
<1>1. EPubInit => MemoNotLonger /\ LastInMemo
  BY DEF EPubInit, Init, MemoNotLonger, LastInMemo, Exists
<1>2. InstancesOK /\ MemoInv /\ MemoNotLonger /\ LastInMemo /\ [EPubNext]_allVars
        => (MemoNotLonger /\ LastInMemo)'
  BY LastInMemoKept
<1>3. LastInMemo => LastExpandedHasMemo
  BY DEF LastInMemo, LastExpandedHasMemo
<1> QED
  BY <1>1, <1>2, <1>3, InstancesInvariant, MemoInvariant, PTL DEF EPubSpec

--------------------------------------------------------------------------------
(* Books whose files of one name are of one size: no byte of a longer file *)
(* is left behind one that is written over it.                             *)
SameSizes == \A e, f \in Entries : e.name = f.name => e.full = f.full

NoneTooLong == \A e \in Entries : Exists(e.name) => Len(files[e.name]) <= e.full
AllDone(b) == \A e \in Members(b) : Due(e) => IntactOrLost(b, e)
DiskInv ==
  /\ ExpandInv /\ NoneTooLong
  /\ pc \in MemoStages => AllDone(book)
  /\ last # None => last \in Books /\ AllDone(last) /\ pc \notin AtWork \cup MemoStages \cup {"scan"}

LEMMA DoneIsAll ==
  ASSUME book \in Books
  PROVE  DoneUpTo(Len(Archive[book])) <=> AllDone(book)
BY ArchiveFacts DEF DoneUpTo, AllDone

LEMMA MemoFileKeeps ==
  ASSUME ExpandInv, NEW c, IsSeq(c), files' = Put(Memo, c),
         JobOK', book' = book,
         lost \subseteq lost', pc' \notin AtWork \cup {"scan", "ok"}
  PROVE  /\ ExpandInv' /\ (NoneTooLong => NoneTooLong')
         /\ AllDone(book) => AllDone(book)'
<1>1. FilesOK'
  BY PutFacts DEF ExpandInv
<1>2. \A e \in Entries : /\ Exists(e.name)' <=> Exists(e.name)
                         /\ Exists(e.name) => files'[e.name] = files[e.name]
  BY NameAssumption DEF Put, Exists
<1>3. book \in Books /\ Members(book) \subseteq Entries
  BY DEF ExpandInv, JobOK, Entries
<1>4. NotTooLong' /\ (NoneTooLong => NoneTooLong')
  BY <1>2, <1>3 DEF ExpandInv, NotTooLong, NoneTooLong
<1>5. AllDone(book) => AllDone(book)'
  BY <1>2, <1>3 DEF AllDone, Due, IntactOrLost, Intact, Contents
<1> QED
  BY <1>1, <1>4, <1>5 DEF ExpandInv, JobOK, InStep, DoneSoFar, Writing, AtWork

LEMMA WorkKeepsSizes ==
  ASSUME SameSizes, ExpandInv, ExpandInv', NoneTooLong, Step \/ Fault
  PROVE  NoneTooLong'
<1>1. PlaceOK /\ Members(book) \subseteq Entries
  BY DEF ExpandInv, JobOK, PlaceOK, Entries
<1>2. CASE UNCHANGED files
  BY <1>2 DEF NoneTooLong, Exists
<1>3. ASSUME NEW c, files' = Put(At.name, c), At \in Members(book), book' = book,
             NEW e \in Entries, Exists(e.name)'
      PROVE  Len(files'[e.name]) <= e.full
  <2>1. CASE e.name = At.name
    <3>1. e.full = At.full
      BY <1>1, <1>3, <2>1 DEF SameSizes
    <3>2. \A f \in Members(book) : Exists(f.name)' => Len(files'[f.name]) <= f.full
      BY <1>3 DEF ExpandInv, NotTooLong
    <3>3. Len(files'[At.name]) <= At.full
      BY <1>3, <2>1, <3>2
    <3> QED
      BY <2>1, <3>1, <3>3
  <2>2. CASE e.name # At.name
    BY <1>3, <2>2 DEF Put, Exists, NoneTooLong
  <2> QED
    BY <2>1, <2>2
<1> QED
  BY <1>1, <1>2, <1>3, WhatStepsWrite DEF NoneTooLong

(* What the steps around the memo do to the entries' files: nothing.       *)
LEMMA AtMemoKeeps ==
  ASSUME ExpandInv, MemoInv, AllDone(book), AtMemo
  PROVE  /\ ExpandInv' /\ (NoneTooLong => NoneTooLong') /\ AllDone(book)'
         /\ book' = book /\ pc' \notin AtWork \cup {"scan", "ok"}
<1>1. flushed \in Nat
  BY DEF ExpandInv, JobOK
<1>2. CASE MemoCreate
  <2>1. PICK c : IsSeq(c) /\ files' = Put(Memo, c) /\ flushed' = Len(c)
    BY <1>2, MemoCreated
  <2> QED
    BY <1>2, <2>1, MemoFileKeeps DEF MemoCreate, ExpandInv, JobOK, AtWork, IsSeq
<1>3. CASE MemoWrite
  <2>1. PICK c : IsSeq(c) /\ files' = Put(Memo, c)
    BY <1>3, MemoWritten
  <2> QED
    BY <1>3, <2>1, MemoFileKeeps DEF MemoWrite, ExpandInv, JobOK, AtWork
<1>4. CASE MemoIsCut
  <2>1. PICK c : IsSeq(c) /\ files' = Put(Memo, c)
    BY <1>4, MemoCut DEF MemoIsCut, MemoCrash, ReturnWithoutMemo
  <2>2. Ends("idle") /\ lost \subseteq lost'
    BY <1>4 DEF MemoIsCut, MemoCrash, ReturnWithoutMemo, ReturnsOk
  <2>3. JobOK' /\ book' = book /\ pc' = "idle"
    BY <2>2, EndedJob DEF ExpandInv, Ends
  <2> QED
    BY <2>1, <2>2, <2>3, MemoFileKeeps DEF AtWork
<1>5. CASE ExpandReturn \/ MemoFails \/ (MemoCrash /\ pc # "written")
  <2>0. /\ files' = files /\ lost \subseteq lost' \cup {Memo}
        /\ Ends("idle") \/ Ends("io")
    BY <1>5 DEF ExpandReturn, ReturnsOk, MemoFails, MemoCrash, diskVars
  <2>1. files' = files /\ book' = book /\ pc' \in {"idle", "io"} /\ lost \subseteq lost' \cup {Memo}
    BY <2>0 DEF Ends
  <2>2. \A e \in Members(book) : e.name # Memo
    BY NameAssumption DEF ExpandInv, JobOK, Entries
  <2>3. AllDone(book)'
    BY <2>1, <2>2 DEF AllDone, Due, IntactOrLost, Intact, Exists, Contents, Members
  <2>4. ExpandInv'
    BY <2>0, EndingKeeps
  <2> QED
    BY <2>1, <2>3, <2>4 DEF NoneTooLong, Exists, AtWork
<1> QED
  BY <1>2, <1>3, <1>4, <1>5 DEF AtMemo, MemoStep, MemoIsCut, ReturnWithoutMemo, ReturnsOk

LEMMA StartKeeps ==
  ASSUME ExpandInv, NoneTooLong, InstancesOK, Starts
  PROVE  /\ ExpandInv' /\ NoneTooLong' /\ last' = None /\ pc' = "scan"
         /\ \A e : Exists(e.name) => Exists(e.name)' /\ files'[e.name] = files[e.name]
<1>1. PICK i \in Instances : inst[i].book # None /\ Open(inst[i].book) /\ last' = None
  BY DEF Starts, ExpandStart
<1>2. inst[i].book \in Books
  BY <1>1 DEF InstancesOK, Held
<1>3. \A e \in Members(inst[i].book) : Exists(e.name) => Len(files[e.name]) <= e.full
  BY <1>2 DEF NoneTooLong, Entries
<1> QED
  BY <1>1, <1>2, <1>3, OpenKeeps DEF Open, NoneTooLong, Exists

LEMMA RestKeeps ==
  ASSUME ExpandInv, Rests
  PROVE  /\ ExpandInv' /\ (NoneTooLong => NoneTooLong')
         /\ AllDone(book) => AllDone(book)'
         /\ AllDone(last) /\ last' = last => AllDone(last)'
<1>1. ExpandInv'
  <2>1. CASE pc' = pc
    BY <2>1, SameDisk
    DEF Rests, ExpandInv, JobOK, InStep, DoneSoFar, Right, Exists, MakesFile, At, Supported, is_file,
        csize, usize, Streamed, RefusedFlags, have_data_descriptor, Past, OneBuffer
  <2>2. CASE pc' \in {"io", "idle", "panicked"}
    BY <2>2 DEF Rests, ExpandInv, FilesOK, NotTooLong, Exists, JobOK, InStep, DoneSoFar, Writing, AtWork
  <2> QED
    BY <2>1, <2>2 DEF Rests
<1> QED
  BY <1>1 DEF Rests, NoneTooLong, AllDone, Due, IntactOrLost, Intact, Exists, Contents

LEMMA DiskKept ==
  ASSUME SameSizes, InstancesOK, MemoInv, DiskInv, [EPubNext]_allVars
  PROVE  DiskInv'
<1>1. CASE Works
  <2>1. ExpandInv' /\ NoneTooLong'
    BY <1>1, WorkKeeps, WorkKeepsSizes DEF Works, DiskInv
  <2>2. pc \in AtWork \cup {"scan"}
    BY <1>1
    DEF Works, Step, Fault, ReadHeader, CentralDirectory, UnknownSignature, RefuseFlags, CreateFile,
        CreateDir, NoParent, PassOver, CopyStored, InflateBuffer, CloseFile, FinishEntry,
        InflateFails, CloseLoses, IOFailure, Crash, AtWork, Running
  <2>3. pc' \in MemoStages => pc' = "ok"
    BY <1>1
    DEF Works, Step, Fault, ReadHeader, CentralDirectory, UnknownSignature, RefuseFlags, CreateFile,
        CreateDir, NoParent, PassOver, CopyStored, InflateBuffer, CloseFile, FinishEntry,
        InflateFails, CloseLoses, IOFailure, Crash, Ends, MakesFile, Supported, MemoStages
  <2>4. pc' = "ok" => AllDone(book)'
    <3>1. (pc = "ok" => \A i \in 1 .. Len(Archive[book]) :
                          Due(Archive[book][i]) => IntactOrLost(book, Archive[book][i]))'
      BY <2>1 DEF ExpandInv, DoneSoFar, DoneUpTo
    <3>2. book' = book /\ book \in Books
      BY <1>1, WhatStepsWrite DEF Works, MemoInv, PlaceOK
    <3> QED
      BY <3>1, <3>2, ArchiveFacts DEF AllDone
  <2> QED
    BY <1>1, <2>1, <2>2, <2>3, <2>4 DEF DiskInv, Works
<1>2. CASE Starts
  BY <1>2, StartKeeps DEF DiskInv, MemoStages
<1>3. CASE AtMemo
  <2>1. last = None /\ AllDone(book) /\ book \in Books
    BY <1>3 DEF AtMemo, DiskInv, MemoInv, PlaceOK
  <2>2. ExpandInv' /\ NoneTooLong' /\ AllDone(book)' /\ book' = book /\ pc' \notin AtWork \cup {"scan", "ok"}
    BY <1>3, <2>1, AtMemoKeeps DEF DiskInv
  <2>3. last' # None => last' = book /\ pc' = "idle"
    BY <1>3, <2>1
    DEF AtMemo, MemoStep, MemoCreate, MemoWrite, ExpandReturn, ReturnWithoutMemo, ReturnsOk, MemoFails,
        MemoCrash, Ends, epubVars
  <2>4. last' # None => AllDone(last)'
    BY <2>2, <2>3 DEF AllDone, IntactOrLost, Intact, Exists, Contents
  <2>5. last' # None => last' \in Books /\ pc' \notin AtWork \cup MemoStages \cup {"scan"}
    BY <2>1, <2>2, <2>3 DEF MemoStages, AtWork
  <2> QED
    BY <2>2, <2>4, <2>5 DEF DiskInv
<1>4. CASE Rests
  <2>1. ExpandInv' /\ NoneTooLong' /\ (pc' \in MemoStages => AllDone(book)')
    BY <1>4, RestKeeps DEF Rests, DiskInv, MemoStages
  <2>2. (last # None => last \in Books /\ AllDone(last) /\ pc \notin AtWork \cup MemoStages \cup {"scan"})'
    BY <1>4, RestKeeps DEF Rests, DiskInv, MemoStages, AtWork
  <2> QED
    BY <2>1, <2>2 DEF DiskInv
<1> QED
  BY <1>1, <1>2, <1>3, <1>4, StepsByKind

LEMMA DiskInitially == EPubInit => DiskInv
<1>1. EPubInit => ExpandInv
  BY ExpandInitially DEF EPubInit
<1> QED
  BY <1>1 DEF EPubInit, Init, DiskInv, NoneTooLong, Exists, MemoStages

LEMMA DiskInvariant == ASSUME SameSizes PROVE EPubSpec => []DiskInv
<1>1. InstancesOK /\ MemoInv /\ DiskInv /\ [EPubNext]_allVars => DiskInv'
  BY DiskKept
<1> QED
  BY <1>1, DiskInitially, InstancesInvariant, MemoInvariant, PTL DEF EPubSpec

(* Entries that inflate gets right and that are not passed over unseen.    *)
AllDue == \A e \in Entries : OneBuffer(e) /\ ~TakenForDescriptor(e)

LEMMA DoneIsOnDisk ==
  ASSUME AllDue, NEW b \in Books, AllDone(b)
  PROVE  OnDiskOrLost(b)
BY DEF AllDue, Entries, AllDone, Due, OnDiskOrLost

(* If files of one name have one size in every book, the book that expand  *)
(* last returned Ok for is on the disk, whichever books were expanded into *)
(* the directory before, and however that ended; all but the files whose   *)
(* closing failed unseen in that expansion.                                *)
THEOREM LastOnDisk ==
  ASSUME SameSizes, AllDue
  PROVE  EPubSpec => []LastExpandedOnDisk
<1>1. DiskInv => LastExpandedOnDisk
  BY DoneIsOnDisk DEF DiskInv, LastExpandedOnDisk
<1> QED
  BY <1>1, DiskInvariant, PTL

LEMMA LastMetadata ==
  ASSUME DiskInv, AllDue, last # None, Readable(last)
  PROVE  last \in Books /\ MetadataOnDisk(last)
<1>1. last \in Books /\ OnDiskOrLost(last)
  BY DoneIsOnDisk DEF DiskInv
<1>2. ASSUME NEW n \in Metadata(last) PROVE HoldsWhole(last, n)
  <2>1. PICK e \in Members(last) : e.name = n
    BY DEF Readable, HasMetadata
  <2>2. e.full > 0 /\ e.name \notin lost
    BY <1>1, <2>1, MetadataAssumption DEF Metadata, Readable
  <2> QED
    BY <1>1, <2>1, <2>2 DEF OnDiskOrLost, IntactOrLost, HoldsWhole
<1> QED
  BY <1>1, <1>2 DEF MetadataOnDisk

(* What an instance is left with by a step that changes what it holds.     *)
LEMMA ReadsLastStep ==
  ASSUME InstancesOK, DiskInv, AllDue, EPubNext, last # None, Readable(last), NEW j \in Instances
  PROVE  \/ inst'[j].package = inst[j].package /\ inst'[j].toc = inst[j].toc
         \/ {inst'[j].package, inst'[j].toc} \subseteq {last, None}
<1> DEFINE Goal == \/ inst'[j].package = inst[j].package /\ inst'[j].toc = inst[j].toc
                   \/ {inst'[j].package, inst'[j].toc} \subseteq {last, None}
<1>1. ASSUME NEW i \in Instances, NEW h, inst' = [inst EXCEPT ![i] = h],
             \/ h.package = inst[i].package /\ h.toc = inst[i].toc
             \/ {h.package, h.toc} \subseteq {last, None}
      PROVE  Goal
  BY <1>1 DEF InstancesOK
<1>2. CASE \E i \in Instances, b \in Books : New(i, b)
  <2>1. PICK i \in Instances, b \in Books : inst' = [inst EXCEPT ![i] = Fresh(b)]
    BY <1>2 DEF New
  <2>2. Fresh(b).package = None /\ Fresh(b).toc = None
    BY DEF Fresh, NoInstance
  <2> QED
    BY <1>1, <2>1, <2>2
<1>3. CASE \E i \in Instances : ExpandStart(i) \/ ExpandRefused(i)
  <2>1. PICK i \in Instances :
          \/ inst' = [inst EXCEPT ![i] = [Cleared(inst[i]) EXCEPT !.container = TRUE]]
          \/ inst' = [inst EXCEPT ![i] = Cleared(inst[i])]
    BY <1>3 DEF ExpandStart, ExpandRefused
  <2>2. inst[i] \in Held
    BY DEF InstancesOK
  <2>3. /\ Cleared(inst[i]).package = None /\ Cleared(inst[i]).toc = None
        /\ [Cleared(inst[i]) EXCEPT !.container = TRUE].package = None
        /\ [Cleared(inst[i]) EXCEPT !.container = TRUE].toc = None
    BY <2>2 DEF Cleared, Held
  <2> QED
    BY <1>1, <2>1, <2>3
<1>4. CASE \E i \in Instances, what \in Getters : Get(i, what)
  <2>1. PICK i \in Instances, r \in Results :
          ~Cached(inst[i]) /\ inst' = [inst EXCEPT ![i] = Holding(inst[i], r)]
    BY <1>4 DEF Get, ReadsDisk
  <2>2. r \in {Failed, Whole(last)} /\ last # None
    BY LastMetadata, WholeBookResults
  <2>3. inst[i] \in Held /\ inst[i].toc = None
    BY <2>1 DEF InstancesOK, CacheCoherent, Cached
  <2>4. r.package = None \/ (r.package = last /\ r.toc \in {last, None})
    BY <2>2 DEF Failed, Whole, Got
  <2>5. \/ /\ Holding(inst[i], r).package = inst[i].package
           /\ Holding(inst[i], r).toc = inst[i].toc
        \/ {Holding(inst[i], r).package, Holding(inst[i], r).toc} \subseteq {last, None}
    BY <2>2, <2>3, <2>4 DEF Holding, Held
  <2> QED
    BY <1>1, <2>1, <2>5
<1>5. CASE inst' = Nobody
  BY <1>5 DEF Nobody, NoInstance
<1>6. CASE UNCHANGED inst
  BY <1>6
<1> QED
  BY <1>2, <1>3, <1>4, <1>5, <1>6
  DEF EPubNext, AppCall, GetPanics, ExpandContinues, MemoStep, MemoCreate, MemoWrite, ExpandReturn,
      ReturnWithoutMemo, ReturnsOk, MemoFails, Restart, PowerCut, epubVars

(* If files of one name have one size in every book, no read of the        *)
(* directory mixes books: what an instance caches after an expand has      *)
(* returned Ok is of the expanded book alone.                              *)
THEOREM ReadsLast ==
  ASSUME SameSizes, AllDue
  PROVE  EPubSpec => ReadsLastExpanded
<1>1. InstancesOK /\ DiskInv /\ [EPubNext]_allVars
        => [last # None /\ Readable(last) =>
              \A i \in Instances :
                \/ inst'[i].package = inst[i].package /\ inst'[i].toc = inst[i].toc
                \/ {inst'[i].package, inst'[i].toc} \subseteq {last, None}]_allVars
  BY ReadsLastStep
<1> QED
  BY <1>1, InstancesInvariant, DiskInvariant, PTL DEF EPubSpec, ReadsLastExpanded

--------------------------------------------------------------------------------
(* A directory that only one book is expanded into.                        *)
OneBook == \A b, c \in Books : b = c

LEMMA OneBookSizes == ASSUME OneBook PROVE SameSizes /\ SamePathLengths
<1>1. ASSUME NEW e \in Entries, NEW f \in Entries, e.name = f.name PROVE e.full = f.full
  <2>1. PICK b \in Books : e \in Members(b) /\ f \in Members(b)
    BY DEF Entries, OneBook
  <2> QED
    BY <1>1, <2>1, ArchiveFacts
<1> QED
  BY <1>1 DEF SameSizes, SamePathLengths, OneBook

(* Once there is a memo, the files of the book are there to stay, or their *)
(* closing has failed.                                                     *)
AllSaved == Exists(Memo) => \A e \in Members(book) : Due(e) => Saved(e) \/ e.name \in lost

(* A file that is closed with no error is whole: it is lost no more.       *)
LEMMA ClosedIsSaved ==
  ASSUME ExpandInv, ExpandInv', CloseFile, NEW e \in Members(book), Due(e), e.name = At.name
  PROVE  Saved(e)'
<1>1. /\ pc \in Writing /\ pc' = "after" /\ lost' = lost \ {At.name} /\ UNCHANGED <<book, at>>
  BY DEF CloseFile, Writing
<1>2. e = At /\ At' = At /\ MakesFile(At)
  BY <1>1, AtFacts DEF ExpandInv, InStep, Writing, AtWork, At
<1>3. Due(At) => IntactOrLost(book, At)'
  <2>1. Due(At)' = Due(At) /\ MakesFile(At)' = MakesFile(At)
    BY <1>2
    DEF Due, OneBuffer, TakenForDescriptor, MakesFile, Supported, is_file, csize, usize, Streamed,
        have_data_descriptor
  <2> QED
    BY <1>1, <1>2, <2>1 DEF ExpandInv, DoneSoFar
<1>4. Intact(book, e)'
  BY <1>1, <1>2, <1>3 DEF IntactOrLost
<1> QED
  BY <1>1, <1>4 DEF Saved

LEMMA LostStays == ASSUME Step \/ Fault PROVE lost \subseteq lost' \/ CloseFile
BY DEF Step, ReadHeader, CentralDirectory, UnknownSignature, RefuseFlags, CreateFile, CreateDir,
       NoParent, PassOver, CopyStored, InflateBuffer, FinishEntry, Fault, InflateFails, CloseLoses,
       IOFailure, Crash, diskVars

LEMMA AllSavedKept ==
  ASSUME OneBook, InstancesOK, MemoInv, DiskInv, DiskInv', AllSaved, [EPubNext]_allVars
  PROVE  AllSaved'
<1>1. ExpandInv /\ ExpandInv' /\ book \in Books
  BY DEF DiskInv, MemoInv, PlaceOK
<1>2. CASE Works
  <2>1. book' = book /\ (Exists(Memo)' => Exists(Memo))
    BY <1>2, WhatStepsWrite, MemoUntouched DEF Works, MemoInv
  <2>2. ASSUME NEW e \in Members(book), Due(e), Exists(Memo) PROVE (Saved(e) \/ e.name \in lost)'
    <3>1. CASE Saved(e)
      BY <1>1, <1>2, <2>2, <3>1, SavedKept DEF Works, Due
    <3>2. CASE e.name \in lost /\ lost \subseteq lost'
      BY <3>2
    <3>3. CASE e.name \in lost /\ CloseFile
      <4>1. lost' = lost \ {At.name}
        BY <3>3 DEF CloseFile
      <4> QED
        BY <1>1, <2>2, <3>3, <4>1, ClosedIsSaved
    <3> QED
      BY <1>2, <2>2, <3>1, <3>2, <3>3, LostStays DEF Works, AllSaved
  <2> QED
    BY <2>1, <2>2 DEF AllSaved, Due, OneBuffer, TakenForDescriptor, Supported, have_data_descriptor
<1>3. CASE Starts
  <2>1. book' = book
    BY <1>1, <1>3 DEF Starts, ExpandStart, Open, InstancesOK, Held, OneBook
  <2>2. UNCHANGED <<files, lost>> /\ pc' = "scan"
    BY <1>3 DEF Starts, ExpandStart, Open
  <2> QED
    BY <2>1, <2>2 DEF AllSaved, Saved, Due, Intact, Exists, Contents
<1>4. CASE AtMemo
  <2>1. AllDone(book)' /\ book' = book /\ pc' # "stored"
    BY <1>1, <1>4, AtMemoKeeps DEF DiskInv, AtMemo, AtWork
  <2> QED
    BY <2>1 DEF AllDone, AllSaved, IntactOrLost, Saved
<1>5. CASE Rests
  BY <1>5 DEF Rests, AllSaved, Saved, Due, Intact, Exists, Contents, At, AtWork
<1> QED
  BY <1>2, <1>3, <1>4, <1>5, StepsByKind

(* In a directory of one book, has_expanded says so only when the book is  *)
(* on the disk, at whatever point an expand of it failed or the power went:*)
(* all but the files whose closing failed unseen.                          *)
THEOREM ExpandedMeansOnDisk ==
  ASSUME OneBook, AllDue
  PROVE  EPubSpec => []HasExpandedMeansOnDisk
<1>1. SameSizes
  BY OneBookSizes
<1>2. EPubInit => AllSaved
  BY DEF EPubInit, Init, AllSaved, Exists
<1>3. InstancesOK /\ MemoInv /\ DiskInv /\ DiskInv' /\ AllSaved /\ [EPubNext]_allVars => AllSaved'
  BY AllSavedKept
<1>4. MemoInv /\ AllSaved => HasExpandedMeansOnDisk
  <2> SUFFICES ASSUME MemoInv, AllSaved, NEW b \in Books, HasExpanded(b)
               PROVE  OnDiskOrLost(b)
    BY DEF HasExpandedMeansOnDisk
  <2>1. b = book /\ AllDone(b)
    BY DEF OneBook, MemoInv, PlaceOK, HasExpanded, AllSaved, Saved, AllDone, IntactOrLost
  <2> QED
    BY <2>1, DoneIsOnDisk
<1>5. EPubSpec => []DiskInv
  BY <1>1, DiskInvariant
<1> QED
  BY <1>2, <1>3, <1>4, <1>5, InstancesInvariant, MemoInvariant, PTL DEF EPubSpec

LEMMA MemoSavedKept ==
  ASSUME OneBook, MemoInv, InstancesOK, [EPubNext]_allVars, NEW b \in Books, MemoSaved(b)
  PROVE  MemoSaved(b)'
<1>1. Exists(Memo) /\ files[Memo] = Path[b] /\ book = b
  BY DEF MemoSaved, HasExpanded, MemoInv, PlaceOK, OneBook
<1>2. ASSUME UNCHANGED files, pc' # "written" \/ UNCHANGED <<pc, flushed>> PROVE MemoSaved(b)'
  BY <1>2 DEF MemoSaved, HasExpanded, Exists
<1>3. ASSUME Exists(Memo)', files'[Memo] = files[Memo], pc' # "written" \/ flushed' = Len(files[Memo])
      PROVE  MemoSaved(b)'
  BY <1>1, <1>3 DEF MemoSaved, HasExpanded
<1>4. CASE Works
  <2>1. pc' # "written"
    BY <1>4
    DEF Works, Step, Fault, ReadHeader, CentralDirectory, UnknownSignature, RefuseFlags, CreateFile,
        CreateDir, NoParent, PassOver, CopyStored, InflateBuffer, CloseFile, FinishEntry,
        InflateFails, CloseLoses, IOFailure, Crash, Ends, MakesFile, Supported
  <2> QED
    BY <1>1, <1>3, <1>4, <2>1, MemoUntouched DEF Works, MemoInv
<1>5. CASE Starts
  BY <1>2, <1>5 DEF Starts, ExpandStart, Open
<1>6. CASE MemoCreate
  BY <1>1, <1>3, <1>6, MemoCreated DEF MemoCreate, Put, Exists
<1>7. CASE MemoWrite
  <2>1. files'[Memo] = files[Memo] /\ Exists(Memo)'
    BY <1>1, <1>7, MemoWritten, PathFacts DEF Put, Exists, IsSeq
  <2>2. flushed' = Len(files[Memo])
    BY <1>7 DEF MemoWrite, MemoInv
  <2> QED
    BY <1>3, <2>1, <2>2
<1>8. CASE MemoIsCut
  <2>0. pc = "written" /\ (LosesUnflushed(Memo) \/ NotRecorded(Memo)) /\ pc' = "idle"
    BY <1>8 DEF MemoIsCut, MemoCrash, ReturnWithoutMemo, ReturnsOk, Ends
  <2>1. flushed = Len(files[Memo]) /\ Len(files[Memo]) \in Nat
    BY <1>1, <2>0, PathFacts DEF MemoSaved, IsSeq
  <2>2. PICK n, c :
          n \in flushed .. Len(files[Memo]) /\ files' = Put(Memo, c) /\ files'[Memo] = c /\ (n = Len(files[Memo]) => c = files[Memo])
    BY <2>0, MemoCut
  <2>3. n = Len(files[Memo])
    BY <2>1, <2>2
  <2> QED
    BY <1>3, <2>0, <2>2, <2>3 DEF Put, Exists
<1>9. CASE ExpandReturn \/ MemoFails \/ (MemoCrash /\ pc # "written")
  BY <1>2, <1>9 DEF ExpandReturn, ReturnsOk, MemoFails, MemoCrash, Ends, diskVars
<1>10. CASE Rests
  BY <1>2, <1>10 DEF Rests
<1> QED
  BY <1>4, <1>5, <1>6, <1>7, <1>8, <1>9, <1>10, StepsByKind
  DEF AtMemo, MemoStep, MemoIsCut, ReturnWithoutMemo, ReturnsOk

(* In a directory of one book, a memo that is safely written says so for   *)
(* ever, through failures, power cuts and further expansions.              *)
THEOREM ExpandedStays ==
  ASSUME OneBook
  PROVE  EPubSpec => HasExpandedStays
<1>1. MemoInv /\ InstancesOK /\ [EPubNext]_allVars
        => [\A b \in Books : MemoSaved(b) => MemoSaved(b)']_allVars
  BY MemoSavedKept
<1> QED
  BY <1>1, InstancesInvariant, MemoInvariant, PTL DEF EPubSpec, HasExpandedStays
================================================================================
