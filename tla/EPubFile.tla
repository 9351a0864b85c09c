------------------------------- MODULE EPubFile -------------------------------
(***************************************************************************)
(* EPubFile (src/src/lib.rs): what an application holds of a book.  Several*)
(* instances may be made for books that are expanded into one directory,   *)
(* as an application does that keeps a current book.  expand runs          *)
(* Container::expand and then writes a memo of the epub's path next to the *)
(* expanded files; has_expanded reads the memo; get_package and get_toc    *)
(* read the expanded metadata once and cache it.                           *)
(*                                                                         *)
(* Instances live in memory and the disk outlives them.  Calls exclude one *)
(* another, since each borrows the file system mutably.  A parsed file is  *)
(* known by the book whose bytes it held, or Torn if it held no whole file *)
(* of any: what the parser then makes of it is left open.                  *)
(* A whole file is one its parser takes: the parsers' own asserts and      *)
(* panics on metadata they do not know are not modelled here.              *)
(***************************************************************************)
EXTENDS Container

CONSTANTS
  Instances,   \* EPubFile values the application may hold at a time
  None, Torn,
  Memo,        \* EPUB_FILE_MEMO in the directory
  Path,        \* [Books -> Seq]: epub_filepath, the contents of the memo
  RootXml,     \* META-INF/container.xml
  Opf,         \* [Books -> name]: the rootfile it names, or None
  Ncx          \* [Books -> name]: the item that its spine's toc names, or None

ASSUME PathAssumption ==
  \A b \in Books :
    /\ Path[b] \in Seq({Path[b][k] : k \in 1 .. Len(Path[b])})
    /\ Len(Path[b]) \in 1 .. ClusterSize
ASSUME NameAssumption ==
  /\ Memo \notin {e.name : e \in Entries}
  /\ None \notin Books /\ Torn \notin Books /\ None # Torn
  /\ "error" \notin Books \cup {Torn}
(* No parser takes an empty file for metadata. *)
ASSUME MetadataAssumption ==
  \A b \in Books : \A e \in Members(b) : e.name \in {RootXml, Opf[b], Ncx[b]} => e.full > 0

VARIABLES
  inst,   \* the instances: book, container, package, toc, and the package
          \* that toc was found through
  last    \* the book that expand last returned Ok for, None once another starts

epubVars == <<inst, last>>
allVars == <<vars, epubVars>>

(* The application has control: no call runs, and the process is alive.    *)
Idle == pc \in Final \ {"ok"}
MemoStages == {"ok", "memo", "written"}

NoInstance ==
  [book |-> None, container |-> FALSE, package |-> None, toc |-> None, via |-> None]
Nobody == [i \in Instances |-> NoInstance]
Fresh(b) == [NoInstance EXCEPT !.book = b]

EPubInit ==
  /\ Init /\ book = CHOOSE b \in Books : TRUE
  /\ inst = Nobody /\ last = None

(* EPubFile::new, in place of an instance that is dropped. *)
New(i, b) ==
  /\ Idle
  /\ inst' = [inst EXCEPT ![i] = Fresh(b)]
  /\ UNCHANGED <<vars, last>>

(* As if the toc were not cleared with the rest. *)
ClearedKeepingToc(e) == [e EXCEPT !.container = FALSE, !.package = None]
Cleared(e) == [e EXCEPT !.container = FALSE, !.package = None, !.toc = None, !.via = None]

(* expand: the caches are cleared, the directories made, the container set *)
(* (before anything is known of its contents), the epub opened.            *)
ExpandStart(i) ==
  /\ Idle /\ inst[i].book # None
  /\ inst' = [inst EXCEPT ![i] = [Cleared(@) EXCEPT !.container = TRUE]]
  /\ dirs' = dirs \cup {RootDir}
  /\ Open(inst[i].book)
  /\ last' = None

(* create_dirs fails. *)
ExpandRefused(i) ==
  /\ Idle /\ inst[i].book # None
  /\ inst' = [inst EXCEPT ![i] = Cleared(@)]
  /\ pc' = "io"
  /\ last' = None
  /\ UNCHANGED <<diskVars, book, at, unread, todo, off, flushed>>

ExpandContinues ==
  /\ Step \/ InflateFails \/ CloseLoses \/ IOFailure
  /\ UNCHANGED epubVars

(* As if the result of Container::expand were not looked at. *)
MemoCreateAlways ==
  /\ pc \in {"ok", "io"}
  /\ Creates(Memo)
  /\ flushed' = Len(files'[Memo])
  /\ pc' = "memo"
  /\ UNCHANGED <<dirs, lost, book, at, unread, todo, off, epubVars>>

(* After Container::expand has returned Ok: the memo is created and written*)
(* to, either of which may fail, and expand then returns the error.        *)
MemoCreate ==
  /\ pc = "ok"
  /\ Creates(Memo)
  /\ flushed' = Len(files'[Memo])
  /\ pc' = "memo"
  /\ UNCHANGED <<dirs, lost, book, at, unread, todo, off, epubVars>>

MemoWrite ==
  /\ pc = "memo"
  /\ files' = Put(Memo, WriteAt(files[Memo], 0, Path[book]))
  /\ pc' = "written"
  /\ UNCHANGED <<dirs, lost, book, at, unread, todo, off, flushed, epubVars>>

(* The memo is closed by being dropped, like a stored file: if that fails, *)
(* its directory entry stays as it was and expand returns Ok all the same. *)
ReturnsOk ==
  /\ pc = "written"
  /\ Ends("idle")
  /\ last' = book
  /\ UNCHANGED <<dirs, inst>>

ExpandReturn ==
  /\ ReturnsOk
  /\ lost' = lost \ {Memo}
  /\ UNCHANGED files

ReturnWithoutMemo ==
  /\ ReturnsOk
  /\ NotRecorded(Memo)
  /\ lost' = lost \cup {Memo}

(* As if the result of writing the memo were not looked at. *)
MemoErrorIgnored ==
  /\ pc \in {"ok", "memo"}
  /\ pc' = "written"
  /\ UNCHANGED <<diskVars, book, at, unread, todo, off, flushed, epubVars>>

MemoFails ==
  /\ pc \in {"ok", "memo"}
  /\ Ends("io")
  /\ UNCHANGED <<diskVars, epubVars>>

(* has_expanded: the first line of the memo is the path of the epub. *)
HasExpanded(b) == Exists(Memo) /\ files[Memo] = Path[b]

(* What opening and parsing a file may come to: an error, always; else the *)
(* book it is of, if it holds a whole file of one, or Torn.                *)
HoldsWhole(b, name) == \E e \in Members(b) : e.name = name /\ Intact(b, e)
Parses(name) ==
  LET whole == {b \in Books : HoldsWhole(b, name)}
  IN  {"error"} \cup (IF ~Exists(name) THEN {} ELSE IF whole # {} THEN whole ELSE {Torn})

(* The file that one of source names: a torn one may name any, or none. *)
Names(link, source) ==
  IF source = Torn THEN {link[b] : b \in Books} \cup {None} ELSE {link[source]}

(* read_container's way through the files: container.xml names the opf,    *)
(* the opf the ncx.  A torn file may also trip one of the parser's panics. *)
Failed == [res |-> "error", package |-> None, toc |-> None]
Panics == [res |-> "panic", package |-> None, toc |-> None]
Got(package, toc) == [res |-> "ok", package |-> package, toc |-> toc]
Parsed(source, results) ==
  IF source = "error" THEN {Failed} ELSE IF source = Torn THEN results \cup {Panics} ELSE results

(* As if an error of Toc::read were dropped and the package kept. *)
TocErrorDropped(package, ncx) ==
  IF ncx = None THEN {Got(package, None)}
  ELSE UNION {IF t = "error" THEN {Got(package, None)} ELSE {Got(package, t)} : t \in Parses(ncx)}
TocResults(package, ncx) ==
  IF ncx = None THEN {Got(package, None)}
  ELSE UNION {Parsed(t, {Got(package, t)}) : t \in Parses(ncx)}
PackageResults(opf) ==
  IF opf = None THEN {Got(None, None)}
  ELSE UNION {Parsed(p, UNION {TocResults(p, n) : n \in Names(Ncx, p)}) : p \in Parses(opf)}
Results ==
  UNION {Parsed(r, UNION {PackageResults(o) : o \in Names(Opf, r)}) : r \in Parses(RootXml)}

(* What the instance holds then.  An error leaves package and toc alone    *)
(* (the package is set last), but the container is set either way.         *)
Holding(e, r) ==
  LET c == [e EXCEPT !.container = TRUE]
  IN  CASE r.package = None -> c
        [] r.package # None /\ r.toc = None -> [c EXCEPT !.package = r.package]
        [] OTHER -> [c EXCEPT !.package = r.package, !.toc = r.toc, !.via = r.package]

(* read_container, and get_package and get_toc, which unwrap a field after *)
(* it: what is that field.  A call that is served from the cache, or finds *)
(* nothing expanded, changes nothing and is not a step.                    *)
Cached(e) == e.package # None /\ e.toc # None
ReadsDisk(i) ==
  /\ Idle /\ inst[i].book # None
  /\ ~Cached(inst[i])
  /\ inst[i].container \/ HasExpanded(inst[i].book)
Getters == {"package", "toc", "container"}
Unwraps(e, what) == what \in {"package", "toc"} => e[what] # None
Aborts(e, r, what) ==
  r.res = "panic" \/ (r.res = "ok" /\ ~Unwraps(Holding(e, r), what))

Get(i, what) ==
  /\ ReadsDisk(i)
  /\ \E r \in Results :
        /\ ~Aborts(inst[i], r, what)
        /\ inst' = [inst EXCEPT ![i] = Holding(@, r)]
  /\ UNCHANGED <<vars, last>>

(* A panic aborts the process (Cargo.toml), and all instances go with it.  *)
MayPanic(i, what) == ReadsDisk(i) /\ \E r \in Results : Aborts(inst[i], r, what)
GetPanics(i, what) ==
  /\ MayPanic(i, what)
  /\ pc' = "panicked"
  /\ inst' = Nobody
  /\ UNCHANGED <<diskVars, book, at, unread, todo, off, flushed, last>>

Restart ==
  /\ pc = "panicked"
  /\ pc' = "idle"
  /\ UNCHANGED <<diskVars, book, at, unread, todo, off, flushed, epubVars>>

(* The power goes: in Container::expand, around the memo, or between calls.*)
MemoCrash ==
  /\ pc \in MemoStages
  /\ IF pc = "written" THEN LosesUnflushed(Memo) ELSE UNCHANGED files
  /\ Ends("idle")
  /\ UNCHANGED <<dirs, lost>>

PowerCut ==
  /\ Crash \/ MemoCrash \/ (Idle /\ UNCHANGED vars)
  /\ inst' = Nobody
  /\ UNCHANGED last

AppCall ==
  \E i \in Instances :
    \/ \E b \in Books : New(i, b)
    \/ ExpandStart(i) \/ ExpandRefused(i)
    \/ \E what \in Getters : Get(i, what) \/ GetPanics(i, what)

MemoStep == MemoCreate \/ MemoWrite \/ ExpandReturn \/ ReturnWithoutMemo

EPubNext == AppCall \/ ExpandContinues \/ MemoStep \/ MemoFails \/ Restart \/ PowerCut

EPubSpec == EPubInit /\ [][EPubNext]_allVars

--------------------------------------------------------------------------------
OnDisk(b) == \A e \in Members(b) : e.full > 0 => Intact(b, e)
OnDiskOrLost(b) == \A e \in Members(b) : e.full > 0 => IntactOrLost(b, e)

(* The metadata of a book are in the epub, or on the disk.                 *)
Metadata(b) == {RootXml} \cup ({Opf[b], Ncx[b]} \ {None})
HasMetadata(b) == \A n \in Metadata(b) : \E e \in Members(b) : e.name = n
MetadataOnDisk(b) == \A n \in Metadata(b) : HoldsWhole(b, n)
(* What a book has for the caller of a getter. *)
Offers(b, what) ==
  /\ what \in {"package", "toc"} => Opf[b] # None
  /\ what = "toc" => Ncx[b] # None

(* A memo is never ahead of the files: when has_expanded says so, the book *)
(* is on the disk, whatever was cut short before (expand writes the memo   *)
(* last, and expanding again overwrites the files with the same bytes).    *)
(* Only a file whose closing failed unseen can be missing from it.         *)
HasExpandedMeansOnDisk == Idle => \A b \in Books : HasExpanded(b) => OnDiskOrLost(b)

(* Once the memo is on the disk, no failure, power cut or second expand    *)
(* makes has_expanded unsay it.                                            *)
MemoSaved(b) == HasExpanded(b) /\ (pc = "written" => flushed = Len(files[Memo]))
HasExpandedStays == [][\A b \in Books : MemoSaved(b) => MemoSaved(b)']_allVars

(* get_package and get_toc unwrap only what is there: while the metadata of*)
(* a book is on the disk, no call for what the book has aborts the process,*)
(* in whatever state errors and earlier calls have left the instance.  A   *)
(* book without a toc, or without a rootfile, must still give the rest.    *)
NoPanicOnWholeBook ==
  \A b \in Books : MetadataOnDisk(b) =>
    \A i \in Instances, what \in Getters : Offers(b, what) => ~MayPanic(i, what)

(* The cached toc is the one the cached package names: never one kept from *)
(* before a re-expansion, never one whose package was lost to an error.    *)
CacheCoherent ==
  \A i \in Instances : inst[i].toc # None => inst[i].package # None /\ inst[i].via = inst[i].package

(* After expand has returned Ok, whoever reads the directory reads that    *)
(* book: an instance that takes something new into its caches, its own     *)
(* book's or another's, is left with parts of the expanded book and of no  *)
(* other, whatever it held and whichever files other books left behind.    *)
Readable(b) == HasMetadata(b) /\ lost \cap Metadata(b) = {}
ReadsLastExpanded ==
  [][last # None /\ Readable(last) =>
       \A i \in Instances :
         \/ inst'[i].package = inst[i].package /\ inst'[i].toc = inst[i].toc
         \/ {inst'[i].package, inst'[i].toc} \subseteq {last, None}]_allVars

(* The book that expand last returned Ok for is on the disk, and the memo  *)
(* names it, whatever book was expanded into the directory before (with    *)
(* paths and files of the same lengths); but for the file, or the memo,    *)
(* whose closing failed unseen in that expansion.                          *)
LastExpandedOnDisk == last # None => OnDiskOrLost(last)
LastExpandedHasMemo == last # None => HasExpanded(last) \/ Memo \in lost

(* The doc comment of expand: "expand the epub file into a directory".  An *)
(* expand that returns Ok has done so, all of it.                          *)
OkMeansOnDisk == last # None => OnDisk(last)
================================================================================
