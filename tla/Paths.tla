--------------------------------- MODULE Paths ---------------------------------
(***************************************************************************)
(* The path functions (src/src/io.rs), the base directory that             *)
(* Package::read makes of the opf's path (src/src/package.rs), and         *)
(* create_dirs, which EPubFile::expand calls first: one step opens or makes*)
(* the next directory.  A path is a sequence of characters.                *)
(***************************************************************************)
EXTENDS Naturals, SequencesExt

CONSTANTS
  Chars,    \* the characters, "/" and "." among them
  MaxPath,  \* bound: the length of a path
  Trees     \* what may be on the disk: [dirs |-> .., files |-> ..] of sequences of names

Slash == "/"
Dot == "."

ASSUME MaxPathAssumption == MaxPath \in Nat
(* A directory that is not in the root is in one, and no file has its name.*)
ASSUME TreesAssumption ==
  \A t \in Trees :
    /\ t = [dirs |-> t.dirs, files |-> t.files] /\ t.dirs \cap t.files = {}
    /\ \A d \in t.dirs : Len(d) > 1 => Front(d) \in t.dirs

VARIABLES
  ppc,     \* "start", "given", "walk", "ok" or "error"
  path,    \* the argument
  curdir,  \* the directory reached, as the names on the way
  made     \* the directories and the files of the disk

pathVars == <<ppc, path, curdir, made>>

(* split_path: a chunk ends at a slash or with the path, and is a name     *)
(* unless it is empty; as if the empty ones were kept.                     *)
KeptAll(names, chunk) == Append(names, chunk)
Kept(names, chunk) == IF chunk = <<>> THEN names ELSE Append(names, chunk)
AddChar(found, c) ==
  IF c = Slash THEN [names |-> Kept(found.names, found.chunk), chunk |-> <<>>]
  ELSE [found EXCEPT !.chunk = Append(@, c)]
Chunks(p) ==
  LET upto[n \in 0 .. Len(p)] ==
        IF n = 0 THEN [names |-> <<>>, chunk |-> <<>>] ELSE AddChar(upto[n - 1], p[n])
  IN  upto[Len(p)]
SplitPath(p) == Kept(Chunks(p).names, Chunks(p).chunk)

(* basename_and_ext: the last name is cut at its first dot.  A path without*)
(* a name is unwrapped.                                                    *)
IsDot(c) == c = Dot
Basename(name) ==
  IF Dot \in Range(name) THEN SubSeq(name, 1, SelectInSeq(name, IsDot) - 1) ELSE name
BasenameAndExt(p) ==
  LET name == Last(SplitPath(p))
  IN  <<Basename(name), SubSeq(name, Len(Basename(name)) + 1, Len(name))>>

(* opf_file_name.split(&base_name.0).next(): what is in front of the first *)
(* place the base name is found at; as if the names were joined again.     *)
FoundAt(p, part) == {i \in 1 .. Len(p) + 1 - Len(part) : SubSeq(p, i, i + Len(part) - 1) = part}
BaseDirJoined(p) == FlattenSeq(Front(SplitPath(p)))
BaseDir(p) ==
  LET at == CHOOSE i \in FoundAt(p, BasenameAndExt(p)[1]) :
              \A j \in FoundAt(p, BasenameAndExt(p)[1]) : i <= j
  IN  SubSeq(p, 1, at - 1)

PathInit == ppc = "start" /\ path = <<>> /\ curdir = <<>> /\ made = [dirs |-> {}, files |-> {}]

Given(p) ==
  /\ ppc = "start" /\ ppc' = "given"
  /\ path' = p /\ made' \in Trees
  /\ UNCHANGED curdir

(* The directories that are asked for have names, and not "." or "..". *)
CreateDirs ==
  /\ ppc = "given" /\ ppc' = "walk"
  /\ \A i \in DOMAIN SplitPath(path) : \E c \in Range(SplitPath(path)[i]) : c # Dot
  /\ UNCHANGED <<path, curdir, made>>

(* The directory is entered, or made and entered; as if each were made in  *)
(* the root.                                                               *)
NextDir == Append(curdir, SplitPath(path)[Len(curdir) + 1])
Walking == ppc = "walk" /\ Len(curdir) < Len(SplitPath(path))
PlacedFlat == <<Last(NextDir)>>
Placed == NextDir
OpenOrCreate ==
  /\ Walking /\ NextDir \notin made.files
  /\ made' = [made EXCEPT !.dirs = @ \cup {Placed}]
  /\ curdir' = NextDir
  /\ UNCHANGED <<ppc, path>>

(* A file has the name, or the device fails. *)
CreateFails ==
  /\ Walking /\ ppc' = "error"
  /\ UNCHANGED <<path, curdir, made>>

CreateDone ==
  /\ ppc = "walk" /\ ~Walking /\ ppc' = "ok"
  /\ UNCHANGED <<path, curdir, made>>

PathNext ==
  \/ \E n \in 0 .. MaxPath : \E p \in [1 .. n -> Chars] : Given(p)
  \/ CreateDirs \/ OpenOrCreate \/ CreateFails \/ CreateDone

PathSpec == PathInit /\ [][PathNext]_pathVars

--------------------------------------------------------------------------------
(* The names are the longest runs of characters that are no slash, in their*)
(* order: slashes in front, behind and next to each other make no name.    *)
RunAt(i) ==
  LET ends == {j \in i .. Len(path) : \A k \in i .. j : path[k] # Slash}
  IN  SubSeq(path, i, i + Cardinality(ends) - 1)
SplitIsRuns ==
  LET starts == {i \in DOMAIN path : path[i] # Slash /\ (i = 1 \/ path[i - 1] = Slash)}
  IN  /\ Len(SplitPath(path)) = Cardinality(starts)
      /\ \A i \in starts : SplitPath(path)[Cardinality({j \in starts : j <= i})] = RunAt(i)

(* The base directory and the file's name make the path, to which hrefs can*)
(* be relative, if the base name is not found in a directory's name before *)
(* (of content/content.opf it is empty, and the toc is then looked for in  *)
(* the wrong place); it is empty if the name starts with the dot.          *)
BaseDirIsLeading ==
  path # <<>> /\ Last(path) # Slash =>
    LET name == Last(SplitPath(path))
        leading == SubSeq(path, 1, Len(path) - Len(name))
        before == {i \in FoundAt(path, Basename(name)) : i <= Len(leading)}
    IN  /\ Basename(name) # <<>> /\ before = {} => BaseDir(path) = leading
        /\ Basename(name) = <<>> => BaseDir(path) = <<>>

(* After create_dirs every directory on the path is there, whatever of it  *)
(* was there before; at all times each directory is in one that is there,  *)
(* and none has taken a file's name.                                       *)
DirsArePath ==
  /\ \A d \in made.dirs : Len(d) > 1 => Front(d) \in made.dirs
  /\ made.dirs \cap made.files = {}
  /\ ppc = "ok" => \A n \in DOMAIN SplitPath(path) : SubSeq(SplitPath(path), 1, n) \in made.dirs
================================================================================
