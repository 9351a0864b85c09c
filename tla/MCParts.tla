-------------------------------- MODULE MCParts --------------------------------
(***************************************************************************)
(* The sequential parts of the library, each with every input of a small   *)
(* size: `part` is the one that runs, the others stay as they are.  The    *)
(* three parsers share the reader and its document, and are fed what has   *)
(* the names of their format, whole or cut off.                            *)
(***************************************************************************)
EXTENDS TocParse, PackageParse, RootfileParse, Paths, ZipHeader, Mbr, BumpAlloc

VARIABLE part

Childless == {"meta", "text", "content", "identifier", "title", "creator", "date",
              "item", "itemref", "rootfile", "link"}
Branches ==
  [ncx |-> {"head", "docTitle", "docAuthor", "navMap"}, head |-> {"meta"},
   docTitle |-> {"text"}, docAuthor |-> {"text"}, navMap |-> {"navLabel", "navPoint"},
   navPoint |-> {"navLabel", "content", "navPoint"}, navLabel |-> {"text"},
   package |-> {"metadata", "manifest", "spine"},
   metadata |-> {"identifier", "title", "creator", "date", "meta"},
   manifest |-> {"item"}, spine |-> {"itemref"},
   container |-> {"rootfiles", "links"}, rootfiles |-> {"rootfile"}, links |-> {"link"}]
MCChildren == [n \in DOMAIN Branches \cup Childless |-> IF n \in Childless THEN {} ELSE Branches[n]]
MCOnce == DOMAIN Branches \ {"navPoint", "navLabel"}
MCMaxSize == [ncx |-> 7, package |-> 6, container |-> 7]
MCAttributes ==
  [n \in {"navPoint", "meta", "content", "identifier", "spine", "item", "itemref", "rootfile"} |->
     CASE n = "navPoint" -> {"good", "missing", "nonumber"}
       [] n = "meta" -> {"good", "property", "missing"}
       [] OTHER -> {"good", "missing"}]

A == <<"a">>
Tree(dirs, files) == [dirs |-> dirs, files |-> files]
MCTrees ==
  {Tree({}, {}), Tree({<<A>>}, {}), Tree({<<A>>, <<A, A>>}, {}),
   Tree({}, {<<A>>}), Tree({<<A>>}, {<<A, A>>})}

Init ==
  /\ part \in {"toc", "package", "rootfile", "paths", "header", "mbr", "alloc"}
  /\ ReaderInit /\ TocInit /\ PackageInit /\ RootfileInit
  /\ PathInit /\ HeaderInit /\ MbrInit /\ AllocInit

parsers == <<readerVars, tocVars, packageVars, rootfileVars>>
small == <<pathVars, headerVars, mbrVars, allocVars>>

Parses ==
  /\ \/ part = "toc" /\ TocNext /\ UNCHANGED <<packageVars, rootfileVars>>
     \/ part = "package" /\ PackageNext /\ UNCHANGED <<tocVars, rootfileVars>>
     \/ part = "rootfile" /\ RootfileNext /\ UNCHANGED <<tocVars, packageVars>>
  /\ UNCHANGED small
Computes ==
  /\ \/ part = "paths" /\ PathNext /\ UNCHANGED <<headerVars, mbrVars, allocVars>>
     \/ part = "header" /\ HeaderNext /\ UNCHANGED <<pathVars, mbrVars, allocVars>>
     \/ part = "mbr" /\ MbrNext /\ UNCHANGED <<pathVars, headerVars, allocVars>>
     \/ part = "alloc" /\ AllocNext /\ UNCHANGED <<pathVars, headerVars, mbrVars>>
  /\ UNCHANGED parsers
Next == (Parses \/ Computes) /\ UNCHANGED part

Spec == Init /\ [][Next]_<<part, parsers, small>>
================================================================================
