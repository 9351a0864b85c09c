------------------------------ MODULE MCEPubFile ------------------------------
(***************************************************************************)
(* Books "a" and "b" share every file name, as epubs made by the same tool *)
(* do; their files are all of the same length, and so are their paths.     *)
(* "nav" is like them but has no ncx.  "long" has a longer opf and path.   *)
(* The opf is stored, so closing it may lose it.  There is no directory    *)
(* META-INF/; MCContainer has one.                                         *)
(***************************************************************************)
EXTENDS EPubFile, TLC

Entry(name, parent, method, len) ==
  [name |-> name, parent |-> parent, dir |-> FALSE, method |-> method,
   len |-> len, full |-> len, bits |-> {}]

BookOf(opfLen) ==
  << Entry("container.xml", "expanded", "deflated", 1),
     Entry("content.opf", "expanded", "stored", opfLen) >>
Toc == <<Entry("toc.ncx", "expanded", "deflated", 1)>>

MCArchive ==
  [a |-> BookOf(1) \o Toc, b |-> BookOf(1) \o Toc, nav |-> BookOf(1), long |-> BookOf(2) \o Toc]
MCPath ==
  [a |-> <<"e", "a">>, b |-> <<"e", "b">>, nav |-> <<"e", "n">>, long |-> <<"e", "l", "g">>]
MCOpf == [b \in DOMAIN MCArchive |-> "content.opf"]
MCNcx == [b \in DOMAIN MCArchive |-> IF b = "nav" THEN "none" ELSE "toc.ncx"]

(* Which of the instances is which matters to no property of the run that  *)
(* takes this; none of them is a liveness property.                        *)
Interchangeable == Permutations(Instances)
================================================================================
