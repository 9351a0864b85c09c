------------------------------ MODULE RootfileParse ------------------------------
(***************************************************************************)
(* Container::get_container_rootfile (src/src/container.rs): the root file *)
(* is taken from the events of container.xml.  Text is not looked at, and  *)
(* nothing compares the names of a start tag and its end tag.              *)
(***************************************************************************)
EXTENDS XmlReader

(* What container.xml is made of, as far as the flag relies on it. *)
ASSUME ContainerFormat ==
  /\ Children["rootfiles"] = {"rootfile"}
  /\ Children["rootfile"] = {} /\ AttributesOf("rootfile") \subseteq {"good", "missing"}
  /\ \A n \in Names :
       /\ "container" \notin Children[n]
       /\ n # "container" => "rootfiles" \notin Children[n]
       /\ n # "rootfiles" => "rootfile" \notin Children[n]

VARIABLES
  in_rootfiles,
  root_file      \* the element it was made of, 0 for None

rootfileVars == <<in_rootfiles, root_file>>

RootfileInit == in_rootfiles = FALSE /\ root_file = 0

RootfileStart(n, attrs) ==
  /\ Starting("container", n, attrs)
  /\ Push(n)
  /\ in_rootfiles' = (in_rootfiles \/ n = "rootfiles")
  /\ UNCHANGED <<result, root_file>>

(* ElementEnd of whatever name: the flag is put back before it is asked    *)
(* for, and each element that ends under it replaces the root file (as if  *)
(* the first were kept).                                                   *)
Takes(n) == in_rootfiles /\ n # "rootfiles"
ChosenFirst == IF root_file = 0 THEN Top.num ELSE root_file
Chosen == Top.num
RootfileEnd(n) ==
  /\ Ending(n) \/ EndingWrongly(n)
  /\ Pop
  /\ in_rootfiles' = (in_rootfiles /\ n # "rootfiles")
  /\ root_file' = IF Takes(n) /\ TopHas({"good"}) THEN Chosen ELSE root_file
  /\ result' = IF Takes(n) /\ ~TopHas({"good"}) THEN "panic" ELSE "reading"

RootfileStop == Stopping({"ok", "error"}) /\ UNCHANGED rootfileVars

RootfileNext ==
  \/ \E n \in Names : \E a \in AttributesOf(n) : RootfileStart(n, a)
  \/ \E n \in Names : RootfileEnd(n)
  \/ RootfileStop

RootfileSpec == ReaderInit /\ RootfileInit /\ [][RootfileNext]_<<readerVars, rootfileVars>>

--------------------------------------------------------------------------------
(* Of several root files the last is returned, and of container.xml cut    *)
(* off the last whole one; None if it has none.  Links are not taken for   *)
(* root files, before or behind them.                                      *)
RootfileIsLast ==
  LET rootfiles == {k \in DOMAIN doc : Named(k, "rootfile") /\ Whole(k)}
  IN  result \in {"reading", "ok"} /\ ~broken =>
        IF Named(1, "container")
        THEN root_file \in rootfiles \cup {0} /\ \A k \in rootfiles : k <= root_file
        ELSE root_file = 0
================================================================================
