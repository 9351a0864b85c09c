------------------------------- MODULE TocParse -------------------------------
(***************************************************************************)
(* navigation::Toc::read (src/src/navigation.rs): the table of contents is *)
(* collected from the events of an ncx document with a stack of start tags *)
(* and four flags.                                                         *)
(*                                                                         *)
(* Attributes: those that are asked for are there ("good"), one of them is *)
(* not ("missing"), or a playOrder is no number ("nonumber").              *)
(***************************************************************************)
EXTENDS XmlReader

ASSUME NavPointAttributes == AttributesOf("navPoint") \subseteq {"good", "missing", "nonumber"}

(* What an ncx is made of, as far as the flags rely on it. *)
ASSUME TocFormat ==
  /\ Children["navPoint"] \subseteq {"navLabel", "content", "navPoint"}
  /\ Children["navLabel"] \subseteq {"text"} /\ Children["docTitle"] \subseteq {"text"}
  /\ Children["text"] = {} /\ Children["content"] = {}
  /\ \A n \in Names :
       /\ "ncx" \notin Children[n]
       /\ n # "ncx" => {"docTitle", "navMap"} \cap Children[n] = {}
       /\ "navPoint" \in Children[n] => n \in {"navMap", "navPoint"}

VARIABLES
  in_head, in_doctitle, in_navmap, in_navpoint,
  nav_point,    \* the point being collected, or NoPoint
  nav_points, doc_title, meta_entries

flags == <<in_head, in_doctitle, in_navmap, in_navpoint>>
found == <<nav_points, doc_title, meta_entries>>
tocVars == <<flags, nav_point, found>>

NoPoint == [id |-> 0, label |-> <<>>, content |-> <<>>]
NewPoint(id) == [NoPoint EXCEPT !.id = id]

TocInit ==
  /\ in_head = FALSE /\ in_doctitle = FALSE /\ in_navmap = FALSE /\ in_navpoint = FALSE
  /\ nav_point = NoPoint /\ nav_points = <<>> /\ doc_title = <<>> /\ meta_entries = <<>>

(* ElementStart.  Only a navPoint of the navMap has its attributes read.   *)
Begins(n) == n = "navPoint" /\ in_navmap

ElementStart(n, attrs) ==
  /\ Starting("ncx", n, attrs)
  /\ Begins(n) => attrs = "good"
  /\ Push(n)
  /\ in_head' = (in_head \/ n = "head")
  /\ in_navmap' = (in_navmap \/ n = "navMap")
  /\ in_doctitle' = (in_doctitle \/ n = "docTitle")
  /\ in_navpoint' = (in_navpoint \/ Begins(n))
  /\ nav_point' = IF Begins(n) THEN NewPoint(Len(doc')) ELSE nav_point
  /\ UNCHANGED <<found, result>>

(* NavPoint::new: an attribute that is not there is an error, a playOrder  *)
(* that does not parse is unwrapped.                                       *)
BadNavPoint(attrs) ==
  /\ Starting("ncx", "navPoint", attrs) /\ Begins("navPoint") /\ attrs # "good"
  /\ result' = IF attrs = "missing" THEN "error" ELSE "panic"
  /\ in_navpoint' = TRUE
  /\ UNCHANGED <<stack, chars, in_head, in_doctitle, in_navmap, nav_point, found>>

TocCharacters(w) == Characters(w) /\ UNCHANGED tocVars

(* A point that has been pushed is not pushed again by the end of the      *)
(* navPoint around it (as if it were).                                     *)
Collected == IF nav_point = NoPoint THEN nav_points ELSE Append(nav_points, nav_point)
PointKept == nav_point
PointAfter == NoPoint
EndNavPoint ==
  /\ Ending("navPoint") /\ Pop /\ Asserted("navPoint")
  /\ in_navpoint' = FALSE
  /\ nav_points' = Collected
  /\ nav_point' = PointAfter
  /\ UNCHANGED <<in_head, in_doctitle, in_navmap, doc_title, meta_entries>>

EndText ==
  /\ Ending("text") /\ Pop /\ Asserted("text")
  /\ nav_point' = IF in_navpoint /\ nav_point # NoPoint
                  THEN [nav_point EXCEPT !.label = @ \o chars] ELSE nav_point
  /\ doc_title' = IF ~in_navpoint /\ in_doctitle THEN doc_title \o chars ELSE doc_title
  /\ UNCHANGED <<flags, nav_points, meta_entries>>

(* A content's src is read when it ends. *)
TakesContent == in_navpoint /\ nav_point # NoPoint
EndContent ==
  /\ Ending("content")
  /\ TakesContent => TopHas({"good"})
  /\ Pop /\ Asserted("content")
  /\ nav_point' = IF TakesContent
                  THEN [nav_point EXCEPT !.content = Append(@, Top.num)] ELSE nav_point
  /\ UNCHANGED <<flags, found>>

EndMeta ==
  /\ Ending("meta")
  /\ in_head => TopHas({"good", "property"})
  /\ Pop /\ Asserted("meta")
  /\ meta_entries' = IF in_head THEN Append(meta_entries, NewMeta) ELSE meta_entries
  /\ UNCHANGED <<flags, nav_point, nav_points, doc_title>>

(* A content without src is an error, a meta without name a panic, and so  *)
(* is an end tag that does not match, unless it takes another's attributes *)
(* for those of a content.                                                 *)
EndBad ==
  /\ \/ Ending("content") /\ TakesContent /\ ~TopHas({"good"}) /\ result' = "error"
     \/ Ending("meta") /\ in_head /\ TopHas({"missing"}) /\ result' = "panic"
     \/ \E n \in {"content", "other"} :
          EndingWrongly(n) /\ result' = IF n = "content" /\ TakesContent THEN "error" ELSE "panic"
  /\ Pop
  /\ UNCHANGED tocVars

(* As if only the navMap's flag were put back. *)
FlagsDownMap(n) ==
  /\ in_navmap' = (in_navmap /\ n # "navMap")
  /\ UNCHANGED <<in_head, in_doctitle>>
FlagsDown(n) ==
  /\ in_head' = (in_head /\ n # "head")
  /\ in_navmap' = (in_navmap /\ n # "navMap")
  /\ in_doctitle' = (in_doctitle /\ n # "docTitle")

EndOther(n) ==
  /\ n \notin {"navPoint", "text", "content", "meta"}
  /\ Ending(n) /\ Pop /\ Asserted(n)
  /\ FlagsDown(n)
  /\ UNCHANGED <<in_navpoint, nav_point, found>>

TocStop == Stopping({"ok", "error"}) /\ UNCHANGED tocVars

TocNext ==
  \/ \E n \in Names : \E a \in AttributesOf(n) : ElementStart(n, a)
  \/ \E a \in AttributesOf("navPoint") : BadNavPoint(a)
  \/ \E w \in Words \cup {Newline} : TocCharacters(w)
  \/ EndNavPoint \/ EndText \/ EndContent \/ EndMeta \/ EndBad
  \/ \E n \in Names : EndOther(n)
  \/ TocStop

TocSpec == ReaderInit /\ TocInit /\ [][TocNext]_<<readerVars, tocVars>>

--------------------------------------------------------------------------------
(* What the document says: the whole navPoints of the map that hold no     *)
(* other, in order, each with its own label and content.                   *)
Label(p) == TextOf({k \in DOMAIN doc : Named(k, "text") /\ Parent(Parent(k)) = p})
Src(p) == Elements({k \in DOMAIN doc : Named(k, "content") /\ Parent(k) = p})
Point(p) == [id |-> p, label |-> Label(p), content |-> Src(p)]
Leaf(k) == Named(k, "navPoint") /\ \A c \in DOMAIN doc : Named(c, "navPoint") => Parent(c) # k
Leaves == {k \in DOMAIN doc : Leaf(k) /\ Whole(k)}

(* The navigation points that are collected are exactly the innermost ones,*)
(* with nothing of a point around them or beside them, wherever the file   *)
(* is cut off.  (A point that holds others is not kept: the first one in   *)
(* it takes its place.)                                                    *)
LeavesAreKept ==
  result \in {"reading", "ok"} =>
    nav_points = InOrder(Leaves, [p \in 1 .. Len(doc) |-> <<Point(p)>>])

(* The title is the text of docTitle, with no other element's text in it. *)
Titles == {k \in DOMAIN doc : Named(k, "text") /\ In(k, "docTitle") /\ Whole(k)}
TitleIsItsOwn == result \in {"reading", "ok"} => doc_title = TextOf(Titles)
================================================================================
