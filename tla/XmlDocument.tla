----------------------------- MODULE XmlDocument -----------------------------
(***************************************************************************)
(* What the library's parsers are fed: the events xml::Parser delivers for *)
(* a document, one after the other.  The parser is external.  A document   *)
(* is the table of its elements in the order of their start tags; nothing  *)
(* says where it ends, since the file may be cut off anywhere, and the     *)
(* parser lets an end tag pass that has another name than its start tag.   *)
(***************************************************************************)
EXTENDS Naturals, SequencesExt

CONSTANTS
  Children,    \* [name -> the names of the elements it may hold]
  Attributes,  \* [name -> what its attributes may be, for those that are asked for]
  Once,        \* the names of which a document holds one element at most
  Words,       \* what a piece of text may be, besides a newline
  MaxSize      \* bound: [root's name -> the number of elements and pieces of text]

Newline == "newline"

VARIABLES
  doc,     \* the elements so far: name, attributes, parent and their own text
  open,    \* those that are not closed, from the outside in
  said,    \* how many pieces of text there have been
  broken   \* an end tag did not match

docVars == <<doc, open, said, broken>>

Innermost == Last(open)

DocInit == doc = <<>> /\ open = <<>> /\ said = 0 /\ broken = FALSE

(* No attribute of the others is ever looked at. *)
AttributesOf(n) == IF n \in DOMAIN Attributes THEN Attributes[n] ELSE {"none"}

Room(root) == Len(doc) + said < MaxSize[root]

(* The start tag of an element; that of a document's first is its root. *)
Opens(root, n, attrs) ==
  /\ Room(root) /\ attrs \in AttributesOf(n)
  /\ IF doc = <<>> THEN n = root ELSE open # <<>> /\ n \in Children[doc[Innermost].name]
  /\ n \in Once => \A k \in DOMAIN doc : doc[k].name # n
  /\ doc' = Append(doc, [name |-> n, attrs |-> attrs, text |-> <<>>,
                         parent |-> IF open = <<>> THEN 0 ELSE Innermost])
  /\ open' = Append(open, Len(doc'))
  /\ UNCHANGED <<said, broken>>

Closes(n) ==
  /\ open # <<>> /\ doc[Innermost].name = n
  /\ open' = Front(open)
  /\ UNCHANGED <<doc, said, broken>>

ClosesWrongly(n) ==
  /\ open # <<>> /\ doc[Innermost].name # n
  /\ open' = Front(open)
  /\ broken' = TRUE
  /\ UNCHANGED <<doc, said>>

(* A newline between two tags is no one's text. *)
Says(w) ==
  /\ open # <<>>
  /\ IF w = Newline THEN UNCHANGED docVars
     ELSE /\ Room(doc[1].name)
          /\ doc' = [doc EXCEPT ![Innermost].text = Append(@, w)]
          /\ said' = said + 1
          /\ UNCHANGED <<open, broken>>

(* The elements that are whole, and where they are. *)
Whole(k) == k \in DOMAIN doc /\ ~Contains(open, k)
Named(k, n) == k \in DOMAIN doc /\ doc[k].name = n
Parent(k) == doc[k].parent
In(k, n) == Named(Parent(k), n)

(* s is those elements, in the order of the document. *)
Lists(s, elements) == Range(s) = elements /\ \A i, j \in DOMAIN s : i < j => s[i] < s[j]

(* What the elements of a set give, one behind the other in the order of   *)
(* the document: themselves, their texts one by one, and as one text.      *)
InOrder(set, of) == FlattenSeq([k \in 1 .. Len(of) |-> IF k \in set THEN of[k] ELSE <<>>])
Elements(set) == InOrder(set, [k \in 1 .. Len(doc) |-> <<k>>])
Texts(set) == InOrder(set, [k \in 1 .. Len(doc) |-> <<doc[k].text>>])
TextOf(set) == InOrder(set, [k \in 1 .. Len(doc) |-> doc[k].text])
==============================================================================
