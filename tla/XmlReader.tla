------------------------------- MODULE XmlReader -------------------------------
(***************************************************************************)
(* What Toc::read, Package::read and get_container_rootfile have in common:*)
(* a stack of start tags that end tags pop, the text since the last start  *)
(* tag, and the ways a reader ends.  An element is known by its number in  *)
(* the document, which stands for the values of its attributes.  One       *)
(* action of a reader is the handling of one event.                        *)
(***************************************************************************)
EXTENDS XmlDocument

VARIABLES
  stack,   \* the start tags
  chars,   \* the text since the last of them
  result   \* "reading", "ok", "error", "panic" or, behind the last line, "panic at end"

readerVars == <<docVars, stack, chars, result>>

ReaderInit == DocInit /\ stack = <<>> /\ chars = <<>> /\ result = "reading"

Tag(n) == [name |-> n, num |-> Len(doc) + 1]
Top == Last(stack)
TopHas(attrs) == doc[Top.num].attrs \in attrs

(* ElementStart, as far as it is the same everywhere; as if what is on the *)
(* stack were only what has a flag.                                        *)
PushFlagged(n) ==
  /\ stack' = IF n \in {"navLabel", "item"} THEN stack ELSE Append(stack, Tag(n))
  /\ chars' = <<>>
Push(n) ==
  /\ stack' = Append(stack, Tag(n))
  /\ chars' = <<>>
Starting(root, n, attrs) == result = "reading" /\ Opens(root, n, attrs)

(* ElementEnd: the start tag is popped.  It must have the same name when   *)
(* all is done (`Asserted`).                                               *)
Ending(n) == result = "reading" /\ stack # <<>> /\ Closes(n)
EndingWrongly(n) == result = "reading" /\ stack # <<>> /\ ClosesWrongly(n)
Pop == stack' = Front(stack) /\ UNCHANGED chars
Asserted(n) == result' = IF Top.name = n THEN "reading" ELSE "panic"

Characters(w) ==
  /\ result = "reading" /\ Says(w)
  /\ chars' = IF w = Newline THEN chars ELSE Append(chars, w)
  /\ UNCHANGED <<stack, result>>

(* The last line is done, with or without the document being whole, or the *)
(* XML parser, or the disk, reports an error.                              *)
Stopping(outcomes) ==
  /\ result = "reading" /\ result' \in outcomes
  /\ UNCHANGED <<docVars, stack, chars>>

(* Meta::new: the opf3 form has a property and its text, the opf2 form a   *)
(* name and a content; neither is a panic.                                 *)
NewMeta == [id |-> Top.num, text |-> IF TopHas({"property"}) THEN chars ELSE <<"content">>]

Names == DOMAIN Children

--------------------------------------------------------------------------------
(* The stack is the path to the element being read: so the assert at the   *)
(* end of an element never fails on a well-formed document, and every tag  *)
(* is handled with its own attributes.                                     *)
StackIsPath ==
  result = "reading" =>
    /\ Len(stack) = Len(open)
    /\ \A i \in DOMAIN stack : stack[i].num = open[i] /\ Named(open[i], stack[i].name)

(* The parsers abort the process only for what is wrong with the file: an  *)
(* end tag that does not match, an element without an attribute it must    *)
(* have, or an opf that is cut off.  Whatever the flags, no element is     *)
(* taken for one that has other attributes.                                *)
PanicMeansBadFile ==
  /\ result = "panic" =>
       broken \/ \E k \in DOMAIN doc : doc[k].attrs \in {"missing", "nonumber"}
  /\ result = "panic at end" => open # <<>> \/ doc = <<>>
================================================================================
