------------------------------ MODULE ParserProofs ------------------------------
(***************************************************************************)
(* Proofs about the three parsers, for documents of every size and shape   *)
(* that their formats allow, whole, cut off or wrongly closed.             *)
(***************************************************************************)
EXTENDS TocParse, PackageParse, RootfileParse, SequenceProofs

--------------------------------------------------------------------------------
(* The document so far: the open elements are nested as the format allows, *)
(* from the root to the innermost; an element that holds none is the last. *)
IsElement(r) == r = [name |-> r.name, attrs |-> r.attrs, text |-> r.text, parent |-> r.parent]
DocShape ==
  /\ IsSeq(doc) /\ IsSeq(open)
  /\ \A k \in 1 .. Len(doc) :
       /\ IsElement(doc[k]) /\ doc[k].parent \in 0 .. k - 1
       /\ doc[k].name \in Names /\ doc[k].attrs \in AttributesOf(doc[k].name)
Rooted(root) == (Len(doc) > 0 => doc[1].name = root) /\ (Len(open) > 0 => open[1] = 1)
Ordered ==
  /\ \A i \in 1 .. Len(open) : open[i] \in 1 .. Len(doc)
  /\ \A i, j \in 1 .. Len(open) : i < j => open[i] < open[j]
Linked ==
  \A i \in 1 .. Len(open), j \in 1 .. Len(open) :
    j = i + 1 => doc[open[j]].parent = open[i] /\ doc[open[j]].name \in Children[doc[open[i]].name]
LeafIsLast ==
  Len(open) > 0 /\ Children[doc[open[Len(open)]].name] = {} => open[Len(open)] = Len(doc)
DocInv(root) == DocShape /\ Rooted(root) /\ Ordered /\ Linked /\ LeafIsLast

LEMMA Opening ==
  ASSUME NEW root, DocInv(root), NEW n \in Names, NEW a, Opens(root, n, a)
  PROVE  /\ DocInv(root)'
         /\ Len(doc') = Len(doc) + 1 /\ Len(open') = Len(open) + 1
         /\ open'[Len(open) + 1] = Len(doc) + 1
         /\ doc'[Len(doc) + 1].name = n /\ doc'[Len(doc) + 1].attrs = a
         /\ \A k \in 1 .. Len(doc) : doc'[k] = doc[k]
         /\ \A i \in 1 .. Len(open) : open'[i] = open[i]
         /\ Len(doc) \in Nat /\ Len(open) \in Nat
         /\ IF Len(open) = 0 THEN Len(doc) = 0 /\ n = root
            ELSE /\ n \in Children[doc[open[Len(open)]].name]
                 /\ doc'[Len(doc) + 1].parent = open[Len(open)]
<1>1. IsSeq(doc) /\ IsSeq(open) /\ Len(doc) \in Nat /\ Len(open) \in Nat
  BY DEF DocInv, DocShape, IsSeq
<1>2. \A s : IsSeq(s) => (s = <<>> <=> Len(s) = 0)
  BY DEF IsSeq
<1> DEFINE p == IF open = <<>> THEN 0 ELSE Innermost
           e == [name |-> n, attrs |-> a, text |-> <<>>, parent |-> p]
<1>3. doc' = Append(doc, e) /\ open' = Append(open, Len(doc')) /\ a \in AttributesOf(n)
  BY DEF Opens
<1>4. e.name = n /\ e.attrs = a /\ IsElement(e) /\ e.parent = p
  BY DEF IsElement
<1>5. (Len(open) > 0 => p = open[Len(open)]) /\ p \in 0 .. Len(doc)
  BY <1>1, <1>2 DEF Innermost, Last, DocInv, Ordered
<1> HIDE DEF e, p
<1>6. /\ IsSeq(doc') /\ Len(doc') = Len(doc) + 1 /\ doc'[Len(doc) + 1] = e
      /\ \A k \in 1 .. Len(doc) : doc'[k] = doc[k]
  BY <1>1, <1>3, AppendFacts
<1>7. /\ IsSeq(open') /\ Len(open') = Len(open) + 1 /\ open'[Len(open) + 1] = Len(doc) + 1
      /\ \A i \in 1 .. Len(open) : open'[i] = open[i]
  BY <1>1, <1>3, <1>6, AppendFacts
<1>8. IF Len(open) = 0 THEN Len(doc) = 0 /\ n = root ELSE n \in Children[doc[open[Len(open)]].name]
  <2>1. IF Len(doc) = 0 THEN n = root ELSE Len(open) > 0 /\ n \in Children[doc[open[Len(open)]].name]
    BY <1>1, <1>2 DEF Opens, Innermost, Last
  <2>2. Len(open) > 0 => 1 \in 1 .. Len(doc)
    BY <1>1 DEF DocInv, Rooted, Ordered
  <2> QED
    BY <1>1, <2>1, <2>2
<1>9. DocShape'
  <2>1. ASSUME NEW k \in 1 .. Len(doc')
        PROVE  /\ IsElement(doc'[k]) /\ doc'[k].parent \in 0 .. k - 1
               /\ doc'[k].name \in Names /\ doc'[k].attrs \in AttributesOf(doc'[k].name)
    <3>1. CASE k = Len(doc) + 1
      BY <1>1, <1>3, <1>4, <1>5, <1>6, <3>1
    <3>2. CASE k \in 1 .. Len(doc)
      BY <1>6, <3>2 DEF DocInv, DocShape
    <3> QED
      BY <1>1, <1>6, <3>1, <3>2
  <2> QED
    BY <1>6, <1>7, <2>1 DEF DocShape
<1>10. Rooted(root)'
  <2>1. CASE Len(open) = 0
    <3>1. doc'[1] = e /\ open'[1] = 1 /\ n = root
      BY <1>6, <1>7, <1>8, <2>1
    <3> QED
      BY <1>4, <3>1 DEF Rooted
  <2>2. CASE Len(open) > 0
    <3>1. 1 \in 1 .. Len(open) /\ open[1] = 1 /\ 1 \in 1 .. Len(doc)
      BY <1>1, <2>2 DEF DocInv, Rooted, Ordered
    <3>2. doc'[1] = doc[1] /\ open'[1] = 1 /\ doc[1].name = root
      BY <1>1, <1>6, <1>7, <3>1 DEF DocInv, Rooted
    <3> QED
      BY <3>2 DEF Rooted
  <2> QED
    BY <1>1, <2>1, <2>2
<1>11. Ordered'
  <2>1. ASSUME NEW i \in 1 .. Len(open')
        PROVE  open'[i] \in 1 .. Len(doc') /\ (i <= Len(open) => open'[i] = open[i] /\ open[i] \in 1 .. Len(doc))
    <3>1. CASE i = Len(open) + 1
      BY <1>1, <1>6, <1>7, <3>1
    <3>2. CASE i \in 1 .. Len(open)
      BY <1>1, <1>6, <1>7, <3>2 DEF DocInv, Ordered
    <3> QED
      BY <1>1, <1>7, <3>1, <3>2
  <2>2. ASSUME NEW i \in 1 .. Len(open'), NEW j \in 1 .. Len(open'), i < j
        PROVE  open'[i] < open'[j]
    <3>1. i \in 1 .. Len(open) /\ open'[i] = open[i] /\ open[i] \in 1 .. Len(doc)
      BY <1>1, <1>7, <2>1, <2>2
    <3>2. CASE j = Len(open) + 1
      BY <1>1, <1>7, <3>1, <3>2
    <3>3. CASE j \in 1 .. Len(open)
      BY <1>7, <2>2, <3>1, <3>3 DEF DocInv, Ordered
    <3> QED
      BY <1>1, <1>7, <3>2, <3>3
  <2> QED
    BY <2>1, <2>2 DEF Ordered
<1>12. Linked'
  <2>1. SUFFICES ASSUME NEW i \in 1 .. Len(open), i + 1 \in 1 .. Len(open')
                 PROVE  /\ doc'[open'[i + 1]].parent = open'[i]
                        /\ doc'[open'[i + 1]].name \in Children[doc'[open'[i]].name]
    BY <1>1, <1>7 DEF Linked
  <2>2. open[i] \in 1 .. Len(doc) /\ open'[i] = open[i] /\ doc'[open[i]] = doc[open[i]]
    BY <1>6, <1>7 DEF DocInv, Ordered
  <2>3. CASE i = Len(open)
    BY <1>1, <1>4, <1>5, <1>6, <1>7, <1>8, <2>2, <2>3
  <2>4. CASE i < Len(open)
    <3>1. i + 1 \in 1 .. Len(open)
      BY <1>1, <2>4
    <3>2. open[i + 1] \in 1 .. Len(doc) /\ open'[i + 1] = open[i + 1]
      BY <1>7, <3>1 DEF DocInv, Ordered
    <3>3. doc'[open[i + 1]] = doc[open[i + 1]]
      BY <1>6, <3>2
    <3>4. doc[open[i + 1]].parent = open[i] /\ doc[open[i + 1]].name \in Children[doc[open[i]].name]
      BY <3>1 DEF DocInv, Linked
    <3> QED
      BY <2>2, <3>2, <3>3, <3>4
  <2> QED
    BY <1>1, <2>3, <2>4
<1>13. LeafIsLast'
  BY <1>6, <1>7 DEF LeafIsLast
<1> QED
  BY <1>1, <1>4, <1>5, <1>6, <1>7, <1>8, <1>9, <1>10, <1>11, <1>12, <1>13 DEF DocInv

LEMMA Closing ==
  ASSUME NEW root, DocInv(root), NEW n, Closes(n) \/ ClosesWrongly(n)
  PROVE  /\ DocInv(root)' /\ doc' = doc
         /\ Len(open) \in Nat /\ Len(open) > 0 /\ Len(open') = Len(open) - 1
         /\ \A i \in 1 .. Len(open) - 1 : open'[i] = open[i]
         /\ Closes(n) => doc[open[Len(open)]].name = n
<1>1. IsSeq(doc) /\ IsSeq(open) /\ Len(doc) \in Nat /\ Len(open) \in Nat
  BY DEF DocInv, DocShape, IsSeq
<1>2. doc' = doc /\ open # <<>> /\ open' = Front(open)
  BY DEF Closes, ClosesWrongly
<1>3. /\ IsSeq(open') /\ Len(open') = Len(open) - 1 /\ Len(open) > 0
      /\ \A i \in 1 .. Len(open) - 1 : open'[i] = open[i]
      /\ Last(open) = open[Len(open)]
  BY <1>1, <1>2, FrontFacts
<1>4. DocShape'
  BY <1>2, <1>3 DEF DocInv, DocShape
<1>5. Rooted(root)'
  BY <1>1, <1>2, <1>3 DEF DocInv, Rooted
<1>6. Ordered'
  <2>1. \A i \in 1 .. Len(open') : i \in 1 .. Len(open) /\ open'[i] = open[i]
    BY <1>1, <1>3
  <2> QED
    BY <1>2, <2>1 DEF DocInv, Ordered
<1>7. Linked'
  <2>1. \A i \in 1 .. Len(open') : i \in 1 .. Len(open) /\ open'[i] = open[i]
    BY <1>1, <1>3
  <2> QED
    BY <1>2, <2>1 DEF DocInv, Linked
<1>8. ASSUME Len(open') > 0 PROVE Children[doc'[open'[Len(open')]].name] # {}
  <2>1. /\ Len(open') \in 1 .. Len(open) /\ Len(open) \in 1 .. Len(open) /\ Len(open) = Len(open') + 1
        /\ open'[Len(open')] = open[Len(open')]
    BY <1>1, <1>3, <1>8
  <2>2. doc[open[Len(open)]].name \in Children[doc[open[Len(open')]].name]
    BY <2>1 DEF DocInv, Linked
  <2> QED
    BY <1>2, <2>1, <2>2
<1>9. LeafIsLast'
  BY <1>8 DEF LeafIsLast
<1> QED
  BY <1>1, <1>2, <1>3, <1>4, <1>5, <1>6, <1>7, <1>9 DEF DocInv, Closes, Innermost

LEMMA Saying ==
  ASSUME NEW root, DocInv(root), NEW w, Says(w)
  PROVE  /\ DocInv(root)' /\ open' = open /\ broken' = broken /\ Len(doc') = Len(doc)
         /\ \A k \in 1 .. Len(doc) : /\ doc'[k].name = doc[k].name /\ doc'[k].attrs = doc[k].attrs
                                     /\ doc'[k].parent = doc[k].parent
<1>1. IsSeq(doc) /\ IsSeq(open) /\ Len(doc) \in Nat /\ Len(open) \in Nat
  BY DEF DocInv, DocShape, IsSeq
<1>2. open' = open /\ broken' = broken
  BY DEF Says, docVars
<1>3. /\ IsSeq(doc') /\ Len(doc') = Len(doc)
      /\ \A k \in 1 .. Len(doc) : /\ doc'[k].name = doc[k].name /\ doc'[k].attrs = doc[k].attrs
                                  /\ doc'[k].parent = doc[k].parent /\ IsElement(doc'[k])
  <2>1. CASE w = Newline
    BY <1>1, <2>1 DEF Says, docVars, DocInv, DocShape
  <2>2. CASE w # Newline
    <3> DEFINE i == Innermost
               t == Append(doc[i].text, w)
    <3>1. doc' = [doc EXCEPT ![i].text = t]
      BY <2>2 DEF Says
    <3> HIDE DEF i, t
    <3>2. \A k \in 1 .. Len(doc) : doc[k] = [name |-> doc[k].name, attrs |-> doc[k].attrs,
                                             text |-> doc[k].text, parent |-> doc[k].parent]
      BY DEF DocInv, DocShape, IsElement
    <3>3. doc' = [k \in 1 .. Len(doc) |-> IF k = i THEN [doc[k] EXCEPT !.text = t] ELSE doc[k]]
      BY <1>1, <3>1 DEF IsSeq
    <3>4. \A k \in 1 .. Len(doc) : \/ doc'[k] = doc[k]
                                   \/ doc'[k] = [doc[k] EXCEPT !.text = t]
      BY <3>3
    <3>5. IsSeq(doc') /\ Len(doc') = Len(doc)
      BY <1>1, <3>3 DEF IsSeq
    <3> QED
      BY <3>2, <3>4, <3>5 DEF IsElement
  <2> QED
    BY <2>1, <2>2
<1>4. DocShape'
  BY <1>1, <1>2, <1>3 DEF DocInv, DocShape
<1>5. Rooted(root)' /\ Ordered'
  BY <1>1, <1>2, <1>3 DEF DocInv, Rooted, Ordered
<1>6. \A i \in 1 .. Len(open) : /\ doc'[open[i]].name = doc[open[i]].name
                                /\ doc'[open[i]].parent = doc[open[i]].parent
  BY <1>3 DEF DocInv, Ordered
<1>7. Linked'
  BY <1>2, <1>6 DEF DocInv, Linked
<1>8. LeafIsLast'
  BY <1>1, <1>2, <1>3, <1>6 DEF DocInv, LeafIsLast
<1> QED
  BY <1>2, <1>3, <1>4, <1>5, <1>7, <1>8 DEF DocInv

--------------------------------------------------------------------------------
(* The stack of a reader that is not done, and the events that it follows. *)
StackOK ==
  /\ IsSeq(stack) /\ Len(stack) = Len(open)
  /\ \A i \in 1 .. Len(open) : stack[i].num = open[i] /\ stack[i].name = doc[open[i]].name
ReaderInv(root) == result = "reading" => DocInv(root) /\ StackOK

Event(root) ==
  \/ \E n \in Names : \E a : Opens(root, n, a) /\ Push(n)
  \/ \E n : (Closes(n) \/ ClosesWrongly(n)) /\ Pop
  \/ \E w : Says(w) /\ UNCHANGED stack
Reads(root) == result = "reading" /\ (result' = "reading" => Event(root))

LEMMA TopFacts ==
  ASSUME NEW root, DocInv(root), StackOK, stack # <<>>
  PROVE  /\ Len(open) \in Nat /\ Len(open) > 0
         /\ Top.num = open[Len(open)] /\ Top.name = doc[open[Len(open)]].name
         /\ Top.num \in 1 .. Len(doc) /\ DOMAIN doc = 1 .. Len(doc)
<1>1. IsSeq(stack) /\ Len(stack) = Len(open) /\ Len(open) \in Nat
  BY DEF StackOK, IsSeq
<1>2. Len(stack) > 0 /\ Top = stack[Len(open)]
  BY <1>1, FrontFacts DEF Top
<1>3. Len(open) \in 1 .. Len(open) /\ DOMAIN doc = 1 .. Len(doc)
  BY <1>1, <1>2 DEF DocInv, DocShape, IsSeq
<1> QED
  BY <1>1, <1>2, <1>3 DEF StackOK, DocInv, Ordered

LEMMA EventsKeep ==
  ASSUME NEW root, DocInv(root), StackOK, Event(root)
  PROVE  DocInv(root)' /\ StackOK'
<1>1. IsSeq(stack) /\ Len(stack) = Len(open) /\ Len(open) \in Nat
  BY DEF StackOK, IsSeq
<1>2. ASSUME NEW n \in Names, NEW a, Opens(root, n, a), Push(n) PROVE DocInv(root)' /\ StackOK'
  <2>1. stack' = Append(stack, Tag(n))
    BY <1>2 DEF Push
  <2>2. /\ IsSeq(stack') /\ Len(stack') = Len(stack) + 1 /\ stack'[Len(stack) + 1] = Tag(n)
        /\ \A k \in 1 .. Len(stack) : stack'[k] = stack[k]
    BY <1>1, <2>1, AppendFacts
  <2>3. /\ DocInv(root)' /\ Len(open') = Len(open) + 1
        /\ open'[Len(open) + 1] = Len(doc) + 1 /\ doc'[Len(doc) + 1].name = n
        /\ \A k \in 1 .. Len(doc) : doc'[k] = doc[k]
        /\ \A i \in 1 .. Len(open) : open'[i] = open[i]
    BY <1>2, Opening
  <2>4. ASSUME NEW i \in 1 .. Len(open')
        PROVE  stack'[i].num = open'[i] /\ stack'[i].name = doc'[open'[i]].name
    <3>1. CASE i = Len(open) + 1
      BY <1>1, <2>2, <2>3, <3>1 DEF Tag
    <3>2. CASE i \in 1 .. Len(open)
      BY <1>1, <2>2, <2>3, <3>2 DEF StackOK, DocInv, Ordered
    <3> QED
      BY <1>1, <2>3, <3>1, <3>2
  <2> QED
    BY <1>1, <2>2, <2>3, <2>4 DEF StackOK
<1>3. ASSUME NEW n, Closes(n) \/ ClosesWrongly(n), Pop PROVE DocInv(root)' /\ StackOK'
  <2>1. /\ DocInv(root)' /\ doc' = doc /\ Len(open) > 0 /\ Len(open') = Len(open) - 1
        /\ \A i \in 1 .. Len(open) - 1 : open'[i] = open[i]
    BY <1>3, Closing
  <2>2. stack' = Front(stack) /\ stack # <<>>
    BY <1>1, <1>3, <2>1 DEF Pop
  <2>3. /\ IsSeq(stack') /\ Len(stack') = Len(stack) - 1
        /\ \A k \in 1 .. Len(stack) - 1 : stack'[k] = stack[k]
    BY <1>1, <2>2, FrontFacts
  <2>4. \A i \in 1 .. Len(open') : i \in 1 .. Len(open) /\ open'[i] = open[i] /\ stack'[i] = stack[i]
    BY <1>1, <2>1, <2>3
  <2> QED
    BY <1>1, <2>1, <2>3, <2>4 DEF StackOK
<1>4. ASSUME NEW w, Says(w), stack' = stack PROVE DocInv(root)' /\ StackOK'
  <2>1. /\ DocInv(root)' /\ open' = open /\ \A k \in 1 .. Len(doc) : doc'[k].name = doc[k].name
    BY <1>4, Saying
  <2> QED
    BY <1>4, <2>1 DEF StackOK, DocInv, Ordered
<1> QED
  BY <1>2, <1>3, <1>4 DEF Event

LEMMA ReaderKept ==
  ASSUME NEW root, ReaderInv(root), Reads(root) \/ UNCHANGED <<doc, open, stack, result>>
  PROVE  ReaderInv(root)'
<1>1. CASE Reads(root)
  BY <1>1, EventsKeep DEF Reads, ReaderInv
<1>2. CASE UNCHANGED <<doc, open, stack, result>>
  BY <1>2
  DEF ReaderInv, DocInv, DocShape, IsSeq, IsElement, Rooted, Ordered, Linked, LeafIsLast, StackOK
<1> QED
  BY <1>1, <1>2

LEMMA ReaderInitially == ASSUME NEW root, ReaderInit PROVE ReaderInv(root)
BY DEF ReaderInit, DocInit, ReaderInv, DocInv, DocShape, IsSeq, Rooted, Ordered, Linked, LeafIsLast, StackOK

LEMMA StackHolds == ASSUME NEW root, ReaderInv(root) PROVE StackIsPath
BY DEF ReaderInv, StackOK, DocInv, DocShape, Ordered, IsSeq, StackIsPath, Named

(* Every reader goes through its document event by event, until it is done.*)
LEMMA TocReads == [TocNext]_<<readerVars, tocVars>> => Reads("ncx") \/ UNCHANGED <<readerVars, tocVars>>
BY DEF TocNext, Reads, Event, Starting, Ending, EndingWrongly, Stopping, ElementStart, BadNavPoint,
   TocCharacters, Characters, EndNavPoint, EndText, EndContent, EndMeta, EndBad, EndOther, TocStop

LEMMA PackageReads ==
  [PackageNext]_<<readerVars, packageVars>> => Reads("package") \/ UNCHANGED <<readerVars, packageVars>>
<1>1. ASSUME NEW n \in Names, PackageEnd(n) PROVE Reads("package")
  <2>1. result = "reading" /\ Closes(n) /\ Pop
    BY <1>1 DEF PackageEnd, Ending
  <2> QED
    BY <2>1 DEF Reads, Event
<1>2. CASE BadSpine \/ PackageEndWrongly \/ PackageStop
  BY <1>2 DEF BadSpine, PackageEndWrongly, PackageStop, Stopping, Outcomes, Starting, EndingWrongly, Reads
<1> QED
  BY <1>1, <1>2
  DEF PackageNext, Reads, Event, Starting, PackageStart, PackageCharacters, Characters

LEMMA RootfileReads ==
  [RootfileNext]_<<readerVars, rootfileVars>> => Reads("container") \/ UNCHANGED <<readerVars, rootfileVars>>
BY DEF RootfileNext, Reads, Event, Starting, Ending, EndingWrongly, Stopping, RootfileStart, RootfileEnd,
   RootfileStop

LEMMA TocKept ==
  ReaderInv("ncx") /\ [TocNext]_<<readerVars, tocVars>> => ReaderInv("ncx")'
BY TocReads, ReaderKept DEF readerVars, docVars

LEMMA TocInvariant == TocSpec => []ReaderInv("ncx")
<1>1. ReaderInit => ReaderInv("ncx")
  BY ReaderInitially
<1> QED
  BY <1>1, TocKept, PTL DEF TocSpec

LEMMA PackageKept ==
  ReaderInv("package") /\ [PackageNext]_<<readerVars, packageVars>> => ReaderInv("package")'
BY PackageReads, ReaderKept DEF readerVars, docVars

LEMMA PackageInvariant == PackageSpec => []ReaderInv("package")
<1>1. ReaderInit => ReaderInv("package")
  BY ReaderInitially
<1> QED
  BY <1>1, PackageKept, PTL DEF PackageSpec

LEMMA RootfileKept ==
  ReaderInv("container") /\ [RootfileNext]_<<readerVars, rootfileVars>> => ReaderInv("container")'
BY RootfileReads, ReaderKept DEF readerVars, docVars

LEMMA RootfileInvariant == RootfileSpec => []ReaderInv("container")
<1>1. ReaderInit => ReaderInv("container")
  BY ReaderInitially
<1> QED
  BY <1>1, RootfileKept, PTL DEF RootfileSpec

(* Whatever the document, whole, cut off or wrongly closed: the stack is   *)
(* the path to the element that Toc::read is in.                           *)
THEOREM TocStack == TocSpec => []StackIsPath
<1>1. ReaderInv("ncx") => StackIsPath
  BY StackHolds
<1> QED
  BY <1>1, TocInvariant, PTL

(* The same of Package::read. *)
THEOREM PackageStack == PackageSpec => []StackIsPath
<1>1. ReaderInv("package") => StackIsPath
  BY StackHolds
<1> QED
  BY <1>1, PackageInvariant, PTL

(* The same of get_container_rootfile. *)
THEOREM RootfileStack == RootfileSpec => []StackIsPath
<1>1. ReaderInv("container") => StackIsPath
  BY StackHolds
<1> QED
  BY <1>1, RootfileInvariant, PTL

--------------------------------------------------------------------------------
(* The panics of the toc's reader.                                         *)
LEMMA AssertHolds ==
  ASSUME NEW root, DocInv(root), StackOK, NEW n, Ending(n)
  PROVE  Top.name = n
BY TopFacts, Closing DEF Ending

LEMMA TocPanicKept ==
  ASSUME ReaderInv("ncx"), PanicMeansBadFile, [TocNext]_<<readerVars, tocVars>>
  PROVE  PanicMeansBadFile'
<1>1. CASE UNCHANGED <<readerVars, tocVars>>
  BY <1>1 DEF readerVars, docVars, PanicMeansBadFile
<1>2. CASE Reads("ncx") /\ TocNext
  <2>1. result = "reading" /\ DocInv("ncx") /\ StackOK /\ IsSeq(doc)
    BY <1>2 DEF Reads, ReaderInv, DocInv, DocShape
  <2>2. ASSUME NEW n, Ending(n), Asserted(n) PROVE result' = "reading"
    BY <2>1, <2>2, AssertHolds DEF Asserted
  <2>3. ASSUME NEW a \in AttributesOf("navPoint"), BadNavPoint(a) PROVE PanicMeansBadFile'
    <3>1. PICK e : e.attrs = a /\ doc' = Append(doc, e)
      BY <2>3 DEF BadNavPoint, Starting, Opens
    <3>2. DOMAIN doc' = 1 .. Len(doc) + 1 /\ doc'[Len(doc) + 1] = e /\ Len(doc) \in Nat
      BY <2>1, <3>1, AppendFacts DEF IsSeq
    <3>3. Len(doc) + 1 \in DOMAIN doc' /\ doc'[Len(doc) + 1].attrs = a
      BY <3>1, <3>2
    <3>4. IF a = "nonumber" THEN result' = "panic" ELSE result' = "error"
      BY <2>3, NavPointAttributes DEF BadNavPoint
    <3> QED
      BY <3>3, <3>4 DEF PanicMeansBadFile
  <2>4. CASE EndBad
    <3>1. CASE Ending("meta") /\ TopHas({"missing"}) /\ result' = "panic"
      <4>1. Top.num \in DOMAIN doc /\ doc' = doc
        BY <2>1, <3>1, TopFacts DEF Ending, Closes
      <4> QED
        BY <3>1, <4>1 DEF TopHas, PanicMeansBadFile
    <3>2. ASSUME NEW n, EndingWrongly(n), result' \in {"error", "panic"} PROVE PanicMeansBadFile'
      BY <3>2 DEF EndingWrongly, ClosesWrongly, PanicMeansBadFile
    <3> QED
      BY <2>4, <3>1, <3>2 DEF EndBad, PanicMeansBadFile
  <2>5. result' \in {"reading", "ok", "error"} => PanicMeansBadFile'
    BY DEF PanicMeansBadFile
  <2> QED
    BY <1>2, <2>1, <2>2, <2>3, <2>4, <2>5
    DEF TocNext, ElementStart, TocCharacters, Characters, EndNavPoint, EndText, EndContent, EndMeta,
        EndOther, TocStop, Stopping
<1> QED
  BY <1>1, <1>2, TocReads

(* Toc::read aborts the process only over a playOrder that is no number, a *)
(* meta without a name, or an end tag that does not match.                 *)
THEOREM TocPanics == TocSpec => []PanicMeansBadFile
<1>1. ReaderInit => PanicMeansBadFile
  BY DEF ReaderInit, PanicMeansBadFile
<1>2. ReaderInv("ncx") /\ PanicMeansBadFile /\ [TocNext]_<<readerVars, tocVars>> => PanicMeansBadFile'
  BY TocPanicKept
<1> QED
  BY <1>1, <1>2, TocInvariant, PTL DEF TocSpec

--------------------------------------------------------------------------------
(* How the events change what is whole.                                    *)
LEMMA OpeningWhole ==
  ASSUME NEW root, DocInv(root), NEW n \in Names, NEW a, Opens(root, n, a)
  PROVE  /\ DOMAIN doc' = 1 .. Len(doc) + 1
         /\ \A k \in 1 .. Len(doc) : Whole(k)' <=> Whole(k)
         /\ \A k \in DOMAIN doc' : k \in 1 .. Len(doc) \/ ~Whole(k)'
         /\ \A k \in 1 .. Len(doc) : \A s : In(k, s)' <=> In(k, s)
<1>1. /\ Len(doc') = Len(doc) + 1 /\ Len(open') = Len(open) + 1 /\ IsSeq(doc')
      /\ open'[Len(open) + 1] = Len(doc) + 1
      /\ \A k \in 1 .. Len(doc) : doc'[k] = doc[k]
      /\ \A i \in 1 .. Len(open) : open'[i] = open[i]
      /\ Len(doc) \in Nat /\ Len(open) \in Nat
  BY Opening DEF DocInv, DocShape
<1>2. DOMAIN doc' = 1 .. Len(doc) + 1 /\ DOMAIN doc = 1 .. Len(doc)
  BY <1>1 DEF DocInv, DocShape, IsSeq
<1>3. ASSUME NEW k \in 1 .. Len(doc) PROVE Contains(open', k) <=> Contains(open, k)
  <2>1. \A i \in 1 .. Len(open') : i \in 1 .. Len(open) \/ open'[i] # k
    BY <1>1
  <2>2. \A i \in 1 .. Len(open) : i \in 1 .. Len(open')
    BY <1>1
  <2> QED
    BY <1>1, <2>1, <2>2 DEF Contains
<1>4. \A k \in DOMAIN doc' : k \in 1 .. Len(doc) \/ ~Whole(k)'
  <2>1. ASSUME NEW k \in DOMAIN doc', k \notin 1 .. Len(doc) PROVE Contains(open', k)
    <3>1. k = Len(doc) + 1 /\ Len(open) + 1 \in 1 .. Len(open')
      BY <1>1, <1>2, <2>1
    <3> QED
      BY <1>1, <3>1 DEF Contains
  <2> QED
    BY <2>1 DEF Whole
<1>5. \A k \in 1 .. Len(doc) : doc[k].parent \in 1 .. Len(doc) \/ doc[k].parent = 0
  BY <1>1 DEF DocInv, DocShape
<1> QED
  BY <1>1, <1>2, <1>3, <1>4, <1>5 DEF Whole, In, Named, Parent

LEMMA ClosingWhole ==
  ASSUME NEW root, DocInv(root), NEW n, Closes(n) \/ ClosesWrongly(n)
  PROVE  \A k : Whole(k)' <=> Whole(k) \/ k = open[Len(open)]
<1>1. /\ doc' = doc /\ Len(open) \in Nat /\ Len(open) > 0 /\ Len(open') = Len(open) - 1
      /\ \A i \in 1 .. Len(open) - 1 : open'[i] = open[i]
  BY Closing
<1>2. DOMAIN doc = 1 .. Len(doc) /\ Len(open) \in 1 .. Len(open)
  BY <1>1 DEF DocInv, DocShape, IsSeq
<1>3. open[Len(open)] \in 1 .. Len(doc)
  BY <1>2 DEF DocInv, Ordered
<1>4. \A i \in 1 .. Len(open') : open'[i] # open[Len(open)]
  <2> SUFFICES ASSUME NEW i \in 1 .. Len(open') PROVE open'[i] # open[Len(open)]
    OBVIOUS
  <2>1. i \in 1 .. Len(open) /\ i < Len(open) /\ open'[i] = open[i]
    BY <1>1
  <2>2. open[i] \in 1 .. Len(doc) /\ open[i] < open[Len(open)]
    BY <1>2, <2>1 DEF DocInv, Ordered
  <2> QED
    BY <1>3, <2>1, <2>2
<1>5. ASSUME NEW k, k # open[Len(open)] PROVE Contains(open', k) <=> Contains(open, k)
  <2>1. \A i \in 1 .. Len(open) : i = Len(open) \/ i \in 1 .. Len(open')
    BY <1>1
  <2>2. \A i \in 1 .. Len(open') : i \in 1 .. Len(open) /\ open'[i] = open[i]
    BY <1>1
  <2> QED
    BY <1>5, <2>1, <2>2 DEF Contains
<1>6. ~Contains(open', open[Len(open)])
  BY <1>4 DEF Contains
<1> QED
  BY <1>1, <1>2, <1>3, <1>5, <1>6 DEF Whole

LEMMA SayingWhole ==
  ASSUME NEW root, DocInv(root), NEW w, Says(w)
  PROVE  /\ DOMAIN doc' = DOMAIN doc
         /\ \A k, s : (Named(k, s)' <=> Named(k, s)) /\ (Whole(k)' <=> Whole(k))
         /\ \A k \in DOMAIN doc : \A s : In(k, s)' <=> In(k, s)
<1>1. /\ DocInv(root)' /\ open' = open /\ Len(doc') = Len(doc)
      /\ \A k \in 1 .. Len(doc) : doc'[k].name = doc[k].name /\ doc'[k].parent = doc[k].parent
  BY Saying
<1>2. DOMAIN doc' = 1 .. Len(doc) /\ DOMAIN doc = 1 .. Len(doc)
  BY <1>1 DEF DocInv, DocShape, IsSeq
<1> QED
  BY <1>1, <1>2 DEF Whole, In, Named, Parent

(* A list that is in the order of the document stays so at its end.        *)
LEMMA ListGrows ==
  ASSUME NEW s, IsSeq(s), NEW S, Lists(s, S), NEW k, \A x \in S : x < k
  PROVE  IsSeq(Append(s, k)) /\ Lists(Append(s, k), S \cup {k})
<1>1. Len(s) \in Nat /\ DOMAIN s = 1 .. Len(s)
  BY DEF IsSeq
<1>2. PICK t : t = Append(s, k)
  OBVIOUS
<1>3. /\ IsSeq(t) /\ Len(t) = Len(s) + 1 /\ t[Len(s) + 1] = k
      /\ \A i \in 1 .. Len(s) : t[i] = s[i]
  BY <1>2, AppendFacts
<1>4. DOMAIN t = 1 .. Len(s) + 1
  BY <1>3 DEF IsSeq
<1>5. S = {s[i] : i \in 1 .. Len(s)} /\ \A i, j \in 1 .. Len(s) : i < j => s[i] < s[j]
  BY <1>1 DEF Lists, Range
<1>6. \A i \in DOMAIN t : i \in 1 .. Len(s) \/ i = Len(s) + 1
  BY <1>1, <1>4
<1>7. Range(t) = S \cup {k}
  BY <1>1, <1>3, <1>4, <1>5, <1>6 DEF Range
<1>8. ASSUME NEW i \in DOMAIN t, NEW j \in DOMAIN t, i < j PROVE t[i] < t[j]
  <2>1. i \in 1 .. Len(s)
    BY <1>1, <1>4, <1>8
  <2>2. CASE j = Len(s) + 1
    BY <1>3, <1>5, <2>1, <2>2
  <2>3. CASE j \in 1 .. Len(s)
    BY <1>3, <1>5, <1>8, <2>1, <2>3
  <2> QED
    BY <1>6, <2>2, <2>3
<1> QED
  BY <1>2, <1>3, <1>7, <1>8 DEF Lists

--------------------------------------------------------------------------------
(* Package::read.  The flags say which section the open elements are in,   *)
(* and whether the root has been closed.                                   *)
Sections == {"metadata", "manifest", "spine"}
Under(s) == Len(open) >= 2 /\ doc[open[2]].name = s
FlagsOK ==
  /\ in_metadata <=> Under("metadata")
  /\ in_manifest <=> Under("manifest")
  /\ in_spine <=> Under("spine")
  /\ package_uid <=> Len(doc) > 0 /\ Len(open) = 0
PackageInv == ReaderInv("package") /\ (result = "reading" => FlagsOK)

LEMMA PackageStructure ==
  ASSUME DocInv("package"), NEW i \in 1 .. Len(open)
  PROVE  /\ doc[open[i]].name = "package" <=> i = 1
         /\ doc[open[i]].name \in Sections => i = 2
<1>1. i \in Nat /\ i >= 1 /\ Len(open) \in Nat
  BY DEF DocInv, DocShape, IsSeq
<1>2. open[i] \in 1 .. Len(doc) /\ \A j \in 1 .. Len(open) : doc[open[j]].name \in Names
  BY DEF DocInv, DocShape, Ordered
<1>3. open[1] = 1 /\ doc[1].name = "package"
  BY <1>1, <1>2 DEF DocInv, Rooted
<1>4. ASSUME NEW j \in 1 .. Len(open), j > 1
      PROVE  doc[open[j]].name # "package"
             /\ (doc[open[j]].name \in Sections => doc[open[j - 1]].name = "package")
  <2>1. j - 1 \in 1 .. Len(open) /\ j = (j - 1) + 1
    BY <1>1, <1>4
  <2>2. doc[open[j]].name \in Children[doc[open[j - 1]].name] /\ doc[open[j - 1]].name \in Names
    BY <1>2, <2>1 DEF DocInv, Linked
  <2> QED
    BY <2>2, PackageFormat DEF Sections
<1>5. CASE i = 1
  BY <1>3, <1>5 DEF Sections
<1>6. CASE i > 1
  <2>1. i - 1 \in 1 .. Len(open) /\ (i - 1 > 1 \/ i = 2)
    BY <1>1, <1>6
  <2> QED
    BY <1>4, <1>6, <2>1
<1> QED
  BY <1>1, <1>5, <1>6

(* What is in a section and not it: an element that holds no other, the    *)
(* last of the document so far; an item or an itemref in the manifest or   *)
(* the spine.                                                              *)
LEMMA UnderFacts ==
  ASSUME DocInv("package"), NEW s \in Sections, Under(s), Len(open) > 2
  PROVE  /\ Len(open) = 3 /\ open[3] = Len(doc) /\ doc[open[3]].parent = open[2]
         /\ s # "metadata" => /\ doc[open[3]].name = IF s = "manifest" THEN "item" ELSE "itemref"
                              /\ doc[open[3]].attrs \in {"good", "missing"}
<1>1. Len(open) \in Nat /\ 2 \in 1 .. Len(open) /\ 3 \in 1 .. Len(open)
  BY DEF DocInv, DocShape, IsSeq
<1>2. doc[open[3]].parent = open[2] /\ doc[open[3]].name \in Children[s]
  <2>1. 3 = 2 + 1
    OBVIOUS
  <2> QED
    BY <1>1, <2>1 DEF DocInv, Linked, Under
<1>3. s # "metadata" => doc[open[3]].name = IF s = "manifest" THEN "item" ELSE "itemref"
  BY <1>2, PackageFormat DEF Sections
<1>4. /\ Children[doc[open[3]].name] = {}
      /\ s # "metadata" => AttributesOf(doc[open[3]].name) \subseteq {"good", "missing"}
  BY <1>2, <1>3, PackageFormat DEF Sections
<1>5. Len(open) = 3
  <2>1. ASSUME 4 \in 1 .. Len(open) PROVE FALSE
    <3>1. 3 \in 1 .. Len(open) /\ 4 = 3 + 1
      BY <1>1
    <3>2. doc[open[4]].name \in Children[doc[open[3]].name]
      BY <2>1, <3>1 DEF DocInv, Linked
    <3> QED
      BY <1>4, <3>2
  <2>2. PICK m \in Nat : m = Len(open)
    BY <1>1
  <2>3. m > 2 /\ 4 \notin 1 .. m
    BY <2>1, <2>2
  <2>4. m = 3
    BY <2>3
  <2> QED
    BY <2>2, <2>4
<1>6. open[3] = Len(doc)
  BY <1>4, <1>5 DEF DocInv, LeafIsLast
<1>7. doc[open[3]].attrs \in AttributesOf(doc[open[3]].name)
  BY <1>1 DEF DocInv, DocShape, Ordered
<1> QED
  BY <1>2, <1>3, <1>4, <1>5, <1>6, <1>7

LEMMA PackageStartFlags ==
  ASSUME DocInv("package"), FlagsOK, NEW n \in Names, NEW a, PackageStart(n, a)
  PROVE  FlagsOK'
<1>1. Opens("package", n, a)
  BY DEF PackageStart, Starting
<1>2. /\ Len(doc') = Len(doc) + 1 /\ Len(open') = Len(open) + 1
      /\ open'[Len(open) + 1] = Len(doc) + 1
      /\ doc'[Len(doc) + 1].name = n
      /\ \A k \in 1 .. Len(doc) : doc'[k] = doc[k]
      /\ \A i \in 1 .. Len(open) : open'[i] = open[i]
      /\ Len(doc) \in Nat /\ Len(open) \in Nat
      /\ IF Len(open) = 0 THEN Len(doc) = 0 /\ n = "package"
         ELSE n \in Children[doc[open[Len(open)]].name]
  BY <1>1, Opening
<1>3. ASSUME NEW s \in Sections PROVE Under(s)' <=> Under(s) \/ n = s
  <2>1. CASE Len(open) = 0
    <3>1. Len(open') = 1 /\ n = "package" /\ s # "package"
      BY <1>2, <2>1 DEF Sections
    <3> QED
      BY <2>1, <3>1 DEF Under
  <2>2. CASE Len(open) = 1
    <3>1. ~Under(s)
      BY <2>2 DEF Under
    <3>2. Len(open') = 2 /\ open'[2] = Len(doc) + 1
      BY <1>2, <2>2
    <3>3. Under(s)' <=> n = s
      BY <1>2, <3>2 DEF Under
    <3> QED
      BY <3>1, <3>3
  <2>3. CASE Len(open) >= 2
    <3>1. 2 \in 1 .. Len(open) /\ Len(open) \in 1 .. Len(open)
      BY <1>2, <2>3
    <3>2. open'[2] = open[2] /\ open[2] \in 1 .. Len(doc) /\ Len(open') >= 2
      BY <1>2, <2>3, <3>1 DEF DocInv, Ordered
    <3>3. Under(s)' <=> Under(s)
      BY <1>2, <2>3, <3>2 DEF Under
    <3>4. doc[open[Len(open)]].name \in Names /\ doc[open[Len(open)]].name # "package"
      BY <2>3, <3>1, PackageStructure DEF DocInv, DocShape, Ordered
    <3>5. n # s
      BY <1>2, <2>3, <3>4, PackageFormat DEF Sections
    <3> QED
      BY <3>3, <3>5
  <2>4. Len(open) = 0 \/ Len(open) = 1 \/ Len(open) >= 2
    <3>1. PICK m \in Nat : m = Len(open)
      BY <1>2
    <3>2. m = 0 \/ m = 1 \/ m >= 2
      OBVIOUS
    <3> QED
      BY <3>1, <3>2
  <2> QED
    BY <2>1, <2>2, <2>3, <2>4
<1>4. package_uid' <=> Len(doc') > 0 /\ Len(open') = 0
  <2>1. (package_uid' <=> package_uid) /\ ~package_uid
    BY <1>2 DEF PackageStart, FlagsOK
  <2> QED
    BY <1>2, <2>1
<1> QED
  BY <1>3, <1>4 DEF PackageStart, FlagsOK, Sections

LEMMA PackageEndFlags ==
  ASSUME DocInv("package"), FlagsOK, NEW n \in Names, PackageEnd(n)
  PROVE  /\ FlagsOK' /\ \A s \in Sections : Under(s)' => Under(s) /\ Len(open) > 2
         /\ \A s \in Sections : Under(s) /\ Len(open) > 2 => Under(s)'
<1>1. Closes(n)
  BY DEF PackageEnd, Ending
<1>2. /\ doc' = doc /\ Len(open) \in Nat /\ Len(open) > 0 /\ Len(open') = Len(open) - 1
      /\ \A i \in 1 .. Len(open) - 1 : open'[i] = open[i]
      /\ doc[open[Len(open)]].name = n
  BY <1>1, Closing
<1>3. ASSUME NEW s \in Sections
      PROVE  (Under(s)' <=> Under(s) /\ n # s) /\ (Under(s)' <=> Under(s) /\ Len(open) > 2)
  <2>1. CASE Len(open) <= 2
    BY <1>2, <2>1 DEF Under
  <2>2. CASE Len(open) > 2
    <3>1. Len(open) \in 1 .. Len(open) /\ 2 \in 1 .. Len(open) - 1
      BY <1>2, <2>2
    <3>2. n # s
      BY <1>2, <2>2, <3>1, PackageStructure
    <3> QED
      BY <1>2, <2>2, <3>1, <3>2 DEF Under
  <2> QED
    BY <1>2, <2>1, <2>2
<1>4. n = "package" <=> Len(open) = 1
  <2>1. Len(open) \in 1 .. Len(open)
    BY <1>2
  <2> QED
    BY <1>2, <2>1, PackageStructure
<1>5. Len(doc) > 0
  BY <1>2 DEF DocInv, Ordered, DocShape, IsSeq
<1>6. package_uid' <=> Len(doc') > 0 /\ Len(open') = 0
  <2>1. ~package_uid
    BY <1>2 DEF FlagsOK
  <2>2. package_uid' = CollectAttributes(n)
    BY DEF PackageEnd
  <2>3. package_uid' <=> n = "package"
    BY <2>1, <2>2 DEF CollectAttributes
  <2> QED
    BY <1>2, <1>4, <1>5, <2>3
<1> QED
  BY <1>3, <1>6 DEF PackageEnd, Leaving, FlagsOK, Sections

LEMMA PackageInvKept ==
  ASSUME PackageInv, [PackageNext]_<<readerVars, packageVars>>
  PROVE  PackageInv'
<1>1. ReaderInv("package")'
  BY PackageKept DEF PackageInv
<1>2. CASE UNCHANGED <<readerVars, packageVars>>
  BY <1>1, <1>2 DEF readerVars, docVars, packageVars, sections, PackageInv, FlagsOK, Under
<1>3. CASE PackageNext
  <2>1. result = "reading" => DocInv("package") /\ FlagsOK
    BY DEF PackageInv, ReaderInv
  <2>2. ASSUME NEW n \in Names, NEW a, PackageStart(n, a) PROVE FlagsOK'
    BY <2>1, <2>2, PackageStartFlags DEF PackageStart, Starting
  <2>3. ASSUME NEW n \in Names, PackageEnd(n) PROVE FlagsOK'
    BY <2>1, <2>3, PackageEndFlags DEF PackageEnd, Ending
  <2>4. ASSUME NEW w, PackageCharacters(w) PROVE FlagsOK'
    <3>1. Says(w) /\ DocInv("package") /\ FlagsOK /\ UNCHANGED packageVars
      BY <2>1, <2>4 DEF PackageCharacters, Characters
    <3>2. open' = open /\ Len(doc') = Len(doc) /\ \A k \in 1 .. Len(doc) : doc'[k].name = doc[k].name
      BY <3>1, Saying
    <3>3. Len(open) >= 2 => open[2] \in 1 .. Len(doc)
      BY <3>1 DEF DocInv, DocShape, IsSeq, Ordered
    <3>4. \A s : Under(s)' <=> Under(s)
      BY <3>2, <3>3 DEF Under
    <3> QED
      BY <3>1, <3>2, <3>4 DEF FlagsOK, packageVars, sections
  <2>5. BadSpine \/ PackageEndWrongly \/ PackageStop => result' # "reading"
    BY DEF BadSpine, PackageEndWrongly, PackageStop, Stopping, Outcomes
  <2> QED
    BY <1>1, <1>3, <2>2, <2>3, <2>4, <2>5 DEF PackageNext, PackageInv
<1> QED
  BY <1>2, <1>3

LEMMA PackageFlags == PackageSpec => []PackageInv
<1>1. ReaderInit /\ PackageInit => PackageInv
  <2>1. ReaderInit => ReaderInv("package")
    BY ReaderInitially
  <2> QED
    BY <2>1 DEF ReaderInit, DocInit, PackageInit, PackageInv, FlagsOK, Under
<1>2. PackageInv /\ [PackageNext]_<<readerVars, packageVars>> => PackageInv'
  BY PackageInvKept
<1> QED
  BY <1>1, <1>2, PTL DEF PackageSpec

(* The end of an element: the section that it is in, and where it is. *)
LEMMA EndedIn ==
  ASSUME PackageInv, NEW n \in Names, PackageEnd(n)
  PROVE  /\ DocInv("package") /\ Closes(n) /\ Top.num = open[Len(open)] /\ Top.name = n
         /\ Top.num \in 1 .. Len(doc) /\ DOMAIN doc = 1 .. Len(doc)
         /\ \A s \in Sections :
              /\ Section = s <=> In(Top.num, s)
              /\ Section = s => Top.num = Len(doc)
              /\ Section = s /\ s # "metadata" => /\ doc[Top.num].attrs \in {"good", "missing"}
                                                 /\ n = IF s = "manifest" THEN "item" ELSE "itemref"
<1>1. /\ DocInv("package") /\ StackOK /\ FlagsOK /\ Closes(n) /\ Ending(n) /\ stack # <<>>
  BY DEF PackageInv, ReaderInv, PackageEnd, Ending
<1>2. /\ Top.num = open[Len(open)] /\ Len(open) \in Nat /\ Len(open) > 0
      /\ Top.num \in 1 .. Len(doc) /\ DOMAIN doc = 1 .. Len(doc)
  BY <1>1, TopFacts
<1>3. Top.name = n
  BY <1>1, AssertHolds
<1>4. FlagsOK' /\ \A s \in Sections : Under(s)' <=> Under(s) /\ Len(open) > 2
  BY <1>1, PackageEndFlags
<1>5. \A s, t \in Sections : Under(s)' /\ Under(t)' => s = t
  BY DEF Under
<1>6. \A s \in Sections : Section = s <=> Under(s)'
  BY <1>4, <1>5 DEF Section, FlagsOK, Sections
<1>7. ASSUME NEW s \in Sections, Under(s), Len(open) > 2
      PROVE  /\ In(Top.num, s) /\ Top.num = Len(doc)
             /\ s # "metadata" => /\ doc[Top.num].attrs \in {"good", "missing"}
                                  /\ n = IF s = "manifest" THEN "item" ELSE "itemref"
  <2>1. /\ Len(open) = 3 /\ open[3] = Len(doc) /\ doc[open[3]].parent = open[2]
        /\ s # "metadata" => /\ doc[open[3]].name = IF s = "manifest" THEN "item" ELSE "itemref"
                             /\ doc[open[3]].attrs \in {"good", "missing"}
    BY <1>1, <1>7, UnderFacts
  <2>2. open[2] \in 1 .. Len(doc) /\ doc[open[2]].name = s
    BY <1>1, <1>2, <1>7 DEF DocInv, Ordered, Under
  <2>3. doc[open[Len(open)]].name = n
    BY <1>1, Closing
  <2> QED
    BY <1>2, <2>1, <2>2, <2>3 DEF In, Named, Parent
<1>8. ASSUME NEW s \in Sections, In(Top.num, s) PROVE Under(s) /\ Len(open) > 2
  <2>1. doc[Top.num].parent \in 1 .. Len(doc) /\ doc[doc[Top.num].parent].name = s
    BY <1>2, <1>8 DEF In, Named, Parent
  <2>2. Len(open) > 1
    <3>1. ASSUME Len(open) = 1 PROVE FALSE
      <4>1. Top.num = 1
        BY <1>1, <1>2, <3>1 DEF DocInv, Rooted
      <4>2. doc[1].parent \in 0 .. 0
        BY <1>1, <1>2, <4>1 DEF DocInv, DocShape
      <4> QED
        BY <2>1, <4>1, <4>2
    <3>2. PICK m \in Nat : m = Len(open)
      BY <1>2
    <3>3. m > 0 /\ m # 1
      BY <1>2, <3>1, <3>2
    <3>4. m > 1
      BY <3>3
    <3> QED
      BY <3>2, <3>4
  <2>3. PICK i : i = Len(open) - 1
    OBVIOUS
  <2>4. i \in 1 .. Len(open) /\ Len(open) = i + 1 /\ Len(open) \in 1 .. Len(open)
    BY <1>2, <2>2, <2>3
  <2>5. doc[Top.num].parent = open[i]
    BY <1>1, <1>2, <2>4 DEF DocInv, Linked
  <2>6. i = 2
    BY <1>1, <2>1, <2>4, <2>5, PackageStructure DEF Sections
  <2> QED
    BY <2>1, <2>4, <2>5, <2>6 DEF Under
<1> QED
  BY <1>1, <1>2, <1>3, <1>4, <1>6, <1>7, <1>8 DEF Sections

LEMMA PackagePanicKept ==
  ASSUME PackageInv, PanicMeansBadFile, [PackageNext]_<<readerVars, packageVars>>
  PROVE  PanicMeansBadFile'
<1>1. CASE UNCHANGED <<readerVars, packageVars>>
  BY <1>1 DEF readerVars, docVars, PanicMeansBadFile
<1>2. ASSUME NEW n \in Names, PackageEnd(n) PROVE PanicMeansBadFile'
  <2>1. /\ Top.name = n /\ Top.num \in DOMAIN doc /\ doc' = doc
        /\ \A s \in {"manifest", "spine"} : Section = s => doc[Top.num].attrs \in {"good", "missing"}
    BY <1>2, EndedIn DEF Closes, Sections
  <2>2. CASE Lacks(n)
    <3>1. doc[Top.num].attrs = "missing"
      BY <2>1, <2>2 DEF Lacks, TopHas
    <3>2. result' = "panic"
      BY <1>2, <2>2 DEF PackageEnd
    <3> QED
      BY <2>1, <3>1, <3>2 DEF PanicMeansBadFile
  <2>3. CASE ~Lacks(n)
    <3>1. result' = "reading"
      BY <1>2, <2>1, <2>3 DEF PackageEnd, Asserted
    <3> QED
      BY <3>1 DEF PanicMeansBadFile
  <2> QED
    BY <2>2, <2>3
<1>3. CASE BadSpine
  <2>1. PICK e : e.attrs = "missing" /\ doc' = Append(doc, e)
    BY <1>3 DEF BadSpine, Starting, Opens
  <2>2. IsSeq(doc)
    BY <1>3 DEF BadSpine, Starting, PackageInv, ReaderInv, DocInv, DocShape
  <2>3. DOMAIN doc' = 1 .. Len(doc) + 1 /\ doc'[Len(doc) + 1] = e /\ Len(doc) \in Nat
    BY <2>1, <2>2, AppendFacts DEF IsSeq
  <2>4. Len(doc) + 1 \in DOMAIN doc' /\ doc'[Len(doc) + 1].attrs = "missing"
    BY <2>1, <2>3
  <2> QED
    BY <1>3, <2>4 DEF BadSpine, PanicMeansBadFile
<1>4. CASE PackageEndWrongly
  BY <1>4 DEF PackageEndWrongly, EndingWrongly, ClosesWrongly, PanicMeansBadFile
<1>5. CASE PackageStop
  <2>1. result = "reading" /\ doc' = doc /\ open' = open
        /\ (result' = "panic at end" => ~package_uid) /\ result' # "panic"
    BY <1>5 DEF PackageStop, Stopping, Outcomes, docVars
  <2>2. ~package_uid /\ open = <<>> => doc = <<>>
    <3>1. IsSeq(doc) /\ IsSeq(open) /\ FlagsOK
      BY <2>1 DEF PackageInv, ReaderInv, DocInv, DocShape
    <3>2. \A s : IsSeq(s) => Len(s) \in Nat /\ (s = <<>> <=> Len(s) = 0)
      BY DEF IsSeq
    <3>3. (package_uid <=> Len(doc) > 0 /\ Len(open) = 0) /\ Len(doc) \in Nat
      BY <3>1, <3>2 DEF FlagsOK
    <3>4. Len(doc) = 0 => doc = <<>>
      BY <3>1, <3>2
    <3>5. open = <<>> => Len(open) = 0
      BY <3>1, <3>2
    <3>6. Len(doc) = 0 \/ Len(doc) > 0
      BY <3>3
    <3> QED
      BY <3>3, <3>4, <3>5, <3>6
  <2> QED
    BY <2>1, <2>2 DEF PanicMeansBadFile
<1>6. result' = "reading" => PanicMeansBadFile'
  BY DEF PanicMeansBadFile
<1> QED
  BY <1>1, <1>2, <1>3, <1>4, <1>5, <1>6
  DEF PackageNext, PackageStart, Starting, PackageCharacters, Characters

(* Package::read aborts the process only over an element without the       *)
(* attributes it must have, an end tag that does not match, or, behind the *)
(* last line, a document that is cut off or empty.                         *)
THEOREM PackagePanics == PackageSpec => []PanicMeansBadFile
<1>1. ReaderInit => PanicMeansBadFile
  BY DEF ReaderInit, PanicMeansBadFile
<1>2. PackageInv /\ PanicMeansBadFile /\ [PackageNext]_<<readerVars, packageVars>> => PanicMeansBadFile'
  BY PackagePanicKept
<1> QED
  BY <1>1, <1>2, PackageFlags, PTL DEF PackageSpec

(* What Package::read returns was closed to the last element.              *)
THEOREM WholePackage == PackageSpec => []OkMeansWholePackage
<1> DEFINE Closed == result = "ok" => open = <<>>
<1>1. ReaderInit => Closed
  BY DEF ReaderInit
<1>2. PackageInv /\ Closed /\ [PackageNext]_<<readerVars, packageVars>> => Closed'
  <2> SUFFICES ASSUME PackageInv, Closed, [PackageNext]_<<readerVars, packageVars>>, result' = "ok"
               PROVE  open' = <<>>
    OBVIOUS
  <2>1. CASE UNCHANGED <<readerVars, packageVars>>
    BY <2>1 DEF readerVars, docVars
  <2>2. CASE PackageStop
    <3>1. result = "reading" /\ open' = open /\ package_uid
      BY <2>2 DEF PackageStop, Stopping, Outcomes, docVars
    <3> QED
      BY <3>1 DEF PackageInv, ReaderInv, FlagsOK, DocInv, DocShape, IsSeq
  <2>3. ASSUME NEW n \in Names, PackageEnd(n) PROVE result' # "ok"
    BY <2>3 DEF PackageEnd, Asserted
  <2> QED
    BY <2>1, <2>2, <2>3 DEF PackageNext, PackageStart, Starting, BadSpine, PackageCharacters, Characters,
       PackageEndWrongly
<1>3. Closed => OkMeansWholePackage
  BY DEF OkMeansWholePackage
<1> QED
  BY <1>1, <1>2, <1>3, PackageFlags, PTL DEF PackageSpec

--------------------------------------------------------------------------------
(* Manifest and spine, as lists of elements of the document.               *)
Spines == {k \in DOMAIN doc : Named(k, "spine")}
SpineInv ==
  result \in {"reading", "ok"} =>
    /\ IsSeq(manifest) /\ IsSeq(spine.itemrefs) /\ IsSeq(spine.toc)
    /\ spine = [toc |-> spine.toc, itemrefs |-> spine.itemrefs]
    /\ Lists(manifest, Those("item", "manifest"))
    /\ Lists(spine.itemrefs, Those("itemref", "spine"))
    /\ Lists(spine.toc, Spines)

LEMMA SpineStart ==
  ASSUME PackageInv, SpineInv, NEW n \in Names, NEW a, PackageStart(n, a)
  PROVE  SpineInv'
<1>1. result = "reading" /\ DocInv("package") /\ Opens("package", n, a) /\ IsSeq(doc)
  BY DEF PackageStart, Starting, PackageInv, ReaderInv, DocInv, DocShape
<1>2. /\ \A k \in 1 .. Len(doc) : doc'[k] = doc[k]
      /\ doc'[Len(doc) + 1].name = n
      /\ DOMAIN doc' = 1 .. Len(doc) + 1
      /\ \A k \in 1 .. Len(doc) : Whole(k)' <=> Whole(k)
      /\ \A k \in DOMAIN doc' : k \in 1 .. Len(doc) \/ ~Whole(k)'
      /\ \A k \in 1 .. Len(doc) : \A s : In(k, s)' <=> In(k, s)
  BY <1>1, Opening, OpeningWhole
<1>3. Len(doc) \in Nat /\ DOMAIN doc = 1 .. Len(doc)
  BY <1>1 DEF IsSeq
<1>4. \A k \in DOMAIN doc' : k \in DOMAIN doc \/ k = Len(doc) + 1
  BY <1>2, <1>3
<1>5. \A e, s : Those(e, s)' = Those(e, s)
  <2>1. \A k \in DOMAIN doc : \A e : k \in DOMAIN doc' /\ (Named(k, e)' <=> Named(k, e))
    BY <1>2, <1>3 DEF Named
  <2>2. \A k \in DOMAIN doc' : k \in DOMAIN doc \/ ~Whole(k)'
    BY <1>2, <1>3
  <2>3. \A k \in DOMAIN doc : \A s : (Whole(k)' <=> Whole(k)) /\ (In(k, s)' <=> In(k, s))
    BY <1>2, <1>3
  <2> QED
    BY <2>1, <2>2, <2>3 DEF Those
<1>6. Spines' = IF n = "spine" THEN Spines \cup {Len(doc) + 1} ELSE Spines
  BY <1>2, <1>3, <1>4 DEF Spines, Named
<1>7. \A x \in Spines : x < Len(doc) + 1
  BY <1>3 DEF Spines
<1>8. Len(doc') = Len(doc) + 1
  BY <1>1, Opening
<1>9. manifest' = manifest /\ spine' = IF n = "spine" THEN AddSpine(n, Len(doc) + 1) ELSE spine
  BY <1>8 DEF PackageStart
<1>10. /\ IsSeq(spine.toc) /\ Lists(spine.toc, Spines)
       /\ spine = [toc |-> spine.toc, itemrefs |-> spine.itemrefs]
  BY <1>1 DEF SpineInv
<1>11. CASE n = "spine"
  <2>1. PICK t : t = Append(spine.toc, Len(doc) + 1)
    OBVIOUS
  <2>2. spine' = [toc |-> t, itemrefs |-> spine.itemrefs]
    BY <1>9, <1>10, <1>11, <2>1 DEF AddSpine
  <2>3. IsSeq(t) /\ Lists(t, Spines')
    BY <1>6, <1>7, <1>10, <1>11, <2>1, ListGrows
  <2>4. Lists(spine.toc, Spines)' /\ IsSeq(spine.toc)'
    BY <2>2, <2>3 DEF Lists
  <2>5. spine'.toc = t /\ spine'.itemrefs = spine.itemrefs
    BY <2>2
  <2> QED
    BY <1>1, <1>5, <1>9, <2>2, <2>4, <2>5 DEF SpineInv, Lists, IsSeq
<1>12. CASE n # "spine"
  BY <1>1, <1>5, <1>6, <1>9, <1>12 DEF SpineInv, Lists, IsSeq
<1> QED
  BY <1>11, <1>12

LEMMA SpineEnd ==
  ASSUME PackageInv, SpineInv, NEW n \in Names, PackageEnd(n)
  PROVE  SpineInv'
<1> SUFFICES ASSUME result' \in {"reading", "ok"} PROVE SpineInv'
  BY DEF SpineInv
<1>1. /\ result = "reading" /\ DocInv("package") /\ Closes(n) /\ doc' = doc /\ ~Lacks(n)
      /\ Top.num = open[Len(open)] /\ Top.num \in DOMAIN doc /\ DOMAIN doc = 1 .. Len(doc)
      /\ doc[Top.num].name = n
      /\ \A s \in {"manifest", "spine"} :
           /\ Section = s <=> In(Top.num, s)
           /\ Section = s => Top.num = Len(doc) /\ n = IF s = "manifest" THEN "item" ELSE "itemref"
  BY EndedIn, Closing DEF PackageEnd, Ending, Closes, Sections
<1>2. \A k : Whole(k)' <=> Whole(k) \/ k = Top.num
  BY <1>1, ClosingWhole
<1>3. ~Whole(Top.num) /\ Len(doc) \in Nat
  <2>1. Len(open) \in 1 .. Len(open)
    BY <1>1, Closing
  <2> QED
    BY <1>1, <2>1 DEF Whole, Contains, DocInv, DocShape, IsSeq
<1>4. \A e, s : Those(e, s)' = IF In(Top.num, s) /\ n = e THEN Those(e, s) \cup {Top.num} ELSE Those(e, s)
  BY <1>1, <1>2 DEF Those, Named, In, Parent
<1>5. \A e, s, x : x \in Those(e, s) => x \in 1 .. Len(doc) /\ x # Top.num
  BY <1>1, <1>3 DEF Those
<1>6. Spines' = Spines
  BY <1>1 DEF Spines, Named
<1>7. /\ IsSeq(manifest) /\ IsSeq(spine.itemrefs) /\ IsSeq(spine.toc)
      /\ spine = [toc |-> spine.toc, itemrefs |-> spine.itemrefs]
      /\ Lists(manifest, Those("item", "manifest"))
      /\ Lists(spine.itemrefs, Those("itemref", "spine"))
      /\ Lists(spine.toc, Spines)
  BY <1>1 DEF SpineInv
<1>8. /\ manifest' = IF Section = "manifest" THEN AddItem(Top.num) ELSE manifest
      /\ spine' = IF Section = "spine" THEN AddSpine(n, Top.num) ELSE spine
  BY <1>1 DEF PackageEnd
<1>9. IsSeq(manifest') /\ Lists(manifest', Those("item", "manifest")')
  <2>1. CASE Section = "manifest"
    <3>1. Those("item", "manifest")' = Those("item", "manifest") \cup {Top.num}
      BY <1>1, <1>4, <2>1
    <3>2. \A x \in Those("item", "manifest") : x < Top.num
      BY <1>1, <1>3, <1>5, <2>1
    <3>3. manifest' = Append(manifest, Top.num)
      BY <1>8, <2>1 DEF AddItem
    <3> QED
      BY <1>7, <3>1, <3>2, <3>3, ListGrows
  <2>2. CASE Section # "manifest"
    BY <1>1, <1>4, <1>7, <1>8, <2>2
  <2> QED
    BY <2>1, <2>2
<1>10. /\ IsSeq(spine'.itemrefs) /\ Lists(spine'.itemrefs, Those("itemref", "spine")')
       /\ spine'.toc = spine.toc
       /\ spine' = [toc |-> spine'.toc, itemrefs |-> spine'.itemrefs]
  <2>1. CASE Section = "spine"
    <3>1. Those("itemref", "spine")' = Those("itemref", "spine") \cup {Top.num}
      BY <1>1, <1>4, <2>1
    <3>2. \A x \in Those("itemref", "spine") : x < Top.num
      BY <1>1, <1>3, <1>5, <2>1
    <3>3. PICK t : t = Append(spine.itemrefs, Top.num)
      OBVIOUS
    <3>4. spine' = [toc |-> spine.toc, itemrefs |-> t]
      BY <1>1, <1>7, <1>8, <2>1, <3>3 DEF AddSpine
    <3>5. IsSeq(t) /\ Lists(t, Those("itemref", "spine")')
      BY <1>7, <3>1, <3>2, <3>3, ListGrows
    <3>6. spine'.itemrefs = t /\ spine'.toc = spine.toc
      BY <3>4
    <3> QED
      BY <3>4, <3>5, <3>6
  <2>2. CASE Section # "spine"
    BY <1>1, <1>4, <1>7, <1>8, <2>2
  <2> QED
    BY <2>1, <2>2
<1> QED
  BY <1>6, <1>7, <1>9, <1>10 DEF SpineInv, Lists, IsSeq

LEMMA SpineKept ==
  ASSUME PackageInv, SpineInv, [PackageNext]_<<readerVars, packageVars>>
  PROVE  SpineInv'
<1>1. ASSUME UNCHANGED <<doc, open, packageVars>>, result \in {"reading", "ok"} \/ result' = result
      PROVE SpineInv'
  BY <1>1 DEF packageVars, SpineInv, Those, Spines, Named, In, Parent, Whole, Lists, IsSeq
<1>2. ASSUME NEW w, PackageCharacters(w) PROVE SpineInv'
  <2>1. result = "reading" /\ Says(w) /\ DocInv("package") /\ UNCHANGED packageVars
    BY <1>2 DEF PackageCharacters, Characters, PackageInv, ReaderInv
  <2>2. /\ DOMAIN doc' = DOMAIN doc
        /\ \A k, s : (Named(k, s)' <=> Named(k, s)) /\ (Whole(k)' <=> Whole(k))
        /\ \A k \in DOMAIN doc : \A s : In(k, s)' <=> In(k, s)
    BY <2>1, SayingWhole
  <2>3. Spines' = Spines /\ \A e, s : Those(e, s)' = Those(e, s)
    BY <2>2 DEF Spines, Those
  <2> QED
    BY <2>1, <2>3 DEF packageVars, SpineInv, Lists, IsSeq
<1>3. BadSpine \/ PackageEndWrongly => SpineInv'
  BY DEF BadSpine, PackageEndWrongly, SpineInv
<1>4. PackageStop => SpineInv'
  BY <1>1 DEF PackageStop, Stopping, docVars
<1>5. UNCHANGED <<readerVars, packageVars>> => SpineInv'
  BY <1>1 DEF readerVars, docVars
<1> QED
  BY <1>2, <1>3, <1>4, <1>5, SpineStart, SpineEnd DEF PackageNext

(* The manifest holds the items of the manifest section and the spine the  *)
(* itemrefs of the spine section, all of them and in their order, however  *)
(* the flags and the end tags follow each other.                           *)
THEOREM SpineCorrect == PackageSpec => []SpineIsDocuments
<1>1. ReaderInit /\ PackageInit => SpineInv
  <2> SUFFICES ASSUME ReaderInit, PackageInit PROVE SpineInv
    OBVIOUS
  <2>1. doc = <<>> /\ manifest = <<>> /\ spine = [toc |-> <<>>, itemrefs |-> <<>>]
    BY DEF ReaderInit, DocInit, PackageInit
  <2>2. DOMAIN doc = {} /\ IsSeq(<<>>) /\ Lists(<<>>, {})
    BY <2>1 DEF IsSeq, Lists, Range
  <2> QED
    BY <2>1, <2>2 DEF SpineInv, Those, Spines
<1>2. PackageInv /\ SpineInv /\ [PackageNext]_<<readerVars, packageVars>> => SpineInv'
  BY SpineKept
<1>3. SpineInv => SpineIsDocuments
  BY DEF SpineInv, SpineIsDocuments, Spines
<1> QED
  BY <1>1, <1>2, <1>3, PackageFlags, PTL DEF PackageSpec

--------------------------------------------------------------------------------
(* get_container_rootfile.  As long as no end tag was wrong, its flag says *)
(* whether the open elements are in the rootfiles.                         *)
RootfileInv ==
  /\ ReaderInv("container")
  /\ result = "reading" /\ ~broken => (in_rootfiles <=> Under("rootfiles"))

LEMMA RootfileStructure ==
  ASSUME DocInv("container"), NEW i \in 1 .. Len(open)
  PROVE  /\ doc[open[i]].name = "container" <=> i = 1
         /\ doc[open[i]].name = "rootfiles" => i = 2
         /\ doc[open[i]].name = "rootfile" =>
              i = Len(open) /\ Len(open) = 3 /\ doc[open[2]].name = "rootfiles"
<1>1. i \in Nat /\ i >= 1 /\ Len(open) \in Nat
  BY DEF DocInv, DocShape, IsSeq
<1>2. open[i] \in 1 .. Len(doc) /\ \A j \in 1 .. Len(open) : doc[open[j]].name \in Names
  BY DEF DocInv, DocShape, Ordered
<1>3. open[1] = 1 /\ doc[1].name = "container"
  BY <1>1, <1>2 DEF DocInv, Rooted
<1>4. ASSUME NEW j \in 1 .. Len(open), j > 1
      PROVE  /\ j - 1 \in 1 .. Len(open) /\ j \in Nat
             /\ doc[open[j]].name # "container"
             /\ doc[open[j]].name = "rootfiles" => doc[open[j - 1]].name = "container"
             /\ doc[open[j]].name = "rootfile" => doc[open[j - 1]].name = "rootfiles"
  <2>1. j - 1 \in 1 .. Len(open) /\ j = (j - 1) + 1
    BY <1>1, <1>4
  <2>2. doc[open[j]].name \in Children[doc[open[j - 1]].name] /\ doc[open[j - 1]].name \in Names
    BY <1>2, <2>1 DEF DocInv, Linked
  <2> QED
    BY <2>1, <2>2, ContainerFormat
<1>5. ASSUME NEW j \in 1 .. Len(open), doc[open[j]].name = "rootfiles" PROVE j = 2
  <2>1. j > 1 /\ j \in Nat
    BY <1>3, <1>5
  <2>2. doc[open[j - 1]].name = "container" /\ j - 1 \in 1 .. Len(open)
    BY <1>4, <1>5, <2>1
  <2>3. ~(j - 1 > 1)
    BY <1>4, <2>2
  <2> QED
    BY <2>1, <2>3
<1>6. ASSUME doc[open[i]].name = "rootfile"
      PROVE  i = Len(open) /\ Len(open) = 3 /\ doc[open[2]].name = "rootfiles"
  <2>1. i > 1
    BY <1>1, <1>3, <1>6
  <2>2. doc[open[i - 1]].name = "rootfiles" /\ i - 1 \in 1 .. Len(open)
    BY <1>4, <1>6, <2>1
  <2>3. i - 1 = 2
    BY <1>5, <2>2
  <2>4. i = 3
    BY <1>1, <2>3
  <2>5. ASSUME 4 \in 1 .. Len(open) PROVE FALSE
    <3>1. 3 \in 1 .. Len(open) /\ 4 = 3 + 1
      BY <2>4
    <3>2. doc[open[4]].name \in Children[doc[open[3]].name]
      BY <2>5, <3>1 DEF DocInv, Linked
    <3> QED
      BY <1>6, <2>4, <3>2, ContainerFormat
  <2>6. PICK m \in Nat : m = Len(open)
    BY <1>1
  <2>7. m >= 3 /\ 4 \notin 1 .. m
    BY <2>4, <2>5, <2>6
  <2>8. m = 3
    BY <2>7
  <2> QED
    BY <2>2, <2>3, <2>4, <2>6, <2>8
<1>7. doc[open[i]].name = "container" <=> i = 1
  BY <1>1, <1>3, <1>4
<1> QED
  BY <1>5, <1>6, <1>7

(* The element that ends, without an end tag having been wrong. *)
LEMMA RootfileEnded ==
  ASSUME RootfileInv, NEW n \in Names, RootfileEnd(n), ~broken'
  PROVE  /\ DocInv("container") /\ StackOK /\ Closes(n) /\ ~broken
         /\ Top.num = open[Len(open)] /\ Top.num \in 1 .. Len(doc) /\ DOMAIN doc = 1 .. Len(doc)
         /\ doc[Top.num].name = n
         /\ Takes(n) <=> n = "rootfile"
         /\ in_rootfiles' <=> Under("rootfiles")'
         /\ n = "rootfile" => Top.num = Len(doc) /\ doc[Top.num].attrs \in {"good", "missing"}
<1>1. /\ result = "reading" /\ stack # <<>> /\ Closes(n) /\ broken' = broken
  BY DEF RootfileEnd, Ending, EndingWrongly, Closes, ClosesWrongly
<1>2. DocInv("container") /\ StackOK /\ (in_rootfiles <=> Under("rootfiles"))
  BY <1>1 DEF RootfileInv, ReaderInv
<1>3. /\ Top.num = open[Len(open)] /\ Top.num \in 1 .. Len(doc) /\ DOMAIN doc = 1 .. Len(doc)
      /\ Len(open) \in Nat /\ Len(open) > 0
  BY <1>1, <1>2, TopFacts
<1>4. /\ doc' = doc /\ Len(open') = Len(open) - 1 /\ doc[Top.num].name = n
      /\ \A i \in 1 .. Len(open) - 1 : open'[i] = open[i]
  BY <1>1, <1>2, <1>3, Closing
<1>5. Len(open) \in 1 .. Len(open)
  BY <1>3
<1>6. n = "rootfile" <=> Under("rootfiles") /\ n # "rootfiles"
  <2>1. n = "rootfile" => Under("rootfiles")
    BY <1>2, <1>3, <1>4, <1>5, RootfileStructure DEF Under
  <2>2. ASSUME Under("rootfiles"), n # "rootfiles" PROVE n = "rootfile"
    <3>1. 2 \in 1 .. Len(open) /\ doc[open[2]].name = "rootfiles" /\ Len(open) # 2
      BY <1>3, <1>4, <2>2 DEF Under
    <3>2. 3 \in 1 .. Len(open) /\ 3 = 2 + 1
      <4>1. PICK m \in Nat : m = Len(open)
        BY <1>3
      <4>2. 2 \in 1 .. m /\ m # 2
        BY <3>1, <4>1
      <4>3. 3 \in 1 .. m
        BY <4>2
      <4> QED
        BY <4>1, <4>3
    <3>3. doc[open[3]].name \in Children["rootfiles"]
      BY <1>2, <3>1, <3>2 DEF DocInv, Linked
    <3>4. doc[open[3]].name = "rootfile"
      BY <3>3, ContainerFormat
    <3>5. 3 = Len(open)
      BY <1>2, <3>2, <3>4, RootfileStructure
    <3> QED
      BY <1>3, <1>4, <3>4, <3>5
  <2> QED
    BY <2>1, <2>2
<1>7. Under("rootfiles")' <=> Under("rootfiles") /\ n # "rootfiles"
  <2>1. CASE Len(open) > 2
    <3>1. 2 \in 1 .. Len(open) - 1 /\ Len(open') >= 2
      BY <1>3, <1>4, <2>1
    <3>2. n # "rootfiles"
      BY <1>2, <1>3, <1>4, <1>5, <2>1, RootfileStructure
    <3> QED
      BY <1>4, <2>1, <3>1, <3>2 DEF Under
  <2>2. CASE ~(Len(open) > 2)
    <3>1. ~Under("rootfiles")'
      BY <1>3, <1>4, <2>2 DEF Under
    <3>2. ASSUME Under("rootfiles") PROVE n = "rootfiles"
      <4>1. PICK m \in Nat : m = Len(open)
        BY <1>3
      <4>2. m >= 2 /\ ~(m > 2)
        BY <2>2, <3>2, <4>1 DEF Under
      <4>3. m = 2
        BY <4>2
      <4> QED
        BY <1>3, <1>4, <3>2, <4>1, <4>3 DEF Under
    <3> QED
      BY <3>1, <3>2
  <2> QED
    BY <2>1, <2>2
<1>8. (Takes(n) <=> n = "rootfile") /\ (in_rootfiles' <=> Under("rootfiles")')
  <2>1. in_rootfiles' = (in_rootfiles /\ n # "rootfiles")
    BY DEF RootfileEnd
  <2> QED
    BY <1>2, <1>6, <1>7, <2>1 DEF Takes
<1>9. ASSUME n = "rootfile" PROVE Top.num = Len(doc) /\ doc[Top.num].attrs \in {"good", "missing"}
  <2>1. Children[n] = {} /\ AttributesOf(n) \subseteq {"good", "missing"}
    BY <1>9, ContainerFormat
  <2>2. doc[Top.num].attrs \in AttributesOf(n)
    BY <1>2, <1>3, <1>4 DEF DocInv, DocShape
  <2> QED
    BY <1>2, <1>3, <1>4, <2>1, <2>2 DEF DocInv, LeafIsLast
<1> QED
  BY <1>1, <1>2, <1>3, <1>4, <1>8, <1>9

LEMMA RootfileInvKept ==
  ASSUME RootfileInv, [RootfileNext]_<<readerVars, rootfileVars>>
  PROVE  RootfileInv'
<1> DEFINE FlagOK == result = "reading" /\ ~broken => (in_rootfiles <=> Under("rootfiles"))
<1>1. ReaderInv("container")'
  BY RootfileKept DEF RootfileInv
<1>2. CASE UNCHANGED <<readerVars, rootfileVars>>
  BY <1>1, <1>2 DEF readerVars, docVars, rootfileVars, RootfileInv, Under
<1>3. ASSUME NEW n \in Names, NEW a, RootfileStart(n, a) PROVE FlagOK'
  <2>1. result = "reading" /\ DocInv("container") /\ Opens("container", n, a) /\ broken' = broken
    BY <1>3 DEF RootfileStart, Starting, Opens, RootfileInv, ReaderInv
  <2>2. /\ Len(open') = Len(open) + 1 /\ open'[Len(open) + 1] = Len(doc) + 1
        /\ doc'[Len(doc) + 1].name = n
        /\ \A k \in 1 .. Len(doc) : doc'[k] = doc[k]
        /\ \A i \in 1 .. Len(open) : open'[i] = open[i]
        /\ Len(open) \in Nat
        /\ IF Len(open) = 0 THEN n = "container" ELSE n \in Children[doc[open[Len(open)]].name]
    BY <2>1, Opening
  <2>3. Under("rootfiles")' <=> Under("rootfiles") \/ n = "rootfiles"
    <3>1. CASE Len(open) = 0
      <4>1. Len(open') = 1 /\ n = "container"
        BY <2>2, <3>1
      <4> QED
        BY <3>1, <4>1 DEF Under
    <3>2. CASE Len(open) = 1
      <4>1. Len(open') = 2 /\ open'[2] = Len(doc) + 1
        BY <2>2, <3>2
      <4>2. Under("rootfiles")' <=> n = "rootfiles"
        BY <2>2, <4>1 DEF Under
      <4>3. ~Under("rootfiles")
        BY <3>2 DEF Under
      <4> QED
        BY <4>2, <4>3
    <3>3. CASE Len(open) >= 2
      <4>1. 2 \in 1 .. Len(open) /\ Len(open) \in 1 .. Len(open)
        BY <2>2, <3>3
      <4>2. open'[2] = open[2] /\ open[2] \in 1 .. Len(doc) /\ Len(open') >= 2
        BY <2>1, <2>2, <3>3, <4>1 DEF DocInv, Ordered
      <4>3. Under("rootfiles")' <=> Under("rootfiles")
        BY <2>2, <3>3, <4>2 DEF Under
      <4>4. doc[open[Len(open)]].name \in Names /\ doc[open[Len(open)]].name # "container"
        BY <2>1, <3>3, <4>1, RootfileStructure DEF DocInv, DocShape, Ordered
      <4>5. n # "rootfiles"
        BY <2>2, <3>3, <4>4, ContainerFormat
      <4> QED
        BY <4>3, <4>5
    <3>4. Len(open) = 0 \/ Len(open) = 1 \/ Len(open) >= 2
      <4>1. PICK m \in Nat : m = Len(open)
        BY <2>2
      <4>2. m = 0 \/ m = 1 \/ m >= 2
        OBVIOUS
      <4> QED
        BY <4>1, <4>2
    <3> QED
      BY <3>1, <3>2, <3>3, <3>4
  <2>4. in_rootfiles' = (in_rootfiles \/ n = "rootfiles")
    BY <1>3 DEF RootfileStart
  <2> QED
    BY <2>1, <2>3, <2>4 DEF RootfileInv
<1>4. ASSUME NEW n \in Names, RootfileEnd(n) PROVE FlagOK'
  BY <1>4, RootfileEnded
<1>5. RootfileStop => FlagOK'
  BY DEF RootfileStop, Stopping
<1> QED
  BY <1>1, <1>2, <1>3, <1>4, <1>5 DEF RootfileNext, RootfileInv

LEMMA RootfileFlag == RootfileSpec => []RootfileInv
<1>1. ReaderInit /\ RootfileInit => RootfileInv
  <2>1. ReaderInit => ReaderInv("container")
    BY ReaderInitially
  <2> QED
    BY <2>1 DEF ReaderInit, DocInit, RootfileInit, RootfileInv, Under
<1>2. RootfileInv /\ [RootfileNext]_<<readerVars, rootfileVars>> => RootfileInv'
  BY RootfileInvKept
<1> QED
  BY <1>1, <1>2, PTL DEF RootfileSpec

(* get_container_rootfile aborts the process only over a rootfile without  *)
(* full-path or media-type, or an end tag that does not match.             *)
THEOREM RootfilePanics == RootfileSpec => []PanicMeansBadFile
<1>1. ReaderInit => PanicMeansBadFile
  BY DEF ReaderInit, PanicMeansBadFile
<1>2. RootfileInv /\ PanicMeansBadFile /\ [RootfileNext]_<<readerVars, rootfileVars>> => PanicMeansBadFile'
  <2> SUFFICES ASSUME RootfileInv, PanicMeansBadFile, [RootfileNext]_<<readerVars, rootfileVars>>
               PROVE  PanicMeansBadFile'
    OBVIOUS
  <2>1. CASE UNCHANGED <<readerVars, rootfileVars>>
    BY <2>1 DEF readerVars, docVars, PanicMeansBadFile
  <2>2. ASSUME NEW n \in Names, RootfileEnd(n) PROVE PanicMeansBadFile'
    <3>1. CASE broken'
      BY <2>2, <3>1 DEF RootfileEnd, PanicMeansBadFile
    <3>2. CASE ~broken'
      <4>1. /\ doc' = doc /\ Top.num \in DOMAIN doc
            /\ Takes(n) => doc[Top.num].attrs \in {"good", "missing"}
        BY <2>2, <3>2, RootfileEnded DEF Closes
      <4>2. result' = "panic" => Takes(n) /\ doc[Top.num].attrs # "good"
        BY <2>2 DEF RootfileEnd, TopHas
      <4>3. result' # "panic at end"
        BY <2>2 DEF RootfileEnd
      <4> QED
        BY <4>1, <4>2, <4>3 DEF PanicMeansBadFile
    <3> QED
      BY <3>1, <3>2
  <2>3. ASSUME NEW n, NEW a, RootfileStart(n, a) PROVE PanicMeansBadFile'
    BY <2>3 DEF RootfileStart, Starting, PanicMeansBadFile
  <2>4. RootfileStop => PanicMeansBadFile'
    BY DEF RootfileStop, Stopping, PanicMeansBadFile
  <2> QED
    BY <2>1, <2>2, <2>3, <2>4 DEF RootfileNext
<1> QED
  BY <1>1, <1>2, RootfileFlag, PTL DEF RootfileSpec

Rootfiles == {k \in DOMAIN doc : Named(k, "rootfile") /\ Whole(k)}
LastInv ==
  result \in {"reading", "ok"} /\ ~broken =>
    /\ IsSeq(doc) /\ (Len(doc) > 0 => doc[1].name = "container")
    /\ root_file \in Rootfiles \cup {0} /\ \A k \in Rootfiles : k <= root_file

LEMMA LastKept ==
  ASSUME RootfileInv, LastInv, [RootfileNext]_<<readerVars, rootfileVars>>
  PROVE  LastInv'
<1>1. ASSUME UNCHANGED <<docVars, rootfileVars>>, result \in {"reading", "ok"} \/ result' = result
      PROVE LastInv'
  BY <1>1 DEF docVars, rootfileVars, LastInv, Rootfiles, Named, Whole, IsSeq
<1>2. ASSUME NEW n \in Names, NEW a, RootfileStart(n, a) PROVE LastInv'
  <2> SUFFICES ASSUME ~broken' PROVE LastInv'
    BY DEF LastInv
  <2>1. /\ result = "reading" /\ DocInv("container") /\ Opens("container", n, a) /\ ~broken
        /\ root_file' = root_file
    BY <1>2 DEF RootfileStart, Starting, Opens, RootfileInv, ReaderInv
  <2>2. DocInv("container")' /\ \A k \in 1 .. Len(doc) : doc'[k] = doc[k]
    BY <2>1, Opening
  <2>3. /\ DOMAIN doc' = 1 .. Len(doc) + 1
        /\ \A k \in 1 .. Len(doc) : Whole(k)' <=> Whole(k)
        /\ \A k \in DOMAIN doc' : k \in 1 .. Len(doc) \/ ~Whole(k)'
    BY <2>1, OpeningWhole
  <2>4. DOMAIN doc = 1 .. Len(doc) /\ Len(doc) \in Nat
    BY <2>1 DEF DocInv, DocShape, IsSeq
  <2>5. \A k \in DOMAIN doc : k \in DOMAIN doc' /\ (Named(k, "rootfile")' <=> Named(k, "rootfile"))
    BY <2>2, <2>3, <2>4 DEF Named
  <2>6. Rootfiles' = Rootfiles
    BY <2>3, <2>4, <2>5 DEF Rootfiles
  <2>7. IsSeq(doc') /\ (Len(doc') > 0 => doc'[1].name = "container")
    BY <2>2 DEF DocInv, DocShape, Rooted
  <2> QED
    BY <2>1, <2>6, <2>7 DEF LastInv, IsSeq
<1>3. ASSUME NEW n \in Names, RootfileEnd(n) PROVE LastInv'
  <2> SUFFICES ASSUME ~broken', result' # "panic" PROVE LastInv'
    BY DEF LastInv
  <2>1. /\ DocInv("container") /\ Closes(n) /\ ~broken
        /\ Top.num = open[Len(open)] /\ Top.num \in 1 .. Len(doc) /\ DOMAIN doc = 1 .. Len(doc)
        /\ doc[Top.num].name = n
        /\ Takes(n) <=> n = "rootfile"
        /\ n = "rootfile" => Top.num = Len(doc)
    BY <1>3, RootfileEnded
  <2>2. result = "reading" /\ doc' = doc /\ root_file' = IF n = "rootfile" THEN Top.num ELSE root_file
    BY <1>3, <2>1 DEF RootfileEnd, Ending, EndingWrongly, Closes, Chosen
  <2>3. \A k : Whole(k)' <=> Whole(k) \/ k = Top.num
    BY <2>1, ClosingWhole
  <2>4. Rootfiles' = IF n = "rootfile" THEN Rootfiles \cup {Top.num} ELSE Rootfiles
    BY <2>1, <2>2, <2>3 DEF Rootfiles, Named
  <2>5. /\ IsSeq(doc) /\ (Len(doc) > 0 => doc[1].name = "container")
        /\ root_file \in Rootfiles \cup {0} /\ \A k \in Rootfiles : k <= root_file
    BY <2>1, <2>2 DEF LastInv
  <2>6. root_file' \in Rootfiles' \cup {0} /\ \A k \in Rootfiles' : k <= root_file'
    <3>1. CASE n = "rootfile"
      <4>1. \A k \in Rootfiles' : k \in 1 .. Len(doc)
        BY <2>1, <2>2 DEF Rootfiles
      <4>2. Len(doc) \in Nat
        BY <2>5 DEF IsSeq
      <4>3. root_file' = Len(doc) /\ root_file' \in Rootfiles'
        BY <2>1, <2>2, <2>4, <3>1
      <4> QED
        BY <4>1, <4>2, <4>3
    <3>2. CASE n # "rootfile"
      BY <2>2, <2>4, <2>5, <3>2
    <3> QED
      BY <3>1, <3>2
  <2> QED
    BY <2>2, <2>5, <2>6 DEF LastInv
<1>4. RootfileStop => LastInv'
  BY <1>1 DEF RootfileStop, Stopping
<1>5. UNCHANGED <<readerVars, rootfileVars>> => LastInv'
  BY <1>1 DEF readerVars
<1> QED
  BY <1>2, <1>3, <1>4, <1>5 DEF RootfileNext

(* The root file is the last whole rootfile of container.xml, of however   *)
(* many, and None when there is none.                                      *)
THEOREM RootfileCorrect == RootfileSpec => []RootfileIsLast
<1>1. ReaderInit /\ RootfileInit => LastInv
  <2> SUFFICES ASSUME ReaderInit, RootfileInit PROVE LastInv
    OBVIOUS
  <2>1. doc = <<>> /\ root_file = 0
    BY DEF ReaderInit, DocInit, RootfileInit
  <2> QED
    BY <2>1 DEF LastInv, Rootfiles, IsSeq
<1>2. RootfileInv /\ LastInv /\ [RootfileNext]_<<readerVars, rootfileVars>> => LastInv'
  BY LastKept
<1>3. LastInv => RootfileIsLast
  <2> SUFFICES ASSUME LastInv, result \in {"reading", "ok"}, ~broken
               PROVE  IF Named(1, "container")
                      THEN root_file \in Rootfiles \cup {0} /\ \A k \in Rootfiles : k <= root_file
                      ELSE root_file = 0
    BY DEF RootfileIsLast, Rootfiles
  <2>1. /\ DOMAIN doc = 1 .. Len(doc) /\ Len(doc) \in Nat
        /\ Len(doc) > 0 => doc[1].name = "container"
        /\ root_file \in Rootfiles \cup {0} /\ \A k \in Rootfiles : k <= root_file
    BY DEF LastInv, IsSeq
  <2>2. Len(doc) > 0 => Named(1, "container")
    BY <2>1 DEF Named
  <2>3. ~(Len(doc) > 0) => Rootfiles = {}
    BY <2>1 DEF Rootfiles
  <2> QED
    BY <2>1, <2>2, <2>3
<1> QED
  BY <1>1, <1>2, <1>3, RootfileFlag, PTL DEF RootfileSpec

--------------------------------------------------------------------------------
(* InOrder: what it is made of, and what one element more adds to it.      *)
Parts(set, of, n) == [k \in 1 .. n |-> IF k \in set THEN of[k] ELSE <<>>]

LEMMA PartsFacts ==
  ASSUME NEW n \in Nat, NEW set, NEW of, \A k \in set : IsSeq(of[k])
  PROVE  /\ IsSeq(Parts(set, of, n)) /\ Len(Parts(set, of, n)) = n
         /\ \A k \in 1 .. n : /\ Parts(set, of, n)[k] = IF k \in set THEN of[k] ELSE <<>>
                              /\ IsSeq(Parts(set, of, n)[k])
<1>1. IsSeq(Parts(set, of, n)) /\ Len(Parts(set, of, n)) = n
  BY DEF Parts, IsSeq
<1>2. \A k \in 1 .. n : Parts(set, of, n)[k] = IF k \in set THEN of[k] ELSE <<>>
  BY DEF Parts
<1>3. IsSeq(<<>>)
  BY NothingIsSeq
<1> QED
  BY <1>1, <1>2, <1>3

LEMMA InOrderIsSeq ==
  ASSUME NEW set, NEW of, IsSeq(of), \A k \in set : IsSeq(of[k])
  PROVE  IsSeq(InOrder(set, of))
<1>1. Len(of) \in Nat /\ InOrder(set, of) = FlattenSeq(Parts(set, of, Len(of)))
  BY DEF InOrder, Parts, IsSeq
<1> QED
  BY <1>1, PartsFacts, FlattenIsSeq

LEMMA InOrderUpTo ==
  ASSUME NEW of, IsSeq(of), NEW n \in Nat, n <= Len(of), NEW set, set \subseteq 1 .. n,
         \A k \in set : IsSeq(of[k])
  PROVE  InOrder(set, of) = FlattenSeq(Parts(set, of, n))
<1>1. Len(of) \in Nat /\ InOrder(set, of) = FlattenSeq(Parts(set, of, Len(of)))
  BY DEF InOrder, Parts, IsSeq
<1>2. PICK ss : ss = Parts(set, of, n)
  OBVIOUS
<1>7. PICK tt : tt = Parts(set, of, Len(of))
  OBVIOUS
<1>3. /\ IsSeq(ss) /\ Len(ss) = n
      /\ \A i \in 1 .. n : /\ ss[i] = IF i \in set THEN of[i] ELSE <<>>
                           /\ IsSeq(ss[i])
  <2>1. IsSeq(ss)
    BY <1>2, PartsFacts
  <2>2. Len(ss) = n
    BY <1>2, PartsFacts
  <2>3. \A i \in 1 .. n : ss[i] = IF i \in set THEN of[i] ELSE <<>>
    BY <1>2 DEF Parts
  <2>4. \A i \in 1 .. n : IsSeq(ss[i])
    BY <1>2, PartsFacts
  <2> QED
    BY <2>1, <2>2, <2>3, <2>4
<1>4. /\ IsSeq(tt) /\ Len(tt) = Len(of)
      /\ \A i \in 1 .. Len(of) : /\ tt[i] = IF i \in set THEN of[i] ELSE <<>>
                                 /\ IsSeq(tt[i])
  <2>1. IsSeq(tt)
    BY <1>1, <1>7, PartsFacts
  <2>2. Len(tt) = Len(of)
    BY <1>1, <1>7, PartsFacts
  <2>3. \A i \in 1 .. Len(of) : tt[i] = IF i \in set THEN of[i] ELSE <<>>
    BY <1>1, <1>7 DEF Parts
  <2>4. \A i \in 1 .. Len(of) : IsSeq(tt[i])
    BY <1>1, <1>7, PartsFacts
  <2> QED
    BY <2>1, <2>2, <2>3, <2>4
<1>5. \A i \in 1 .. Len(of) : tt[i] = IF i <= n THEN ss[i] ELSE <<>>
  BY <1>1, <1>3, <1>4
<1>6. FlattenSeq(tt) = FlattenSeq(ss)
  BY <1>1, <1>3, <1>4, <1>5, FlattenTail
<1> QED
  BY <1>1, <1>2, <1>7, <1>6

LEMMA InOrderSame ==
  ASSUME NEW of, IsSeq(of), NEW set, set \subseteq 1 .. Len(of), \A k \in set : IsSeq(of[k]),
         NEW more, IsSeq(more), Len(of) <= Len(more), \A k \in set : more[k] = of[k]
  PROVE  InOrder(set, more) = InOrder(set, of)
<1>1. Len(of) \in Nat /\ Len(more) \in Nat
  BY DEF IsSeq
<1>2. Parts(set, more, Len(of)) = Parts(set, of, Len(of))
  BY DEF Parts
<1>3. \A k \in set : IsSeq(more[k])
  OBVIOUS
<1>4. InOrder(set, more) = FlattenSeq(Parts(set, more, Len(of)))
  <2>1. Len(of) <= Len(more) /\ set \subseteq 1 .. Len(of)
    OBVIOUS
  <2> QED
    BY <1>1, <1>3, <2>1, InOrderUpTo
<1>5. InOrder(set, of) = FlattenSeq(Parts(set, of, Len(of)))
  BY DEF InOrder, Parts
<1> QED
  BY <1>2, <1>4, <1>5

LEMMA InOrderGrows ==
  ASSUME NEW of, IsSeq(of), NEW set, set \subseteq 1 .. Len(of), NEW x \in 1 .. Len(of),
         \A k \in set : k < x, \A k \in 1 .. Len(of) : IsSeq(of[k])
  PROVE  InOrder(set \cup {x}, of) = InOrder(set, of) \o of[x]
<1>1. Len(of) \in Nat /\ x \in Nat /\ x - 1 \in Nat
  BY DEF IsSeq
<1>2. \A k \in set \cup {x} : IsSeq(of[k])
  OBVIOUS
<1>3. set \cup {x} \subseteq 1 .. x /\ set \subseteq 1 .. x - 1 /\ x <= Len(of) /\ x - 1 <= Len(of)
  BY <1>1
<1>4. InOrder(set \cup {x}, of) = FlattenSeq(Parts(set \cup {x}, of, x))
  BY <1>1, <1>2, <1>3, InOrderUpTo
<1>5. InOrder(set, of) = FlattenSeq(Parts(set, of, x - 1))
  BY <1>1, <1>2, <1>3, InOrderUpTo
<1>7. PICK ss : ss = Parts(set \cup {x}, of, x)
  OBVIOUS
<1>8. /\ IsSeq(ss) /\ Len(ss) = x /\ \A i \in 1 .. x : IsSeq(ss[i])
      /\ \A i \in 1 .. x : ss[i] = IF i \in set \cup {x} THEN of[i] ELSE <<>>
  <2>1. \A i \in 1 .. x : ss[i] = IF i \in set \cup {x} THEN of[i] ELSE <<>>
    BY <1>7 DEF Parts
  <2>2. IsSeq(ss) /\ Len(ss) = x
    BY <1>1, <1>2, <1>7, PartsFacts
  <2>3. \A i \in 1 .. x : IsSeq(ss[i])
    BY <1>1, <1>2, <1>7, PartsFacts
  <2> QED
    BY <2>1, <2>2, <2>3
<1>9. ss # <<>>
  BY <1>8, ZeroLength
<1>10. FlattenSeq(ss) = FlattenSeq(Front(ss)) \o ss[x]
  BY <1>8, <1>9, FlattenFront
<1>11. Front(ss) = Parts(set, of, x - 1)
  <2>1. IsSeq(Front(ss)) /\ Len(Front(ss)) = x - 1 /\ \A k \in 1 .. x - 1 : Front(ss)[k] = ss[k]
    BY <1>8, <1>9, FrontFacts
  <2>2. \A k \in 1 .. x - 1 : k \in 1 .. x /\ k # x
    BY <1>1
  <2>3. /\ IsSeq(Parts(set, of, x - 1)) /\ Len(Parts(set, of, x - 1)) = x - 1
        /\ \A k \in 1 .. x - 1 : Parts(set, of, x - 1)[k] = IF k \in set THEN of[k] ELSE <<>>
    <3>1. \A k \in 1 .. x - 1 : Parts(set, of, x - 1)[k] = IF k \in set THEN of[k] ELSE <<>>
      BY DEF Parts
    <3>2. IsSeq(Parts(set, of, x - 1)) /\ Len(Parts(set, of, x - 1)) = x - 1
      BY <1>1, PartsFacts
    <3> QED
      BY <3>1, <3>2
  <2>4. \A k \in 1 .. x - 1 : Front(ss)[k] = Parts(set, of, x - 1)[k]
    BY <1>8, <2>1, <2>2, <2>3
  <2> QED
    BY <2>1, <2>3, <2>4, SameSeq
<1>12. ss[x] = of[x]
  BY <1>8
<1> QED
  BY <1>4, <1>5, <1>7, <1>10, <1>11, <1>12

--------------------------------------------------------------------------------
(* What the elements of a set give, one by one or as one text.             *)
Each(f) == [k \in 1 .. Len(f) |-> <<f[k]>>]
TextsIn(d) == [k \in 1 .. Len(d) |-> d[k].text]

LEMMA InOrderOfNone == ASSUME NEW of, IsSeq(of) PROVE InOrder({}, of) = <<>>
<1>1. Len(of) \in Nat /\ 0 <= Len(of) /\ {} \subseteq 1 .. 0 /\ \A k \in {} : IsSeq(of[k])
  BY DEF IsSeq
<1>2. InOrder({}, of) = FlattenSeq(Parts({}, of, 0))
  BY <1>1, InOrderUpTo
<1>3. Parts({}, of, 0) = <<>>
  BY DEF Parts
<1> QED
  BY <1>2, <1>3, FlattenEmpty

LEMMA EachFacts ==
  ASSUME NEW f, IsSeq(f)
  PROVE  /\ IsSeq(Each(f)) /\ Len(Each(f)) = Len(f) /\ Len(f) \in Nat
         /\ \A k \in 1 .. Len(f) : Each(f)[k] = <<f[k]>> /\ IsSeq(Each(f)[k])
<1>1. IsSeq(Each(f)) /\ Len(Each(f)) = Len(f) /\ Len(f) \in Nat
  BY DEF Each, IsSeq
<1>2. \A k \in 1 .. Len(f) : Each(f)[k] = <<f[k]>>
  BY DEF Each
<1>3. \A x : IsSeq(<<x>>)
  BY DEF IsSeq
<1> QED
  BY <1>1, <1>2, <1>3

LEMMA EachSame ==
  ASSUME NEW f, IsSeq(f), NEW g, IsSeq(g), Len(f) <= Len(g),
         NEW S, S \subseteq 1 .. Len(f), \A k \in S : g[k] = f[k]
  PROVE  InOrder(S, Each(g)) = InOrder(S, Each(f))
<1>1. PICK of : of = Each(f)
  OBVIOUS
<1>2. PICK more : more = Each(g)
  OBVIOUS
<1>3. IsSeq(of) /\ Len(of) = Len(f) /\ \A k \in 1 .. Len(f) : of[k] = <<f[k]>> /\ IsSeq(of[k])
  BY <1>1, EachFacts
<1>4. IsSeq(more) /\ Len(more) = Len(g) /\ \A k \in 1 .. Len(g) : more[k] = <<g[k]>>
  BY <1>2, EachFacts
<1>5. \A k \in S : k \in 1 .. Len(f) /\ k \in 1 .. Len(g)
  BY EachFacts
<1>6. Len(of) <= Len(more) /\ \A k \in S : more[k] = of[k] /\ IsSeq(of[k])
  BY <1>3, <1>4, <1>5
<1>7. InOrder(S, more) = InOrder(S, of)
  BY <1>3, <1>4, <1>5, <1>6, InOrderSame
<1> QED
  BY <1>1, <1>2, <1>7

LEMMA EachGrows ==
  ASSUME NEW f, IsSeq(f), NEW S, S \subseteq 1 .. Len(f),
         NEW x \in 1 .. Len(f), \A k \in S : k < x
  PROVE  /\ InOrder(S \cup {x}, Each(f)) = Append(InOrder(S, Each(f)), f[x])
         /\ IsSeq(InOrder(S, Each(f)))
<1>1. PICK of : of = Each(f)
  OBVIOUS
<1>2. /\ IsSeq(of) /\ Len(of) = Len(f) /\ Len(f) \in Nat
      /\ \A k \in 1 .. Len(f) : of[k] = <<f[k]>> /\ IsSeq(of[k])
  BY <1>1, EachFacts
<1>3. \A k \in S : IsSeq(of[k])
  BY <1>2
<1>4. IsSeq(InOrder(S, of))
  BY <1>2, <1>3, InOrderIsSeq
<1>5. InOrder(S \cup {x}, of) = InOrder(S, of) \o of[x]
  <2>1. S \subseteq 1 .. Len(of) /\ x \in 1 .. Len(of) /\ \A k \in 1 .. Len(of) : IsSeq(of[k])
    BY <1>2
  <2> QED
    BY <1>2, <2>1, InOrderGrows
<1>6. of[x] = <<f[x]>>
  BY <1>2
<1> QED
  BY <1>1, <1>4, <1>5, <1>6, AppendConcat

LEMMA TextsInFacts ==
  ASSUME NEW d, IsSeq(d)
  PROVE  /\ IsSeq(TextsIn(d)) /\ Len(TextsIn(d)) = Len(d) /\ Len(d) \in Nat
         /\ \A k \in 1 .. Len(d) : TextsIn(d)[k] = d[k].text
BY DEF TextsIn, IsSeq

LEMMA TextsSame ==
  ASSUME NEW d, IsSeq(d), NEW e, IsSeq(e), Len(d) <= Len(e), NEW S, S \subseteq 1 .. Len(d),
         \A k \in S : IsSeq(d[k].text) /\ e[k].text = d[k].text
  PROVE  InOrder(S, TextsIn(e)) = InOrder(S, TextsIn(d))
<1>1. PICK of : of = TextsIn(d)
  OBVIOUS
<1>2. PICK more : more = TextsIn(e)
  OBVIOUS
<1>3. IsSeq(of) /\ Len(of) = Len(d) /\ Len(d) \in Nat /\ \A k \in 1 .. Len(d) : of[k] = d[k].text
  BY <1>1, TextsInFacts
<1>4. IsSeq(more) /\ Len(more) = Len(e) /\ Len(e) \in Nat /\ \A k \in 1 .. Len(e) : more[k] = e[k].text
  BY <1>2, TextsInFacts
<1>5. \A k \in S : k \in 1 .. Len(d) /\ k \in 1 .. Len(e)
  BY <1>3, <1>4
<1>6. Len(of) <= Len(more) /\ \A k \in S : more[k] = of[k] /\ IsSeq(of[k])
  BY <1>3, <1>4, <1>5
<1>7. InOrder(S, more) = InOrder(S, of)
  BY <1>3, <1>4, <1>5, <1>6, InOrderSame
<1> QED
  BY <1>1, <1>2, <1>7

LEMMA TextsGrow ==
  ASSUME NEW d, IsSeq(d), NEW S, S \subseteq 1 .. Len(d),
         NEW x \in 1 .. Len(d), \A k \in S : k < x, \A k \in 1 .. Len(d) : IsSeq(d[k].text)
  PROVE  InOrder(S \cup {x}, TextsIn(d)) = InOrder(S, TextsIn(d)) \o d[x].text
<1>1. PICK of : of = TextsIn(d)
  OBVIOUS
<1>2. IsSeq(of) /\ Len(of) = Len(d) /\ Len(d) \in Nat /\ \A k \in 1 .. Len(d) : of[k] = d[k].text
  BY <1>1, TextsInFacts
<1>3. S \subseteq 1 .. Len(of) /\ x \in 1 .. Len(of) /\ \A k \in 1 .. Len(of) : IsSeq(of[k])
  BY <1>2
<1>4. InOrder(S \cup {x}, of) = InOrder(S, of) \o of[x]
  BY <1>2, <1>3, InOrderGrows
<1> QED
  BY <1>1, <1>2, <1>4

--------------------------------------------------------------------------------
(* Every element but the first is in one that may hold it, and what a      *)
(* reader has collected since the last start tag is, when an element ends  *)
(* that holds no other, that element's text.                               *)
Family ==
  \A k \in 2 .. Len(doc) :
    doc[k].parent \in 1 .. k - 1 /\ doc[k].name \in Children[doc[doc[k].parent].name]
TextRead ==
  /\ \A k \in 1 .. Len(doc) : IsSeq(doc[k].text)
  /\ Len(open) > 0 /\ open[Len(open)] = Len(doc) => chars = doc[Len(doc)].text
Feeds(root) ==
  \/ \E n \in Names : \E a : Opens(root, n, a) /\ Push(n)
  \/ \E n : (Closes(n) \/ ClosesWrongly(n)) /\ Pop
  \/ \E w : Characters(w)

LEMMA SayingText ==
  ASSUME NEW root, DocInv(root), NEW w, Says(w)
  PROVE  /\ Len(open) \in Nat /\ Len(open) > 0 /\ open[Len(open)] \in 1 .. Len(doc)
         /\ \A k \in 1 .. Len(doc) : k # open[Len(open)] => doc'[k] = doc[k]
         /\ doc'[open[Len(open)]].text = IF w = Newline THEN doc[open[Len(open)]].text
                                         ELSE Append(doc[open[Len(open)]].text, w)
<1>1. IsSeq(doc) /\ IsSeq(open) /\ Len(doc) \in Nat /\ open # <<>>
  BY DEF DocInv, DocShape, IsSeq, Says
<1>2. Len(open) \in Nat /\ Len(open) > 0 /\ Innermost = open[Len(open)]
  BY <1>1, FrontFacts DEF Innermost, IsSeq
<1>3. open[Len(open)] \in 1 .. Len(doc)
  BY <1>2 DEF DocInv, Ordered
<1>4. CASE w = Newline
  BY <1>2, <1>3, <1>4 DEF Says, docVars
<1>5. CASE w # Newline
  <2> DEFINE i == Innermost
             t == Append(doc[i].text, w)
  <2>1. doc' = [doc EXCEPT ![i].text = t]
    BY <1>5 DEF Says
  <2>2. i = open[Len(open)] /\ t = Append(doc[open[Len(open)]].text, w)
    BY <1>2
  <2> HIDE DEF i, t
  <2>3. doc' = [k \in 1 .. Len(doc) |-> IF k = i THEN [doc[k] EXCEPT !.text = t] ELSE doc[k]]
    BY <1>1, <2>1 DEF IsSeq
  <2>4. doc[i] = [name |-> doc[i].name, attrs |-> doc[i].attrs, text |-> doc[i].text,
                  parent |-> doc[i].parent]
    BY <1>3, <2>2 DEF DocInv, DocShape, IsElement
  <2>5. doc'[i] = [doc[i] EXCEPT !.text = t]
    BY <1>3, <2>2, <2>3
  <2>6. doc'[i].text = t
    BY <2>4, <2>5
  <2>7. \A k \in 1 .. Len(doc) : k # i => doc'[k] = doc[k]
    BY <2>3
  <2> QED
    BY <1>2, <1>3, <1>5, <2>2, <2>6, <2>7
<1> QED
  BY <1>4, <1>5

LEMMA FeedsKeep ==
  ASSUME NEW root, DocInv(root), Family, TextRead, Feeds(root)
  PROVE  Family' /\ TextRead'
<1>1. ASSUME NEW n \in Names, NEW a, Opens(root, n, a), Push(n) PROVE Family' /\ TextRead'
  <2>1. /\ Len(doc') = Len(doc) + 1 /\ Len(open') = Len(open) + 1
        /\ open'[Len(open) + 1] = Len(doc) + 1
        /\ doc'[Len(doc) + 1].name = n
        /\ \A k \in 1 .. Len(doc) : doc'[k] = doc[k]
        /\ Len(doc) \in Nat /\ Len(open) \in Nat
        /\ IF Len(open) = 0 THEN Len(doc) = 0 /\ n = root
           ELSE /\ n \in Children[doc[open[Len(open)]].name]
                /\ doc'[Len(doc) + 1].parent = open[Len(open)]
    BY <1>1, Opening
  <2>2. doc'[Len(doc) + 1].text = <<>> /\ chars' = <<>>
    <3>1. PICK e : e.text = <<>> /\ doc' = Append(doc, e)
      BY <1>1 DEF Opens
    <3> QED
      BY <1>1, <3>1, AppendFacts DEF Push, DocInv, DocShape
  <2>3. ASSUME NEW k \in 2 .. Len(doc')
        PROVE  doc'[k].parent \in 1 .. k - 1 /\ doc'[k].name \in Children[doc'[doc'[k].parent].name]
    <3>1. CASE k = Len(doc) + 1
      <4>1. Len(open) # 0 /\ Len(open) \in 1 .. Len(open)
        BY <2>1, <3>1
      <4>2. open[Len(open)] \in 1 .. Len(doc)
        BY <4>1 DEF DocInv, Ordered
      <4>3. doc'[open[Len(open)]] = doc[open[Len(open)]]
        BY <2>1, <4>2
      <4>4. 1 .. Len(doc) = 1 .. k - 1
        BY <2>1, <3>1
      <4> QED
        BY <2>1, <3>1, <4>1, <4>2, <4>3, <4>4
    <3>2. CASE k \in 2 .. Len(doc)
      <4>1. doc[k].parent \in 1 .. k - 1 /\ doc[k].name \in Children[doc[doc[k].parent].name]
        BY <3>2 DEF Family
      <4>2. k \in 1 .. Len(doc) /\ doc[k].parent \in 1 .. Len(doc)
        BY <2>1, <3>2, <4>1
      <4> QED
        BY <2>1, <4>1, <4>2
    <3> QED
      BY <2>1, <3>1, <3>2
  <2>4. \A k \in 1 .. Len(doc') : IsSeq(doc'[k].text)
    <3>1. \A k \in 1 .. Len(doc') : k \in 1 .. Len(doc) \/ k = Len(doc) + 1
      BY <2>1
    <3> QED
      BY <2>1, <2>2, <3>1, NothingIsSeq DEF TextRead
  <2> QED
    BY <2>1, <2>2, <2>3, <2>4 DEF Family, TextRead
<1>2. ASSUME NEW n, Closes(n) \/ ClosesWrongly(n), Pop PROVE Family' /\ TextRead'
  <2>1. /\ doc' = doc /\ Len(open) \in Nat /\ Len(open) > 0 /\ Len(open') = Len(open) - 1
        /\ \A i \in 1 .. Len(open) - 1 : open'[i] = open[i]
    BY <1>2, Closing
  <2>2. ASSUME Len(open') > 0 PROVE open'[Len(open')] # Len(doc')
    <3>1. /\ Len(open') \in 1 .. Len(open) /\ Len(open) \in 1 .. Len(open) /\ Len(open') < Len(open)
          /\ open'[Len(open')] = open[Len(open')]
      BY <2>1, <2>2
    <3>2. open[Len(open')] < open[Len(open)] /\ open[Len(open)] \in 1 .. Len(doc)
          /\ open[Len(open')] \in 1 .. Len(doc)
      BY <3>1 DEF DocInv, Ordered
    <3> QED
      BY <2>1, <3>1, <3>2
  <2> QED
    BY <2>1, <2>2 DEF Family, TextRead
<1>3. ASSUME NEW w, Characters(w) PROVE Family' /\ TextRead'
  <2>1. Says(w) /\ chars' = IF w = Newline THEN chars ELSE Append(chars, w)
    BY <1>3 DEF Characters
  <2>2. /\ open' = open /\ Len(doc') = Len(doc) /\ Len(doc) \in Nat
        /\ \A k \in 1 .. Len(doc) : doc'[k].name = doc[k].name /\ doc'[k].parent = doc[k].parent
    BY <2>1, Saying DEF DocInv, DocShape, IsSeq
  <2>3. /\ Len(open) > 0 /\ open[Len(open)] \in 1 .. Len(doc)
        /\ \A k \in 1 .. Len(doc) : k # open[Len(open)] => doc'[k] = doc[k]
        /\ doc'[open[Len(open)]].text = IF w = Newline THEN doc[open[Len(open)]].text
                                        ELSE Append(doc[open[Len(open)]].text, w)
    BY <2>1, SayingText
  <2>4. Family'
    <3>1. ASSUME NEW k \in 2 .. Len(doc)
          PROVE  /\ doc'[k].parent \in 1 .. k - 1
                 /\ doc'[k].name \in Children[doc'[doc'[k].parent].name]
      <4>1. doc[k].parent \in 1 .. k - 1 /\ doc[k].name \in Children[doc[doc[k].parent].name]
        BY DEF Family
      <4>2. k \in 1 .. Len(doc) /\ doc[k].parent \in 1 .. Len(doc)
        BY <2>2, <4>1
      <4> QED
        BY <2>2, <4>1, <4>2
    <3> QED
      BY <2>2, <3>1 DEF Family
  <2>5. IsSeq(doc'[open[Len(open)]].text)
    BY <2>3, AppendFacts DEF TextRead
  <2>6. \A k \in 1 .. Len(doc) : IsSeq(doc'[k].text)
    BY <2>3, <2>5 DEF TextRead
  <2>7. ASSUME open[Len(open)] = Len(doc) PROVE chars' = doc'[Len(doc)].text
    BY <2>1, <2>3, <2>7 DEF TextRead
  <2> QED
    BY <2>2, <2>4, <2>6, <2>7 DEF TextRead
<1> QED
  BY <1>1, <1>2, <1>3 DEF Feeds

(* What is whole stays as it is. *)
LEMMA WholeStays ==
  ASSUME NEW root, DocInv(root), Feeds(root)
  PROVE  /\ DocInv(root)' /\ IsSeq(doc) /\ IsSeq(doc') /\ Len(doc) <= Len(doc')
         /\ DOMAIN doc = 1 .. Len(doc) /\ DOMAIN doc' = 1 .. Len(doc')
         /\ Len(doc) \in Nat /\ Len(doc') \in Nat
         /\ \A k : Whole(k) => k \in 1 .. Len(doc) /\ Whole(k)' /\ doc'[k] = doc[k]
         /\ \A k \in 1 .. Len(doc) : /\ doc'[k].name = doc[k].name /\ doc'[k].attrs = doc[k].attrs
                                     /\ doc'[k].parent = doc[k].parent
<1>1. IsSeq(doc) /\ Len(doc) \in Nat /\ DOMAIN doc = 1 .. Len(doc)
  BY DEF DocInv, DocShape, IsSeq
<1>2. \A k : Whole(k) => k \in 1 .. Len(doc)
  BY <1>1 DEF Whole
<1>3. ASSUME NEW n \in Names, NEW a, Opens(root, n, a)
      PROVE  /\ DocInv(root)' /\ Len(doc) <= Len(doc')
             /\ \A k \in 1 .. Len(doc) : doc'[k] = doc[k] /\ (Whole(k)' <=> Whole(k))
  BY <1>1, <1>3, Opening, OpeningWhole
<1>4. ASSUME NEW n, Closes(n) \/ ClosesWrongly(n)
      PROVE  DocInv(root)' /\ doc' = doc /\ \A k : Whole(k) => Whole(k)'
  BY <1>4, Closing, ClosingWhole
<1>5. ASSUME NEW w, Says(w)
      PROVE  /\ DocInv(root)' /\ Len(doc) <= Len(doc')
             /\ \A k \in 1 .. Len(doc) : /\ doc'[k].name = doc[k].name /\ doc'[k].attrs = doc[k].attrs
                                         /\ doc'[k].parent = doc[k].parent
             /\ \A k : Whole(k) => Whole(k)' /\ doc'[k] = doc[k]
  <2>1. /\ Len(open) \in Nat /\ Len(open) > 0
        /\ \A k \in 1 .. Len(doc) : k # open[Len(open)] => doc'[k] = doc[k]
    BY <1>5, SayingText
  <2>2. ~Whole(open[Len(open)])
    <3>1. Len(open) \in 1 .. Len(open)
      BY <2>1
    <3> QED
      BY <3>1 DEF Whole, Contains
  <2> QED
    <3>1. /\ DocInv(root)' /\ Len(doc') = Len(doc) /\ \A k : Whole(k) => Whole(k)'
          /\ \A k \in 1 .. Len(doc) : /\ doc'[k].name = doc[k].name /\ doc'[k].attrs = doc[k].attrs
                                      /\ doc'[k].parent = doc[k].parent
      BY <1>5, Saying, SayingWhole
    <3>2. \A k : Whole(k) => doc'[k] = doc[k]
      BY <1>2, <2>1, <2>2
    <3> QED
      BY <1>1, <3>1, <3>2
<1>6. DocInv(root)' => IsSeq(doc') /\ Len(doc') \in Nat /\ DOMAIN doc' = 1 .. Len(doc')
  BY DEF DocInv, DocShape, IsSeq
<1>7. CASE \E n \in Names : \E a : Opens(root, n, a)
  BY <1>1, <1>2, <1>3, <1>6, <1>7
<1>8. CASE \E n : Closes(n) \/ ClosesWrongly(n)
  BY <1>1, <1>2, <1>4, <1>6, <1>8
<1>9. CASE \E w : Says(w)
  BY <1>1, <1>2, <1>5, <1>6, <1>9
<1> QED
  BY <1>7, <1>8, <1>9 DEF Feeds, Characters

--------------------------------------------------------------------------------
(* How the events of an opf change what is whole in its sections.          *)
LEMMA ThoseFed ==
  ASSUME DocInv("package"),
         (\E n \in Names : \E a : Opens("package", n, a)) \/ (\E w : Says(w))
  PROVE  \A e, s : Those(e, s)' = Those(e, s)
<1>1. ASSUME NEW n \in Names, NEW a, Opens("package", n, a)
      PROVE  \A e, s : Those(e, s)' = Those(e, s)
  <2>1. /\ \A k \in 1 .. Len(doc) : doc'[k] = doc[k]
        /\ DOMAIN doc' = 1 .. Len(doc) + 1 /\ DOMAIN doc = 1 .. Len(doc) /\ Len(doc) \in Nat
        /\ \A k \in 1 .. Len(doc) : Whole(k)' <=> Whole(k)
        /\ \A k \in DOMAIN doc' : k \in 1 .. Len(doc) \/ ~Whole(k)'
        /\ \A k \in 1 .. Len(doc) : \A s : In(k, s)' <=> In(k, s)
    BY <1>1, Opening, OpeningWhole DEF DocInv, DocShape, IsSeq
  <2>2. \A k \in DOMAIN doc : \A e : k \in DOMAIN doc' /\ (Named(k, e)' <=> Named(k, e))
    BY <2>1 DEF Named
  <2> QED
    BY <2>1, <2>2 DEF Those
<1>2. ASSUME NEW w, Says(w) PROVE \A e, s : Those(e, s)' = Those(e, s)
  <2>1. /\ DOMAIN doc' = DOMAIN doc
        /\ \A k, s : (Named(k, s)' <=> Named(k, s)) /\ (Whole(k)' <=> Whole(k))
        /\ \A k \in DOMAIN doc : \A s : In(k, s)' <=> In(k, s)
    BY <1>2, SayingWhole
  <2> QED
    BY <2>1 DEF Those
<1> QED
  BY <1>1, <1>2

LEMMA ThoseEnded ==
  ASSUME PackageInv, NEW n \in Names, PackageEnd(n)
  PROVE  /\ doc' = doc /\ Top.num \in 1 .. Len(doc)
         /\ \A e, s : Those(e, s)' = IF In(Top.num, s) /\ n = e THEN Those(e, s) \cup {Top.num}
                                     ELSE Those(e, s)
         /\ \A e, s, x : x \in Those(e, s) => x \in 1 .. Len(doc) /\ x # Top.num
<1>1. /\ DocInv("package") /\ Closes(n) /\ doc' = doc
      /\ Top.num = open[Len(open)] /\ Top.num \in DOMAIN doc /\ DOMAIN doc = 1 .. Len(doc)
      /\ doc[Top.num].name = n
  BY EndedIn, Closing DEF Closes
<1>2. \A k : Whole(k)' <=> Whole(k) \/ k = Top.num
  BY <1>1, ClosingWhole
<1>3. ~Whole(Top.num)
  <2>1. Len(open) \in 1 .. Len(open)
    BY <1>1, Closing
  <2> QED
    BY <1>1, <2>1 DEF Whole, Contains
<1>4. \A e, s : Those(e, s)' = IF In(Top.num, s) /\ n = e THEN Those(e, s) \cup {Top.num} ELSE Those(e, s)
  BY <1>1, <1>2 DEF Those, Named, In, Parent
<1>5. \A e, s, x : x \in Those(e, s) => x \in 1 .. Len(doc) /\ x # Top.num
  BY <1>1, <1>3 DEF Those
<1> QED
  BY <1>1, <1>4, <1>5

--------------------------------------------------------------------------------
(* The metadata that a document d says, where T gives its elements by name.*)
Fields == {"identifier", "title", "creator", "date", "meta"}
Ids(d) == [k \in 1 .. Len(d) |-> k]
IdentsIn(d) == [k \in 1 .. Len(d) |-> [id |-> k, text |-> d[k].text]]
MetasIn(d) ==
  [k \in 1 .. Len(d) |->
     [id |-> k, text |-> IF d[k].attrs = "property" THEN d[k].text ELSE <<"content">>]]
LastOf(s) == IF s = <<>> THEN <<>> ELSE <<Last(s)>>
MetadataIn(d, T) ==
  [identifier |-> InOrder(T["identifier"], Each(IdentsIn(d))), title |-> InOrder(T["title"], TextsIn(d)),
   creator |-> InOrder(T["creator"], Each(TextsIn(d))),
   date |-> LastOf(InOrder(T["date"], Each(TextsIn(d)))),
   meta |-> InOrder(T["meta"], Each(MetasIn(d)))]

(* What element x, of name n, adds to it. *)
Grown(d, m, n, x) ==
  CASE n = "identifier" -> [m EXCEPT !.identifier = Append(@, IdentsIn(d)[x])]
    [] n = "title" -> [m EXCEPT !.title = @ \o d[x].text]
    [] n = "creator" -> [m EXCEPT !.creator = Append(@, d[x].text)]
    [] n = "date" -> [m EXCEPT !.date = <<d[x].text>>]
    [] n = "meta" -> [m EXCEPT !.meta = Append(@, MetasIn(d)[x])]
    [] OTHER -> m

(* The elements of T are before x, and T with x. *)
AllBefore(d, T, x) ==
  /\ IsSeq(d) /\ x \in 1 .. Len(d) /\ \A k \in 1 .. Len(d) : IsSeq(d[k].text)
  /\ \A e \in Fields : \A k \in T[e] : k \in 1 .. Len(d) /\ k < x
OneMore(T, n, x) == [e \in Fields |-> IF e = n THEN T[e] \cup {x} ELSE T[e]]

LEMMA ColumnFacts ==
  ASSUME NEW d, IsSeq(d)
  PROVE  /\ IsSeq(Ids(d)) /\ Len(Ids(d)) = Len(d)
         /\ IsSeq(IdentsIn(d)) /\ Len(IdentsIn(d)) = Len(d)
         /\ IsSeq(TextsIn(d)) /\ Len(TextsIn(d)) = Len(d)
         /\ IsSeq(MetasIn(d)) /\ Len(MetasIn(d)) = Len(d)
         /\ \A k \in 1 .. Len(d) :
              /\ Ids(d)[k] = k /\ TextsIn(d)[k] = d[k].text
              /\ IdentsIn(d)[k] = [id |-> k, text |-> d[k].text]
              /\ MetasIn(d)[k] =
                   [id |-> k, text |-> IF d[k].attrs = "property" THEN d[k].text ELSE <<"content">>]
BY DEF Ids, IdentsIn, TextsIn, MetasIn, IsSeq

LEMMA MetadataSame ==
  ASSUME NEW d, IsSeq(d), NEW e, IsSeq(e), Len(d) <= Len(e),
         NEW T, \A n \in Fields : \A k \in T[n] : k \in 1 .. Len(d) /\ IsSeq(d[k].text) /\ e[k] = d[k]
  PROVE  MetadataIn(e, T) = MetadataIn(d, T)
<1>1. \A k \in 1 .. Len(d) : k \in 1 .. Len(e)
  BY DEF IsSeq
<1>2. ASSUME NEW n \in Fields
      PROVE  /\ InOrder(T[n], Each(IdentsIn(e))) = InOrder(T[n], Each(IdentsIn(d)))
             /\ InOrder(T[n], Each(TextsIn(e))) = InOrder(T[n], Each(TextsIn(d)))
             /\ InOrder(T[n], Each(MetasIn(e))) = InOrder(T[n], Each(MetasIn(d)))
             /\ InOrder(T[n], TextsIn(e)) = InOrder(T[n], TextsIn(d))
  <2>1. /\ T[n] \subseteq 1 .. Len(d)
        /\ \A k \in T[n] : /\ IdentsIn(e)[k] = IdentsIn(d)[k] /\ TextsIn(e)[k] = TextsIn(d)[k]
                           /\ MetasIn(e)[k] = MetasIn(d)[k]
                           /\ IsSeq(d[k].text) /\ e[k].text = d[k].text
    <3>1. \A k \in T[n] : k \in 1 .. Len(d) /\ k \in 1 .. Len(e) /\ IsSeq(d[k].text) /\ e[k] = d[k]
      BY <1>1
    <3>2. \A k \in T[n] : IdentsIn(e)[k] = IdentsIn(d)[k] /\ TextsIn(e)[k] = TextsIn(d)[k]
      BY <3>1 DEF IdentsIn, TextsIn
    <3>3. \A k \in T[n] : MetasIn(e)[k] = MetasIn(d)[k]
      BY <3>1 DEF MetasIn
    <3> QED
      BY <3>1, <3>2, <3>3
  <2>2. InOrder(T[n], Each(IdentsIn(e))) = InOrder(T[n], Each(IdentsIn(d)))
    BY <2>1, ColumnFacts, EachSame
  <2>3. InOrder(T[n], Each(TextsIn(e))) = InOrder(T[n], Each(TextsIn(d)))
    BY <2>1, ColumnFacts, EachSame
  <2>4. InOrder(T[n], Each(MetasIn(e))) = InOrder(T[n], Each(MetasIn(d)))
    BY <2>1, ColumnFacts, EachSame
  <2>5. InOrder(T[n], TextsIn(e)) = InOrder(T[n], TextsIn(d))
    <3>1. PICK S : S = T[n]
      OBVIOUS
    <3>2. S \subseteq 1 .. Len(d) /\ \A k \in S : IsSeq(d[k].text) /\ e[k].text = d[k].text
      BY <2>1, <3>1
    <3>3. InOrder(S, TextsIn(e)) = InOrder(S, TextsIn(d))
      BY <3>2, TextsSame
    <3> QED
      BY <3>1, <3>3
  <2> QED
    BY <2>2, <2>3, <2>4, <2>5
<1> QED
  BY <1>2 DEF MetadataIn, Fields

LEMMA MetadataGrows ==
  ASSUME NEW d, NEW T, NEW x, AllBefore(d, T, x), NEW n
  PROVE  MetadataIn(d, OneMore(T, n, x)) = Grown(d, MetadataIn(d, T), n, x)
<1> DEFINE m == MetadataIn(d, T)
<1> PICK U : U = OneMore(T, n, x)
  OBVIOUS
<1> USE DEF AllBefore, OneMore
<1>1. ASSUME NEW e \in Fields, e = n
      PROVE  /\ InOrder(U[e], Each(IdentsIn(d))) = Append(InOrder(T[e], Each(IdentsIn(d))), IdentsIn(d)[x])
             /\ InOrder(U[e], Each(TextsIn(d))) = Append(InOrder(T[e], Each(TextsIn(d))), d[x].text)
             /\ IsSeq(InOrder(T[e], Each(TextsIn(d))))
             /\ InOrder(U[e], Each(MetasIn(d))) = Append(InOrder(T[e], Each(MetasIn(d))), MetasIn(d)[x])
             /\ InOrder(U[e], TextsIn(d)) = InOrder(T[e], TextsIn(d)) \o d[x].text
  <2>1. PICK S : S = T[e]
    OBVIOUS
  <2>2. U[e] = S \cup {x} /\ S \subseteq 1 .. Len(d) /\ \A k \in S : k < x
    BY <1>1, <2>1
  <2>3. TextsIn(d)[x] = d[x].text
    BY ColumnFacts
  <2>4. ASSUME NEW f, IsSeq(f), Len(f) = Len(d)
        PROVE  /\ InOrder(S \cup {x}, Each(f)) = Append(InOrder(S, Each(f)), f[x])
               /\ IsSeq(InOrder(S, Each(f)))
    <3>1. S \subseteq 1 .. Len(f) /\ x \in 1 .. Len(f) /\ \A k \in S : k < x
      BY <2>2, <2>4
    <3> QED
      BY <2>4, <3>1, EachGrows
  <2>5. InOrder(U[e], Each(IdentsIn(d))) = Append(InOrder(T[e], Each(IdentsIn(d))), IdentsIn(d)[x])
    BY <2>1, <2>2, <2>4, ColumnFacts
  <2>6. /\ InOrder(U[e], Each(TextsIn(d))) = Append(InOrder(T[e], Each(TextsIn(d))), d[x].text)
        /\ IsSeq(InOrder(T[e], Each(TextsIn(d))))
    BY <2>1, <2>2, <2>3, <2>4, ColumnFacts
  <2>7. InOrder(U[e], Each(MetasIn(d))) = Append(InOrder(T[e], Each(MetasIn(d))), MetasIn(d)[x])
    BY <2>1, <2>2, <2>4, ColumnFacts
  <2>8. InOrder(S \cup {x}, TextsIn(d)) = InOrder(S, TextsIn(d)) \o d[x].text
    BY <2>2, TextsGrow
  <2> QED
    BY <2>1, <2>2, <2>5, <2>6, <2>7, <2>8
<1>2. \A e \in Fields : e # n => U[e] = T[e]
  OBVIOUS
<1>3. ASSUME n = "date" PROVE LastOf(InOrder(U["date"], Each(TextsIn(d)))) = <<d[x].text>>
  <2>1. PICK s : s = InOrder(T["date"], Each(TextsIn(d)))
    OBVIOUS
  <2>2. PICK t : t = Append(s, d[x].text)
    OBVIOUS
  <2>3. IsSeq(s) /\ InOrder(U["date"], Each(TextsIn(d))) = t
    BY <1>1, <1>3, <2>1, <2>2 DEF Fields
  <2>4. IsSeq(t) /\ Len(t) = Len(s) + 1 /\ t[Len(s) + 1] = d[x].text /\ Len(s) \in Nat
    BY <2>2, <2>3, AppendFacts DEF IsSeq
  <2>5. t # <<>>
    BY <2>4, ZeroLength
  <2>6. Last(t) = d[x].text
    BY <2>4, <2>5, FrontFacts
  <2> QED
    BY <2>3, <2>5, <2>6 DEF LastOf
<1>4. CASE n = "identifier"
  BY <1>1, <1>2, <1>4 DEF MetadataIn, Fields, Grown
<1>5. CASE n = "title"
  BY <1>1, <1>2, <1>5 DEF MetadataIn, Fields, Grown
<1>6. CASE n = "creator"
  BY <1>1, <1>2, <1>6 DEF MetadataIn, Fields, Grown
<1>7. CASE n = "date"
  BY <1>2, <1>3, <1>7 DEF MetadataIn, Fields, Grown
<1>8. CASE n = "meta"
  BY <1>1, <1>2, <1>8 DEF MetadataIn, Fields, Grown
<1>9. CASE n \notin Fields
  BY <1>2, <1>9 DEF MetadataIn, Fields, Grown
<1> QED
  BY <1>4, <1>5, <1>6, <1>7, <1>8, <1>9 DEF Fields

--------------------------------------------------------------------------------
OfMetadata == [n \in Fields |-> Those(n, "metadata")]
MetadataInv ==
  /\ result = "reading" => Family /\ TextRead
  /\ result \in {"reading", "ok"} => IsSeq(doc) /\ metadata = MetadataIn(doc, OfMetadata)

LEMMA PackageFeeds == PackageNext /\ result' = "reading" => Feeds("package") /\ result = "reading"
<1>1. ASSUME NEW n \in Names, PackageEnd(n) PROVE Feeds("package") /\ result = "reading"
  <2>1. result = "reading" /\ Closes(n) /\ Pop
    BY <1>1 DEF PackageEnd, Ending
  <2> QED
    BY <2>1 DEF Feeds
<1>2. BadSpine \/ PackageEndWrongly \/ PackageStop => result' # "reading"
  BY DEF BadSpine, PackageEndWrongly, PackageStop, Stopping, Outcomes
<1> QED
  BY <1>1, <1>2 DEF PackageNext, Feeds, Starting, PackageStart, PackageCharacters, Characters

LEMMA MetadataFed ==
  ASSUME PackageInv, MetadataInv,
         (\E n \in Names : \E a : PackageStart(n, a)) \/ (\E w : PackageCharacters(w))
  PROVE  IsSeq(doc') /\ metadata' = MetadataIn(doc', OfMetadata')
<1>1. /\ result = "reading" /\ DocInv("package") /\ TextRead /\ metadata' = metadata
      /\ (\E n \in Names : \E a : Opens("package", n, a)) \/ (\E w : Says(w))
  BY DEF PackageStart, Starting, PackageCharacters, Characters, packageVars, PackageInv, ReaderInv, MetadataInv
<1>2. Feeds("package")
  BY DEF PackageStart, Starting, PackageCharacters, Feeds
<1>3. PICK T : T = OfMetadata
  OBVIOUS
<1>4. OfMetadata' = T
  <2>1. \A e, s : Those(e, s)' = Those(e, s)
    BY <1>1, ThoseFed
  <2> QED
    BY <1>3, <2>1 DEF OfMetadata
<1>5. \A f \in Fields : \A k \in T[f] : Whole(k)
  BY <1>3 DEF OfMetadata, Those
<1>6. /\ IsSeq(doc) /\ IsSeq(doc') /\ Len(doc) <= Len(doc')
      /\ \A k : Whole(k) => k \in 1 .. Len(doc) /\ doc'[k] = doc[k]
  BY <1>1, <1>2, WholeStays
<1>7. PICK d : d = doc
  OBVIOUS
<1>8. PICK e : e = doc'
  OBVIOUS
<1>9. \A f \in Fields : \A k \in T[f] : k \in 1 .. Len(d) /\ IsSeq(d[k].text) /\ e[k] = d[k]
  BY <1>1, <1>5, <1>6, <1>7, <1>8 DEF TextRead
<1>10. MetadataIn(e, T) = MetadataIn(d, T)
  BY <1>6, <1>7, <1>8, <1>9, MetadataSame
<1>11. metadata = MetadataIn(d, T)
  BY <1>1, <1>3, <1>7 DEF MetadataInv
<1>12. MetadataIn(doc', OfMetadata') = MetadataIn(e, T)
  BY <1>4, <1>8
<1> QED
  BY <1>1, <1>6, <1>10, <1>11, <1>12

LEMMA MetadataEnd ==
  ASSUME PackageInv, MetadataInv, NEW n \in Names, PackageEnd(n), result' = "reading"
  PROVE  IsSeq(doc') /\ metadata' = MetadataIn(doc', OfMetadata')
<1>1. /\ result = "reading" /\ TextRead /\ IsSeq(doc) /\ ~Lacks(n) /\ StackOK /\ stack # <<>>
      /\ metadata = MetadataIn(doc, OfMetadata)
  BY DEF PackageEnd, Ending, MetadataInv, PackageInv, ReaderInv
<1>2. PICK x : x = Top.num
  OBVIOUS
<1>3. /\ doc' = doc /\ x \in 1 .. Len(doc)
      /\ \A e, s : Those(e, s)' = IF In(x, s) /\ n = e THEN Those(e, s) \cup {x} ELSE Those(e, s)
      /\ \A e, s, k : k \in Those(e, s) => k \in 1 .. Len(doc) /\ k # x
  BY <1>2, ThoseEnded
<1>4. /\ DocInv("package") /\ x = open[Len(open)]
      /\ Section = "metadata" <=> In(x, "metadata")
      /\ Section = "metadata" => x = Len(doc)
  BY <1>2, EndedIn DEF Sections
<1>5. Len(open) > 0
  BY <1>1, <1>4, TopFacts
<1>6. metadata' = IF Section = "metadata" THEN AddTag(metadata, n) ELSE metadata
  BY <1>1 DEF PackageEnd
<1>7. PICK T : T = OfMetadata
  OBVIOUS
<1>8. PICK U : U = OfMetadata'
  OBVIOUS
<1>9. CASE Section = "metadata"
  <2>1. x = Len(doc) /\ chars = doc[x].text
    BY <1>1, <1>4, <1>5, <1>9 DEF TextRead
  <2>2. U = OneMore(T, n, x)
    BY <1>3, <1>4, <1>7, <1>8, <1>9 DEF OfMetadata, OneMore
  <2>3. \A e \in Fields : \A k \in T[e] : k \in 1 .. Len(doc) /\ k < x
    BY <1>1, <1>3, <1>7, <2>1 DEF OfMetadata, IsSeq
  <2>4. PICK d : d = doc
    OBVIOUS
  <2>5. PICK m : m = metadata
    OBVIOUS
  <2>6. MetadataIn(d, U) = Grown(d, m, n, x)
    <3>1. AllBefore(d, T, x)
      BY <1>1, <1>3, <2>3, <2>4 DEF TextRead, AllBefore
    <3>2. MetadataIn(d, OneMore(T, n, x)) = Grown(d, MetadataIn(d, T), n, x)
      BY <3>1, MetadataGrows
    <3>3. m = MetadataIn(d, T)
      BY <1>1, <1>7, <2>4, <2>5
    <3> QED
      BY <2>2, <3>2, <3>3
  <2>7. MetasIn(d)[x] = NewMeta /\ IdentsIn(d)[x] = [id |-> Top.num, text |-> chars]
    <3>1. MetasIn(d)[x] = [id |-> x, text |-> IF d[x].attrs = "property" THEN d[x].text ELSE <<"content">>]
      BY <1>1, <1>3, <2>4, ColumnFacts
    <3>2. IdentsIn(d)[x] = [id |-> x, text |-> d[x].text]
      BY <1>1, <1>3, <2>4, ColumnFacts
    <3> QED
      BY <1>2, <2>1, <2>4, <3>1, <3>2 DEF NewMeta, TopHas
  <2>8. AddTag(m, n) = Grown(d, m, n, x)
    BY <1>2, <2>1, <2>4, <2>7 DEF AddTag, Grown
  <2> QED
    BY <1>1, <1>3, <1>6, <1>8, <1>9, <2>4, <2>5, <2>6, <2>8
<1>10. CASE Section # "metadata"
  <2>1. U = T
    BY <1>3, <1>4, <1>7, <1>8, <1>10 DEF OfMetadata
  <2> QED
    BY <1>1, <1>3, <1>6, <1>7, <1>8, <1>10, <2>1
<1> QED
  BY <1>9, <1>10

LEMMA MetadataKept ==
  ASSUME PackageInv, MetadataInv, [PackageNext]_<<readerVars, packageVars>>
  PROVE  MetadataInv'
<1>1. ASSUME UNCHANGED <<doc, open, packageVars>>, result \in {"reading", "ok"} \/ result' = result,
             result' # "reading" \/ UNCHANGED <<chars, result>>
      PROVE MetadataInv'
  <2>1. OfMetadata' = OfMetadata
    BY <1>1 DEF OfMetadata, Those, Named, In, Parent, Whole
  <2>2. result' \in {"reading", "ok"} => result \in {"reading", "ok"}
    BY <1>1
  <2>3. result' \in {"reading", "ok"} => IsSeq(doc') /\ metadata' = MetadataIn(doc', OfMetadata')
    BY <1>1, <2>1, <2>2 DEF packageVars, MetadataInv
  <2>4. result' = "reading" => Family' /\ TextRead'
    BY <1>1 DEF MetadataInv, Family, TextRead
  <2> QED
    BY <2>3, <2>4 DEF MetadataInv
<1>2. ASSUME PackageNext, result' = "reading" PROVE MetadataInv'
  <2>1. Family' /\ TextRead'
    BY <1>2, PackageFeeds, FeedsKeep DEF PackageInv, ReaderInv, MetadataInv
  <2>2. IsSeq(doc') /\ metadata' = MetadataIn(doc', OfMetadata')
    <3>1. BadSpine \/ PackageEndWrongly \/ PackageStop => result' # "reading"
      BY DEF BadSpine, PackageEndWrongly, PackageStop, Stopping, Outcomes
    <3> QED
      BY <1>2, <3>1, MetadataFed, MetadataEnd DEF PackageNext
  <2> QED
    BY <1>2, <2>1, <2>2 DEF MetadataInv
<1>3. ASSUME PackageNext, result' # "reading" PROVE MetadataInv'
  <2>1. CASE PackageStop
    <3>1. result = "reading" /\ UNCHANGED <<doc, open, packageVars>>
      BY <2>1 DEF PackageStop, Stopping, docVars
    <3> QED
      BY <1>1, <1>3, <3>1
  <2>2. CASE ~PackageStop
    <3>1. result' \notin {"reading", "ok"}
      BY <1>3, <2>2 DEF PackageNext, PackageStart, PackageCharacters, Characters, Starting, BadSpine,
         PackageEndWrongly, PackageEnd, Asserted
    <3> QED
      BY <3>1 DEF MetadataInv
  <2> QED
    BY <2>1, <2>2
<1>4. CASE UNCHANGED <<readerVars, packageVars>>
  BY <1>1, <1>4 DEF readerVars, docVars
<1> QED
  BY <1>2, <1>3, <1>4

(* The metadata is that of the document, of every size and shape: each     *)
(* field has what the whole elements of that name say in the metadata      *)
(* section, in their order, and nothing of any other element.              *)
THEOREM MetadataCorrect == PackageSpec => []MetadataIsDocuments
<1>1. ReaderInit /\ PackageInit => MetadataInv
  <2> SUFFICES ASSUME ReaderInit, PackageInit PROVE MetadataInv
    OBVIOUS
  <2>1. doc = <<>> /\ open = <<>> /\ metadata = NoMetadata
    BY DEF ReaderInit, DocInit, PackageInit
  <2>2. IsSeq(doc) /\ Len(doc) = 0 /\ Len(open) = 0
    BY <2>1, NothingIsSeq
  <2>3. PICK T : T = OfMetadata
    OBVIOUS
  <2>4. \A n \in Fields : T[n] = {}
    BY <2>1, <2>3 DEF OfMetadata, Those
  <2>5. PICK d : d = doc
    OBVIOUS
  <2>6. \A f : IsSeq(f) => InOrder({}, Each(f)) = <<>>
    BY EachFacts, InOrderOfNone
  <2>7. InOrder({}, TextsIn(d)) = <<>>
    BY <2>2, <2>5, ColumnFacts, InOrderOfNone
  <2>8. IsSeq(IdentsIn(d)) /\ IsSeq(TextsIn(d)) /\ IsSeq(MetasIn(d))
    BY <2>2, <2>5, ColumnFacts
  <2>9. MetadataIn(d, T) = NoMetadata
    BY <2>4, <2>6, <2>7, <2>8 DEF MetadataIn, NoMetadata, Fields, LastOf
  <2>10. Family /\ TextRead
    BY <2>2 DEF Family, TextRead
  <2> QED
    BY <2>1, <2>2, <2>3, <2>5, <2>9, <2>10 DEF MetadataInv
<1>2. PackageInv /\ MetadataInv /\ [PackageNext]_<<readerVars, packageVars>> => MetadataInv'
  BY MetadataKept
<1>3. MetadataInv => MetadataIsDocuments
  <2> SUFFICES ASSUME MetadataInv, result \in {"reading", "ok"} PROVE MetadataIsDocuments
    BY DEF MetadataIsDocuments
  <2>1. IsSeq(doc) /\ metadata = MetadataIn(doc, OfMetadata)
    BY DEF MetadataInv
  <2>2. /\ Each(IdentsIn(doc)) = [k \in 1 .. Len(doc) |-> <<IdentifierOf(k)>>]
        /\ Each(TextsIn(doc)) = [k \in 1 .. Len(doc) |-> <<doc[k].text>>]
        /\ Each(MetasIn(doc)) = [k \in 1 .. Len(doc) |-> <<MetaOf(k)>>]
    <3>1. \A f : Len(f) = Len(doc) => Each(f) = [k \in 1 .. Len(doc) |-> <<f[k]>>]
      BY DEF Each
    <3>2. \A k \in 1 .. Len(doc) : MetasIn(doc)[k] = MetaOf(k) /\ IdentsIn(doc)[k] = IdentifierOf(k)
      BY <2>1, ColumnFacts DEF MetaOf, IdentifierOf
    <3>3. Each(IdentsIn(doc)) = [k \in 1 .. Len(doc) |-> <<IdentifierOf(k)>>]
      <4>1. Each(IdentsIn(doc)) = [k \in 1 .. Len(doc) |-> <<IdentsIn(doc)[k]>>]
        BY <2>1, <3>1, ColumnFacts
      <4> QED
        BY <3>2, <4>1
    <3>4. Each(TextsIn(doc)) = [k \in 1 .. Len(doc) |-> <<doc[k].text>>]
      <4>1. Len(TextsIn(doc)) = Len(doc) /\ \A k \in 1 .. Len(doc) : TextsIn(doc)[k] = doc[k].text
        BY <2>1, ColumnFacts
      <4>2. Each(TextsIn(doc)) = [k \in 1 .. Len(doc) |-> <<TextsIn(doc)[k]>>]
        BY <3>1, <4>1
      <4> QED
        BY <4>1, <4>2
    <3>5. Each(MetasIn(doc)) = [k \in 1 .. Len(doc) |-> <<MetaOf(k)>>]
      <4>1. Each(MetasIn(doc)) = [k \in 1 .. Len(doc) |-> <<MetasIn(doc)[k]>>]
        BY <2>1, <3>1, ColumnFacts
      <4> QED
        BY <3>2, <4>1
    <3> QED
      BY <3>3, <3>4, <3>5
  <2>3. TextsIn(doc) = [k \in 1 .. Len(doc) |-> doc[k].text]
    BY DEF TextsIn
  <2>4. \A n \in Fields : OfMetadata[n] = Those(n, "metadata")
    BY DEF OfMetadata
  <2> QED
    BY <2>1, <2>2, <2>3, <2>4
    DEF MetadataIsDocuments, MetadataIn, Fields, LastOf, Elements, Texts, TextOf
<1> QED
  BY <1>1, <1>2, <1>3, PackageFlags, PTL DEF PackageSpec

--------------------------------------------------------------------------------
(* Names that only the root may hold: where the elements are that have one.*)
InRootOnly(root, s) ==
  s # root /\ \A m \in Names : root \notin Children[m] /\ (m # root => s \notin Children[m])

LEMMA SecondOnly ==
  ASSUME NEW root, DocInv(root), NEW s, InRootOnly(root, s), NEW i \in 1 .. Len(open)
  PROVE  /\ doc[open[i]].name = root <=> i = 1
         /\ doc[open[i]].name = s => i = 2
<1>1. i \in Nat /\ i >= 1 /\ Len(open) \in Nat
  BY DEF DocInv, DocShape, IsSeq
<1>2. open[i] \in 1 .. Len(doc) /\ \A j \in 1 .. Len(open) : doc[open[j]].name \in Names
  BY DEF DocInv, DocShape, Ordered
<1>3. open[1] = 1 /\ doc[1].name = root
  BY <1>1, <1>2 DEF DocInv, Rooted
<1>4. ASSUME NEW j \in 1 .. Len(open), j > 1
      PROVE  doc[open[j]].name # root /\ (doc[open[j]].name = s => doc[open[j - 1]].name = root)
  <2>1. j - 1 \in 1 .. Len(open) /\ j = (j - 1) + 1
    BY <1>1, <1>4
  <2>2. doc[open[j]].name \in Children[doc[open[j - 1]].name] /\ doc[open[j - 1]].name \in Names
    BY <1>2, <2>1 DEF DocInv, Linked
  <2> QED
    BY <2>2 DEF InRootOnly
<1>5. CASE i = 1
  BY <1>3, <1>5 DEF InRootOnly
<1>6. CASE i > 1
  <2>1. i - 1 \in 1 .. Len(open) /\ (i - 1 > 1 \/ i = 2)
    BY <1>1, <1>6
  <2> QED
    BY <1>4, <1>6, <2>1
<1> QED
  BY <1>1, <1>5, <1>6

LEMMA UnderOpens ==
  ASSUME NEW root, DocInv(root), NEW s, InRootOnly(root, s),
         NEW n \in Names, NEW a, Opens(root, n, a)
  PROVE  Under(s)' <=> Under(s) \/ n = s
<1>1. /\ Len(doc') = Len(doc) + 1 /\ Len(open') = Len(open) + 1
      /\ open'[Len(open) + 1] = Len(doc) + 1
      /\ doc'[Len(doc) + 1].name = n
      /\ \A k \in 1 .. Len(doc) : doc'[k] = doc[k]
      /\ \A i \in 1 .. Len(open) : open'[i] = open[i]
      /\ Len(doc) \in Nat /\ Len(open) \in Nat
      /\ IF Len(open) = 0 THEN Len(doc) = 0 /\ n = root
         ELSE n \in Children[doc[open[Len(open)]].name]
  BY Opening
<1>2. CASE Len(open) = 0
  <2>1. Len(open') = 1 /\ n = root /\ s # root
    BY <1>1, <1>2 DEF InRootOnly
  <2> QED
    BY <1>2, <2>1 DEF Under
<1>3. CASE Len(open) = 1
  <2>1. ~Under(s) /\ Len(open') = 2 /\ open'[2] = Len(doc) + 1
    BY <1>1, <1>3 DEF Under
  <2> QED
    BY <1>1, <2>1 DEF Under
<1>4. CASE Len(open) >= 2
  <2>1. 2 \in 1 .. Len(open) /\ Len(open) \in 1 .. Len(open)
    BY <1>1, <1>4
  <2>2. open'[2] = open[2] /\ open[2] \in 1 .. Len(doc) /\ Len(open') >= 2
    BY <1>1, <1>4, <2>1 DEF DocInv, Ordered
  <2>3. Under(s)' <=> Under(s)
    BY <1>1, <1>4, <2>2 DEF Under
  <2>4. doc[open[Len(open)]].name \in Names /\ doc[open[Len(open)]].name # root
    <3>1. Len(open) # 1
      BY <1>1, <1>4
    <3> QED
      BY <2>1, <3>1, SecondOnly DEF DocInv, DocShape, Ordered
  <2>5. n # s
    BY <1>1, <1>4, <2>4 DEF InRootOnly
  <2> QED
    BY <2>3, <2>5
<1>5. Len(open) = 0 \/ Len(open) = 1 \/ Len(open) >= 2
  <2>1. PICK m \in Nat : m = Len(open)
    BY <1>1
  <2>2. m = 0 \/ m = 1 \/ m >= 2
    OBVIOUS
  <2> QED
    BY <2>1, <2>2
<1> QED
  BY <1>2, <1>3, <1>4, <1>5

LEMMA UnderCloses ==
  ASSUME NEW root, DocInv(root), NEW s, InRootOnly(root, s), NEW n, Closes(n)
  PROVE  Under(s)' <=> Under(s) /\ n # s
<1>1. /\ doc' = doc /\ Len(open) \in Nat /\ Len(open) > 0 /\ Len(open') = Len(open) - 1
      /\ \A i \in 1 .. Len(open) - 1 : open'[i] = open[i]
      /\ doc[open[Len(open)]].name = n
  BY Closing
<1>2. CASE Len(open) = 1
  BY <1>1, <1>2 DEF Under
<1>3. CASE Len(open) = 2
  BY <1>1, <1>3 DEF Under
<1>4. CASE Len(open) > 2
  <2>1. Len(open) \in 1 .. Len(open) /\ 2 \in 1 .. Len(open) - 1 /\ Len(open) # 2
    BY <1>1, <1>4
  <2>2. n # s
    BY <1>1, <2>1, SecondOnly
  <2> QED
    BY <1>1, <1>4, <2>1, <2>2 DEF Under
<1>5. Len(open) = 1 \/ Len(open) = 2 \/ Len(open) > 2
  <2>1. PICK m \in Nat : m = Len(open) /\ m > 0
    BY <1>1
  <2>2. m = 1 \/ m = 2 \/ m > 2
    BY <2>1
  <2> QED
    BY <2>1, <2>2
<1> QED
  BY <1>2, <1>3, <1>4, <1>5

LEMMA NcxRoot == InRootOnly("ncx", "navMap") /\ InRootOnly("ncx", "docTitle")
BY TocFormat DEF InRootOnly

(* The elements around an open one are open. *)
LEMMA OpenKin ==
  ASSUME NEW root, DocInv(root)
  PROVE  /\ \A k : Contains(open, k) => k \in 1 .. Len(doc)
         /\ \A k : Contains(open, k) => doc[k].parent = 0 \/ Contains(open, doc[k].parent)
<1>1. ASSUME NEW i \in 1 .. Len(open)
      PROVE  open[i] \in 1 .. Len(doc) /\ (doc[open[i]].parent = 0 \/ Contains(open, doc[open[i]].parent))
  <2>1. Len(open) \in Nat /\ open[i] \in 1 .. Len(doc)
    BY DEF DocInv, DocShape, IsSeq, Ordered
  <2>2. CASE i = 1
    <3>1. open[i] = 1 /\ Len(open) > 0
      BY <2>1, <2>2 DEF DocInv, Rooted
    <3>2. doc[1].parent \in 0 .. 0
      BY <2>1, <3>1 DEF DocInv, DocShape
    <3> QED
      BY <2>1, <3>1, <3>2
  <2>3. CASE i # 1
    <3>1. i - 1 \in 1 .. Len(open) /\ i = (i - 1) + 1
      BY <2>1, <2>3
    <3>2. doc[open[i]].parent = open[i - 1]
      BY <3>1 DEF DocInv, Linked
    <3> QED
      BY <2>1, <3>1, <3>2 DEF Contains
  <2> QED
    BY <2>2, <2>3
<1> QED
  BY <1>1 DEF Contains

--------------------------------------------------------------------------------
(* Toc::read.  Points are only in the map.                                 *)
LEMMA PointsInMap ==
  ASSUME DocInv("ncx"), NEW i \in 1 .. Len(open), doc[open[i]].name = "navPoint"
  PROVE  i > 2 /\ Under("navMap")
<1>1. Len(open) \in Nat /\ i \in Nat
  BY DEF DocInv, DocShape, IsSeq
<1> DEFINE S == {j \in Nat : j \in 1 .. Len(open) /\ doc[open[j]].name = "navPoint"
                               => j > 2 /\ Under("navMap")}
<1>2. 0 \in S
  OBVIOUS
<1>3. ASSUME NEW j \in Nat, j \in S PROVE j + 1 \in S
  <2> SUFFICES ASSUME j + 1 \in 1 .. Len(open), doc[open[j + 1]].name = "navPoint"
               PROVE  j + 1 > 2 /\ Under("navMap")
    OBVIOUS
  <2>1. j # 0
    <3>1. ASSUME j = 0 PROVE FALSE
      <4>1. open[1] = 1 /\ doc[1].name = "ncx"
        <5>1. Len(open) > 0 /\ 1 \in 1 .. Len(open)
          BY <1>1, <3>1
        <5>2. open[1] \in 1 .. Len(doc) /\ open[1] = 1
          BY <5>1 DEF DocInv, Ordered, Rooted
        <5>3. Len(doc) > 0
          BY <5>2 DEF DocInv, DocShape, IsSeq
        <5> QED
          BY <5>2, <5>3 DEF DocInv, Rooted
      <4> QED
        BY <3>1, <4>1
    <3> QED
      BY <3>1
  <2>2. j \in 1 .. Len(open)
    BY <1>1, <2>1
  <2>3. doc[open[j + 1]].name \in Children[doc[open[j]].name] /\ doc[open[j]].name \in Names
    BY <2>2 DEF DocInv, Linked, DocShape, Ordered
  <2>4. doc[open[j]].name \in {"navMap", "navPoint"}
    BY <2>3, TocFormat
  <2>5. CASE doc[open[j]].name = "navMap"
    <3>1. j = 2
      BY <2>2, <2>5, SecondOnly, NcxRoot
    <3> QED
      BY <1>1, <2>5, <3>1 DEF Under
  <2>6. CASE doc[open[j]].name = "navPoint"
    BY <1>3, <2>2, <2>6
  <2> QED
    BY <2>4, <2>5, <2>6
<1> HIDE DEF S
<1>4. \A j \in Nat : j \in S
  BY <1>2, <1>3, SetInduction
<1> QED
  BY <1>1, <1>4 DEF S

(* In the last of the points: itself, its label or content, or the text of *)
(* its label.                                                              *)
LastPoint(p) ==
  /\ Contains(open, p) /\ doc[p].name = "navPoint"
  /\ \A c \in 1 .. Len(doc) : doc[c].name = "navPoint" => c <= p

LEMMA InsidePoint ==
  ASSUME DocInv("ncx"), NEW p, LastPoint(p)
  PROVE  \E i \in 1 .. Len(open) :
           /\ open[i] = p
           /\ \/ Len(open) = i
              \/ Len(open) = i + 1 /\ doc[open[i + 1]].name \in {"navLabel", "content"}
              \/ /\ Len(open) = i + 2 /\ i + 1 \in 1 .. Len(open)
                 /\ doc[open[i + 1]].name = "navLabel" /\ doc[open[i + 2]].name = "text"
<1>1. Len(open) \in Nat
  BY DEF DocInv, DocShape, IsSeq
<1>2. PICK i \in 1 .. Len(open) : open[i] = p
  BY DEF LastPoint, Contains
<1>3. p \in 1 .. Len(doc) /\ doc[p].name = "navPoint" /\ i \in Nat
  BY <1>2 DEF DocInv, Ordered, LastPoint
<1>4. ASSUME i + 1 \in 1 .. Len(open) PROVE doc[open[i + 1]].name \in {"navLabel", "content"}
  <2>1. doc[open[i + 1]].name \in Children["navPoint"]
    BY <1>2, <1>3, <1>4 DEF DocInv, Linked
  <2>2. open[i + 1] \in 1 .. Len(doc) /\ open[i + 1] > p
    <3>1. i < i + 1
      BY <1>3
    <3>2. open[i] < open[i + 1] /\ open[i + 1] \in 1 .. Len(doc)
      BY <1>2, <1>4, <3>1 DEF DocInv, Ordered
    <3> QED
      BY <1>2, <1>3, <3>2
  <2>3. doc[open[i + 1]].name # "navPoint"
    BY <1>3, <2>2 DEF LastPoint
  <2> QED
    BY <2>1, <2>3, TocFormat
<1>5. ASSUME i + 2 \in 1 .. Len(open)
      PROVE  /\ i + 1 \in 1 .. Len(open)
             /\ doc[open[i + 1]].name = "navLabel" /\ doc[open[i + 2]].name = "text"
  <2>1. i + 1 \in 1 .. Len(open) /\ i + 2 = (i + 1) + 1
    BY <1>1, <1>3, <1>5
  <2>2. doc[open[i + 2]].name \in Children[doc[open[i + 1]].name]
    BY <1>5, <2>1 DEF DocInv, Linked
  <2> QED
    BY <1>4, <2>1, <2>2, TocFormat
<1>6. i + 3 \notin 1 .. Len(open)
  <2> SUFFICES ASSUME i + 3 \in 1 .. Len(open) PROVE FALSE
    OBVIOUS
  <2>1. i + 2 \in 1 .. Len(open) /\ i + 3 = (i + 2) + 1
    BY <1>1, <1>3
  <2>2. doc[open[i + 3]].name \in Children[doc[open[i + 2]].name]
    BY <2>1 DEF DocInv, Linked
  <2> QED
    BY <1>5, <2>1, <2>2, TocFormat
<1>7. PICK m \in Nat : m = Len(open)
  BY <1>1
<1>8. m = i \/ m = i + 1 \/ m = i + 2
  <2>1. i <= m /\ i + 3 \notin 1 .. m /\ i \in 1 .. m
    BY <1>2, <1>6, <1>7
  <2> QED
    BY <1>3, <2>1
<1>9. CASE m = i
  BY <1>2, <1>7, <1>9
<1>10. CASE m = i + 1
  <2>1. i + 1 \in 1 .. Len(open)
    BY <1>3, <1>7, <1>10
  <2> QED
    BY <1>2, <1>4, <1>7, <1>10, <2>1
<1>11. CASE m = i + 2
  <2>1. i + 2 \in 1 .. Len(open)
    BY <1>3, <1>7, <1>11
  <2> QED
    BY <1>2, <1>5, <1>7, <1>11, <2>1
<1> QED
  BY <1>8, <1>9, <1>10, <1>11

--------------------------------------------------------------------------------
(* What a start tag or a piece of text leaves as it is: what is whole, and *)
(* what is in something that is whole.                                     *)
Grows(root) == (\E n \in Names : \E a : Opens(root, n, a)) \/ (\E w : Says(w))

LEMMA Growing ==
  ASSUME NEW root, DocInv(root), Grows(root)
  PROVE  /\ Len(doc) \in Nat /\ Len(doc) <= Len(doc')
         /\ DOMAIN doc = 1 .. Len(doc) /\ DOMAIN doc' = 1 .. Len(doc')
         /\ \A k \in 1 .. Len(doc) : /\ k \in 1 .. Len(doc')
                                     /\ doc'[k].name = doc[k].name /\ doc'[k].parent = doc[k].parent
                                     /\ Whole(k)' <=> Whole(k)
                                     /\ doc'[k].text = doc[k].text \/ Contains(open, k)
         /\ \A k \in 1 .. Len(doc') :
              \/ k \in 1 .. Len(doc)
              \/ /\ k = Len(doc) + 1 /\ ~Whole(k)'
                 /\ Len(doc) > 0 => Contains(open, doc'[k].parent)
<1>1. /\ IsSeq(doc) /\ Len(doc) \in Nat /\ DOMAIN doc = 1 .. Len(doc) /\ Len(open) \in Nat
  BY DEF DocInv, DocShape, IsSeq
<1>2. ASSUME NEW n \in Names, NEW a, Opens(root, n, a)
      PROVE  /\ Len(doc') = Len(doc) + 1 /\ DOMAIN doc' = 1 .. Len(doc) + 1
             /\ \A k \in 1 .. Len(doc) : doc'[k] = doc[k] /\ (Whole(k)' <=> Whole(k))
             /\ \A k : k = Len(doc) + 1 => ~Whole(k)'
             /\ Len(doc) > 0 => Contains(open, doc'[Len(doc) + 1].parent)
  <2>1. /\ Len(doc') = Len(doc) + 1 /\ DOMAIN doc' = 1 .. Len(doc) + 1
        /\ \A k \in 1 .. Len(doc) : doc'[k] = doc[k] /\ (Whole(k)' <=> Whole(k))
        /\ \A k \in DOMAIN doc' : k \in 1 .. Len(doc) \/ ~Whole(k)'
        /\ IF Len(open) = 0 THEN Len(doc) = 0 /\ n = root
           ELSE doc'[Len(doc) + 1].parent = open[Len(open)]
    BY <1>2, Opening, OpeningWhole
  <2>2. PICK x : x = Len(doc) + 1
    OBVIOUS
  <2>3. x \in DOMAIN doc' /\ x \notin 1 .. Len(doc)
    BY <1>1, <2>1, <2>2
  <2>4. \A k : k = x => ~Whole(k)'
    BY <2>1, <2>3
  <2>5. Len(open) > 0 => Len(open) \in 1 .. Len(open)
    BY <1>1
  <2>6. Len(doc) > 0 => Contains(open, doc'[Len(doc) + 1].parent)
    BY <1>1, <2>1, <2>5 DEF Contains
  <2> QED
    BY <2>1, <2>2, <2>4, <2>6
<1>3. ASSUME NEW w, Says(w)
      PROVE  /\ Len(doc') = Len(doc) /\ DOMAIN doc' = DOMAIN doc
             /\ \A k \in 1 .. Len(doc) : /\ doc'[k].name = doc[k].name /\ doc'[k].parent = doc[k].parent
                                         /\ Whole(k)' <=> Whole(k)
                                         /\ doc'[k].text = doc[k].text \/ Contains(open, k)
  <2>1. /\ Len(doc') = Len(doc) /\ DOMAIN doc' = DOMAIN doc
        /\ \A k \in 1 .. Len(doc) : doc'[k].name = doc[k].name /\ doc'[k].parent = doc[k].parent
        /\ \A k : Whole(k)' <=> Whole(k)
    <3>1. /\ Len(doc') = Len(doc)
          /\ \A k \in 1 .. Len(doc) : doc'[k].name = doc[k].name /\ doc'[k].parent = doc[k].parent
      BY <1>3, Saying
    <3>2. DOMAIN doc' = DOMAIN doc /\ \A k : Whole(k)' <=> Whole(k)
      BY <1>3, SayingWhole
    <3> QED
      BY <3>1, <3>2
  <2>2. /\ Len(open) > 0 /\ Len(open) \in Nat
        /\ \A k \in 1 .. Len(doc) : k # open[Len(open)] => doc'[k] = doc[k]
    BY <1>3, SayingText
  <2>3. Contains(open, open[Len(open)])
    <3>1. Len(open) \in 1 .. Len(open)
      BY <2>2
    <3> QED
      BY <3>1 DEF Contains
  <2> QED
    BY <2>1, <2>2, <2>3
<1>4. \A k \in 1 .. Len(doc) + 1 : k \in 1 .. Len(doc) \/ k = Len(doc) + 1
  BY <1>1
<1>5. CASE \E n \in Names : \E a : Opens(root, n, a)
  <2>1. PICK n \in Names : \E a : Opens(root, n, a)
    BY <1>5
  <2>2. PICK a : Opens(root, n, a)
    BY <2>1
  <2>3. PICK x : x = Len(doc) + 1
    OBVIOUS
  <2>4. /\ Len(doc') = x /\ DOMAIN doc' = 1 .. x
        /\ \A k \in 1 .. Len(doc) : doc'[k] = doc[k] /\ (Whole(k)' <=> Whole(k))
        /\ Len(doc) > 0 => Contains(open, doc'[x].parent)
    BY <1>2, <2>2, <2>3
  <2>5. ASSUME NEW k, k = x PROVE ~Whole(k)'
    BY <1>2, <2>2, <2>3, <2>5
  <2>6. \A k \in 1 .. Len(doc) : k \in 1 .. x
    BY <1>1, <2>3
  <2>7. Len(doc) <= x
    BY <1>1, <2>3
  <2>8. \A k \in 1 .. Len(doc) : /\ k \in 1 .. Len(doc')
                                /\ doc'[k].name = doc[k].name /\ doc'[k].parent = doc[k].parent
                                /\ (Whole(k)' <=> Whole(k))
                                /\ (doc'[k].text = doc[k].text \/ Contains(open, k))
    BY <2>4, <2>6
  <2>9. \A k \in 1 .. x : k \in 1 .. Len(doc) \/ k = x
    BY <1>4, <2>3
  <2>10. \A k \in 1 .. Len(doc') :
           \/ k \in 1 .. Len(doc)
           \/ /\ k = Len(doc) + 1 /\ ~Whole(k)'
              /\ Len(doc) > 0 => Contains(open, doc'[k].parent)
    BY <2>3, <2>4, <2>5, <2>9
  <2>11. Len(doc) <= Len(doc') /\ DOMAIN doc' = 1 .. Len(doc')
    BY <2>4, <2>7
  <2> QED
    BY <1>1, <2>8, <2>10, <2>11
<1>6. CASE \E w : Says(w)
  BY <1>1, <1>3, <1>6
<1> QED
  BY <1>5, <1>6 DEF Grows

--------------------------------------------------------------------------------
(* The elements that give a point its label and its content.               *)
Labels(p) == {k \in DOMAIN doc : Named(k, "text") /\ Parent(Parent(k)) = p}
Contents(p) == {k \in DOMAIN doc : Named(k, "content") /\ Parent(k) = p}
WholeLabels(p) == {k \in Labels(p) : Whole(k)}
WholeContents(p) == {k \in Contents(p) : Whole(k)}

(* The parents of those that are texts or contents.                        *)
LEMMA TextKin ==
  ASSUME DocInv("ncx"), Family, NEW k \in 1 .. Len(doc), doc[k].name # "ncx"
  PROVE  /\ k \in 2 .. Len(doc) /\ doc[k].parent \in 1 .. k - 1 /\ doc[k].parent \in 1 .. Len(doc)
         /\ doc[doc[k].parent].parent \in 0 .. k - 2
<1>1. Len(doc) \in Nat /\ k \in Nat
  BY DEF DocInv, DocShape, IsSeq
<1>2. k # 1
  BY <1>1 DEF DocInv, Rooted
<1>3. k \in 2 .. Len(doc) /\ doc[k].parent \in 1 .. k - 1 /\ doc[k].parent \in 1 .. Len(doc)
  <2>1. k \in 2 .. Len(doc)
    BY <1>1, <1>2
  <2> QED
    BY <1>1, <2>1 DEF Family
<1>4. PICK q \in 1 .. Len(doc) : q = doc[k].parent
  BY <1>3
<1>5. doc[q].parent \in 0 .. q - 1 /\ q <= k - 1
  BY <1>1, <1>3, <1>4 DEF DocInv, DocShape
<1>6. doc[q].parent \in 0 .. k - 2
  BY <1>1, <1>4, <1>5
<1> QED
  BY <1>3, <1>4, <1>6

LEMMA SetsGrow ==
  ASSUME DocInv("ncx"), Family, Grows("ncx")
  PROVE  /\ \A p : WholeLabels(p)' = WholeLabels(p) /\ WholeContents(p)' = WholeContents(p)
         /\ Titles' = Titles /\ Leaves' = Leaves
         /\ \A p : Whole(p) => /\ Labels(p)' = Labels(p) /\ Contents(p)' = Contents(p)
                               /\ \A k \in Labels(p) : doc'[k].text = doc[k].text
<1>1. /\ Len(doc) \in Nat /\ DOMAIN doc = 1 .. Len(doc) /\ DOMAIN doc' = 1 .. Len(doc')
      /\ \A k \in 1 .. Len(doc) : /\ k \in 1 .. Len(doc')
                                  /\ doc'[k].name = doc[k].name /\ doc'[k].parent = doc[k].parent
                                  /\ Whole(k)' <=> Whole(k)
                                  /\ doc'[k].text = doc[k].text \/ Contains(open, k)
      /\ \A k \in 1 .. Len(doc') :
           \/ k \in 1 .. Len(doc)
           \/ /\ k = Len(doc) + 1 /\ ~Whole(k)'
              /\ Len(doc) > 0 => Contains(open, doc'[k].parent)
  BY Growing
<1>2. \A k \in 1 .. Len(doc) : doc[k].name # "ncx" => doc[k].parent \in 1 .. Len(doc)
  BY TextKin
<1>3. \A k \in 1 .. Len(doc) : doc[k].name # "ncx" =>
        doc'[doc'[k].parent].parent = doc[doc[k].parent].parent
        /\ doc'[doc'[k].parent].name = doc[doc[k].parent].name
  BY <1>1, <1>2
<1>4. \A k : Whole(k) => k \in 1 .. Len(doc)
  BY <1>1 DEF Whole
<1>5. \A k : Whole(k)' => k \in 1 .. Len(doc')
  BY <1>1 DEF Whole
<1>6. ASSUME NEW p PROVE WholeLabels(p)' = WholeLabels(p)
  <2>1. WholeLabels(p) = {k \in 1 .. Len(doc) : /\ doc[k].name = "text" /\ Whole(k)
                                                /\ doc[doc[k].parent].parent = p}
    BY <1>1 DEF WholeLabels, Labels, Named, Parent
  <2>2. WholeLabels(p)' = {k \in 1 .. Len(doc') : /\ doc'[k].name = "text" /\ Whole(k)'
                                                  /\ doc'[doc'[k].parent].parent = p}
    BY <1>1 DEF WholeLabels, Labels, Named, Parent
  <2> QED
    BY <1>1, <1>3, <2>1, <2>2
<1>7. ASSUME NEW p PROVE WholeContents(p)' = WholeContents(p)
  BY <1>1 DEF WholeContents, Contents, Named, Parent
<1>8. Titles' = Titles
  <2>1. Titles = {k \in 1 .. Len(doc) : /\ doc[k].name = "text" /\ Whole(k)
                                        /\ doc[doc[k].parent].name = "docTitle"}
    BY <1>1, <1>2 DEF Titles, In, Named, Parent
  <2>2. Titles' = {k \in 1 .. Len(doc') : /\ doc'[k].name = "text" /\ Whole(k)'
                                          /\ doc'[k].parent \in 1 .. Len(doc')
                                          /\ doc'[doc'[k].parent].name = "docTitle"}
    BY <1>1 DEF Titles, In, Named, Parent
  <2>3. \A k \in 1 .. Len(doc) : doc[k].name # "ncx" => doc'[k].parent \in 1 .. Len(doc')
    BY <1>1, <1>2
  <2> QED
    BY <1>1, <1>3, <2>1, <2>2, <2>3
<1>9. Leaves' = Leaves
  <2>1. ASSUME NEW k \in 1 .. Len(doc), Whole(k) PROVE Leaf(k)' <=> Leaf(k)
    <3>1. \A c \in 1 .. Len(doc') : c \in 1 .. Len(doc) \/ doc'[c].parent # k
      <4>1. ~Contains(open, k) /\ Len(doc) > 0
        BY <1>1, <2>1 DEF Whole
      <4> QED
        BY <1>1, <4>1
    <3> QED
      BY <1>1, <3>1 DEF Leaf, Named, Parent
  <2>2. Leaves = {k \in 1 .. Len(doc) : Leaf(k) /\ Whole(k)}
    BY <1>1 DEF Leaves
  <2>3. Leaves' = {k \in 1 .. Len(doc') : Leaf(k)' /\ Whole(k)'}
    BY <1>1 DEF Leaves
  <2> QED
    BY <1>1, <2>1, <2>2, <2>3
<1>10. ASSUME NEW p, Whole(p)
       PROVE  /\ Labels(p)' = Labels(p) /\ Contents(p)' = Contents(p)
              /\ \A k \in Labels(p) : doc'[k].text = doc[k].text
  <2>1. ~Contains(open, p) /\ p \in 1 .. Len(doc) /\ p # 0 /\ Len(doc) > 0
    BY <1>1, <1>10 DEF Whole
  <2>2. \A k : Contains(open, k) => k \in 1 .. Len(doc) /\ doc[k].parent # p
    BY <2>1, OpenKin
  <2>3. \A k \in 1 .. Len(doc') : k \in 1 .. Len(doc) \/ (doc'[k].parent # p /\ doc'[doc'[k].parent].parent # p)
    BY <1>1, <2>1, <2>2
  <2>4. Labels(p) = {k \in 1 .. Len(doc) : doc[k].name = "text" /\ doc[doc[k].parent].parent = p}
    BY <1>1 DEF Labels, Named, Parent
  <2>5. Labels(p)' = {k \in 1 .. Len(doc') : doc'[k].name = "text" /\ doc'[doc'[k].parent].parent = p}
    BY <1>1 DEF Labels, Named, Parent
  <2>6. Labels(p)' = Labels(p)
    BY <1>1, <1>3, <2>3, <2>4, <2>5
  <2>7. Contents(p)' = Contents(p)
    BY <1>1, <2>3 DEF Contents, Named, Parent
  <2>8. ASSUME NEW k \in Labels(p) PROVE doc'[k].text = doc[k].text
    <3>1. k \in 1 .. Len(doc) /\ doc[k].name = "text" /\ doc[doc[k].parent].parent = p
      BY <2>4
    <3>2. doc[k].parent # 0
      BY <1>2, <3>1
    <3>3. ~Contains(open, k)
      <4> SUFFICES ASSUME Contains(open, k) PROVE FALSE
        OBVIOUS
      <4>1. Contains(open, doc[k].parent)
        BY <3>2, OpenKin
      <4> QED
        BY <2>2, <3>1, <4>1
    <3> QED
      BY <1>1, <3>1, <3>3
  <2> QED
    BY <2>6, <2>7, <2>8
<1> QED
  BY <1>6, <1>7, <1>8, <1>9, <1>10

(* The end of element x: it is whole now, and nothing else changes.        *)
LEMMA SetsClose ==
  ASSUME DocInv("ncx"), NEW n, Closes(n) \/ ClosesWrongly(n), NEW x, x = open[Len(open)]
  PROVE  /\ doc' = doc /\ x \in 1 .. Len(doc) /\ ~Whole(x) /\ Contains(open, x)
         /\ \A k : Contains(open', k) <=> Contains(open, k) /\ k # x
         /\ \A p : Labels(p)' = Labels(p) /\ Contents(p)' = Contents(p)
         /\ \A p : WholeLabels(p)' = IF x \in Labels(p) THEN WholeLabels(p) \cup {x} ELSE WholeLabels(p)
         /\ \A p : WholeContents(p)' = IF x \in Contents(p) THEN WholeContents(p) \cup {x}
                                       ELSE WholeContents(p)
         /\ Titles' = IF Named(x, "text") /\ In(x, "docTitle") THEN Titles \cup {x} ELSE Titles
         /\ Leaves' = IF Leaf(x) THEN Leaves \cup {x} ELSE Leaves
<1>1. /\ doc' = doc /\ Len(open) \in Nat /\ Len(open) > 0 /\ Len(open') = Len(open) - 1
      /\ \A i \in 1 .. Len(open) - 1 : open'[i] = open[i]
  BY Closing
<1>2. Len(open) \in 1 .. Len(open) /\ DOMAIN doc = 1 .. Len(doc)
  BY <1>1 DEF DocInv, DocShape, IsSeq
<1>3. x \in 1 .. Len(doc) /\ Contains(open, x)
  BY <1>2 DEF DocInv, Ordered, Contains
<1>4. ~Whole(x)
  BY <1>3 DEF Whole
<1>5. \A k : Whole(k)' <=> Whole(k) \/ k = x
  BY ClosingWhole
<1>6. \A k : Contains(open', k) <=> Contains(open, k) /\ k # x
  <2>1. \A k : Contains(open, k) => k \in DOMAIN doc
    BY <1>2, OpenKin
  <2>2. ASSUME NEW k, Contains(open', k) PROVE k \in DOMAIN doc
    <3>1. PICK i \in 1 .. Len(open') : open'[i] = k
      BY <2>2 DEF Contains
    <3>2. i \in 1 .. Len(open) - 1 /\ i \in 1 .. Len(open)
      BY <1>1
    <3> QED
      BY <1>1, <1>2, <3>1, <3>2 DEF DocInv, Ordered
  <2> QED
    BY <1>1, <1>5, <2>1, <2>2 DEF Whole
<1>7. \A p : Labels(p)' = Labels(p) /\ Contents(p)' = Contents(p)
  BY <1>1 DEF Labels, Contents, Named, Parent
<1>8. \A p : WholeLabels(p)' = IF x \in Labels(p) THEN WholeLabels(p) \cup {x} ELSE WholeLabels(p)
  BY <1>5, <1>7 DEF WholeLabels
<1>9. \A p : WholeContents(p)' = IF x \in Contents(p) THEN WholeContents(p) \cup {x} ELSE WholeContents(p)
  BY <1>5, <1>7 DEF WholeContents
<1>10. Titles' = IF Named(x, "text") /\ In(x, "docTitle") THEN Titles \cup {x} ELSE Titles
  BY <1>1, <1>2, <1>3, <1>5 DEF Titles, Named, In, Parent
<1>11. \A k : Leaf(k)' <=> Leaf(k)
  BY <1>1 DEF Leaf, Named, Parent
<1>12. Leaves' = IF Leaf(x) THEN Leaves \cup {x} ELSE Leaves
  BY <1>1, <1>2, <1>3, <1>5, <1>11 DEF Leaves
<1> QED
  BY <1>1, <1>3, <1>4, <1>6, <1>7, <1>8, <1>9, <1>10, <1>12

--------------------------------------------------------------------------------
(* What is collected, as far as the document says it.                      *)
Points == [p \in 1 .. Len(doc) |-> Point(p)]
Collecting(p) ==
  [id |-> p, label |-> InOrder(WholeLabels(p), TextsIn(doc)),
   content |-> InOrder(WholeContents(p), Each(Ids(doc)))]

LEMMA IdsIn == ASSUME NEW d, IsSeq(d) PROVE Each(Ids(d)) = [k \in 1 .. Len(d) |-> <<k>>]
<1>1. Len(Ids(d)) = Len(d) /\ \A k \in 1 .. Len(d) : Ids(d)[k] = k
  BY ColumnFacts
<1>2. Each(Ids(d)) = [k \in 1 .. Len(d) |-> <<Ids(d)[k]>>]
  BY <1>1 DEF Each
<1> QED
  BY <1>1, <1>2

LEMMA IdsSame ==
  ASSUME NEW d, IsSeq(d), NEW e, IsSeq(e), Len(d) <= Len(e), NEW S, S \subseteq 1 .. Len(d)
  PROVE  InOrder(S, Each(Ids(e))) = InOrder(S, Each(Ids(d)))
<1>1. PICK f : f = Ids(d)
  OBVIOUS
<1>2. PICK g : g = Ids(e)
  OBVIOUS
<1>3. IsSeq(f) /\ Len(f) = Len(d) /\ \A k \in 1 .. Len(d) : f[k] = k
  BY <1>1, ColumnFacts
<1>4. IsSeq(g) /\ Len(g) = Len(e) /\ \A k \in 1 .. Len(e) : g[k] = k
  BY <1>2, ColumnFacts
<1>5. \A k \in 1 .. Len(d) : k \in 1 .. Len(e)
  BY DEF IsSeq
<1>6. Len(f) <= Len(g) /\ S \subseteq 1 .. Len(f) /\ \A k \in S : g[k] = f[k]
  BY <1>3, <1>4, <1>5
<1>7. InOrder(S, Each(g)) = InOrder(S, Each(f))
  BY <1>3, <1>4, <1>6, EachSame
<1> QED
  BY <1>1, <1>2, <1>7

LEMMA IdsGrow ==
  ASSUME NEW d, IsSeq(d), NEW S, S \subseteq 1 .. Len(d), NEW x \in 1 .. Len(d), \A k \in S : k < x
  PROVE  InOrder(S \cup {x}, Each(Ids(d))) = Append(InOrder(S, Each(Ids(d))), x)
<1>1. PICK f : f = Ids(d)
  OBVIOUS
<1>2. IsSeq(f) /\ Len(f) = Len(d) /\ f[x] = x
  BY <1>1, ColumnFacts
<1>3. S \subseteq 1 .. Len(f) /\ x \in 1 .. Len(f)
  BY <1>2
<1>4. InOrder(S \cup {x}, Each(f)) = Append(InOrder(S, Each(f)), f[x])
  BY <1>2, <1>3, EachGrows
<1> QED
  BY <1>1, <1>2, <1>4

LEMMA PointIs ==
  ASSUME IsSeq(doc), NEW p
  PROVE  Point(p) = [id |-> p, label |-> InOrder(Labels(p), TextsIn(doc)),
                     content |-> InOrder(Contents(p), Each(Ids(doc)))]
<1>1. Each(Ids(doc)) = [k \in 1 .. Len(doc) |-> <<k>>]
  BY IdsIn
<1> QED
  BY <1>1 DEF Point, Label, Src, TextOf, Elements, TextsIn, Labels, Contents

LEMMA PointIsThen ==
  ASSUME IsSeq(doc'), NEW p
  PROVE  Point(p)' = [id |-> p, label |-> InOrder(Labels(p)', TextsIn(doc')),
                      content |-> InOrder(Contents(p)', Each(Ids(doc')))]
<1>1. Each(Ids(doc')) = [k \in 1 .. Len(doc') |-> <<k>>]
  BY IdsIn
<1> QED
  BY <1>1 DEF Point, Label, Src, TextOf, Elements, TextsIn, Labels, Contents

LEMMA CollectingStays ==
  ASSUME DocInv("ncx"), Family, TextRead, Grows("ncx"), IsSeq(doc'), NEW p
  PROVE  Collecting(p)' = Collecting(p)
<1>1. PICK d : d = doc
  OBVIOUS
<1>2. PICK e : e = doc'
  OBVIOUS
<1>3. /\ IsSeq(d) /\ IsSeq(e) /\ Len(d) <= Len(e)
      /\ \A k : Whole(k) => k \in 1 .. Len(d) /\ IsSeq(d[k].text) /\ e[k].text = d[k].text
  <2>1. /\ Len(doc) <= Len(doc') /\ DOMAIN doc = 1 .. Len(doc)
        /\ \A k \in 1 .. Len(doc) : doc'[k].text = doc[k].text \/ Contains(open, k)
    BY Growing
  <2>2. \A k : Whole(k) => k \in 1 .. Len(doc) /\ ~Contains(open, k)
    BY <2>1 DEF Whole
  <2>3. IsSeq(doc) /\ \A k \in 1 .. Len(doc) : IsSeq(doc[k].text)
    BY DEF DocInv, DocShape, TextRead
  <2> QED
    BY <1>1, <1>2, <2>1, <2>2, <2>3
<1>4. PICK S : S = WholeLabels(p)
  OBVIOUS
<1>5. PICK T : T = WholeContents(p)
  OBVIOUS
<1>6. WholeLabels(p)' = S /\ WholeContents(p)' = T
  BY <1>4, <1>5, SetsGrow
<1>7. (\A k \in S : Whole(k)) /\ (\A k \in T : Whole(k))
  BY <1>4, <1>5 DEF WholeLabels, WholeContents
<1>8. InOrder(S, TextsIn(e)) = InOrder(S, TextsIn(d))
  <2>1. S \subseteq 1 .. Len(d) /\ \A k \in S : IsSeq(d[k].text) /\ e[k].text = d[k].text
    BY <1>3, <1>7
  <2> QED
    BY <1>3, <2>1, TextsSame
<1>9. InOrder(T, Each(Ids(e))) = InOrder(T, Each(Ids(d)))
  <2>1. T \subseteq 1 .. Len(d)
    BY <1>3, <1>7
  <2> QED
    BY <1>3, <2>1, IdsSame
<1>10. Collecting(p) = [id |-> p, label |-> InOrder(S, TextsIn(d)), content |-> InOrder(T, Each(Ids(d)))]
  BY <1>1, <1>4, <1>5 DEF Collecting
<1>11. Collecting(p)' = [id |-> p, label |-> InOrder(S, TextsIn(e)), content |-> InOrder(T, Each(Ids(e)))]
  BY <1>2, <1>6 DEF Collecting
<1> QED
  BY <1>8, <1>9, <1>10, <1>11

LEMMA FoundStays ==
  ASSUME DocInv("ncx"), Family, TextRead, Grows("ncx"), IsSeq(doc')
  PROVE  /\ InOrder(Titles, TextsIn(doc))' = InOrder(Titles, TextsIn(doc))
         /\ InOrder(Leaves, Each(Points))' = InOrder(Leaves, Each(Points))
<1>1. PICK d : d = doc
  OBVIOUS
<1>2. PICK e : e = doc'
  OBVIOUS
<1>3. /\ IsSeq(d) /\ IsSeq(e) /\ Len(d) <= Len(e)
      /\ \A k \in 1 .. Len(d) : IsSeq(d[k].text) /\ k \in 1 .. Len(e)
      /\ \A k : Whole(k) => k \in 1 .. Len(d) /\ e[k].text = d[k].text
  <2>1. /\ Len(doc) <= Len(doc') /\ DOMAIN doc = 1 .. Len(doc)
        /\ \A k \in 1 .. Len(doc) : doc'[k].text = doc[k].text \/ Contains(open, k)
        /\ \A k \in 1 .. Len(doc) : k \in 1 .. Len(doc')
    BY Growing
  <2>2. \A k : Whole(k) => k \in 1 .. Len(doc) /\ ~Contains(open, k)
    BY <2>1 DEF Whole
  <2>3. IsSeq(doc) /\ \A k \in 1 .. Len(doc) : IsSeq(doc[k].text)
    BY DEF DocInv, DocShape, TextRead
  <2> QED
    BY <1>1, <1>2, <2>1, <2>2, <2>3
<1>4. InOrder(Titles, TextsIn(doc))' = InOrder(Titles, TextsIn(doc))
  <2>1. PICK S : S = Titles
    OBVIOUS
  <2>2. Titles' = S /\ \A k \in S : Whole(k)
    BY <2>1, SetsGrow DEF Titles
  <2>3. S \subseteq 1 .. Len(d) /\ \A k \in S : IsSeq(d[k].text) /\ e[k].text = d[k].text
    BY <1>3, <2>2
  <2>4. InOrder(S, TextsIn(e)) = InOrder(S, TextsIn(d))
    BY <1>3, <2>3, TextsSame
  <2> QED
    BY <1>1, <1>2, <2>1, <2>2, <2>4
<1>5. ASSUME NEW p, Whole(p) PROVE Point(p)' = Point(p)
  <2>1. PICK S : S = Labels(p)
    OBVIOUS
  <2>2. PICK T : T = Contents(p)
    OBVIOUS
  <2>3. Labels(p)' = S /\ Contents(p)' = T /\ \A k \in S : e[k].text = d[k].text
    BY <1>1, <1>2, <1>5, <2>1, <2>2, SetsGrow
  <2>4. S \subseteq 1 .. Len(d) /\ T \subseteq 1 .. Len(d)
    BY <1>1, <1>3, <2>1, <2>2 DEF Labels, Contents, IsSeq
  <2>5. InOrder(S, TextsIn(e)) = InOrder(S, TextsIn(d))
    <3>1. \A k \in S : IsSeq(d[k].text) /\ e[k].text = d[k].text
      BY <1>3, <2>3, <2>4
    <3> QED
      BY <1>3, <2>4, <3>1, TextsSame
  <2>6. InOrder(T, Each(Ids(e))) = InOrder(T, Each(Ids(d)))
    BY <1>3, <2>4, IdsSame
  <2>7. Point(p) = [id |-> p, label |-> InOrder(S, TextsIn(d)), content |-> InOrder(T, Each(Ids(d)))]
    BY <1>1, <1>3, <2>1, <2>2, PointIs
  <2>8. Point(p)' = [id |-> p, label |-> InOrder(S, TextsIn(e)), content |-> InOrder(T, Each(Ids(e)))]
    BY <1>2, <1>3, <2>3, PointIsThen
  <2> QED
    BY <2>5, <2>6, <2>7, <2>8
<1>6. InOrder(Leaves, Each(Points))' = InOrder(Leaves, Each(Points))
  <2>1. PICK S : S = Leaves
    OBVIOUS
  <2>2. PICK f : f = Points
    OBVIOUS
  <2>3. PICK g : g = Points'
    OBVIOUS
  <2>4. Leaves' = S /\ \A k \in S : Whole(k)
    BY <2>1, SetsGrow DEF Leaves
  <2>5. IsSeq(f) /\ Len(f) = Len(d) /\ \A k \in 1 .. Len(d) : f[k] = Point(k)
    BY <1>1, <1>3, <2>2 DEF Points, IsSeq
  <2>6. IsSeq(g) /\ Len(g) = Len(e) /\ \A k \in 1 .. Len(e) : g[k] = Point(k)'
    BY <1>2, <1>3, <2>3 DEF Points, IsSeq
  <2>7. Len(f) <= Len(g) /\ S \subseteq 1 .. Len(f) /\ \A k \in S : g[k] = f[k]
    BY <1>3, <1>5, <2>4, <2>5, <2>6
  <2>8. InOrder(S, Each(g)) = InOrder(S, Each(f))
    BY <2>5, <2>6, <2>7, EachSame
  <2> QED
    BY <2>1, <2>2, <2>3, <2>4, <2>8
<1> QED
  BY <1>4, <1>6

(* The end of element x.                                                   *)
LEMMA CollectingEnds ==
  ASSUME DocInv("ncx"), TextRead, NEW n, Closes(n), NEW x, x = open[Len(open)], NEW p
  PROVE  Collecting(p)' =
           [id |-> p,
            label |-> IF x \in Labels(p) THEN Collecting(p).label \o doc[x].text ELSE Collecting(p).label,
            content |-> IF x \in Contents(p) THEN Append(Collecting(p).content, x)
                        ELSE Collecting(p).content]
<1>1. PICK d : d = doc
  OBVIOUS
<1>2. /\ doc' = d /\ x \in 1 .. Len(d) /\ ~Whole(x) /\ IsSeq(d) /\ DOMAIN d = 1 .. Len(d)
      /\ \A k \in 1 .. Len(d) : IsSeq(d[k].text)
  BY <1>1, SetsClose DEF TextRead, DocInv, DocShape, IsSeq
<1>3. Len(open) > 0 /\ (d[x].name \in {"text", "content"} => x = Len(d))
  BY <1>1, Closing, TocFormat DEF DocInv, LeafIsLast
<1>4. PICK S : S = WholeLabels(p)
  OBVIOUS
<1>5. PICK T : T = WholeContents(p)
  OBVIOUS
<1>6. \A k : k \in S \/ k \in T => k \in 1 .. Len(d) /\ k # x
  BY <1>1, <1>2, <1>4, <1>5 DEF WholeLabels, WholeContents, Whole
<1>7. /\ WholeLabels(p)' = IF x \in Labels(p) THEN S \cup {x} ELSE S
      /\ WholeContents(p)' = IF x \in Contents(p) THEN T \cup {x} ELSE T
  BY <1>4, <1>5, SetsClose
<1>8. x \in Labels(p) \/ x \in Contents(p) => x = Len(d)
  BY <1>1, <1>3 DEF Labels, Contents, Named
<1>9. ASSUME x = Len(d) PROVE (\A k \in S : k < x) /\ (\A k \in T : k < x)
  BY <1>2, <1>6, <1>9 DEF IsSeq
<1>10. ASSUME x = Len(d)
       PROVE  /\ InOrder(S \cup {x}, TextsIn(d)) = InOrder(S, TextsIn(d)) \o d[x].text
              /\ InOrder(T \cup {x}, Each(Ids(d))) = Append(InOrder(T, Each(Ids(d))), x)
  <2>1. S \subseteq 1 .. Len(d) /\ T \subseteq 1 .. Len(d)
    BY <1>6
  <2>2. InOrder(S \cup {x}, TextsIn(d)) = InOrder(S, TextsIn(d)) \o d[x].text
    BY <1>2, <1>9, <1>10, <2>1, TextsGrow
  <2>3. InOrder(T \cup {x}, Each(Ids(d))) = Append(InOrder(T, Each(Ids(d))), x)
    BY <1>2, <1>9, <1>10, <2>1, IdsGrow
  <2> QED
    BY <2>2, <2>3
<1>11. Collecting(p) = [id |-> p, label |-> InOrder(S, TextsIn(d)), content |-> InOrder(T, Each(Ids(d)))]
  BY <1>1, <1>4, <1>5 DEF Collecting
<1>12. Collecting(p)' = [id |-> p, label |-> InOrder(WholeLabels(p)', TextsIn(d)),
                         content |-> InOrder(WholeContents(p)', Each(Ids(d)))]
  BY <1>2 DEF Collecting
<1>13. Collecting(p).label = InOrder(S, TextsIn(d)) /\ Collecting(p).content = InOrder(T, Each(Ids(d)))
  BY <1>11
<1>14. InOrder(WholeLabels(p)', TextsIn(d)) =
         IF x \in Labels(p) THEN Collecting(p).label \o doc[x].text ELSE Collecting(p).label
  BY <1>1, <1>7, <1>8, <1>10, <1>13
<1>15. InOrder(WholeContents(p)', Each(Ids(d))) =
         IF x \in Contents(p) THEN Append(Collecting(p).content, x) ELSE Collecting(p).content
  BY <1>7, <1>8, <1>10, <1>13
<1> QED
  BY <1>12, <1>14, <1>15

LEMMA FoundEnds ==
  ASSUME DocInv("ncx"), TextRead, NEW n, Closes(n), NEW x, x = open[Len(open)],
         Leaf(x) => \A c \in 1 .. Len(doc) : doc[c].name = "navPoint" => c <= x
  PROVE  /\ InOrder(Titles, TextsIn(doc))' =
              IF Named(x, "text") /\ In(x, "docTitle")
              THEN InOrder(Titles, TextsIn(doc)) \o doc[x].text ELSE InOrder(Titles, TextsIn(doc))
         /\ InOrder(Leaves, Each(Points))' =
              IF Leaf(x) THEN Append(InOrder(Leaves, Each(Points)), Point(x))
              ELSE InOrder(Leaves, Each(Points))
<1>1. PICK d : d = doc
  OBVIOUS
<1>2. /\ doc' = d /\ x \in 1 .. Len(d) /\ ~Whole(x) /\ IsSeq(d) /\ DOMAIN d = 1 .. Len(d)
      /\ \A k \in 1 .. Len(d) : IsSeq(d[k].text)
      /\ Len(d) \in Nat
  BY <1>1, SetsClose DEF TextRead, DocInv, DocShape, IsSeq
<1>3. Len(open) > 0 /\ (d[x].name = "text" => x = Len(d))
  BY <1>1, Closing, TocFormat DEF DocInv, LeafIsLast
<1>4. InOrder(Titles, TextsIn(doc))' =
        IF Named(x, "text") /\ In(x, "docTitle")
        THEN InOrder(Titles, TextsIn(doc)) \o doc[x].text ELSE InOrder(Titles, TextsIn(doc))
  <2>1. PICK S : S = Titles
    OBVIOUS
  <2>2. Titles' = IF Named(x, "text") /\ In(x, "docTitle") THEN S \cup {x} ELSE S
    BY <2>1, SetsClose
  <2>3. \A k \in S : k \in 1 .. Len(d) /\ k # x
    BY <1>1, <1>2, <2>1 DEF Titles
  <2>4. ASSUME Named(x, "text") PROVE InOrder(S \cup {x}, TextsIn(d)) = InOrder(S, TextsIn(d)) \o d[x].text
    <3>1. x = Len(d)
      BY <1>1, <1>3, <2>4 DEF Named
    <3>2. S \subseteq 1 .. Len(d) /\ \A k \in S : k < x
      BY <1>2, <2>3, <3>1
    <3> QED
      BY <1>2, <3>2, TextsGrow
  <2> QED
    BY <1>1, <1>2, <2>1, <2>2, <2>4
<1>5. InOrder(Leaves, Each(Points))' =
        IF Leaf(x) THEN Append(InOrder(Leaves, Each(Points)), Point(x))
        ELSE InOrder(Leaves, Each(Points))
  <2>1. PICK S : S = Leaves
    OBVIOUS
  <2>2. PICK f : f = Points
    OBVIOUS
  <2>3. Points' = f
    BY <1>1, <1>2, <2>2 DEF Points, Point, Label, Src, TextOf, Elements, Named, Parent
  <2>4. Leaves' = IF Leaf(x) THEN S \cup {x} ELSE S
    BY <2>1, SetsClose
  <2>5. \A k \in S : k \in 1 .. Len(d) /\ k # x /\ d[k].name = "navPoint"
    BY <1>1, <1>2, <2>1 DEF Leaves, Leaf, Named
  <2>6. IsSeq(f) /\ Len(f) = Len(d) /\ f[x] = Point(x)
    BY <1>1, <1>2, <2>2 DEF Points, IsSeq
  <2>7. ASSUME Leaf(x) PROVE InOrder(S \cup {x}, Each(f)) = Append(InOrder(S, Each(f)), Point(x))
    <3>1. \A c \in 1 .. Len(d) : d[c].name = "navPoint" => c <= x
      BY <1>1, <2>7
    <3>2. S \subseteq 1 .. Len(f) /\ x \in 1 .. Len(f) /\ \A k \in S : k < x
      BY <1>2, <2>5, <2>6, <3>1
    <3> QED
      BY <2>6, <3>2, EachGrows
  <2> QED
    BY <2>1, <2>2, <2>3, <2>4, <2>7
<1> QED
  BY <1>4, <1>5

--------------------------------------------------------------------------------
(* What Toc::read knows while it reads: where it is by its flags, and the  *)
(* last navPoint as far as it goes, as long as no other has been started   *)
(* in it or it has ended.  The ones around it are known not to be leaves.  *)
HasPoint(k) == \E c \in 1 .. Len(doc) : doc[c].name = "navPoint" /\ doc[c].parent = k
OpenPoint(k) == Contains(open, k) /\ doc[k].name = "navPoint"
TocFlags ==
  /\ in_navmap <=> Under("navMap")
  /\ in_doctitle <=> Under("docTitle")
  /\ in_navpoint <=> nav_point # NoPoint
PointOK ==
  \/ nav_point = NoPoint /\ \A k : OpenPoint(k) => HasPoint(k)
  \/ \E p : /\ LastPoint(p) /\ nav_point = Collecting(p)
            /\ \A k : OpenPoint(k) => k = p \/ HasPoint(k)
FoundOK ==
  /\ IsSeq(doc)
  /\ nav_points = InOrder(Leaves, Each(Points)) /\ doc_title = InOrder(Titles, TextsIn(doc))
TocContents ==
  /\ result = "reading" => Family /\ TextRead /\ TocFlags /\ PointOK
  /\ result \in {"reading", "ok"} => FoundOK

LEMMA CollectingIs ==
  ASSUME DocInv("ncx"), NEW p, Contains(open, p) PROVE p \in 1 .. Len(doc) /\ Collecting(p) # NoPoint
<1>1. p \in 1 .. Len(doc)
  BY OpenKin
<1>2. Collecting(p).id = p /\ NoPoint.id = 0 /\ p # 0
  BY <1>1 DEF Collecting, NoPoint
<1> QED
  BY <1>1, <1>2

(* The navPoints that are open after an event. *)
LEMMA OpenPoints ==
  ASSUME DocInv("ncx"), Grows("ncx")
  PROVE  /\ \A k : HasPoint(k) => HasPoint(k)'
         /\ \A k \in 1 .. Len(doc) : OpenPoint(k) <=> OpenPoint(k)'
         /\ \A k : OpenPoint(k)' => k \in 1 .. Len(doc')
<1>1. /\ DOMAIN doc = 1 .. Len(doc) /\ DOMAIN doc' = 1 .. Len(doc')
      /\ \A k \in 1 .. Len(doc) : /\ k \in 1 .. Len(doc')
                                  /\ doc'[k].name = doc[k].name /\ doc'[k].parent = doc[k].parent
                                  /\ Whole(k)' <=> Whole(k)
  BY Growing
<1>2. \A k \in 1 .. Len(doc) : Contains(open', k) <=> Contains(open, k)
  BY <1>1 DEF Whole
<1>3. DocInv("ncx")'
  <2>1. \A n \in Names : \A a : Opens("ncx", n, a) => DocInv("ncx")'
    BY Opening
  <2>2. \A w : Says(w) => DocInv("ncx")'
    BY Saying
  <2> QED
    BY <2>1, <2>2 DEF Grows
<1>4. \A k : OpenPoint(k)' => k \in 1 .. Len(doc')
  BY <1>3 DEF OpenPoint, DocInv, Ordered, Contains
<1>5. \A k : HasPoint(k) => HasPoint(k)'
  BY <1>1 DEF HasPoint
<1>6. \A k \in 1 .. Len(doc) : OpenPoint(k) <=> OpenPoint(k)'
  BY <1>1, <1>2 DEF OpenPoint
<1> QED
  BY <1>4, <1>5, <1>6

LEMMA PointStays ==
  ASSUME DocInv("ncx"), Family, TextRead, PointOK, IsSeq(doc'), nav_point' = nav_point,
         (\E n \in Names : n # "navPoint" /\ \E a : Opens("ncx", n, a)) \/ (\E w : Says(w))
  PROVE  PointOK'
<1>1. Grows("ncx")
  BY DEF Grows
<1>2. /\ \A k \in 1 .. Len(doc) : doc'[k].name = doc[k].name
      /\ \A k \in 1 .. Len(doc') : k \in 1 .. Len(doc) \/ k = Len(doc) + 1
  BY <1>1, Growing
<1>3. \A k \in 1 .. Len(doc') : doc'[k].name = "navPoint" => k \in 1 .. Len(doc) /\ doc[k].name = "navPoint"
  <2>1. ASSUME NEW n \in Names, n # "navPoint", NEW a, Opens("ncx", n, a)
        PROVE  \A k \in 1 .. Len(doc') : doc'[k].name = "navPoint" => k \in 1 .. Len(doc)
    <3>1. doc'[Len(doc) + 1].name = n
      BY <2>1, Opening
    <3> QED
      BY <1>2, <2>1, <3>1
  <2>2. ASSUME NEW w, Says(w)
        PROVE  \A k \in 1 .. Len(doc') : doc'[k].name = "navPoint" => k \in 1 .. Len(doc)
    BY <2>2, Saying
  <2> QED
    BY <1>2, <2>1, <2>2
<1>4. /\ \A k : HasPoint(k) => HasPoint(k)'
      /\ \A k \in 1 .. Len(doc) : OpenPoint(k) <=> OpenPoint(k)'
      /\ \A k : OpenPoint(k)' => k \in 1 .. Len(doc')
  BY <1>1, OpenPoints
<1>5. \A k : OpenPoint(k)' => OpenPoint(k)
  BY <1>3, <1>4 DEF OpenPoint
<1>6. CASE nav_point = NoPoint /\ \A k : OpenPoint(k) => HasPoint(k)
  BY <1>4, <1>5, <1>6 DEF PointOK
<1>7. ASSUME NEW p, LastPoint(p), nav_point = Collecting(p), \A k : OpenPoint(k) => k = p \/ HasPoint(k)
      PROVE  PointOK'
  <2>1. p \in 1 .. Len(doc) /\ OpenPoint(p)
    BY <1>7, OpenKin DEF LastPoint, OpenPoint
  <2>2. LastPoint(p)'
    BY <1>3, <1>4, <1>7, <2>1 DEF LastPoint, OpenPoint
  <2>3. Collecting(p)' = Collecting(p)
    BY <1>1, CollectingStays
  <2>4. nav_point' = Collecting(p)'
    BY <1>7, <2>3
  <2>5. \A k : OpenPoint(k)' => k = p \/ HasPoint(k)'
    BY <1>4, <1>5, <1>7
  <2> QED
    BY <2>2, <2>4, <2>5 DEF PointOK
<1> QED
  BY <1>6, <1>7 DEF PointOK

LEMMA PointStarts ==
  ASSUME DocInv("ncx"), PointOK, NEW a, "navPoint" \in Names, Opens("ncx", "navPoint", a), Family',
         nav_point' = NewPoint(Len(doc'))
  PROVE  PointOK'
<1>1. /\ DocInv("ncx")' /\ Len(doc') = Len(doc) + 1 /\ Len(open') = Len(open) + 1
      /\ open'[Len(open) + 1] = Len(doc) + 1
      /\ doc'[Len(doc) + 1].name = "navPoint"
      /\ Len(doc) \in Nat /\ Len(open) \in Nat
      /\ Len(open) > 0
      /\ "navPoint" \in Children[doc[open[Len(open)]].name]
      /\ doc'[Len(doc) + 1].parent = open[Len(open)]
  BY Opening
<1>2. PICK q \in Nat : q = Len(doc) + 1
  BY <1>1
<1>3. PICK e : e = doc'
  OBVIOUS
<1>4. /\ IsSeq(e) /\ Len(e) = q /\ DOMAIN e = 1 .. q /\ e[1].name = "ncx"
      /\ e[q].name = "navPoint" /\ e[q].parent = open[Len(open)]
      /\ \A k \in 1 .. q : e[k].parent \in 0 .. k - 1
      /\ \A k \in 2 .. q : e[k].parent \in 1 .. k - 1
  <2>1. IsSeq(e) /\ (Len(e) > 0 => e[1].name = "ncx") /\ \A k \in 1 .. Len(e) : e[k].parent \in 0 .. k - 1
    BY <1>1, <1>3 DEF DocInv, DocShape, Rooted
  <2>2. \A k \in 2 .. Len(e) : e[k].parent \in 1 .. k - 1
    BY <1>3 DEF Family
  <2>3. Len(e) = q /\ DOMAIN e = 1 .. Len(e)
    BY <1>1, <1>2, <1>3, <2>1 DEF IsSeq
  <2>4. e[q].name = "navPoint" /\ e[q].parent = open[Len(open)]
    BY <1>1, <1>2, <1>3
  <2> QED
    BY <1>2, <1>1, <2>1, <2>2, <2>3, <2>4
<1>5. LastPoint(q)'
  <2>1. Contains(open', q)
    <3>1. Len(open) + 1 \in 1 .. Len(open') /\ open'[Len(open) + 1] = q
      BY <1>1, <1>2
    <3> QED
      BY <3>1 DEF Contains
  <2>2. \A c \in 1 .. Len(doc') : c <= q
    BY <1>3, <1>4
  <2> QED
    BY <1>3, <1>4, <2>1, <2>2 DEF LastPoint
<1>6. nav_point' = Collecting(q)'
  <2>1. \A k \in 1 .. q : e[k].name \in {"text", "content"} =>
          e[k].parent # q /\ e[e[k].parent].parent # q
    <3>1. SUFFICES ASSUME NEW k \in 1 .. q, e[k].name \in {"text", "content"}
                   PROVE  e[k].parent # q /\ e[e[k].parent].parent # q
      OBVIOUS
    <3>2. k \in 2 .. q
      BY <1>2, <1>4, <3>1
    <3>3. PICK m : m = e[k].parent
      OBVIOUS
    <3>4. m \in 1 .. k - 1 /\ k \in 2 .. q
      BY <1>4, <3>2, <3>3
    <3>5. m \in 1 .. q /\ m < q
      BY <1>2, <3>4
    <3>6. e[m].parent \in 0 .. m - 1
      BY <1>4, <3>5
    <3>7. e[m].parent # q
      BY <1>2, <3>5, <3>6
    <3> QED
      BY <1>2, <3>3, <3>5, <3>7
  <2>2. WholeLabels(q)' = {} /\ WholeContents(q)' = {}
    BY <1>3, <1>4, <2>1 DEF WholeLabels, WholeContents, Labels, Contents, Named, Parent
  <2>3. IsSeq(TextsIn(e)) /\ IsSeq(Each(Ids(e)))
    <3>1. PICK f : f = Ids(e)
      OBVIOUS
    <3>2. IsSeq(f)
      BY <1>4, <3>1, ColumnFacts
    <3>3. IsSeq(Each(f))
      BY <3>2, EachFacts
    <3>4. IsSeq(TextsIn(e))
      BY <1>4 DEF TextsIn, IsSeq
    <3> QED
      BY <3>1, <3>3, <3>4
  <2>4. InOrder({}, TextsIn(e)) = <<>> /\ InOrder({}, Each(Ids(e))) = <<>>
    BY <2>3, InOrderOfNone
  <2>5. Collecting(q)' = [id |-> q, label |-> <<>>, content |-> <<>>]
    BY <1>3, <2>2, <2>4 DEF Collecting
  <2>6. nav_point' = NewPoint(q)
    BY <1>3, <1>4
  <2> QED
    BY <2>5, <2>6 DEF NewPoint, NoPoint
<1>7. Grows("ncx")
  BY DEF Grows
<1>8. /\ \A k : HasPoint(k) => HasPoint(k)'
      /\ \A k \in 1 .. Len(doc) : OpenPoint(k) <=> OpenPoint(k)'
      /\ \A k : OpenPoint(k)' => k \in 1 .. Len(doc')
  BY <1>7, OpenPoints
<1>9. ASSUME NEW p, LastPoint(p) PROVE HasPoint(p)'
  <2>1. doc[open[Len(open)]].name \in {"navMap", "navPoint"}
    <3>1. Len(open) \in 1 .. Len(open)
      BY <1>1
    <3>2. doc[open[Len(open)]].name \in Names
      BY <3>1 DEF DocInv, Ordered, DocShape
    <3> QED
      BY <1>1, <3>2, TocFormat
  <2>2. open[Len(open)] = p
    <3>1. PICK i \in 1 .. Len(open) :
            /\ open[i] = p
            /\ \/ Len(open) = i
               \/ Len(open) = i + 1 /\ doc[open[i + 1]].name \in {"navLabel", "content"}
               \/ /\ Len(open) = i + 2 /\ i + 1 \in 1 .. Len(open)
                  /\ doc[open[i + 1]].name = "navLabel" /\ doc[open[i + 2]].name = "text"
      BY <1>9, InsidePoint
    <3> QED
      BY <2>1, <3>1
  <2>3. q \in 1 .. Len(doc')
    BY <1>1, <1>2
  <2> QED
    BY <1>1, <1>2, <2>2, <2>3 DEF HasPoint
<1>10. \A k : OpenPoint(k)' => k = q \/ HasPoint(k)'
  <2>1. SUFFICES ASSUME NEW k, OpenPoint(k)', k # q PROVE HasPoint(k)'
    OBVIOUS
  <2>2. OpenPoint(k)
    BY <1>1, <1>2, <1>8, <2>1
  <2>3. HasPoint(k) \/ LastPoint(k)
    BY <2>2 DEF PointOK
  <2> QED
    BY <1>8, <1>9, <2>3
<1> QED
  BY <1>5, <1>6, <1>10 DEF PointOK

(* An end tag that is not that of a navPoint: a label's text or a content  *)
(* has become whole, or nothing of a point has.                            *)
LEMMA PointEnds ==
  ASSUME DocInv("ncx"), Family, TextRead, PointOK, NEW n, n # "navPoint", Closes(n),
         NEW x, x = open[Len(open)],
         nav_point' = IF nav_point = NoPoint THEN nav_point
                      ELSE IF n = "text" THEN [nav_point EXCEPT !.label = @ \o chars]
                      ELSE IF n = "content" THEN [nav_point EXCEPT !.content = Append(@, x)]
                      ELSE nav_point
  PROVE  PointOK'
<1>1. /\ Len(open) \in Nat /\ Len(open) > 0 /\ doc[x].name = n
      /\ doc' = doc /\ x \in 1 .. Len(doc) /\ DOMAIN doc = 1 .. Len(doc)
      /\ \A k : Contains(open', k) <=> Contains(open, k) /\ k # x
  BY Closing, SetsClose DEF DocInv, DocShape, IsSeq
<1>2. (\A k : HasPoint(k)' <=> HasPoint(k)) /\ (\A k : OpenPoint(k)' => OpenPoint(k))
  BY <1>1 DEF HasPoint, OpenPoint
<1>3. CASE nav_point = NoPoint /\ \A k : OpenPoint(k) => HasPoint(k)
  BY <1>2, <1>3 DEF PointOK
<1>4. ASSUME NEW p, LastPoint(p), nav_point = Collecting(p), \A k : OpenPoint(k) => k = p \/ HasPoint(k)
      PROVE  PointOK'
  <2>1. LastPoint(p)'
    BY <1>1, <1>4 DEF LastPoint
  <2>2. nav_point # NoPoint
    BY <1>4, CollectingIs DEF LastPoint
  <2>3. n = "text" => x \in Labels(p) /\ chars = doc[x].text
    <3>1. SUFFICES ASSUME n = "text" PROVE x \in Labels(p) /\ chars = doc[x].text
      OBVIOUS
    <3>2. PICK i \in 1 .. Len(open) :
            /\ open[i] = p
            /\ \/ Len(open) = i
               \/ Len(open) = i + 1 /\ doc[open[i + 1]].name \in {"navLabel", "content"}
               \/ /\ Len(open) = i + 2 /\ i + 1 \in 1 .. Len(open)
                  /\ doc[open[i + 1]].name = "navLabel" /\ doc[open[i + 2]].name = "text"
      BY <1>4, InsidePoint
    <3>3. doc[p].name = "navPoint" /\ doc[open[Len(open)]].name = "text"
      BY <1>1, <1>4, <3>1 DEF LastPoint
    <3>4. Len(open) = i + 2 /\ i + 1 \in 1 .. Len(open) /\ i + 2 \in 1 .. Len(open)
      BY <1>1, <3>2, <3>3
    <3>5. doc[open[i + 1]].parent = open[i] /\ doc[open[i + 2]].parent = open[i + 1]
      <4>1. \A j \in 1 .. Len(open), m \in 1 .. Len(open) : m = j + 1 => doc[open[m]].parent = open[j]
        BY DEF DocInv, Linked
      <4>2. i + 2 = (i + 1) + 1
        OBVIOUS
      <4> QED
        BY <3>2, <3>4, <4>1, <4>2
    <3>6. x \in Labels(p)
      BY <1>1, <3>1, <3>2, <3>4, <3>5 DEF Labels, Named, Parent
    <3>7. x = Len(doc)
      BY <1>1, <3>1, TocFormat DEF DocInv, LeafIsLast
    <3> QED
      BY <1>1, <3>6, <3>7 DEF TextRead
  <2>4. n = "content" => x \in Contents(p)
    <3>1. SUFFICES ASSUME n = "content" PROVE x \in Contents(p)
      OBVIOUS
    <3>2. PICK i \in 1 .. Len(open) :
            /\ open[i] = p
            /\ \/ Len(open) = i
               \/ Len(open) = i + 1 /\ doc[open[i + 1]].name \in {"navLabel", "content"}
               \/ /\ Len(open) = i + 2 /\ i + 1 \in 1 .. Len(open)
                  /\ doc[open[i + 1]].name = "navLabel" /\ doc[open[i + 2]].name = "text"
      BY <1>4, InsidePoint
    <3>3. doc[p].name = "navPoint" /\ doc[open[Len(open)]].name = "content"
      BY <1>1, <1>4, <3>1 DEF LastPoint
    <3>4. Len(open) = i + 1 /\ i + 1 \in 1 .. Len(open)
      BY <1>1, <3>2, <3>3
    <3>5. doc[open[i + 1]].parent = open[i]
      BY <3>4 DEF DocInv, Linked
    <3> QED
      BY <1>1, <3>1, <3>2, <3>4, <3>5 DEF Contents, Named, Parent
  <2>5. /\ x \in Labels(p) => n = "text"
        /\ x \in Contents(p) => n = "content"
    BY <1>1 DEF Labels, Contents, Named
  <2>6. PICK c : c = Collecting(p)
    OBVIOUS
  <2>7. Collecting(p)' =
          [id |-> p, label |-> IF x \in Labels(p) THEN c.label \o doc[x].text ELSE c.label,
           content |-> IF x \in Contents(p) THEN Append(c.content, x) ELSE c.content]
    BY <2>6, CollectingEnds
  <2>8. PICK l, s : c = [id |-> p, label |-> l, content |-> s]
    BY <2>6 DEF Collecting
  <2>9. nav_point' = Collecting(p)'
    <3>1. CASE n = "text"
      <4>1. PICK v : v = c.label \o chars
        OBVIOUS
      <4>2. nav_point' = [c EXCEPT !.label = v]
        BY <1>4, <2>2, <2>6, <3>1, <4>1
      <4>3. Collecting(p)' = [id |-> p, label |-> v, content |-> c.content]
        BY <2>3, <2>5, <2>7, <3>1, <4>1
      <4>4. [c EXCEPT !.label = v] = [id |-> p, label |-> v, content |-> c.content]
        BY <2>8
      <4> QED
        BY <4>2, <4>3, <4>4
    <3>2. CASE n = "content"
      <4>1. PICK v : v = Append(c.content, x)
        OBVIOUS
      <4>2. nav_point' = [c EXCEPT !.content = v]
        BY <1>4, <2>2, <2>6, <3>2, <4>1
      <4>3. Collecting(p)' = [id |-> p, label |-> c.label, content |-> v]
        BY <2>4, <2>5, <2>7, <3>2, <4>1
      <4>4. [c EXCEPT !.content = v] = [id |-> p, label |-> c.label, content |-> v]
        BY <2>8
      <4> QED
        BY <4>2, <4>3, <4>4
    <3>3. CASE n \notin {"text", "content"}
      BY <1>4, <2>5, <2>6, <2>7, <2>8, <3>3
    <3> QED
      BY <3>1, <3>2, <3>3
  <2>10. \A k : OpenPoint(k)' => k = p \/ HasPoint(k)'
    BY <1>2, <1>4
  <2> QED
    BY <2>1, <2>9, <2>10 DEF PointOK
<1> QED
  BY <1>3, <1>4 DEF PointOK

(* What a leaf is followed by is in it. *)
LEMMA LeafEnds ==
  ASSUME DocInv("ncx"), PointOK, NEW x, x = open[Len(open)], Len(open) > 0, Leaf(x)
  PROVE  LastPoint(x) /\ nav_point = Collecting(x)
<1>1. Contains(open, x) /\ doc[x].name = "navPoint" /\ DOMAIN doc = 1 .. Len(doc) /\ ~HasPoint(x)
  <2>1. Len(open) \in 1 .. Len(open) /\ DOMAIN doc = 1 .. Len(doc)
    BY DEF DocInv, DocShape, IsSeq
  <2> QED
    BY <2>1 DEF Leaf, Named, Parent, HasPoint, Contains
<1> QED
  BY <1>1 DEF PointOK, OpenPoint

(* The end of a navPoint. *)
LEMMA PointDone ==
  ASSUME DocInv("ncx"), Family, PointOK, Closes("navPoint"), NEW x, x = open[Len(open)],
         nav_point' = NoPoint
  PROVE  /\ PointOK'
         /\ Collected = IF Leaf(x) THEN Append(nav_points, Point(x)) ELSE nav_points
<1>1. /\ Len(open) \in Nat /\ Len(open) > 0 /\ doc[x].name = "navPoint"
      /\ doc' = doc /\ x \in 1 .. Len(doc) /\ DOMAIN doc = 1 .. Len(doc) /\ IsSeq(doc)
      /\ \A k : Contains(open', k) <=> Contains(open, k) /\ k # x
  BY Closing, SetsClose DEF DocInv, DocShape, IsSeq
<1>2. (\A k : HasPoint(k)' <=> HasPoint(k)) /\ (\A k : OpenPoint(k)' => OpenPoint(k) /\ k # x)
  BY <1>1 DEF HasPoint, OpenPoint
<1>3. OpenPoint(x)
  <2>1. Len(open) \in 1 .. Len(open)
    BY <1>1
  <2> QED
    BY <1>1, <2>1 DEF OpenPoint, Contains
<1>4. Leaf(x) <=> ~HasPoint(x)
  BY <1>1 DEF Leaf, Named, Parent, HasPoint
<1>5. CASE nav_point = NoPoint /\ \A k : OpenPoint(k) => HasPoint(k)
  BY <1>2, <1>3, <1>4, <1>5 DEF PointOK, Collected
<1>6. ASSUME NEW p, LastPoint(p), nav_point = Collecting(p), \A k : OpenPoint(k) => k = p \/ HasPoint(k)
      PROVE  /\ PointOK'
             /\ Collected = IF Leaf(x) THEN Append(nav_points, Point(x)) ELSE nav_points
  <2>1. p = x
    <3>1. PICK i \in 1 .. Len(open) :
            /\ open[i] = p
            /\ \/ Len(open) = i
               \/ Len(open) = i + 1 /\ doc[open[i + 1]].name \in {"navLabel", "content"}
               \/ /\ Len(open) = i + 2 /\ i + 1 \in 1 .. Len(open)
                  /\ doc[open[i + 1]].name = "navLabel" /\ doc[open[i + 2]].name = "text"
      BY <1>6, InsidePoint
    <3> QED
      BY <1>1, <3>1
  <2>2. Leaf(x)
    <3>1. SUFFICES ASSUME NEW c \in 1 .. Len(doc), doc[c].name = "navPoint", doc[c].parent = x PROVE FALSE
      BY <1>4 DEF HasPoint
    <3>2. c <= x
      BY <1>6, <2>1, <3>1 DEF LastPoint
    <3>3. x \in 0 .. c - 1
      BY <3>1 DEF DocInv, DocShape
    <3> QED
      BY <1>1, <3>2, <3>3
  <2>3. ASSUME NEW k, k \in Labels(x) \/ k \in Contents(x) PROVE Whole(k)
    <3>1. k \in 1 .. Len(doc) /\ doc[k].name # "ncx"
      BY <1>1, <2>3 DEF Labels, Contents, Named
    <3>2. /\ k \in 2 .. Len(doc) /\ doc[k].parent \in 1 .. k - 1 /\ doc[k].parent \in 1 .. Len(doc)
          /\ doc[doc[k].parent].parent \in 0 .. k - 2
      BY <3>1, TextKin
    <3>3. doc[k].parent = x \/ doc[doc[k].parent].parent = x
      BY <2>3 DEF Labels, Contents, Parent
    <3>4. x < k
      BY <3>1, <3>2, <3>3
    <3>5. ASSUME NEW i \in 1 .. Len(open) PROVE open[i] # k
      <4>1. open[i] = x \/ open[i] < x
        BY <1>1 DEF DocInv, Ordered
      <4>2. open[i] \in 1 .. Len(doc)
        BY DEF DocInv, Ordered
      <4> QED
        BY <1>1, <3>1, <3>4, <4>1, <4>2
    <3> QED
      BY <1>1, <3>1, <3>5 DEF Whole, Contains
  <2>4. WholeLabels(x) = Labels(x) /\ WholeContents(x) = Contents(x)
    BY <2>3 DEF WholeLabels, WholeContents
  <2>5. Collecting(x) = Point(x)
    BY <1>1, <2>4, PointIs DEF Collecting
  <2>6. nav_point # NoPoint
    BY <1>6, CollectingIs DEF LastPoint
  <2>7. PointOK'
    BY <1>2, <1>6, <2>1 DEF PointOK
  <2> QED
    BY <1>6, <2>1, <2>2, <2>5, <2>6, <2>7 DEF Collected
<1> QED
  BY <1>5, <1>6 DEF PointOK

--------------------------------------------------------------------------------
(* What the end tag of x, named n, changes, whichever action handles it.   *)
EndsAs(n, x) ==
  /\ Closes(n) /\ x = open[Len(open)]
  /\ in_navmap' <=> in_navmap /\ n # "navMap"
  /\ in_doctitle' <=> in_doctitle /\ n # "docTitle"
  /\ in_navpoint' <=> in_navpoint /\ n # "navPoint"
  /\ nav_point' = IF n = "navPoint" \/ nav_point = NoPoint THEN NoPoint
                  ELSE IF n = "text" THEN [nav_point EXCEPT !.label = @ \o chars]
                  ELSE IF n = "content" THEN [nav_point EXCEPT !.content = Append(@, x)]
                  ELSE nav_point
  /\ nav_points' = IF n = "navPoint" THEN Collected ELSE nav_points
  /\ doc_title' = IF n = "text" /\ ~in_navpoint /\ in_doctitle THEN doc_title \o chars ELSE doc_title

LEMMA TocEnds ==
  ASSUME DocInv("ncx"), StackOK, TocFlags,
         EndNavPoint \/ EndText \/ EndContent \/ EndMeta \/ \E n \in Names : EndOther(n)
  PROVE  \E n, x : EndsAs(n, x)
<1>1. stack # <<>> /\ result = "reading"
  BY DEF EndNavPoint, EndText, EndContent, EndMeta, EndOther, Ending
<1>2. PICK x : x = open[Len(open)] /\ Top.num = x
  BY <1>1, TopFacts
<1>3. in_navpoint <=> nav_point # NoPoint
  BY DEF TocFlags
<1>4. CASE EndNavPoint
  <2>1. EndsAs("navPoint", x)
    BY <1>2, <1>4 DEF EndNavPoint, Ending, PointAfter, EndsAs
  <2> QED
    BY <2>1
<1>5. CASE EndText
  <2>1. EndsAs("text", x)
    BY <1>2, <1>3, <1>5 DEF EndText, Ending, EndsAs, flags
  <2> QED
    BY <2>1
<1>6. CASE EndContent
  <2>1. EndsAs("content", x)
    BY <1>2, <1>3, <1>6 DEF EndContent, TakesContent, Ending, EndsAs, flags, found
  <2> QED
    BY <2>1
<1>7. CASE EndMeta
  <2>1. EndsAs("meta", x)
    BY <1>2, <1>3, <1>7 DEF EndMeta, Ending, EndsAs, flags
  <2> QED
    BY <2>1
<1>8. ASSUME NEW n \in Names, EndOther(n) PROVE EndsAs(n, x)
  BY <1>2, <1>3, <1>8 DEF EndOther, FlagsDown, Ending, EndsAs, found
<1> QED
  BY <1>4, <1>5, <1>6, <1>7, <1>8

LEMMA FlagsAtEnd ==
  ASSUME DocInv("ncx"), TocFlags, PointOK, NEW n, NEW x, EndsAs(n, x)
  PROVE  TocFlags'
<1>1. /\ Under("navMap")' <=> Under("navMap") /\ n # "navMap"
      /\ Under("docTitle")' <=> Under("docTitle") /\ n # "docTitle"
  BY NcxRoot, UnderCloses DEF EndsAs
<1>2. (in_navmap' <=> Under("navMap")') /\ (in_doctitle' <=> Under("docTitle")')
  BY <1>1 DEF EndsAs, TocFlags
<1>3. CASE nav_point = NoPoint \/ n = "navPoint"
  <2>1. nav_point' = NoPoint /\ ~in_navpoint'
    BY <1>3 DEF EndsAs, TocFlags
  <2> QED
    BY <1>2, <2>1 DEF TocFlags
<1>4. CASE nav_point # NoPoint /\ n # "navPoint"
  <2>1. PICK p : LastPoint(p) /\ nav_point = Collecting(p)
    BY <1>4 DEF PointOK
  <2>2. p # 0
    BY <2>1, CollectingIs DEF LastPoint
  <2>3. PICK l, s : nav_point = [id |-> p, label |-> l, content |-> s]
    BY <2>1 DEF Collecting
  <2>4. \A v : [nav_point EXCEPT !.label = v].id = p /\ [nav_point EXCEPT !.content = v].id = p
    BY <2>3
  <2>5. nav_point'.id = p
    <3>1. PICK u, v : u = nav_point.label \o chars /\ v = Append(nav_point.content, x)
      OBVIOUS
    <3>2. nav_point' \in {nav_point, [nav_point EXCEPT !.label = u], [nav_point EXCEPT !.content = v]}
      BY <1>4, <3>1 DEF EndsAs
    <3> QED
      BY <2>3, <2>4, <3>2
  <2>6. nav_point' # NoPoint
    BY <2>2, <2>5 DEF NoPoint
  <2>7. in_navpoint'
    BY <1>4 DEF EndsAs, TocFlags
  <2> QED
    BY <1>2, <2>6, <2>7 DEF TocFlags
<1> QED
  BY <1>3, <1>4

LEMMA PointAtEnd ==
  ASSUME DocInv("ncx"), Family, TextRead, PointOK, NEW n, NEW x, EndsAs(n, x)
  PROVE  PointOK'
<1>1. Closes(n) /\ x = open[Len(open)]
  BY DEF EndsAs
<1>2. CASE n = "navPoint"
  BY <1>1, <1>2, PointDone DEF EndsAs
<1>3. CASE n # "navPoint"
  <2>1. nav_point' = IF nav_point = NoPoint THEN nav_point
                     ELSE IF n = "text" THEN [nav_point EXCEPT !.label = @ \o chars]
                     ELSE IF n = "content" THEN [nav_point EXCEPT !.content = Append(@, x)]
                     ELSE nav_point
    BY <1>3 DEF EndsAs
  <2> QED
    BY <1>1, <1>3, <2>1, PointEnds
<1> QED
  BY <1>2, <1>3

(* Which text is the title's. *)
LEMMA TitleText ==
  ASSUME DocInv("ncx"), TextRead, TocFlags, PointOK, Closes("text"), NEW x, x = open[Len(open)]
  PROVE  /\ chars = doc[x].text
         /\ ~in_navpoint /\ in_doctitle <=> In(x, "docTitle")
<1>1. /\ Len(open) \in Nat /\ Len(open) > 0 /\ doc[x].name = "text"
      /\ x \in 1 .. Len(doc) /\ DOMAIN doc = 1 .. Len(doc)
  BY Closing, SetsClose DEF DocInv, DocShape, IsSeq
<1>2. x = Len(doc)
  BY <1>1, TocFormat DEF DocInv, LeafIsLast
<1>3. chars = doc[x].text
  BY <1>1, <1>2 DEF TextRead
<1>4. PICK m \in Nat : m = Len(open)
  BY <1>1
<1>5. /\ \A i \in 1 .. m : open[i] \in 1 .. Len(doc)
      /\ \A i \in 1 .. m, j \in 1 .. m : j = i + 1 =>
           doc[open[j]].parent = open[i] /\ doc[open[j]].name \in Children[doc[open[i]].name]
      /\ doc[open[1]].name = "ncx" /\ open[m] = x
  BY <1>1, <1>4 DEF DocInv, Ordered, Linked, Rooted
<1>6. m > 1
  BY <1>1, <1>4, <1>5
<1>7. PICK l \in 1 .. m : l = m - 1
  BY <1>6
<1>8. doc[x].parent = open[l] /\ open[l] \in 1 .. Len(doc)
  BY <1>5, <1>7
<1>9. In(x, "docTitle") <=> doc[open[l]].name = "docTitle"
  BY <1>1, <1>8 DEF In, Named, Parent
<1>10. ASSUME doc[open[l]].name = "docTitle" PROVE Under("docTitle") /\ ~in_navpoint
  <2>1. l = 2
    BY <1>4, <1>7, <1>10, NcxRoot, SecondOnly
  <2>2. Under("docTitle")
    BY <1>4, <1>6, <1>10, <2>1 DEF Under
  <2>3. ~in_navpoint
    <3>1. SUFFICES ASSUME NEW p, LastPoint(p) PROVE FALSE
      BY DEF TocFlags, PointOK
    <3>2. PICK i \in 1 .. Len(open) : doc[open[i]].name = "navPoint"
      BY <3>1 DEF LastPoint, Contains
    <3>3. Under("navMap")
      BY <3>2, PointsInMap
    <3> QED
      BY <2>2, <3>3 DEF Under
  <2> QED
    BY <2>2, <2>3
<1>11. ASSUME Under("docTitle") PROVE doc[open[l]].name = "docTitle"
  <2>1. doc[open[2]].name = "docTitle" /\ 2 \in 1 .. m /\ m # 2
    BY <1>1, <1>4, <1>5, <1>6, <1>11 DEF Under
  <2>2. m >= 3 /\ 3 \in 1 .. m
    BY <2>1
  <2>3. doc[open[3]].name = "text"
    <3>1. doc[open[3]].name \in Children["docTitle"]
      BY <1>5, <2>1, <2>2
    <3> QED
      BY <3>1, TocFormat
  <2>4. m = 3
    <3>1. SUFFICES ASSUME 4 \in 1 .. m PROVE FALSE
      BY <2>2
    <3>2. doc[open[4]].name \in Children["text"]
      BY <1>5, <2>2, <2>3, <3>1
    <3> QED
      BY <3>2, TocFormat
  <2> QED
    BY <1>7, <2>1, <2>4
<1> QED
  BY <1>3, <1>9, <1>10, <1>11 DEF TocFlags

LEMMA FoundAtEnd ==
  ASSUME DocInv("ncx"), Family, TextRead, TocFlags, PointOK, FoundOK, NEW n, NEW x, EndsAs(n, x)
  PROVE  FoundOK'
<1>1. /\ Closes(n) /\ x = open[Len(open)]
      /\ nav_points' = IF n = "navPoint" THEN Collected ELSE nav_points
      /\ doc_title' = IF n = "text" /\ ~in_navpoint /\ in_doctitle THEN doc_title \o chars ELSE doc_title
      /\ n = "navPoint" => nav_point' = NoPoint
  BY DEF EndsAs
<1>2. doc' = doc /\ Len(open) > 0 /\ x \in DOMAIN doc /\ doc[x].name = n
  BY <1>1, Closing, SetsClose DEF DocInv, DocShape, IsSeq
<1>3. Leaf(x) => \A c \in 1 .. Len(doc) : doc[c].name = "navPoint" => c <= x
  BY <1>1, <1>2, LeafEnds DEF LastPoint
<1>4. /\ InOrder(Titles, TextsIn(doc))' =
           IF Named(x, "text") /\ In(x, "docTitle")
           THEN InOrder(Titles, TextsIn(doc)) \o doc[x].text ELSE InOrder(Titles, TextsIn(doc))
      /\ InOrder(Leaves, Each(Points))' =
           IF Leaf(x) THEN Append(InOrder(Leaves, Each(Points)), Point(x))
           ELSE InOrder(Leaves, Each(Points))
  BY <1>1, <1>3, FoundEnds
<1>5. doc_title' = InOrder(Titles, TextsIn(doc))'
  <2>1. Named(x, "text") <=> n = "text"
    BY <1>2 DEF Named
  <2>2. n = "text" => chars = doc[x].text /\ (~in_navpoint /\ in_doctitle <=> In(x, "docTitle"))
    BY <1>1, TitleText
  <2>3. doc_title = InOrder(Titles, TextsIn(doc))
    BY DEF FoundOK
  <2> QED
    BY <1>1, <1>4, <2>1, <2>2, <2>3
<1>6. nav_points' = InOrder(Leaves, Each(Points))'
  <2>1. n = "navPoint" => Collected = IF Leaf(x) THEN Append(nav_points, Point(x)) ELSE nav_points
    BY <1>1, PointDone
  <2>2. Leaf(x) => n = "navPoint"
    BY <1>2 DEF Leaf, Named
  <2>3. nav_points = InOrder(Leaves, Each(Points))
    BY DEF FoundOK
  <2> QED
    BY <1>1, <1>4, <2>1, <2>2, <2>3
<1> QED
  BY <1>2, <1>5, <1>6 DEF FoundOK

--------------------------------------------------------------------------------
LEMMA FlagsAtStart ==
  ASSUME DocInv("ncx"), TocFlags, NEW n \in Names, NEW a, ElementStart(n, a)
  PROVE  TocFlags'
<1>1. Opens("ncx", n, a)
  BY DEF ElementStart, Starting
<1>2. (Under("navMap")' <=> Under("navMap") \/ n = "navMap")
      /\ (Under("docTitle")' <=> Under("docTitle") \/ n = "docTitle")
  BY <1>1, NcxRoot, UnderOpens
<1>3. Len(doc') # 0
  BY <1>1, Opening
<1>4. NewPoint(Len(doc')) # NoPoint
  <2>1. NewPoint(Len(doc')).id = Len(doc') /\ NoPoint.id = 0
    BY DEF NewPoint, NoPoint
  <2> QED
    BY <1>3, <2>1
<1>5. (in_navmap' <=> in_navmap \/ n = "navMap") /\ (in_doctitle' <=> in_doctitle \/ n = "docTitle")
  BY DEF ElementStart
<1>6. in_navpoint' <=> nav_point' # NoPoint
  BY <1>4 DEF ElementStart, TocFlags
<1> QED
  BY <1>2, <1>5, <1>6 DEF TocFlags

LEMMA PointAtStart ==
  ASSUME DocInv("ncx"), Family, TextRead, TocFlags, PointOK, NEW n \in Names, NEW a, ElementStart(n, a)
  PROVE  PointOK'
<1>1. Opens("ncx", n, a) /\ Push(n)
  BY DEF ElementStart, Starting
<1>2. Feeds("ncx")
  BY <1>1 DEF Feeds
<1>3. Family' /\ IsSeq(doc')
  BY <1>2, FeedsKeep, WholeStays
<1>4. CASE n # "navPoint"
  <2>1. nav_point' = nav_point
    BY <1>4 DEF ElementStart, Begins
  <2> QED
    BY <1>1, <1>3, <1>4, <2>1, PointStays
<1>5. CASE n = "navPoint"
  <2>1. in_navmap
    <3>1. /\ Len(open) \in Nat /\ IF Len(open) = 0 THEN n = "ncx"
                                  ELSE n \in Children[doc[open[Len(open)]].name]
      BY <1>1, Opening
    <3>2. Len(open) \in 1 .. Len(open)
      BY <1>5, <3>1
    <3>3. doc[open[Len(open)]].name \in Names
      BY <3>2 DEF DocInv, Ordered, DocShape
    <3>4. doc[open[Len(open)]].name \in {"navMap", "navPoint"}
      BY <1>5, <3>1, <3>2, <3>3, TocFormat
    <3>5. Under("navMap")
      <4>1. CASE doc[open[Len(open)]].name = "navPoint"
        BY <3>2, <4>1, PointsInMap
      <4>2. CASE doc[open[Len(open)]].name = "navMap"
        BY <3>1, <3>2, <4>2, NcxRoot, SecondOnly DEF Under
      <4> QED
        BY <3>4, <4>1, <4>2
    <3> QED
      BY <3>5 DEF TocFlags
  <2>2. nav_point' = NewPoint(Len(doc'))
    BY <1>5, <2>1 DEF ElementStart, Begins
  <2>3. "navPoint" \in Names /\ Opens("ncx", "navPoint", a)
    BY <1>1, <1>5
  <2> QED
    BY <1>3, <2>2, <2>3, PointStarts
<1> QED
  BY <1>4, <1>5

LEMMA TocSays ==
  ASSUME DocInv("ncx"), Family, TextRead, TocFlags, PointOK, NEW w, TocCharacters(w)
  PROVE  TocFlags' /\ PointOK'
<1>1. /\ Says(w) /\ nav_point' = nav_point
      /\ in_navmap' = in_navmap /\ in_doctitle' = in_doctitle /\ in_navpoint' = in_navpoint
  BY DEF TocCharacters, Characters, tocVars, flags
<1>2. Feeds("ncx")
  BY DEF TocCharacters, Feeds
<1>3. IsSeq(doc')
  BY <1>2, WholeStays
<1>4. PointOK'
  BY <1>1, <1>3, PointStays
<1>5. open' = open /\ \A k \in 1 .. Len(doc) : doc'[k].name = doc[k].name
  BY <1>1, Saying
<1>6. \A s : Under(s)' <=> Under(s)
  <2>1. Len(open) \in Nat /\ \A i \in 1 .. Len(open) : open[i] \in 1 .. Len(doc)
    BY DEF DocInv, DocShape, IsSeq, Ordered
  <2> QED
    BY <1>5, <2>1 DEF Under
<1> QED
  BY <1>1, <1>4, <1>6 DEF TocFlags

LEMMA FoundFed ==
  ASSUME DocInv("ncx"), Family, TextRead, FoundOK,
         (\E n \in Names : \E a : ElementStart(n, a)) \/ (\E w : TocCharacters(w))
  PROVE  FoundOK'
<1>1. /\ Feeds("ncx") /\ Grows("ncx") /\ nav_points' = nav_points /\ doc_title' = doc_title
  BY DEF ElementStart, Starting, TocCharacters, Characters, tocVars, found, Feeds, Grows
<1>2. IsSeq(doc')
  BY <1>1, WholeStays
<1>3. /\ InOrder(Titles, TextsIn(doc))' = InOrder(Titles, TextsIn(doc))
      /\ InOrder(Leaves, Each(Points))' = InOrder(Leaves, Each(Points))
  BY <1>1, <1>2, FoundStays
<1> QED
  BY <1>1, <1>2, <1>3 DEF FoundOK

LEMMA TocGoesOn ==
  ASSUME TocNext, result' = "reading"
  PROVE  /\ result = "reading" /\ Feeds("ncx")
         /\ \/ \E n \in Names : \E a : ElementStart(n, a)
            \/ \E w : TocCharacters(w)
            \/ EndNavPoint \/ EndText \/ EndContent \/ EndMeta \/ \E n \in Names : EndOther(n)
BY DEF TocNext, ElementStart, Starting, TocCharacters, Characters, EndNavPoint, EndText, EndContent, EndMeta,
   EndOther, Ending, EndingWrongly, EndBad, BadNavPoint, TocStop, Stopping, Feeds

LEMMA TocContentsKept ==
  ASSUME ReaderInv("ncx"), TocContents, [TocNext]_<<readerVars, tocVars>>
  PROVE  TocContents'
<1>1. ASSUME UNCHANGED <<doc, open, tocVars>>, result \in {"reading", "ok"} \/ result' = result,
             result' # "reading" \/ UNCHANGED <<chars, result>>
      PROVE  TocContents'
  <2>1. result' \in {"reading", "ok"} => result \in {"reading", "ok"}
    BY <1>1
  <2>2. Leaves' = Leaves /\ Titles' = Titles /\ Points' = Points
    BY <1>1 DEF Leaves, Titles, Points, Leaf, Point, Label, Src, TextOf, Elements, Named, In, Parent, Whole
  <2>3. result' \in {"reading", "ok"} => FoundOK'
    <3>1. SUFFICES ASSUME FoundOK PROVE FoundOK'
      BY <2>1 DEF TocContents
    <3>2. nav_points' = nav_points /\ doc_title' = doc_title /\ doc' = doc
      BY <1>1 DEF tocVars, found
    <3> QED
      BY <2>2, <3>1, <3>2 DEF FoundOK
  <2>4. result' = "reading" => Family' /\ TextRead' /\ TocFlags' /\ PointOK'
    <3>1. SUFFICES ASSUME result' = "reading" PROVE Family' /\ TextRead' /\ TocFlags' /\ PointOK'
      OBVIOUS
    <3>2. result = "reading" /\ chars' = chars
      BY <1>1, <3>1
    <3>3. Family' /\ TextRead'
      BY <1>1, <3>2 DEF TocContents, Family, TextRead
    <3>4. TocFlags'
      BY <1>1, <3>2 DEF TocContents, TocFlags, tocVars, flags, Under
    <3>5. \A p : Collecting(p)' = Collecting(p)
      BY <1>1 DEF Collecting, WholeLabels, WholeContents, Labels, Contents, Named, Parent, Whole
    <3>6. /\ \A p : LastPoint(p)' <=> LastPoint(p)
          /\ \A p : (HasPoint(p)' <=> HasPoint(p)) /\ (OpenPoint(p)' <=> OpenPoint(p))
      BY <1>1 DEF LastPoint, HasPoint, OpenPoint
    <3>7. PointOK'
      BY <1>1, <3>2, <3>5, <3>6 DEF TocContents, PointOK, tocVars
    <3> QED
      BY <3>3, <3>4, <3>7
  <2> QED
    BY <2>3, <2>4 DEF TocContents
<1>2. ASSUME TocNext, result' = "reading" PROVE TocContents'
  <2>1. result = "reading" /\ Feeds("ncx")
    BY <1>2, TocGoesOn
  <2>2. DocInv("ncx") /\ StackOK /\ Family /\ TextRead /\ TocFlags /\ PointOK /\ FoundOK
    BY <2>1 DEF ReaderInv, TocContents
  <2>3. Family' /\ TextRead'
    BY <2>1, <2>2, FeedsKeep
  <2>4. TocFlags' /\ PointOK' /\ FoundOK'
    <3>1. CASE \E n \in Names : \E a : ElementStart(n, a)
      BY <2>2, <3>1, FlagsAtStart, PointAtStart, FoundFed
    <3>2. CASE \E w : TocCharacters(w)
      BY <2>2, <3>2, TocSays, FoundFed
    <3>3. CASE EndNavPoint \/ EndText \/ EndContent \/ EndMeta \/ \E n \in Names : EndOther(n)
      <4>1. PICK n, x : EndsAs(n, x)
        BY <2>2, <3>3, TocEnds
      <4> QED
        BY <2>2, <4>1, FlagsAtEnd, PointAtEnd, FoundAtEnd
    <3> QED
      BY <1>2, <3>1, <3>2, <3>3, TocGoesOn
  <2> QED
    BY <1>2, <2>3, <2>4 DEF TocContents
<1>3. ASSUME TocNext, result' # "reading" PROVE TocContents'
  <2>1. CASE TocStop
    <3>1. result = "reading" /\ UNCHANGED <<doc, open, tocVars>>
      BY <2>1 DEF TocStop, Stopping, docVars
    <3> QED
      BY <1>1, <1>3, <3>1
  <2>2. CASE ~TocStop
    <3>1. result' \notin {"reading", "ok"}
      BY <1>3, <2>2 DEF TocNext, ElementStart, Starting, TocCharacters, Characters, EndNavPoint, EndText,
         EndContent, EndMeta, EndOther, EndBad, BadNavPoint, Asserted
    <3> QED
      BY <3>1 DEF TocContents
  <2> QED
    BY <2>1, <2>2
<1>4. CASE UNCHANGED <<readerVars, tocVars>>
  BY <1>1, <1>4 DEF readerVars, docVars
<1> QED
  BY <1>2, <1>3, <1>4

LEMMA TocContentsInitially == ReaderInit /\ TocInit => TocContents
<1> SUFFICES ASSUME ReaderInit, TocInit PROVE TocContents
  OBVIOUS
<1>1. doc = <<>> /\ open = <<>> /\ nav_point = NoPoint /\ nav_points = <<>> /\ doc_title = <<>>
  BY DEF ReaderInit, DocInit, TocInit
<1>2. IsSeq(doc) /\ Len(doc) = 0 /\ Len(open) = 0 /\ DOMAIN doc = {}
  BY <1>1, NothingIsSeq DEF IsSeq
<1>3. Family /\ TextRead
  BY <1>2 DEF Family, TextRead
<1>4. TocFlags
  BY <1>1, <1>2 DEF TocInit, TocFlags, Under
<1>5. PointOK
  BY <1>1, <1>2 DEF PointOK, OpenPoint, Contains
<1>6. Leaves = {} /\ Titles = {}
  BY <1>2 DEF Leaves, Titles
<1>7. IsSeq(TextsIn(doc)) /\ IsSeq(Each(Points))
  <2>1. IsSeq(Points)
    BY <1>2 DEF Points, IsSeq
  <2> QED
    BY <1>2, <2>1, ColumnFacts, EachFacts
<1>8. nav_points = InOrder(Leaves, Each(Points)) /\ doc_title = InOrder(Titles, TextsIn(doc))
  BY <1>1, <1>6, <1>7, InOrderOfNone
<1> QED
  BY <1>2, <1>3, <1>4, <1>5, <1>8 DEF TocContents, FoundOK

LEMMA TocContentsInvariant == TocSpec => []TocContents
<1>1. ReaderInit /\ TocInit => TocContents
  BY TocContentsInitially
<1>2. ReaderInv("ncx") /\ TocContents /\ [TocNext]_<<readerVars, tocVars>> => TocContents'
  BY TocContentsKept
<1> QED
  BY <1>1, <1>2, TocInvariant, PTL DEF TocSpec

(* The navigation points that Toc::read has collected are the innermost    *)
(* navPoints that are whole, in their order, each with its own label and   *)
(* its own content and with nothing of those around or beside it, in every *)
(* table of contents, wherever it is cut off.                              *)
THEOREM LeavesCorrect == TocSpec => []LeavesAreKept
<1>1. TocContents => LeavesAreKept
  <2> SUFFICES ASSUME TocContents, result \in {"reading", "ok"}
               PROVE  nav_points = InOrder(Leaves, [p \in 1 .. Len(doc) |-> <<Point(p)>>])
    BY DEF LeavesAreKept
  <2>1. IsSeq(doc) /\ nav_points = InOrder(Leaves, Each(Points))
    BY DEF TocContents, FoundOK
  <2>2. Len(Points) = Len(doc) /\ \A p \in 1 .. Len(doc) : Points[p] = Point(p)
    BY <2>1 DEF Points, IsSeq
  <2>3. Each(Points) = [p \in 1 .. Len(doc) |-> <<Point(p)>>]
    BY <2>2 DEF Each
  <2> QED
    BY <2>1, <2>3
<1> QED
  BY <1>1, TocContentsInvariant, PTL

(* The title that Toc::read has collected is the text of docTitle, and has *)
(* no text of a label or of anything else in it.                           *)
THEOREM TitleCorrect == TocSpec => []TitleIsItsOwn
<1>1. TocContents => TitleIsItsOwn
  BY DEF TocContents, FoundOK, TitleIsItsOwn, TextOf, TextsIn
<1> QED
  BY <1>1, TocContentsInvariant, PTL

================================================================================
