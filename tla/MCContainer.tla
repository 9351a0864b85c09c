------------------------------ MODULE MCContainer ------------------------------
(***************************************************************************)
(* Archives of up to two entries, drawn from ten that differ in what       *)
(* expand does with them, with and without a directory entry in front.  A  *)
(* chunk of two bytes in clusters of four, and an input buffer of four,    *)
(* give every loop a round that is not full.                               *)
(***************************************************************************)
EXTENDS Container

Entry(name, parent, method, len, full, bits) ==
  [name |-> name, parent |-> parent, dir |-> FALSE, method |-> method,
   len |-> len, full |-> full, bits |-> bits]

MetaInf == [Entry("META-INF/", "root", "stored", 0, 0, {}) EXCEPT !.dir = TRUE]
Pool ==
  << Entry("mimetype", "root", "stored", 7, 7, {}),
     Entry("container.xml", "META-INF/", "deflated", 3, 5, {}),
     Entry("empty", "root", "stored", 0, 0, {}),
     Entry("emptyd", "root", "deflated", 2, 0, {}),
     Entry("lzma", "root", "lzma", 2, 3, {}),
     Entry("utf8", "root", "stored", 2, 2, {11}),
     Entry("streamed", "root", "deflated", 2, 3, {3}),
     Entry("bit4", "root", "deflated", 2, 3, {4}),
     Entry("image", "root", "deflated", 6, 4, {}),
     Entry("deflate64", "root", "deflate64", 3, 4, {4}) >>

(* A book is numbered by its entries: 121 if META-INF/ comes first, then a *)
(* digit, of base 11, for each of the two of the pool, 0 for none.         *)
Digits(b) == SelectSeq(<<(b \div 11) % 11, b % 11>>, LAMBDA d : d # 0)
Picked(b) == [i \in 1 .. Len(Digits(b)) |-> Pool[Digits(b)[i]]]
MCBooks == {b \in 0 .. 241 : (b \div 11) % 11 # b % 11 \/ b % 121 = 0}
MCArchive == [b \in MCBooks |-> IF b >= 121 THEN <<MetaInf>> \o Picked(b) ELSE Picked(b)]
================================================================================
