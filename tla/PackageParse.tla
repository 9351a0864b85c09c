------------------------------ MODULE PackageParse ------------------------------
(***************************************************************************)
(* Package::read (src/src/package.rs): the opf's sections are recognised   *)
(* by flags that their start tags set, and what ends under a flag is added *)
(* to that section.  Attributes: "good", "missing", and for a meta also    *)
(* "property".  The optional fields of Metadata, of which the last one     *)
(* wins, are represented by the date, and the lists by the creators.       *)
(***************************************************************************)
EXTENDS XmlReader

(* What an opf is made of, as far as the flags rely on it. *)
ASSUME PackageFormat ==
  /\ Children["manifest"] = {"item"} /\ Children["spine"] = {"itemref"}
  /\ \A n \in {"item", "itemref"} : Children[n] = {} /\ AttributesOf(n) \subseteq {"good", "missing"}
  /\ \A n \in Children["metadata"] : Children[n] = {}
  /\ \A n \in Names :
       /\ "package" \notin Children[n]
       /\ n # "package" => {"metadata", "manifest", "spine"} \cap Children[n] = {}

VARIABLES
  in_metadata, in_manifest, in_spine,
  package_uid,   \* were the attributes of the package element collected
  metadata, manifest, spine

sections == <<in_metadata, in_manifest, in_spine>>
packageVars == <<sections, package_uid, metadata, manifest, spine>>

NoMetadata == [identifier |-> <<>>, title |-> <<>>, creator |-> <<>>, date |-> <<>>, meta |-> <<>>]

PackageInit ==
  /\ in_metadata = FALSE /\ in_manifest = FALSE /\ in_spine = FALSE
  /\ package_uid = FALSE
  /\ metadata = NoMetadata /\ manifest = <<>> /\ spine = [toc |-> <<>>, itemrefs |-> <<>>]

(* Spine::add_tag; Manifest::add_tag takes any element for an item. *)
AddSpine(n, k) ==
  IF n = "spine" THEN [spine EXCEPT !.toc = Append(@, k)]
  ELSE [spine EXCEPT !.itemrefs = Append(@, k)]
AddItem(k) == Append(manifest, k)

(* ElementStart: the spine's own tag is added here. *)
PackageStart(n, attrs) ==
  /\ Starting("package", n, attrs)
  /\ n = "spine" => attrs = "good"
  /\ Push(n)
  /\ in_metadata' = (in_metadata \/ n = "metadata")
  /\ in_manifest' = (in_manifest \/ n = "manifest")
  /\ in_spine' = (in_spine \/ n = "spine")
  /\ spine' = IF n = "spine" THEN AddSpine(n, Len(doc')) ELSE spine
  /\ UNCHANGED <<result, package_uid, metadata, manifest>>

(* A spine without toc. *)
BadSpine ==
  /\ Starting("package", "spine", "missing")
  /\ result' = "panic"
  /\ UNCHANGED <<stack, chars, packageVars>>

PackageCharacters(w) == Characters(w) /\ UNCHANGED packageVars

(* Metadata::add_tag, Identifier::add_tag, which joins ids and texts of all*)
(* identifiers (kept apart here); as if a second title took the place of   *)
(* the first.                                                              *)
AddTagReplacing(m, n) == IF n = "title" THEN [m EXCEPT !.title = chars] ELSE m
AddTag(m, n) ==
  CASE n = "identifier" -> [m EXCEPT !.identifier = Append(@, [id |-> Top.num, text |-> chars])]
    [] n = "title" -> [m EXCEPT !.title = @ \o chars]
    [] n = "creator" -> [m EXCEPT !.creator = Append(@, chars)]
    [] n = "date" -> [m EXCEPT !.date = <<chars>>]
    [] n = "meta" -> [m EXCEPT !.meta = Append(@, NewMeta)]
    [] OTHER -> m

(* The section an ending element is in: its flag is put back before it is  *)
(* asked for, so a section does not hold itself (as if it were after, or   *)
(* not at all).                                                            *)
Staying(flag, n, section) == flag' = flag
Leaving(flag, n, section) == flag' = (flag /\ n # section)
SectionBefore ==
  CASE in_metadata -> "metadata" [] ~in_metadata /\ in_manifest -> "manifest"
    [] ~in_metadata /\ ~in_manifest /\ in_spine -> "spine" [] OTHER -> "none"
Section ==
  CASE in_metadata' -> "metadata" [] ~in_metadata' /\ in_manifest' -> "manifest"
    [] ~in_metadata' /\ ~in_manifest' /\ in_spine' -> "spine" [] OTHER -> "none"

(* Item::new and ItemRef::new take any element for one, and panic without  *)
(* its attributes; of the metadata only identifier and meta have some.     *)
Lacks(n) ==
  \/ Section = "metadata" /\ n \in {"identifier", "meta"} /\ TopHas({"missing"})
  \/ Section \in {"manifest", "spine"} /\ ~TopHas({"good"})

CollectAttributes(n) == package_uid \/ n = "package"

PackageEnd(n) ==
  /\ Ending(n) /\ Pop
  /\ Leaving(in_metadata, n, "metadata")
  /\ Leaving(in_manifest, n, "manifest")
  /\ Leaving(in_spine, n, "spine")
  /\ package_uid' = CollectAttributes(n)
  /\ IF Lacks(n)
     THEN result' = "panic" /\ UNCHANGED <<metadata, manifest, spine>>
     ELSE /\ Asserted(n)
          /\ metadata' = IF Section = "metadata" THEN AddTag(metadata, n) ELSE metadata
          /\ manifest' = IF Section = "manifest" THEN AddItem(Top.num) ELSE manifest
          /\ spine' = IF Section = "spine" THEN AddSpine(n, Top.num) ELSE spine

(* Whatever is done with the tag, the assert fails then. *)
PackageEndWrongly ==
  /\ EndingWrongly("other") /\ Pop
  /\ result' = "panic"
  /\ UNCHANGED packageVars

(* Without the attributes of a package element there is no package, but a  *)
(* panic (as if there were one, with none of them).                        *)
OutcomesLenient == {"ok", "error"}
Outcomes == {"error", IF package_uid THEN "ok" ELSE "panic at end"}
PackageStop == Stopping(Outcomes) /\ UNCHANGED packageVars

PackageNext ==
  \/ \E n \in Names : \E a \in AttributesOf(n) : PackageStart(n, a)
  \/ BadSpine
  \/ \E w \in Words \cup {Newline} : PackageCharacters(w)
  \/ \E n \in Names : PackageEnd(n)
  \/ PackageEndWrongly
  \/ PackageStop

PackageSpec == ReaderInit /\ PackageInit /\ [][PackageNext]_<<readerVars, packageVars>>

--------------------------------------------------------------------------------
Those(n, section) == {k \in DOMAIN doc : Named(k, n) /\ In(k, section) /\ Whole(k)}
IdentifierOf(k) == [id |-> k, text |-> doc[k].text]
MetaOf(k) == [id |-> k, text |-> IF doc[k].attrs = "property" THEN doc[k].text ELSE <<"content">>]

(* Each field is the text of the elements of the metadata section that     *)
(* have its name, and of no other element: titles joined, creators listed, *)
(* of several dates the last one; identifiers with the ids they have.      *)
MetadataIsDocuments ==
  LET dates == Texts(Those("date", "metadata"))
  IN  result \in {"reading", "ok"} =>
        /\ metadata.identifier =
             InOrder(Those("identifier", "metadata"), [k \in 1 .. Len(doc) |-> <<IdentifierOf(k)>>])
        /\ metadata.title = TextOf(Those("title", "metadata"))
        /\ metadata.creator = Texts(Those("creator", "metadata"))
        /\ metadata.date = IF dates = <<>> THEN <<>> ELSE <<Last(dates)>>
        /\ metadata.meta = InOrder(Those("meta", "metadata"), [k \in 1 .. Len(doc) |-> <<MetaOf(k)>>])

(* Manifest and spine are those of the document, in its order: this is the *)
(* order of the book's pages, and what read_container looks the toc up in. *)
SpineIsDocuments ==
  result \in {"reading", "ok"} =>
    /\ Lists(manifest, Those("item", "manifest"))
    /\ Lists(spine.itemrefs, Those("itemref", "spine"))
    /\ Lists(spine.toc, {k \in DOMAIN doc : Named(k, "spine")})

(* No package is made of an opf that is cut off, however little is missing.*)
OkMeansWholePackage == result = "ok" /\ Named(1, "package") => open = <<>>
================================================================================
