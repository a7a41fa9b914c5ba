----------------------------- MODULE XmlExtract -----------------------------
(***************************************************************************)
(* extractArticlesFromXML of scripts/import-law-data.ts.  A law's XML is   *)
(* the Article elements of its MainProvision and, for each SupplProvision  *)
(* (the original one and one per amending law), that provision's own       *)
(* Article elements.  An element carries its Num attribute (NoNum when it  *)
(* has none) and the number of items of each of its paragraphs.            *)
(***************************************************************************)
EXTENDS Integers, Sequences, SequencesExt

CONSTANT NoNum

Element(n, paras) == [num |-> n, paras |-> paras]

(* for..of over the matches: an element without Num is skipped.            *)
Numbered(elements) == SelectSeq(elements, LAMBDA e : e.num # NoNum)

(* In the main provision an article writes one row per paragraph and one   *)
(* per item of the paragraph.                                              *)
MainArticles(elements) ==
  LET kept == Numbered(elements)
  IN  [i \in DOMAIN kept |->
        [num  |-> <<"main", kept[i].num>>,
         kids |-> Len(kept[i].paras) + FoldLeft(+, 0, kept[i].paras)]]

(* In a supplementary provision items are not extracted, and the number is *)
(* prefixed with the same word whatever provision it comes from.           *)
SupplArticles(elements) ==
  LET kept == Numbered(elements)
  IN  [i \in DOMAIN kept |->
        [num |-> <<"suppl", kept[i].num>>, kids |-> Len(kept[i].paras)]]

extractArticlesFromXML(xml) ==
  MainArticles(xml.main)
    \o FlattenSeq([i \in DOMAIN xml.suppl |-> SupplArticles(xml.suppl[i])])
=============================================================================
