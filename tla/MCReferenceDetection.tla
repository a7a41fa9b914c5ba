------------------------ MODULE MCReferenceDetection ------------------------
EXTENDS ReferenceDetection, TLC

CONSTANTS l1, d1, d2, w1, p1, p2, p3, minpo

Num(n) == <<"main", <<n, 0>>>>
Branch(n, b) == <<"main", <<n, b>>>>
Kanji(n) == <<"kanji", <<n, 0>>>>

(* d1: a relative, an external and an internal mention in two articles, one *)
(* of them with a branch number.  d2: an article without any mention.      *)
MCDocs    == {d1, d2}
MCNumbers == {Num(1), Branch(1, 2)}
MCExtract == d1 :> <<[num |-> Num(1), kids |-> 0], [num |-> Branch(1, 2), kids |-> 0]>>
          @@ d2 :> <<[num |-> Num(1), kids |-> 0]>>
MCMentions ==
     d1 :> << <<[type |-> "external", name |-> minpo, art |-> Kanji(1)],
                [type |-> "internal", art |-> Kanji(1)]>>,
              <<[type |-> "relative", rel |-> "previous"]>> >>
  @@ d2 :> << <<>> >>
MCTargets == {Kanji(1)} \cup {<<"main", <<n, 0>>>> : n \in -2..13}
MCMajorLaws == <<l1>>
MCCommonLaw == minpo :> NoLaw
MCTitleMatches == minpo :> {l1}
MCSymmetry == Permutations(Detectors)
=============================================================================
