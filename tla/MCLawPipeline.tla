---------------------------- MODULE MCLawPipeline ----------------------------
EXTENDS LawPipeline, TLC

CONSTANTS l1, d1, w1, p1, s1, minpo

Num(n) == <<"main", <<n, 0>>>>
Kanji(n) == <<"kanji", <<n, 0>>>>

(* One edition of two articles.                                            *)
MCDocs1   == {d1}
MCNumbers == {Num(1), Num(2)}
MCExtract == d1 :> <<[num |-> Num(1), kids |-> 0], [num |-> Num(2), kids |-> 0]>>
MCMentions == d1 :> << <<[type |-> "internal", art |-> Kanji(2)]>>, <<>> >>
MCTargets == {Kanji(1), Kanji(2)} \cup {<<"main", <<n, 0>>>> : n \in -2..3}
MCMajorLaws == <<l1>>
MCCommonLaw == minpo :> l1
MCTitleMatches == minpo :> {l1}
=============================================================================
