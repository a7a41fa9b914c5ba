------------------------- MODULE MCArticleNormalizer -------------------------
EXTENDS ArticleNormalizer, TLC

CONSTANTS x1, x2, a1, a2

Suppl(b) == [format |-> "suppl", base |-> b, branch |-> 0]
Branch(b, c) == [format |-> "arabic", base |-> b, branch |-> c]

KanjiBranch(b, c) == [format |-> "kanji", base |-> b, branch |-> c]
Text == [format |-> "text", base |-> 0, branch |-> 0]

(* The same article with and without branch, in kanji and in Arabic.       *)
MCNumbers == {Arabic(2), Branch(2, 1), KanjiBranch(2, 1)}
(* Article 1, the first article of the supplementary provisions, and a     *)
(* text without a number.                                                  *)
MCArticles == {Arabic(1), Suppl(1), Text}

(* A row with two numbers to change and one with none and no target.       *)
MCStored == {[src |-> KanjiBranch(2, 1), tgt |-> Branch(2, 1)],
             [src |-> Arabic(2), tgt |-> NoNumber]}
MCStoredText == {[src |-> Arabic(1), tgt |-> Text], [src |-> Suppl(1), tgt |-> NoNumber]}
MCSymmetry == Permutations(Rows) \cup Permutations(Nodes)
=============================================================================
