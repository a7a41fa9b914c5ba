------------------------------ MODULE MCDetectors ------------------------------
(***************************************************************************)
(* A small instance of the detectors.                                      *)
(***************************************************************************)
EXTENDS Detectors

CONSTANTS A, B, C, n, c1, c2, x, y, z, w, beginning

(* Matches in the texts of DetectorContext.                                *)
M(kind, at, len, word) == [kind |-> kind, at |-> at, len |-> len, word |-> word]
L(kind, at, len, law, num) == [kind |-> kind, at |-> at, len |-> len, word |-> "law", law |-> law, num |-> num]
N(kind, at, len, word, num) == [kind |-> kind, at |-> at, len |-> len, word |-> word, num |-> num]
T(kind, at, len, num) == [kind |-> kind, at |-> at, len |-> len, word |-> "term", term |-> n, num |-> num]
R(at, unit, dir, k) == [kind |-> "relative", at |-> at, len |-> 2, word |-> "relative",
                        rel |-> [unit |-> unit, dir |-> dir, n |-> k, para |-> 0]]

MCTexts == {"names", "same", "defines", "crowded", "articles", "redefines"}

(* A law with its number, its articles and two words for a law; words that *)
(* lean on the context; a defined term in all its forms; more laws than    *)
(* recentLaws holds, one of them unknown; overlapping ranges and articles. *)
MCFound ==
  [names     |-> <<L("lawNumbered", 0, 4, A, NoArticle), L("lawArticle", 0, 6, A, 1), L("lawArticleKanji", 0, 5, A, 2),
                   N("sameLaw", 8, 2, "sameLaw", NoArticle), N("thisLaw", 12, 5, "thisLaw", NoArticle)>>,
   same      |-> <<N("sameLaw", 3, 2, "sameLaw", 1), M("vague", 7, 4, "vague"), M("application", 7, 6, "applies"),
                   R(14, "article", "prev", 0), R(18, "paragraph", "prev", 2), R(20, "item", "each", 0),
                   M("sameArticle", 22, 2, "relative"), R(22, "paragraph", "same", 0), M("thatRule", 25, 3, "that")>>,
   defines   |-> <<T("termArticle", 2, 5, 1), T("term", 2, 2, NoArticle), T("abbreviation", 2, 5, 1),
                   L("lawArticleKanji", 9, 5, B, 1), L("lawArticleKanji", 15, 5, B, 4)>>,
   crowded   |-> <<L("lawName", 1, 2, C, NoArticle), N("sameLaw", 4, 2, "sameLaw", NoArticle),
                   L("lawName", 7, 2, A, NoArticle), L("lawName", 10, 2, NoLaw, NoArticle),
                   L("lawName", 13, 2, B, NoArticle)>>,
   articles  |-> <<N("article", 4, 3, "article", 1),
                   [kind |-> "range", at |-> 4, len |-> 7, word |-> "range", num |-> 1, to |-> 2,
                    expanded |-> TRUE, articleLen |-> 3],
                   N("article", 14, 3, "article", 2), L("pairArticle", 14, 3, A, 2), N("local", 14, 4, "local", 2),
                   N("appendix", 20, 3, "appendix", 1)>>,
   redefines |-> <<T("term", 1, 2, NoArticle), L("lawName", 1, 2, OwnLaw, NoArticle), R(5, "article", "next", 0), R(8, "item", "prev", 0)>>]

MCWords == {"law", "term", "relative", "sameLaw", "thisLaw", "vague", "applies", "that", "range", "article",
            "local", "appendix"}

Definition(law, revised) == [term |-> n, law |-> law, revised |-> revised]
MCDefines ==
  [t \in MCTexts |-> CASE t = "defines"   -> <<Definition(B, TRUE), Definition(A, FALSE)>>
                       [] t = "redefines" -> <<Definition(C, FALSE)>>
                       [] OTHER           -> <<>>]

MCNegativeIn ==
  [t \in MCTexts |-> CASE t = "articles" -> <<{[from |-> 4, to |-> 8]},
                                                {[from |-> 13, to |-> 17], [from |-> 19, to |-> 24]}>>
                       [] t = "same"     -> <<{[from |-> 12, to |-> 16]}, {}>>
                       [] OTHER          -> <<{}, {}>>]

MCMaxArticle == [l \in Laws |-> 3]

(* Two texts that begin alike, with answers that share keys; one in which  *)
(* the algorithm finds a reference; and one that gives no reason to ask.   *)
Given(key, target) == [key |-> key, target |-> target]
MCPrefix50         == [t \in HybridTexts |-> IF t \in {x, y} THEN beginning ELSE t]
MCTextsWith        == [abbreviations |-> {x, y, z}, indirect |-> {y}]
MCParsed           ==
  [abbreviations |-> [t \in HybridTexts |->
     IF t = x THEN {<<>>, <<Given("k1", "a")>>}
     ELSE {<<>>, <<Given("k2", "b"), Given("k1", "b"), Given("k2", "c")>>}],
   indirect      |-> [t \in HybridTexts |-> {<<>>, <<Given("k2", "d"), Given("k3", "d")>>}]]
Config(use, cache, max) == [use |-> use, confidenceThreshold |-> 7, cacheEnabled |-> cache, maxLLMCallsPerText |-> max]
MCConfigs == {Config(Prompts, TRUE, 3), Config(Prompts \cup {"validation"}, FALSE, 1)}

(* The closed forms of the loops of HybridDetection are those loops.       *)
SmallMaps == UNION {[1..k -> [key : {"k1", "k2"}, target : {"a", "b"}]] : k \in 0..3}
ASSUME MapsAreFolds ==
  \A map, refs \in SmallMaps :
    /\ AddAll(map, refs) = FoldLeft(AddRef, map, refs)
    /\ Kept(map, Filed(refs)) = SelectSeq(map, LAMBDA r : r.key \notin Filed(refs))

(* The detectors share nothing: a behaviour uses one of them.              *)
MCNext ==
  \/ starts = 0 /\ ContextNext /\ UNCHANGED hybridVars
  \/ calls = 0 /\ HybridNext /\ UNCHANGED contextVars

MCSpec == DetectorsInit /\ [][MCNext]_<<contextVars, hybridVars>> /\ HybridFairness
=============================================================================
