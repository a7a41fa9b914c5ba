---------------------------- MODULE DetectorContext ----------------------------
(***************************************************************************)
(* scripts/detector.ts, class UltimateReferenceDetector: an object that is *)
(* given text after text and keeps a context between them: the law and     *)
(* article it is in, the laws mentioned recently, the terms defined.  The  *)
(* regular expressions are abstracted to what they match in a text, Found; *)
(* what a match becomes, in which order, and which matches survive is the  *)
(* code's.  The filter of scripts/negative-patterns.ts keeps a position    *)
(* per pattern, for the whole process.                                     *)
(*                                                                         *)
(* recentArticles and currentArticleNumber are written and never read, and *)
(* have no variable.                                                       *)
(***************************************************************************)
EXTENDS RelativeReference, Sequences, SequencesExt, FiniteSets, Subsequences

CONSTANTS
  Texts,
  Found,          \* Found[t]: the matches in text order, records with kind, at, len, word
  Words,          \* the words of matches
  Defines,        \* Defines[t]: the definitions, records with term, law and revised (改正前の or 改正後の)
  NegativeIn,     \* NegativeIn[t][p]: spans [from, to] where negative pattern p matches
  LongTexts,      \* texts of 10000 characters and more
  Laws, Terms,
  GivenLaws,      \* the laws whose texts a driver hands over
  AnsweredLaws,   \* the laws a language model answers with
  NewOldTerms,    \* the terms that mean the current law when undefined
  DefaultLaw,     \* what they mean when there is no current law
  Articles,
  maxArticle,     \* greatest article number that validateArticleNumber accepts for a law
  MaxRecent,      \* length of recentLaws (5)
  Margin,         \* characters of context around a reference (30)
  MaxCalls,       \* bound of the calls in a behaviour
  OwnLaw,         \* what 新法 and 旧法 name: the current law
  NoLaw, NoArticle, NoDefinition, NoAnswer, NoCall

(* The order of the patterns in detectByPattern and detectByContext.       *)
PatternOrder == <<"lawName", "lawNumbered", "lawArticle", "lawArticleKanji", "termArticle", "article",
                  "thisLaw", "relative", "range", "term", "pairArticle", "local", "abbreviation">>
ContextOrder == <<"sameLaw", "thisLaw", "sameArticle", "appendix", "thatRule">>
LlmOrder     == <<"sameLaw", "thatRule", "vague", "application">>

NameKinds == {"lawName", "lawNumbered"}   \* without and with the law number in brackets
LawKinds  == NameKinds \cup {"lawArticle", "lawArticleKanji", "pairArticle"}
TermKinds == {"termArticle", "term", "abbreviation"}
Unnumbered == {"relative", "sameArticle", "thatRule", "vague", "application"}

(* What a match consists of, by its kind.                                  *)
IsMatch(m) ==
  /\ m.at \in Nat /\ m.len \in Nat /\ m.word \in Words
  /\ m.kind \in Range(PatternOrder) \cup Range(ContextOrder) \cup Range(LlmOrder)
  /\ m.kind \notin Unnumbered => m.num \in Nat \cup {NoArticle}
  /\ m.kind \in LawKinds => m.law \in Laws \cup {NoLaw, OwnLaw}
  /\ m.kind \in TermKinds => m.term \in Terms
  /\ m.kind = "relative" => m.rel \in Word /\ (m.rel.unit = "article" => m.rel.dir # "all")
  /\ m.kind = "range" => m.num \in Nat /\ m.to \in Nat /\ m.articleLen \in Nat

(* Law names are the matches of one expression, in the order of the text,  *)
(* and no name in the dictionary begins with 同法.                         *)
NamesInOrder(matches) ==
  \A i, j \in DOMAIN matches : matches[i].kind \in NameKinds =>
    /\ i < j /\ matches[j].kind \in NameKinds => matches[i].at < matches[j].at
    /\ matches[j].kind = "sameLaw" /\ matches[i].law # NoLaw => matches[i].at # matches[j].at

ASSUME ContextAssumption ==
  /\ MaxRecent \in Nat \ {0} /\ Margin \in Nat /\ MaxCalls \in Nat
  /\ DefaultLaw \in Laws /\ GivenLaws \subseteq Laws /\ AnsweredLaws \subseteq Laws \cup {NoLaw}
  /\ NoLaw \notin Laws /\ OwnLaw \notin Laws \cup {NoLaw} /\ NoDefinition \notin [law : Laws \cup {NoLaw}, revised : BOOLEAN]
  /\ maxArticle \in [Laws -> Nat] /\ Articles \subseteq Nat /\ NaN \notin Nat
  /\ Texts # {}
  /\ \A t \in Texts :
       /\ Found[t] \in Seq(Range(Found[t])) /\ \A m \in Range(Found[t]) : IsMatch(m)
       /\ NamesInOrder(Found[t])
       /\ Defines[t] \in Seq([term : Terms, law : Laws \cup {NoLaw}, revised : BOOLEAN])
       /\ NegativeIn[t] \in Seq(SUBSET {s \in [from : Nat, to : Nat] : s.from <= s.to})
       /\ \A u \in Texts : DOMAIN NegativeIn[t] = DOMAIN NegativeIn[u]

VARIABLES
  currentLaw, currentArticle,
  recentLaws,     \* sequence of [law, at], the most recent first
  definitions,    \* the definition of each term
  llmAvailable,
  lastIndex,      \* lastIndex of each negative pattern, which has the flag g
  heard,          \* history: laws that the texts this detector was given mean
  last,           \* history: the last call
  calls           \* history: number of calls

contextVars == <<currentLaw, currentArticle, recentLaws, definitions, llmAvailable, lastIndex,
                 heard, last, calls>>

Patterns == DOMAIN lastIndex

Ref(m, law, article) ==
  [at |-> m.at, len |-> m.len, word |-> m.word, kind |-> m.kind, law |-> law, article |-> article,
   placed |-> TRUE]

Reference == [at : Nat, len : Nat, word : Words,
              kind : Range(PatternOrder) \cup Range(ContextOrder) \cup {"llm"}, law : Laws \cup {NoLaw}, article : Nat \cup {NaN, NoArticle},
              placed : BOOLEAN]

(* What a term may be defined as, where laws are known.                    *)
Definitions(laws) == [law : laws, revised : BOOLEAN] \cup {NoDefinition}

(* The law that a name means: what the dictionary says.                    *)
findLawId(m, law) == IF m.law = OwnLaw THEN law ELSE m.law

Known(law) == law # NoLaw

When(condition, refs) == IF condition THEN refs ELSE <<>>

-----------------------------------------------------------------------------
(* Phase 0.  A term that is defined keeps its definition.                  *)
detectDefinitions(t, defs) ==
  LET given(x) == {i \in DOMAIN Defines[t] : Defines[t][i].term = x}
  IN  [x \in Terms |-> IF defs[x] # NoDefinition \/ given(x) = {} THEN defs[x]
                      ELSE LET d == Defines[t][Min(given(x))] IN [law |-> d.law, revised |-> d.revised]]

(* The law a definition names, if the dictionary knows it, and otherwise   *)
(* the current law.                                                        *)
DefinedLaw(d, c) == IF Known(d.law) THEN d.law ELSE c.law

(* The law of a term with an article: the definition counts only where it  *)
(* names the law as 改正前の or 改正後の.                                   *)
ArticleLaw(d, c) == IF d # NoDefinition /\ d.revised THEN DefinedLaw(d, c) ELSE c.law

RelativeRef(m, c) ==
  LET r == resolve(m.rel, [lawId |-> c.law, paragraph |-> 1,
                           article |-> IF c.article = NoArticle THEN NaN ELSE c.article])
  IN  IF r = Unresolved THEN Ref(m, c.law, NoArticle) ELSE Ref(m, r.lawId, r.article)

(* A range, and each article in it, all at the place of the range.         *)
RangeRefs(m, c) ==
  <<Ref(m, c.law, m.num)>> \o
  When(m.expanded, [i \in 1..(m.to - m.num + 1) |->
                      [Ref(m, c.law, m.num + i - 1) EXCEPT !.len = m.articleLen, !.kind = "article"]])

(* The matches of the patterns of order, pattern after pattern.            *)
OfKind(t, kind) == AtPositions(Found[t], {i \in DOMAIN Found[t] : Found[t][i].kind = kind})
InOrder(order)  == [t \in Texts |-> FlattenSeq([i \in DOMAIN order |-> OfKind(t, order[i])])]

PatternMatches == InOrder(PatternOrder)
ContextMatches == InOrder(ContextOrder)
LlmMatches     == InOrder(LlmOrder)

(* Phase 1.  What a match adds to the references found before it.  この法律 *)
(* is recorded without its position, which then counts as 0.               *)
ByPattern(m, refs, c) ==
  LET law == findLawId(m, c.law)
  IN  CASE m.kind \in NameKinds        -> When(Known(law), <<Ref(m, law, NoArticle)>>)
        [] m.kind = "lawArticle"      -> When(Known(law) /\ law # c.law, <<Ref(m, law, m.num)>>)
        [] m.kind = "lawArticleKanji" -> When(/\ Known(law) /\ m.num <= maxArticle[law]
                                              /\ ~\E r \in Range(refs) : r.kind = "lawNumbered" /\ r.law = law,
                                              <<Ref(m, law, m.num)>>)
        [] m.kind = "termArticle"     -> <<Ref(m, ArticleLaw(c.defs[m.term], c), m.num)>>
        [] m.kind = "article"         -> When(~\E r \in Range(refs) : r.placed /\ r.at = m.at, <<Ref(m, c.law, m.num)>>)
        [] m.kind = "thisLaw"         -> <<[Ref(m, c.law, m.num) EXCEPT !.at = 0, !.placed = FALSE]>>
        [] m.kind = "relative"        -> <<RelativeRef(m, c)>>
        [] m.kind = "range"           -> RangeRefs(m, c)
        [] m.kind = "term"            -> IF c.defs[m.term] # NoDefinition THEN <<Ref(m, DefinedLaw(c.defs[m.term], c), NoArticle)>>
                                         ELSE When(m.term \in NewOldTerms,
                                                   <<Ref(m, IF Known(c.law) THEN c.law ELSE DefaultLaw, NoArticle)>>)
        [] m.kind = "pairArticle"     -> When(Known(law), <<Ref(m, law, m.num)>>)
        [] m.kind = "local"           -> <<Ref(m, NoLaw, m.num)>>
        [] m.kind = "abbreviation"    -> When(c.defs[m.term] # NoDefinition, <<Ref(m, c.defs[m.term].law, m.num)>>)

WithMatch(refs, m, c) == refs \o ByPattern(m, refs, c)

detectByPattern(t, c) ==
  LET matches == PatternMatches[t]
      refs[i \in 0..Len(matches)] == IF i = 0 THEN <<>> ELSE WithMatch(refs[i - 1], matches[i], c)
  IN  refs[Len(matches)]

(* Mutant: the list is never cut.                                          *)
updateContextUncut(recent, law, at) == <<[law |-> law, at |-> at]>> \o recent

(* Mutant: the law mentioned last is put at the end.                       *)
updateContextAppending(recent, law, at) ==
  LET all == Append(recent, [law |-> law, at |-> at])
  IN  SubSeq(all, 1, IF Len(all) > MaxRecent THEN MaxRecent ELSE Len(all))

updateContext(recent, law, at) ==
  LET all == <<[law |-> law, at |-> at]>> \o recent
  IN  SubSeq(all, 1, IF Len(all) > MaxRecent THEN MaxRecent ELSE Len(all))

(* A mention of a law that the dictionary knows.                           *)
IsName(m, law) == m.kind \in NameKinds /\ Known(findLawId(m, law))

(* recentLaws after Phase 1.                                               *)
RecentAfter(t, law, given) ==
  LET matches == Found[t]
      recent[i \in 0..Len(matches)] ==
        IF i = 0 THEN given
        ELSE IF IsName(matches[i], law)
             THEN updateContext(recent[i - 1], findLawId(matches[i], law), matches[i].at)
             ELSE recent[i - 1]
  IN  recent[Len(matches)]

(* Phase 2.  同法 means the first recent law whose position, in whatever   *)
(* text that was, is before this one.                                      *)
ByContext(m, c) ==
  CASE m.kind = "sameLaw"     -> LET before == {i \in DOMAIN c.recent : c.recent[i].at < m.at}
                                 IN  When(before # {}, <<Ref(m, c.recent[Min(before)].law, m.num)>>)
    [] m.kind = "thisLaw"     -> <<Ref(m, c.law, NoArticle)>>
    [] m.kind = "sameArticle" -> <<Ref(m, c.law, c.article)>>
    [] m.kind = "appendix"    -> <<Ref(m, c.law, m.num)>>
    [] m.kind = "thatRule"    -> <<Ref(m, NoLaw, NoArticle)>>

detectByContext(t, c) ==
  FlattenSeq([i \in DOMAIN ContextMatches[t] |-> ByContext(ContextMatches[t][i], c)])

(* Phase 3.  The matches the model is asked about: the vague ones that no  *)
(* reference with the same text or position covers, and applications.      *)
Asked(t, refs) ==
  LET matches == LlmMatches[t]
      covered(m) == \E r \in Range(refs) : r.word = m.word \/ (r.placed /\ r.at = m.at)
  IN  AtPositions(matches, {i \in DOMAIN matches : matches[i].kind = "application" \/ ~covered(matches[i])})

LlmRefs(asked, answer) ==
  LET answered == AtPositions(asked, {i \in DOMAIN asked : answer[asked[i]] # NoAnswer})
  IN  [i \in DOMAIN answered |-> [Ref(answered[i], answer[answered[i]], NoArticle) EXCEPT !.kind = "llm"]]

-----------------------------------------------------------------------------
(* Overlap removal.                                                        *)
End(r) == r.at + r.len
Inside(r, s) == r.at >= s.at /\ End(r) <= End(s)

(* sort by position, which is stable.                                      *)
ByPosition(refs) ==
  LET place == [i \in DOMAIN refs |->
                  Cardinality({j \in DOMAIN refs : \/ refs[j].at < refs[i].at
                                                   \/ refs[j].at = refs[i].at /\ j <= i})]
  IN  [n \in DOMAIN refs |-> refs[CHOOSE i \in DOMAIN refs : place[i] = n]]

(* Mutant: references inside the new one stay.                             *)
KeepInsideOthers(kept, r) ==
  IF \E s \in kept.covered : Inside(r, s) THEN kept
  ELSE [unique |-> Append(kept.unique, r), covered |-> kept.covered \cup {[at |-> r.at, len |-> r.len]}]

KeepUnlessInside(kept, r) ==
  IF \E s \in kept.covered : Inside(r, s) THEN kept
  ELSE [unique  |-> Append(AtPositions(kept.unique, {i \in DOMAIN kept.unique : ~Inside(kept.unique[i], r)}), r),
        covered |-> kept.covered \cup {[at |-> r.at, len |-> r.len]}]

deduplicateAndSort(refs) ==
  LET sorted == ByPosition(refs)
      kept[i \in 0..Len(sorted)] ==
        IF i = 0 THEN [unique |-> <<>>, covered |-> {}] ELSE KeepUnlessInside(kept[i - 1], sorted[i])
  IN  ByPosition(kept[Len(sorted)].unique)

-----------------------------------------------------------------------------
(* The negative filter.  The window of a reference is the text around it;  *)
(* RegExp.test of a pattern with the flag g starts at lastIndex, leaves it *)
(* at the end of the match, and sets it to 0 when there is none.           *)
Window(r) == [from |-> IF r.at < Margin THEN 0 ELSE r.at - Margin, to |-> End(r) + Margin]

InWindow(t, p, r) ==
  {[from |-> s.from - Window(r).from, to |-> s.to - Window(r).from] :
     s \in {x \in NegativeIn[t][p] : x.from >= Window(r).from /\ x.to <= Window(r).to}}

Ahead(t, p, r, index) == {s \in InWindow(t, p, r) : s.from >= index}

First(spans) == CHOOSE s \in spans : \A o \in spans : s.from <= o.from

(* The patterns are tried in turn until one matches.                       *)
isNegative(t, r, index) ==
  LET hits == {p \in DOMAIN index : Ahead(t, p, r, index[p]) # {}}
      hit  == CHOOSE p \in hits : \A q \in hits : p <= q
  IN  [answer |-> hits # {},
       index  |-> [p \in DOMAIN index |->
                     CASE hits = {} \/ p < hit -> 0
                       [] hits # {} /\ p = hit -> First(Ahead(t, p, r, index[p])).to
                       [] OTHER                -> index[p]]]

FilterOne(t, state, r) ==
  LET test == isNegative(t, r, state.index)
  IN  [index |-> test.index, refs |-> IF test.answer THEN state.refs ELSE Append(state.refs, r)]

filterNegativePatterns(t, refs, index) ==
  LET state[i \in 0..Len(refs)] ==
        IF i = 0 THEN [index |-> index, refs |-> <<>>] ELSE FilterOne(t, state[i - 1], refs[i])
  IN  state[Len(refs)]

-----------------------------------------------------------------------------
(* The laws that the names and definitions of a text mean.                 *)
LawsIn(t, law) ==
  {findLawId(m, law) : m \in {x \in Range(Found[t]) : x.kind \in LawKinds}}
  \cup {d.law : d \in Range(Defines[t])}

EmptyContext ==
  /\ currentLaw' = NoLaw /\ currentArticle' = NoArticle /\ recentLaws' = <<>>
  /\ definitions' = [x \in Terms |-> NoDefinition]

ContextInit ==
  /\ currentLaw = NoLaw /\ currentArticle = NoArticle /\ recentLaws = <<>>
  /\ definitions = [x \in Terms |-> NoDefinition]
  /\ llmAvailable \in BOOLEAN
  /\ lastIndex = [p \in DOMAIN NegativeIn[CHOOSE t \in Texts : TRUE] |-> 0]
  /\ heard = {} /\ last = NoCall /\ calls = 0

(* Mutant: the definitions are shared by all detectors.                    *)
NewDetectorSharing(available) ==
  /\ last # NoCall
  /\ currentLaw' = NoLaw /\ currentArticle' = NoArticle /\ recentLaws' = <<>>
  /\ llmAvailable' = available
  /\ heard' = {} /\ last' = NoCall
  /\ UNCHANGED <<definitions, lastIndex, calls>>

(* A driver makes a detector for the next law; the language model answers  *)
(* the check of its availability or does not.                              *)
NewDetector(available) ==
  /\ last # NoCall
  /\ EmptyContext
  /\ llmAvailable' = available
  /\ heard' = {} /\ last' = NoCall
  /\ UNCHANGED <<lastIndex, calls>>

(* A call, with or without the law and the article it is about.            *)
detectReferences(t, law, article) ==
  LET current == IF law = NoLaw THEN currentLaw ELSE law
      c == [law     |-> current,
            article |-> IF article = NoArticle THEN currentArticle ELSE article,
            recent  |-> RecentAfter(t, current, recentLaws),
            defs    |-> detectDefinitions(t, definitions)]
      found == detectByPattern(t, c) \o detectByContext(t, c)
      asked == IF llmAvailable /\ t \notin LongTexts THEN Asked(t, found) ELSE <<>>
  IN  /\ calls < MaxCalls
      /\ \E answer \in [Range(asked) -> AnsweredLaws \cup {NoAnswer}] :
           LET all      == found \o LlmRefs(asked, answer)
               distinct == deduplicateAndSort(all)
               filtered == filterNegativePatterns(t, distinct, lastIndex)
           IN  /\ lastIndex' = filtered.index
               /\ last' = [text |-> t, law |-> c.law, found |-> all, result |-> filtered.refs]
      /\ currentLaw' = c.law /\ currentArticle' = c.article
      /\ recentLaws' = c.recent /\ definitions' = c.defs
      /\ heard' = heard \cup LawsIn(t, c.law) /\ calls' = calls + 1
      /\ UNCHANGED llmAvailable

ContextNext ==
  \/ \E available \in BOOLEAN : NewDetector(available)
  \/ \E t \in Texts, law \in GivenLaws \cup {NoLaw}, article \in Articles \cup {NoArticle} :
       detectReferences(t, law, article)

ContextSpec == ContextInit /\ [][ContextNext]_contextVars

-----------------------------------------------------------------------------
ContextTypeOK ==
  /\ currentLaw \in Laws \cup {NoLaw} /\ currentArticle \in Articles \cup {NoArticle}
  /\ recentLaws \in Seq([law : Laws, at : Nat]) /\ Len(recentLaws) <= MaxRecent
  /\ definitions \in [Terms -> Definitions(Laws \cup {NoLaw})]
  /\ llmAvailable \in BOOLEAN
  /\ \A p \in Patterns : lastIndex[p] \in Nat
  /\ heard \subseteq Laws \cup {NoLaw} /\ calls \in 0..MaxCalls
  /\ last # NoCall => last.found \in Seq(Reference) /\ last.result \in Seq(Reference)

(* What a detector says of a text comes from that text, the law it is told *)
(* it is in, or the language model; only 同法 and defined terms may bring  *)
(* in a law of another text, and then of one this detector was given: a    *)
(* driver that makes a detector per law keeps the laws apart.              *)
KnowsOnlyItsTexts ==
  last # NoCall =>
    \A r \in Range(last.result) :
      \/ r.kind = "llm"
      \/ r.law \in {NoLaw, last.law} \cup LawsIn(last.text, last.law)
      \/ r.kind \in {"sameLaw", "term", "termArticle", "abbreviation"}
         /\ r.law \in heard \cup {DefaultLaw}

LawNames(t, law) == {m \in Range(Found[t]) : IsName(m, law)}

(* Whatever laws earlier texts left in the context, 同法 means the law     *)
(* mentioned last before it in its own text, as long as the mentions after *)
(* it have not pushed that out of the list; and when they have, it is left *)
(* unresolved rather than taken from another text.                         *)
SameLawIsNearest ==
  last # NoCall =>
    \A m \in {x \in Range(Found[last.text]) : x.kind = "sameLaw"} :
      LET before == {l \in LawNames(last.text, last.law) : l.at < m.at}
          after  == {l \in LawNames(last.text, last.law) : l.at > m.at}
          mine   == {r \in Range(last.found) : r.kind = "sameLaw" /\ r.at = m.at}
          near   == CHOOSE l \in before : \A o \in before : o.at <= l.at
      IN  IF Cardinality(after) >= MaxRecent THEN mine = {}
          ELSE before # {} => \E r \in mine : r.law = findLawId(near, last.law)

(* Overlap removal and filter lose nothing but what they are for: every    *)
(* reference a phase found lies inside one of the result, or inside one    *)
(* with a negative pattern around it, and no reference of the result lies  *)
(* inside another, whatever the phases found and in which order.           *)
FoundIsCovered ==
  last # NoCall =>
    /\ \A r \in Range(last.found) :
         \/ \E s \in Range(last.result) : Inside(r, s)
         \/ \E s \in Range(last.found) : Inside(r, s) /\ \E p \in Patterns : InWindow(last.text, p, s) # {}
    /\ \A i, j \in DOMAIN last.result : Inside(last.result[i], last.result[j]) => i = j

(* filterNegativePatterns: no reference with a negative pattern around it  *)
(* is in the result (scripts/detector.ts:2121, negative-patterns.ts:205).  *)
NegativesRemoved ==
  last # NoCall =>
    \A r \in Range(last.result), p \in Patterns : InWindow(last.text, p, r) = {}
=============================================================================
