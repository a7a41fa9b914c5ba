----------------------- MODULE ReferenceDetectionProofs -----------------------
(***************************************************************************)
(* Proofs about detect-references, for any number of detectors, laws,      *)
(* editions, articles and mentions.  The steps of the detectors and those  *)
(* of the rest of the system are kept apart, so that the proofs hold for   *)
(* the completed imports of DetectSpec and the stepwise ones of            *)
(* LawPipeline.                                                            *)
(***************************************************************************)
EXTENDS ReferenceDetection, TLAPS

(* An Article row is the row of an article of the edition it comes from.   *)
FromEdition(rows) ==
  \A n \in Numbers :
    rows[n] # NoRow => /\ rows[n].pos \in DOMAIN Extract[rows[n].doc]
                       /\ Extract[rows[n].doc][rows[n].pos].num = n

(* What detection relies on in the store.                                  *)
ArticlesInv ==
  /\ article \in [Laws -> [Numbers -> ArticleRow \cup {NoRow}]]
  /\ \A l \in Laws : FromEdition(article[l])

(* The mention of row r is in the text of the article it names.            *)
InText(r) ==
  \E d \in Docs : \E k \in DOMAIN Extract[d] :
    /\ Extract[d][k].num = r.src
    /\ r.mention \in RowsOf(Mentions[d][k])

(* A reference within law l points into l.                                 *)
WithinLaw(l, r) == r.mention.type = "internal" => r.law = l /\ r.art = r.mention.art

(* The loops of a detector: the mentions before its place, and no others,  *)
(* have one row each.                                                      *)
LoopInv(p) ==
  /\ cur[p] = NoArticle => seen[p] = {}
  /\ cur[p] # NoArticle => cur[p] \in seen[p]
  /\ at[p] <= Len(ArticleMentions(p))
  /\ \A n \in seen[p] : \A i \in DOMAIN MentionsOf(snap[p][n]) :
       n # cur[p] \/ i <= at[p] =>
         \E r \in RowsOf(found[p]) :
           r.src = n /\ r.at = i /\ r.mention = MentionsOf(snap[p][n])[i]
  /\ \A r \in RowsOf(found[p]) : r.src \in seen[p] /\ (r.src = cur[p] => r.at <= at[p])
  /\ \A r, s \in RowsOf(found[p]) : r.src = s.src /\ r.at = s.at => r = s

DetectorInv(p) ==
  /\ FromEdition(snap[p])
  /\ dpc[p] \in {"idle", "read"} =>
       seen[p] = {} /\ cur[p] = NoArticle /\ at[p] = 0 /\ found[p] = <<>>
  /\ dpc[p] = "detect" => LoopInv(p)
  /\ \A r \in RowsOf(found[p]) : r.by = p /\ InText(r) /\ WithinLaw(dlaw(p), r)

(* The rows of a law: who is writing them, and what is still to come.      *)
WritersInv(l) ==
  \A p \in Detectors :
    Saving(p, l) => /\ owner[l] # Nobody
                    /\ owner[l] = p => RowsOf(found[p]) \subseteq expected[l]
                    /\ owner[l] # p => p \in overlap[l]

Pending(l) == IF Saving(owner[l], l) THEN RowsOf(found[owner[l]]) ELSE {}

RowsInv(l) ==
  /\ \A r \in reference[l] : InText(r)
  /\ owner[l] # Nobody =>
       /\ \A r \in expected[l] : WithinLaw(l, r)
       /\ ~cut[l] => expected[l] \subseteq reference[l] \cup Pending(l)
       /\ \A r \in reference[l] : r \in expected[l] \/ r.by \in overlap[l]

DetectInv ==
  /\ DetectTypeOK
  /\ \A p \in Detectors : DetectorInv(p)
  /\ \A l \in Laws : WritersInv(l) /\ RowsInv(l)
  /\ EveryMentionOnce

-----------------------------------------------------------------------------
(* The mentions of an Article row are those of an article of an edition.   *)
LEMMA MentionsInText ==
  ASSUME NEW rows \in [Numbers -> ArticleRow \cup {NoRow}], FromEdition(rows), NEW n \in Numbers
  PROVE  /\ MentionsOf(rows[n]) \in Seq(Mention)
         /\ rows[n] # NoRow => \E d \in Docs : \E k \in DOMAIN Extract[d] :
              Extract[d][k].num = n /\ MentionsOf(rows[n]) = Mentions[d][k]
<1>1. CASE rows[n] = NoRow
  BY <1>1 DEF MentionsOf
<1>2. CASE rows[n] # NoRow
  <2> DEFINE d == rows[n].doc
             k == rows[n].pos
  <2>1. rows[n] \in ArticleRow
    BY <1>2
  <2>2. d \in Docs /\ k \in DOMAIN Extract[d] /\ Extract[d][k].num = n
    BY <1>2, <2>1 DEF ArticleRow, FromEdition
  <2>3. MentionsOf(rows[n]) = Mentions[d][k]
    BY <1>2 DEF MentionsOf
  <2> HIDE DEF d, k
  <2>4. Mentions[d] \in Seq(Seq(Mention)) /\ Len(Mentions[d]) = Len(Extract[d])
        /\ Extract[d] \in Seq(ArticleData)
    BY <2>2, MentionsAssumption, ExtractAssumption
  <2>5. k \in DOMAIN Mentions[d]
    BY <2>2, <2>4
  <2>6. Mentions[d][k] \in Seq(Mention)
    BY <2>4, <2>5
  <2> QED
    BY <2>2, <2>3, <2>6
<1> QED
  BY <1>1, <1>2

(* The mentions of the article in work.                                    *)
LEMMA ArticleMentionsInText ==
  ASSUME DetectTypeOK, NEW p \in Detectors, FromEdition(snap[p])
  PROVE  /\ ArticleMentions(p) \in Seq(Mention)
         /\ Len(ArticleMentions(p)) \in Nat
         /\ cur[p] # NoArticle => /\ cur[p] \in Numbers
                                  /\ ArticleMentions(p) = MentionsOf(snap[p][cur[p]])
<1>1. snap[p] \in [Numbers -> ArticleRow \cup {NoRow}] /\ cur[p] \in Numbers \cup {NoArticle}
  BY DEF DetectTypeOK
<1>2. CASE cur[p] = NoArticle
  BY <1>2 DEF ArticleMentions
<1>3. CASE cur[p] # NoArticle
  BY <1>1, <1>3, MentionsInText DEF ArticleMentions
<1> QED
  BY <1>2, <1>3

(* A mention of known kind is resolved to a law and an article, or to      *)
(* none.                                                                   *)
LEMMA ResolutionsType ==
  ASSUME NEW l \in Laws, NEW n \in Numbers, NEW m \in Mention, NEW t \in Resolutions(l, n, m)
  PROVE  /\ t[1] \in Laws \cup {NoLaw} /\ t[2] \in Targets \cup {NoArticle}
         /\ m.type = "internal" => t[1] = l /\ t[2] = m.art
<1>1. CASE m.type = "external"
  <2>1. m.name \in Names /\ m.art \in Targets \cup {NoArticle}
    BY <1>1 DEF Mention
  <2>2. findLawIdByName(m.name) \subseteq Laws \cup {NoLaw}
    BY <2>1, NamesAssumption DEF findLawIdByName
  <2> QED
    BY <1>1, <2>1, <2>2 DEF Resolutions
<1>2. CASE m.type = "internal"
  <2>1. m.art \in Targets
    BY <1>2 DEF Mention
  <2> QED
    BY <1>2, <2>1 DEF Resolutions
<1>3. CASE m.type = "relative"
  <2>1. t = <<l, resolveRelativeReference(n, m.rel)>>
    BY <1>3 DEF Resolutions
  <2>2. resolveRelativeReference(n, m.rel) \in Targets \cup {NoArticle}
    BY TargetsAssumption DEF resolveRelativeReference
  <2> QED
    BY <1>3, <2>1, <2>2
<1>4. CASE m.type \notin {"external", "internal", "relative"}
  BY <1>4 DEF Resolutions
<1> QED
  BY <1>1, <1>2, <1>3, <1>4

(* The rows of an array after push, and of the two parts of a slice.       *)
LEMMA AppendedRows ==
  ASSUME NEW S, NEW s \in Seq(S), NEW r \in S
  PROVE  Append(s, r) \in Seq(S) /\ RowsOf(Append(s, r)) = RowsOf(s) \cup {r}
<1> DEFINE t == Append(s, r)
<1>1. Len(s) \in Nat /\ DOMAIN s = 1..Len(s)
  OBVIOUS
<1>2. t \in Seq(S) /\ DOMAIN t = 1..(Len(s) + 1) /\ t[Len(s) + 1] = r
      /\ \A i \in DOMAIN s : t[i] = s[i]
  OBVIOUS
<1>3. DOMAIN t = DOMAIN s \cup {Len(s) + 1}
  BY <1>1, <1>2
<1> HIDE DEF t
<1>4. RowsOf(t) = RowsOf(s) \cup {r}
  <2>1. ASSUME NEW i \in DOMAIN t PROVE t[i] \in RowsOf(s) \cup {r}
    BY <1>2, <1>3 DEF RowsOf
  <2>2. ASSUME NEW i \in DOMAIN s PROVE s[i] \in RowsOf(t)
    BY <1>2, <1>3 DEF RowsOf
  <2>3. r \in RowsOf(t)
    BY <1>2, <1>3 DEF RowsOf
  <2> QED
    BY <2>1, <2>2, <2>3 DEF RowsOf
<1> QED
  BY <1>2, <1>4 DEF t

(* The rows of a batch, and those after it.                                *)
LEMMA SlicedRows ==
  ASSUME NEW S, NEW s \in Seq(S), NEW b \in Nat, b < Len(s)
  PROVE  /\ SubSeq(s, b + 1, Len(s)) \in Seq(S)
         /\ SubSeq(s, b + 1, Len(s)) # <<>>
         /\ RowsOf(SubSeq(s, 1, b)) \cup RowsOf(SubSeq(s, b + 1, Len(s))) = RowsOf(s)
<1> DEFINE L == Len(s)
           u == SubSeq(s, 1, b)
           v == SubSeq(s, b + 1, L)
<1>1. L \in Nat /\ DOMAIN s = 1..L /\ b < L /\ \A i \in 1..L : s[i] \in S
  OBVIOUS
<1>2. DOMAIN u = 1..b /\ \A i \in 1..b : u[i] = s[i]
  BY <1>1
<1>3. v \in Seq(S) /\ Len(v) = L - b /\ DOMAIN v = 1..(L - b)
      /\ \A i \in 1..(L - b) : v[i] = s[b + i]
  <2>1. v \in Seq(S)
    BY <1>1
  <2>2. Len(v) = L - b
    <3>1. b + 1 \in Int /\ L \in Int /\ b + 1 <= L
      BY <1>1
    <3>2. Len(v) = L - (b + 1) + 1
      BY <3>1
    <3>3. L - (b + 1) + 1 = L - b
      BY <3>1
    <3> HIDE DEF L, v
    <3> QED
      BY <3>2, <3>3
  <2>3. ASSUME NEW i \in 1..(L - b) PROVE v[i] = s[b + i]
    <3>1. v[i] = s[(b + 1) + i - 1]
      BY <1>1
    <3>2. (b + 1) + i - 1 = b + i
      BY <1>1
    <3> QED
      BY <3>1, <3>2
  <2> QED
    BY <2>1, <2>2, <2>3
<1> HIDE DEF L, u, v
<1>4. v # <<>>
  BY <1>1, <1>3
<1>5. \A i \in 1..b : i \in 1..L
  BY <1>1
<1>6. \A i \in 1..(L - b) : b + i \in 1..L
  BY <1>1
<1>7. \A i \in 1..L : i \in 1..b \/ (i - b \in 1..(L - b) /\ b + (i - b) = i)
  BY <1>1
<1>8. RowsOf(u) \cup RowsOf(v) = RowsOf(s)
  <2>1. RowsOf(u) \subseteq RowsOf(s)
    BY <1>1, <1>2, <1>5 DEF RowsOf
  <2>2. RowsOf(v) \subseteq RowsOf(s)
    BY <1>1, <1>3, <1>6 DEF RowsOf
  <2>3. ASSUME NEW i \in 1..L PROVE s[i] \in RowsOf(u) \cup RowsOf(v)
    BY <1>2, <1>3, <1>7 DEF RowsOf
  <2> QED
    BY <1>1, <2>1, <2>2, <2>3 DEF RowsOf
<1> QED
  BY <1>3, <1>4, <1>8 DEF L, u, v

-----------------------------------------------------------------------------
(* Before any detection.                                                   *)
LEMMA DetectInitially == DetectInit => DetectInv
<1> SUFFICES ASSUME DetectInit PROVE DetectInv
  OBVIOUS
<1>1. DetectTypeOK
  <2>1. NoArticles \in [Numbers -> ArticleRow \cup {NoRow}]
    BY DEF NoArticles
  <2> QED
    BY <2>1 DEF DetectInit, DetectTypeOK
<1>2. \A p \in Detectors : DetectorInv(p)
  BY DEF DetectInit, DetectorInv, FromEdition, NoArticles, RowsOf
<1>3. \A l \in Laws : WritersInv(l) /\ RowsInv(l)
  BY DEF DetectInit, WritersInv, RowsInv, Saving
<1>4. EveryMentionOnce
  BY DEF DetectInit, EveryMentionOnce
<1> QED
  BY <1>1, <1>2, <1>3, <1>4 DEF DetectInv

(* A detector that does not step keeps its part.                           *)
LEMMA OtherDetector ==
  ASSUME NEW q \in Detectors, DetectorInv(q),
         dpc'[q] = dpc[q], dtodo'[q] = dtodo[q], snap'[q] = snap[q], seen'[q] = seen[q],
         cur'[q] = cur[q], at'[q] = at[q], found'[q] = found[q]
  PROVE  DetectorInv(q)'
BY DEF DetectorInv, LoopInv, FromEdition, ArticleMentions, dlaw, InText, WithinLaw

(* Whoever changes the articles does not disturb the detectors.            *)
LEMMA DetectUndisturbed ==
  ASSUME DetectInv, UNCHANGED detectVars
  PROVE  DetectInv'
<1> USE DEF DetectInv, detectVars
<1>1. DetectTypeOK'
  BY DEF DetectTypeOK
<1>2. \A p \in Detectors : DetectorInv(p)'
  BY OtherDetector
<1>3. \A l \in Laws : WritersInv(l)' /\ RowsInv(l)'
  BY DEF WritersInv, RowsInv, Pending, Saving, dlaw, InText, WithinLaw
<1>4. EveryMentionOnce'
  BY DEF EveryMentionOnce
<1> QED
  BY <1>1, <1>2, <1>3, <1>4

(* A step outside the writing of rows keeps what is known of the tables.   *)
LEMMA QuietStep ==
  ASSUME DetectInv, NEW p \in Detectors, UNCHANGED <<reference, historyVars>>,
         dpc[p] # "save", dpc'[p] # "save",
         \A q \in Detectors \ {p} :
           dpc'[q] = dpc[q] /\ dtodo'[q] = dtodo[q] /\ found'[q] = found[q]
  PROVE  (\A l \in Laws : WritersInv(l)' /\ RowsInv(l)') /\ EveryMentionOnce'
<1> USE DEF historyVars
<1>1. \A q \in Detectors, l \in Laws : Saving(q, l)' <=> Saving(q, l)
  BY DEF Saving, dlaw
<1>2. \A q \in Detectors, l \in Laws : Saving(q, l) => found'[q] = found[q]
  BY DEF Saving
<1>3. ASSUME NEW l \in Laws PROVE WritersInv(l)'
  BY <1>1, <1>2 DEF DetectInv, WritersInv
<1>4. ASSUME NEW l \in Laws PROVE RowsInv(l)'
  <2>1. owner[l] # Nobody => Pending(l)' = Pending(l)
    BY <1>1, <1>2 DEF DetectInv, DetectTypeOK, Pending
  <2> QED
    BY <2>1 DEF DetectInv, RowsInv, InText, WithinLaw
<1>5. EveryMentionOnce'
  BY DEF DetectInv, EveryMentionOnce
<1> QED
  BY <1>3, <1>4, <1>5

(* main() goes on to the next law, or ends, with everything forgotten.     *)
LEMMA ForgottenDetector ==
  ASSUME DetectInv, NEW p \in Detectors, Forget(p)
  PROVE  /\ snap'[p] = NoArticles /\ seen'[p] = {} /\ cur'[p] = NoArticle /\ at'[p] = 0
         /\ found'[p] = <<>>
         /\ \A q \in Detectors \ {p} :
              snap'[q] = snap[q] /\ seen'[q] = seen[q] /\ cur'[q] = cur[q] /\ at'[q] = at[q]
              /\ found'[q] = found[q]
         /\ snap' \in [Detectors -> [Numbers -> ArticleRow \cup {NoRow}]]
         /\ seen' \in [Detectors -> SUBSET Numbers]
         /\ cur' \in [Detectors -> Numbers \cup {NoArticle}]
         /\ at' \in [Detectors -> Nat]
         /\ found' \in [Detectors -> Seq(ReferenceRow)]
         /\ dpc'[p] \in {"idle", "read"} => DetectorInv(p)'
<1> USE DEF DetectInv, DetectTypeOK
<1>1. NoArticles \in [Numbers -> ArticleRow \cup {NoRow}]
  BY DEF NoArticles
<1>2. <<>> \in Seq(ReferenceRow)
  OBVIOUS
<1>3. /\ snap'[p] = NoArticles /\ seen'[p] = {} /\ cur'[p] = NoArticle /\ at'[p] = 0
      /\ found'[p] = <<>>
      /\ \A q \in Detectors \ {p} :
           snap'[q] = snap[q] /\ seen'[q] = seen[q] /\ cur'[q] = cur[q] /\ at'[q] = at[q]
           /\ found'[q] = found[q]
  BY DEF Forget
<1>4. /\ snap' \in [Detectors -> [Numbers -> ArticleRow \cup {NoRow}]]
      /\ seen' \in [Detectors -> SUBSET Numbers]
      /\ cur' \in [Detectors -> Numbers \cup {NoArticle}]
      /\ at' \in [Detectors -> Nat]
      /\ found' \in [Detectors -> Seq(ReferenceRow)]
  BY <1>1, <1>2 DEF Forget
<1>5. dpc'[p] \in {"idle", "read"} => DetectorInv(p)'
  BY <1>3 DEF DetectorInv, FromEdition, NoArticles, RowsOf
<1> QED
  BY <1>3, <1>4, <1>5

(* A detector goes on to its next law, or ends.                            *)
LEMMA NextLawType ==
  ASSUME DetectInv, NEW p \in Detectors, dpc[p] # "idle", DetectNextLaw(p)
  PROVE  /\ dpc' \in [Detectors -> {"idle", "read", "detect", "save"}]
         /\ dtodo' \in [Detectors -> Seq(Laws)]
         /\ dpc'[p] \in {"idle", "read"} /\ (dpc'[p] # "idle" => dtodo'[p] # <<>>)
         /\ \A q \in Detectors \ {p} : dpc'[q] = dpc[q] /\ dtodo'[q] = dtodo[q]
<1> USE DEF DetectInv, DetectTypeOK
<1>1. dtodo[p] \in Seq(Laws) /\ dtodo[p] # <<>>
  OBVIOUS
<1>2. Tail(dtodo[p]) \in Seq(Laws)
  BY <1>1
<1> QED
  BY <1>2 DEF DetectNextLaw

-----------------------------------------------------------------------------
(* A detector gets its list of laws.                                       *)
LEMMA StartDetectionStep ==
  ASSUME DetectInv, NEW p \in Detectors, StartDetection(p)
  PROVE  DetectInv'
<1> USE DEF DetectInv
<1>1. PICK list \in {MajorLaws} \cup {<<l>> : l \in Laws} :
        list # <<>> /\ dtodo' = [dtodo EXCEPT ![p] = list]
  BY DEF StartDetection
<1>2. list \in Seq(Laws)
  BY MajorLawsAssumption
<1>3. /\ dpc[p] = "idle" /\ dpc' = [dpc EXCEPT ![p] = "read"]
      /\ UNCHANGED <<reference, snap, seen, cur, at, found, historyVars>>
  BY DEF StartDetection
<1>4. DetectTypeOK'
  BY <1>1, <1>2, <1>3 DEF DetectTypeOK, historyVars
<1>5. \A q \in Detectors \ {p} : dpc'[q] = dpc[q] /\ dtodo'[q] = dtodo[q]
  BY <1>1, <1>3 DEF DetectTypeOK
<1>6. DetectorInv(p)'
  <2>1. seen'[p] = {} /\ cur'[p] = NoArticle /\ at'[p] = 0 /\ found'[p] = <<>>
        /\ dpc'[p] = "read" /\ FromEdition(snap[p]) /\ snap'[p] = snap[p]
    BY <1>3 DEF DetectorInv, DetectTypeOK
  <2> QED
    BY <2>1 DEF DetectorInv, FromEdition, RowsOf
<1>7. \A q \in Detectors : DetectorInv(q)'
  BY <1>3, <1>5, <1>6, OtherDetector
<1>8. (\A l \in Laws : WritersInv(l)' /\ RowsInv(l)') /\ EveryMentionOnce'
  <2>1. dpc'[p] = "read"
    BY <1>3 DEF DetectTypeOK
  <2> QED
    BY <1>3, <1>5, <2>1, QuietStep
<1> QED
  BY <1>4, <1>7, <1>8

(* The step to the next law, for any reason but a last batch.              *)
LEMMA NextLawStep ==
  ASSUME DetectInv, NEW p \in Detectors, dpc[p] \notin {"idle", "save"}, DetectNextLaw(p),
         UNCHANGED <<reference, historyVars>>
  PROVE  DetectInv'
<1> USE DEF DetectInv
<1>1. Forget(p)
  BY DEF DetectNextLaw
<1>2. /\ dpc' \in [Detectors -> {"idle", "read", "detect", "save"}]
      /\ dtodo' \in [Detectors -> Seq(Laws)]
      /\ dpc'[p] \in {"idle", "read"} /\ (dpc'[p] # "idle" => dtodo'[p] # <<>>)
      /\ \A q \in Detectors \ {p} : dpc'[q] = dpc[q] /\ dtodo'[q] = dtodo[q]
  BY NextLawType
<1>3. /\ \A q \in Detectors \ {p} :
           snap'[q] = snap[q] /\ seen'[q] = seen[q] /\ cur'[q] = cur[q] /\ at'[q] = at[q]
           /\ found'[q] = found[q]
      /\ snap' \in [Detectors -> [Numbers -> ArticleRow \cup {NoRow}]]
      /\ seen' \in [Detectors -> SUBSET Numbers]
      /\ cur' \in [Detectors -> Numbers \cup {NoArticle}]
      /\ at' \in [Detectors -> Nat]
      /\ found' \in [Detectors -> Seq(ReferenceRow)]
      /\ DetectorInv(p)'
  BY <1>1, <1>2, ForgottenDetector
<1>4. DetectTypeOK'
  <2>1. /\ \A q \in Detectors : dpc'[q] # "idle" => dtodo'[q] # <<>>
        /\ \A q \in Detectors : dpc'[q] = "save" => found'[q] # <<>>
    BY <1>2, <1>3 DEF DetectTypeOK
  <2> QED
    BY <1>2, <1>3, <2>1 DEF DetectTypeOK, historyVars
<1>5. \A q \in Detectors : DetectorInv(q)'
  BY <1>2, <1>3, OtherDetector
<1>6. (\A l \in Laws : WritersInv(l)' /\ RowsInv(l)') /\ EveryMentionOnce'
  <2>1. dpc[p] # "save" /\ dpc'[p] # "save"
    BY <1>2
  <2> QED
    BY <1>2, <1>3, <2>1, QuietStep
<1> QED
  BY <1>4, <1>5, <1>6

(* findFirst gives a detector the articles as they are.                    *)
LEMMA ReadArticlesStep ==
  ASSUME ArticlesInv, DetectInv, NEW p \in Detectors, ReadArticles(p)
  PROVE  DetectInv'
<1> USE DEF DetectInv
<1>1. dpc[p] = "read" /\ UNCHANGED <<reference, historyVars>>
  BY DEF ReadArticles
<1>2. CASE xmlContent[dlaw(p)] = NoVersion
  BY <1>1, <1>2, NextLawStep DEF ReadArticles
<1>3. CASE xmlContent[dlaw(p)] # NoVersion
  <2>1. /\ snap' = [snap EXCEPT ![p] = article[dlaw(p)]]
        /\ dpc' = [dpc EXCEPT ![p] = "detect"]
        /\ UNCHANGED <<dtodo, seen, cur, at, found>>
    BY <1>3 DEF ReadArticles
  <2>2. dlaw(p) \in Laws
    <3>1. dtodo[p] \in Seq(Laws) /\ dtodo[p] # <<>>
      BY <1>1 DEF DetectTypeOK
    <3> QED
      BY <3>1 DEF dlaw
  <2>3. article[dlaw(p)] \in [Numbers -> ArticleRow \cup {NoRow}] /\ FromEdition(article[dlaw(p)])
    BY <2>2 DEF ArticlesInv
  <2>4. DetectTypeOK'
    BY <1>1, <2>1, <2>3 DEF DetectTypeOK, historyVars
  <2>5. snap'[p] = article[dlaw(p)] /\ dpc'[p] = "detect"
        /\ \A q \in Detectors \ {p} : dpc'[q] = dpc[q] /\ snap'[q] = snap[q]
    BY <2>1 DEF DetectTypeOK
  <2>6. seen[p] = {} /\ cur[p] = NoArticle /\ at[p] = 0 /\ found[p] = <<>>
    BY <1>1 DEF DetectorInv
  <2>7. ArticleMentions(p)' = <<>>
    BY <2>1, <2>6 DEF ArticleMentions
  <2>8. LoopInv(p)'
    BY <2>1, <2>6, <2>7 DEF LoopInv, RowsOf
  <2>9. DetectorInv(p)'
    BY <2>1, <2>3, <2>5, <2>6, <2>8 DEF DetectorInv, FromEdition, RowsOf
  <2>10. \A q \in Detectors : DetectorInv(q)'
    BY <2>1, <2>5, <2>9, OtherDetector
  <2>11. (\A l \in Laws : WritersInv(l)' /\ RowsInv(l)') /\ EveryMentionOnce'
    BY <1>1, <2>1, <2>5, QuietStep
  <2> QED
    BY <2>4, <2>10, <2>11
<1> QED
  BY <1>2, <1>3

(* The loop goes on to another article of the snapshot.                    *)
LEMMA NextArticleStep ==
  ASSUME DetectInv, NEW p \in Detectors, NextArticle(p)
  PROVE  DetectInv'
<1> USE DEF DetectInv
<1>1. PICK n \in Unseen(p) : /\ cur' = [cur EXCEPT ![p] = n]
                             /\ seen' = [seen EXCEPT ![p] = @ \cup {n}]
  BY DEF NextArticle
<1>2. /\ dpc[p] = "detect" /\ at[p] = Len(ArticleMentions(p))
      /\ at' = [at EXCEPT ![p] = 0]
      /\ UNCHANGED <<reference, dpc, dtodo, snap, found, historyVars>>
  BY DEF NextArticle
<1>3. n \in Numbers /\ n \notin seen[p] /\ n # NoArticle
  BY TargetsAssumption DEF Unseen
<1>4. DetectTypeOK'
  BY <1>1, <1>2, <1>3 DEF DetectTypeOK, historyVars
<1>5. cur'[p] = n /\ seen'[p] = seen[p] \cup {n} /\ at'[p] = 0
      /\ \A q \in Detectors \ {p} : cur'[q] = cur[q] /\ seen'[q] = seen[q] /\ at'[q] = at[q]
  BY <1>1, <1>2 DEF DetectTypeOK
<1>6. FromEdition(snap[p]) /\ LoopInv(p) /\ snap[p] \in [Numbers -> ArticleRow \cup {NoRow}]
      /\ seen[p] \subseteq Numbers
  BY <1>2 DEF DetectorInv, DetectTypeOK
<1>7. MentionsOf(snap[p][n]) \in Seq(Mention) /\ ArticleMentions(p)' = MentionsOf(snap[p][n])
  BY <1>2, <1>3, <1>5, <1>6, MentionsInText DEF ArticleMentions
<1>8. \A m \in seen[p] : \A i \in DOMAIN MentionsOf(snap[p][m]) :
        \E r \in RowsOf(found[p]) :
          r.src = m /\ r.at = i /\ r.mention = MentionsOf(snap[p][m])[i]
  <2> SUFFICES ASSUME NEW m \in seen[p], NEW i \in DOMAIN MentionsOf(snap[p][m])
               PROVE  m # cur[p] \/ i <= at[p]
    BY <1>6 DEF LoopInv
  <2>1. CASE m = cur[p]
    <3>1. ArticleMentions(p) = MentionsOf(snap[p][m]) /\ ArticleMentions(p) \in Seq(Mention)
      BY <1>6, <2>1, ArticleMentionsInText, TargetsAssumption
    <3> QED
      BY <1>2, <3>1
  <2> QED
    BY <2>1
<1>9. LoopInv(p)'
  <2>1. ASSUME NEW m \in seen'[p], NEW i \in DOMAIN MentionsOf(snap[p][m]), m # n \/ i <= 0
        PROVE  \E r \in RowsOf(found[p]) :
                 r.src = m /\ r.at = i /\ r.mention = MentionsOf(snap[p][m])[i]
    <3>1. m # n
      BY <1>7, <2>1
    <3> QED
      BY <1>5, <1>8, <3>1
  <2>2. \A r \in RowsOf(found[p]) : r.src \in seen'[p] /\ r.src # n
    BY <1>3, <1>5, <1>6 DEF LoopInv
  <2>3. \A r, s \in RowsOf(found[p]) : r.src = s.src /\ r.at = s.at => r = s
    BY <1>6 DEF LoopInv
  <2>4. 0 <= Len(MentionsOf(snap[p][n]))
    BY <1>7
  <2>5. snap' = snap /\ found' = found
    BY <1>2
  <2> QED
    BY <1>3, <1>5, <1>7, <2>1, <2>2, <2>3, <2>4, <2>5 DEF LoopInv
<1>10. DetectorInv(p)'
  BY <1>2, <1>6, <1>9 DEF DetectorInv, FromEdition, dlaw, InText, WithinLaw
<1>11. \A q \in Detectors : DetectorInv(q)'
  BY <1>2, <1>5, <1>10, OtherDetector
<1>12. (\A l \in Laws : WritersInv(l)' /\ RowsInv(l)') /\ EveryMentionOnce'
  BY <1>2, QuietStep
<1> QED
  BY <1>4, <1>11, <1>12

(* A mention gets its row.                                                 *)
LEMMA ResolveMentionStep ==
  ASSUME DetectInv, NEW p \in Detectors, ResolveMention(p)
  PROVE  DetectInv'
<1> USE DEF DetectInv
<1> DEFINE m == ArticleMentions(p)[at[p] + 1]
<1>1. PICK t \in Resolutions(dlaw(p), cur[p], m) :
        found' = [found EXCEPT ![p] = Append(@,
          [by |-> p, src |-> cur[p], at |-> at[p] + 1, mention |-> m,
           law |-> t[1], art |-> t[2]])]
  BY DEF ResolveMention
<1> DEFINE r0 == [by |-> p, src |-> cur[p], at |-> at[p] + 1, mention |-> m,
                  law |-> t[1], art |-> t[2]]
<1>2. /\ dpc[p] = "detect" /\ at[p] < Len(ArticleMentions(p))
      /\ at' = [at EXCEPT ![p] = @ + 1]
      /\ UNCHANGED <<reference, dpc, dtodo, snap, seen, cur, historyVars>>
  BY DEF ResolveMention
<1>3. FromEdition(snap[p]) /\ LoopInv(p) /\ snap[p] \in [Numbers -> ArticleRow \cup {NoRow}]
      /\ at[p] \in Nat /\ found[p] \in Seq(ReferenceRow)
  BY <1>2 DEF DetectorInv, DetectTypeOK
<1>4. /\ ArticleMentions(p) \in Seq(Mention)
      /\ cur[p] # NoArticle => /\ cur[p] \in Numbers
                               /\ ArticleMentions(p) = MentionsOf(snap[p][cur[p]])
  BY <1>3, ArticleMentionsInText
<1>5. at[p] + 1 \in DOMAIN ArticleMentions(p)
  BY <1>2, <1>3, <1>4
<1>6. cur[p] # NoArticle
  BY <1>5 DEF ArticleMentions
<1>7. m \in Mention
  BY <1>4, <1>5
<1>8. dlaw(p) \in Laws
  <2>1. dtodo[p] \in Seq(Laws) /\ dtodo[p] # <<>>
    BY <1>2 DEF DetectTypeOK
  <2> QED
    BY <2>1 DEF dlaw
<1>9. InText(r0)
  <2>1. snap[p][cur[p]] # NoRow
    BY <1>4, <1>5, <1>6 DEF MentionsOf
  <2>2. PICK d \in Docs : \E k \in DOMAIN Extract[d] :
          Extract[d][k].num = cur[p] /\ MentionsOf(snap[p][cur[p]]) = Mentions[d][k]
    BY <1>3, <1>4, <1>6, <2>1, MentionsInText
  <2>3. PICK k \in DOMAIN Extract[d] :
          Extract[d][k].num = cur[p] /\ MentionsOf(snap[p][cur[p]]) = Mentions[d][k]
    BY <2>2
  <2>4. m \in RowsOf(Mentions[d][k])
    BY <1>4, <1>5, <1>6, <2>3 DEF RowsOf
  <2> QED
    BY <2>3, <2>4 DEF InText
<1>10. t[1] \in Laws \cup {NoLaw} /\ t[2] \in Targets \cup {NoArticle}
       /\ (m.type = "internal" => t[1] = dlaw(p) /\ t[2] = m.art)
  BY <1>4, <1>6, <1>7, <1>8, ResolutionsType
<1> HIDE DEF m
<1>11. r0 \in ReferenceRow /\ r0.by = p /\ WithinLaw(dlaw(p), r0)
       /\ r0.src = cur[p] /\ r0.at = at[p] + 1 /\ r0.mention = m
  BY <1>3, <1>4, <1>6, <1>7, <1>10 DEF ReferenceRow, WithinLaw
<1>12. found' = [found EXCEPT ![p] = Append(found[p], r0)]
  BY <1>1
<1> HIDE DEF r0
<1>13. Append(found[p], r0) \in Seq(ReferenceRow)
       /\ RowsOf(Append(found[p], r0)) = RowsOf(found[p]) \cup {r0}
  BY <1>3, <1>11, AppendedRows
<1>14. found'[p] = Append(found[p], r0) /\ at'[p] = at[p] + 1
       /\ \A q \in Detectors \ {p} : found'[q] = found[q] /\ at'[q] = at[q]
  BY <1>2, <1>12 DEF DetectTypeOK
<1>15. DetectTypeOK'
  BY <1>2, <1>12, <1>13 DEF DetectTypeOK, historyVars
<1>16. ArticleMentions(p)' = ArticleMentions(p)
  BY <1>2 DEF ArticleMentions
<1>17. LoopInv(p)'
  <2>1. at'[p] <= Len(ArticleMentions(p))
    BY <1>2, <1>3, <1>4, <1>14
  <2>2. ASSUME NEW n \in seen[p], NEW i \in DOMAIN MentionsOf(snap[p][n]),
               n # cur[p] \/ i <= at[p] + 1
        PROVE  \E r \in RowsOf(found[p]) \cup {r0} :
                 r.src = n /\ r.at = i /\ r.mention = MentionsOf(snap[p][n])[i]
    <3>1. CASE n # cur[p] \/ i <= at[p]
      BY <1>3, <3>1 DEF LoopInv
    <3>2. CASE n = cur[p] /\ ~ (i <= at[p])
      <4>1. i \in Int
        BY <1>4, <1>6, <3>2
      <4>2. i = at[p] + 1
        BY <1>3, <2>2, <3>2, <4>1
      <4> QED
        BY <1>4, <1>6, <1>11, <3>2, <4>2 DEF m
    <3> QED
      BY <3>1, <3>2
  <2>3. ASSUME NEW r \in RowsOf(found[p])
        PROVE  /\ r.src \in seen[p] /\ (r.src = cur[p] => r.at <= at[p] + 1)
               /\ ~ (r.src = r0.src /\ r.at = r0.at)
    <3>1. r.src \in seen[p] /\ (r.src = cur[p] => r.at <= at[p]) /\ r \in ReferenceRow
      BY <1>3 DEF LoopInv, RowsOf
    <3> QED
      BY <1>3, <1>11, <3>1 DEF ReferenceRow
  <2>4. r0.src \in seen[p] /\ r0.at <= at[p] + 1
    BY <1>3, <1>6, <1>11 DEF LoopInv
  <2>5. \A r, s \in RowsOf(found[p]) \cup {r0} : r.src = s.src /\ r.at = s.at => r = s
    BY <1>3, <2>3 DEF LoopInv
  <2>6. /\ snap' = snap /\ seen' = seen /\ cur' = cur
        /\ RowsOf(found'[p]) = RowsOf(found[p]) \cup {r0}
    BY <1>2, <1>13, <1>14
  <2>7. /\ cur[p] = NoArticle => seen[p] = {}
        /\ cur[p] # NoArticle => cur[p] \in seen[p]
    BY <1>3 DEF LoopInv
  <2>8. \A r \in RowsOf(found[p]) \cup {r0} :
          r.src \in seen[p] /\ (r.src = cur[p] => r.at <= at[p] + 1)
    BY <2>3, <2>4
  <2> QED
    BY <1>14, <1>16, <2>1, <2>2, <2>5, <2>6, <2>7, <2>8 DEF LoopInv
<1>18. DetectorInv(p)'
  <2>1. \A r \in RowsOf(found[p]) \cup {r0} : r.by = p /\ InText(r) /\ WithinLaw(dlaw(p), r)
    BY <1>9, <1>11 DEF DetectorInv
  <2> QED
    BY <1>2, <1>3, <1>13, <1>14, <1>17, <2>1 DEF DetectorInv, FromEdition, dlaw, InText, WithinLaw
<1>19. \A q \in Detectors : DetectorInv(q)'
  BY <1>2, <1>14, <1>18, OtherDetector
<1>20. (\A l \in Laws : WritersInv(l)' /\ RowsInv(l)') /\ EveryMentionOnce'
  BY <1>2, <1>14, QuietStep
<1> QED
  BY <1>15, <1>19, <1>20

(* deleteMany: the detector becomes the owner of the law's rows.           *)
LEMMA DeleteReferencesStep ==
  ASSUME DetectInv, NEW p \in Detectors, DeleteReferences(p)
  PROVE  DetectInv'
<1> USE DEF DetectInv
<1> DEFINE l0 == dlaw(p)
<1>1. /\ dpc[p] = "detect" /\ at[p] = Len(ArticleMentions(p)) /\ Unseen(p) = {}
      /\ found[p] # <<>>
      /\ reference' = [reference EXCEPT ![l0] = {}]
      /\ dpc' = [dpc EXCEPT ![p] = "save"]
      /\ owner' = [owner EXCEPT ![l0] = p]
      /\ expected' = [expected EXCEPT ![l0] = RowsOf(found[p])]
      /\ basis' = [basis EXCEPT ![l0] = snap[p]]
      /\ overlap' = [overlap EXCEPT ![l0] = {q \in Detectors : Saving(q, l0)}]
      /\ cut' = [cut EXCEPT ![l0] = FALSE]
      /\ UNCHANGED <<dtodo, snap, seen, cur, at, found>>
  BY DEF DeleteReferences, Detected
<1>2. l0 \in Laws
  <2>1. dtodo[p] \in Seq(Laws) /\ dtodo[p] # <<>>
    BY <1>1 DEF DetectTypeOK
  <2> QED
    BY <2>1 DEF dlaw
<1>3. RowsOf(found[p]) \subseteq ReferenceRow
  BY DEF RowsOf, DetectTypeOK
<1>4. DetectTypeOK'
  BY <1>1, <1>2, <1>3 DEF DetectTypeOK
<1>5. dpc'[p] = "save" /\ \A q \in Detectors \ {p} : dpc'[q] = dpc[q]
  BY <1>1 DEF DetectTypeOK
<1>6. DetectorInv(p)'
  <2>1. FromEdition(snap[p])
        /\ \A r \in RowsOf(found[p]) : r.by = p /\ InText(r) /\ WithinLaw(dlaw(p), r)
    BY DEF DetectorInv
  <2> QED
    BY <1>1, <1>5, <2>1 DEF DetectorInv, FromEdition, dlaw, InText, WithinLaw
<1>7. \A q \in Detectors : DetectorInv(q)'
  BY <1>1, <1>5, <1>6, OtherDetector
<1>8. /\ \A q \in Detectors \ {p}, l \in Laws : Saving(q, l)' <=> Saving(q, l)
      /\ \A l \in Laws : ~Saving(p, l) /\ (Saving(p, l)' <=> l = l0)
  BY <1>1, <1>5 DEF Saving, dlaw
<1>9. /\ reference'[l0] = {} /\ owner'[l0] = p /\ expected'[l0] = RowsOf(found[p])
      /\ basis'[l0] = snap[p] /\ overlap'[l0] = {q \in Detectors : Saving(q, l0)}
      /\ \A l \in Laws \ {l0} : /\ reference'[l] = reference[l] /\ owner'[l] = owner[l]
                                /\ expected'[l] = expected[l] /\ basis'[l] = basis[l]
                                /\ overlap'[l] = overlap[l] /\ cut'[l] = cut[l]
  BY <1>1, <1>2 DEF DetectTypeOK
<1>10. p # Nobody
  BY NamesAssumption
<1> HIDE DEF l0
<1>11. ASSUME NEW l \in Laws PROVE WritersInv(l)'
  <2>1. CASE l = l0
    BY <1>1, <1>8, <1>9, <1>10, <2>1 DEF WritersInv
  <2>2. CASE l # l0
    BY <1>1, <1>8, <1>9, <2>2 DEF WritersInv
  <2> QED
    BY <2>1, <2>2
<1>12. ASSUME NEW l \in Laws PROVE RowsInv(l)'
  <2>1. CASE l = l0
    <3>1. Pending(l)' = RowsOf(found[p])
      BY <1>1, <1>2, <1>8, <1>9, <2>1 DEF Pending
    <3>2. \A r \in RowsOf(found[p]) : WithinLaw(l, r)
      BY <2>1 DEF DetectorInv, l0
    <3> QED
      BY <1>9, <2>1, <3>1, <3>2 DEF RowsInv, WithinLaw
  <2>2. CASE l # l0
    <3>1. owner[l] # Nobody => Pending(l)' = Pending(l)
      BY <1>1, <1>5, <1>8, <1>9, <2>2 DEF Pending, DetectTypeOK, Saving, dlaw
    <3> QED
      BY <1>9, <2>2, <3>1 DEF RowsInv, InText, WithinLaw
  <2> QED
    BY <2>1, <2>2
<1>13. EveryMentionOnce'
  <2>1. FromEdition(snap[p]) /\ LoopInv(p) /\ snap[p] \in [Numbers -> ArticleRow \cup {NoRow}]
    BY <1>1 DEF DetectorInv, DetectTypeOK
  <2>2. ASSUME NEW n \in Numbers, NEW i \in DOMAIN MentionsOf(snap[p][n])
        PROVE  \E r \in RowsOf(found[p]) :
                 r.src = n /\ r.at = i /\ r.mention = MentionsOf(snap[p][n])[i]
    <3>1. snap[p][n] # NoRow
      BY <2>2 DEF MentionsOf
    <3>2. n \in seen[p]
      BY <1>1, <3>1 DEF Unseen
    <3>3. CASE n = cur[p]
      <4>1. ArticleMentions(p) = MentionsOf(snap[p][n]) /\ ArticleMentions(p) \in Seq(Mention)
        BY <2>1, <3>3, ArticleMentionsInText, TargetsAssumption
      <4>2. i <= at[p]
        BY <1>1, <2>2, <4>1
      <4> QED
        BY <2>1, <3>2, <4>2 DEF LoopInv
    <3>4. CASE n # cur[p]
      BY <2>1, <3>2, <3>4 DEF LoopInv
    <3> QED
      BY <3>3, <3>4
  <2>3. \A r, s \in RowsOf(found[p]) : r.src = s.src /\ r.at = s.at => r = s
    BY <2>1 DEF LoopInv
  <2>4. ASSUME NEW l \in Laws, owner'[l] # Nobody
        PROVE  /\ \A n \in Numbers : \A i \in DOMAIN MentionsOf(basis'[l][n]) :
                    \E r \in expected'[l] :
                      r.src = n /\ r.at = i /\ r.mention = MentionsOf(basis'[l][n])[i]
               /\ \A r, s \in expected'[l] : r.src = s.src /\ r.at = s.at => r = s
    <3>1. CASE l = l0
      <4>1. basis'[l] = snap[p] /\ expected'[l] = RowsOf(found[p])
        BY <1>9, <3>1
      <4> HIDE DEF DetectInv
      <4> QED
        BY <2>2, <2>3, <4>1
    <3>2. CASE l # l0
      BY <1>9, <2>4, <3>2 DEF EveryMentionOnce
    <3> QED
      BY <3>1, <3>2
  <2> QED
    BY <2>4 DEF EveryMentionOnce
<1> QED
  BY <1>4, <1>7, <1>11, <1>12, <1>13

(* A batch of rows goes from the detector's array to the table: what the   *)
(* owner had is in one or the other.                                       *)
LEMMA BatchStored ==
  ASSUME DetectInv, NEW p \in Detectors, dpc[p] = "save",
         NEW new \in SUBSET RowsOf(found[p]),
         reference' = [reference EXCEPT ![dlaw(p)] = @ \cup new],
         UNCHANGED historyVars,
         \A q \in Detectors \ {p} : dpc'[q] = dpc[q] /\ dtodo'[q] = dtodo[q] /\ found'[q] = found[q],
         \/ dpc'[p] # "save" /\ new = RowsOf(found[p])
         \/ dpc'[p] = "save" /\ dtodo'[p] = dtodo[p] /\ new \cup RowsOf(found'[p]) = RowsOf(found[p])
  PROVE  (\A l \in Laws : WritersInv(l)' /\ RowsInv(l)') /\ EveryMentionOnce'
<1> USE DEF DetectInv, historyVars
<1> DEFINE l0 == dlaw(p)
<1>1. l0 \in Laws
  <2>1. dtodo[p] \in Seq(Laws) /\ dtodo[p] # <<>>
    BY DEF DetectTypeOK
  <2> QED
    BY <2>1 DEF dlaw
<1>2. /\ \A q \in Detectors \ {p}, l \in Laws : Saving(q, l)' <=> Saving(q, l)
      /\ \A l \in Laws : Saving(p, l) <=> l = l0
      /\ \A l \in Laws : Saving(p, l)' => l = l0 /\ new \cup RowsOf(found'[p]) = RowsOf(found[p])
      /\ ~Saving(p, l0)' => new = RowsOf(found[p])
  BY DEF Saving, dlaw
<1>3. reference'[l0] = reference[l0] \cup new
      /\ \A l \in Laws \ {l0} : reference'[l] = reference[l]
  BY <1>1 DEF DetectTypeOK
<1>4. /\ owner[l0] # Nobody
      /\ owner[l0] = p => RowsOf(found[p]) \subseteq expected[l0]
      /\ owner[l0] # p => p \in overlap[l0]
  BY <1>1, <1>2 DEF WritersInv
<1>5. \A r \in new : r.by = p /\ InText(r)
  BY DEF DetectorInv
<1> HIDE DEF l0
<1>6. ASSUME NEW l \in Laws PROVE WritersInv(l)'
  BY <1>2 DEF WritersInv
<1>7. ASSUME NEW l \in Laws PROVE RowsInv(l)'
  <2>1. CASE l = l0
    <3>1. expected[l] \subseteq reference[l] \cup Pending(l)
          => expected[l] \subseteq reference'[l] \cup Pending(l)'
      <4>1. CASE owner[l] = p
        <5>1. Pending(l) = RowsOf(found[p])
          BY <1>2, <2>1, <4>1 DEF Pending
        <5>2. RowsOf(found[p]) \subseteq new \cup Pending(l)'
          <6>1. CASE Saving(p, l)'
            <7>1. owner'[l] = p
              BY <4>1
            <7>2. Pending(l)' = RowsOf(found'[p])
              BY <6>1, <7>1 DEF Pending, Saving, dlaw
            <7> QED
              BY <1>2, <6>1, <7>2
          <6>2. CASE ~Saving(p, l)'
            BY <1>2, <2>1, <6>2 DEF Saving, dlaw
          <6> QED
            BY <6>1, <6>2
        <5> QED
          BY <1>3, <2>1, <5>1, <5>2
      <4>2. CASE owner[l] # p
        <5>1. Pending(l)' = Pending(l)
          BY <1>2, <1>4, <2>1, <4>2 DEF Pending, DetectTypeOK
        <5> QED
          BY <1>3, <2>1, <5>1
      <4> QED
        BY <4>1, <4>2
    <3>2. \A r \in reference'[l] : InText(r) /\ (r \in expected[l] \/ r.by \in overlap[l])
      BY <1>3, <1>4, <1>5, <2>1 DEF RowsInv
    <3> QED
      BY <3>1, <3>2 DEF RowsInv, InText, WithinLaw
  <2>2. CASE l # l0
    <3>1. owner[l] # Nobody => Pending(l)' = Pending(l)
      BY <1>2, <2>2 DEF Pending, DetectTypeOK
    <3> QED
      BY <1>3, <2>2, <3>1 DEF RowsInv, InText, WithinLaw
  <2> QED
    BY <2>1, <2>2
<1>8. EveryMentionOnce'
  BY DEF EveryMentionOnce
<1> QED
  BY <1>6, <1>7, <1>8

(* A batch is stored.                                                      *)
LEMMA CreateManyStep ==
  ASSUME DetectInv, NEW p \in Detectors, CreateMany(p)
  PROVE  DetectInv'
<1> USE DEF DetectInv
<1>1. dpc[p] = "save" /\ UNCHANGED historyVars
  BY DEF CreateMany
<1>2. found[p] \in Seq(ReferenceRow) /\ RowsOf(found[p]) \subseteq ReferenceRow
  BY DEF DetectTypeOK, RowsOf
<1>3. dlaw(p) \in Laws
  <2>1. dtodo[p] \in Seq(Laws) /\ dtodo[p] # <<>>
    BY <1>1 DEF DetectTypeOK
  <2> QED
    BY <2>1 DEF dlaw
<1>4. CASE Len(found[p]) <= BatchSize
  <2>1. reference' = [reference EXCEPT ![dlaw(p)] = @ \cup RowsOf(found[p])]
        /\ DetectNextLaw(p) /\ Forget(p)
    BY <1>4 DEF CreateMany, DetectNextLaw
  <2>2. /\ dpc' \in [Detectors -> {"idle", "read", "detect", "save"}]
        /\ dtodo' \in [Detectors -> Seq(Laws)]
        /\ dpc'[p] \in {"idle", "read"} /\ (dpc'[p] # "idle" => dtodo'[p] # <<>>)
        /\ \A q \in Detectors \ {p} : dpc'[q] = dpc[q] /\ dtodo'[q] = dtodo[q]
    BY <1>1, <2>1, NextLawType
  <2>3. /\ \A q \in Detectors \ {p} :
             snap'[q] = snap[q] /\ seen'[q] = seen[q] /\ cur'[q] = cur[q] /\ at'[q] = at[q]
             /\ found'[q] = found[q]
        /\ snap' \in [Detectors -> [Numbers -> ArticleRow \cup {NoRow}]]
        /\ seen' \in [Detectors -> SUBSET Numbers]
        /\ cur' \in [Detectors -> Numbers \cup {NoArticle}]
        /\ at' \in [Detectors -> Nat]
        /\ found' \in [Detectors -> Seq(ReferenceRow)]
        /\ DetectorInv(p)'
    BY <2>1, <2>2, ForgottenDetector
  <2>4. DetectTypeOK'
    <3>1. /\ \A q \in Detectors : dpc'[q] # "idle" => dtodo'[q] # <<>>
          /\ \A q \in Detectors : dpc'[q] = "save" => found'[q] # <<>>
      BY <2>2, <2>3 DEF DetectTypeOK
    <3>2. reference' \in [Laws -> SUBSET ReferenceRow]
      BY <1>2, <1>3, <2>1 DEF DetectTypeOK
    <3> QED
      BY <1>1, <2>2, <2>3, <3>1, <3>2 DEF DetectTypeOK, historyVars
  <2>5. \A q \in Detectors : DetectorInv(q)'
    BY <2>2, <2>3, OtherDetector
  <2>6. (\A l \in Laws : WritersInv(l)' /\ RowsInv(l)') /\ EveryMentionOnce'
    <3>1. dpc'[p] # "save"
      BY <2>2
    <3> QED
      BY <1>1, <2>1, <2>2, <2>3, <3>1, BatchStored
  <2> QED
    BY <2>4, <2>5, <2>6
<1>5. CASE ~ (Len(found[p]) <= BatchSize)
  <2> DEFINE new  == RowsOf(SubSeq(found[p], 1, BatchSize))
             left == SubSeq(found[p], BatchSize + 1, Len(found[p]))
  <2>1. reference' = [reference EXCEPT ![dlaw(p)] = @ \cup new]
        /\ found' = [found EXCEPT ![p] = left]
        /\ UNCHANGED <<dpc, dtodo, snap, seen, cur, at>>
    BY <1>5 DEF CreateMany
  <2>2. left \in Seq(ReferenceRow) /\ left # <<>> /\ new \cup RowsOf(left) = RowsOf(found[p])
    <3>1. BatchSize \in Nat /\ BatchSize < Len(found[p])
      BY <1>2, <1>5, BatchSizeAssumption
    <3> QED
      BY <1>2, <3>1, SlicedRows
  <2> HIDE DEF new, left
  <2>3. found'[p] = left /\ \A q \in Detectors \ {p} : found'[q] = found[q]
    BY <2>1 DEF DetectTypeOK
  <2>4. DetectTypeOK'
    BY <1>1, <1>2, <1>3, <2>1, <2>2, <2>3 DEF DetectTypeOK, historyVars
  <2>5. DetectorInv(p)'
    <3>1. FromEdition(snap[p])
          /\ \A r \in RowsOf(left) : r.by = p /\ InText(r) /\ WithinLaw(dlaw(p), r)
      BY <2>2 DEF DetectorInv
    <3> QED
      BY <1>1, <2>1, <2>3, <3>1 DEF DetectorInv, FromEdition, dlaw, InText, WithinLaw
  <2>6. \A q \in Detectors : DetectorInv(q)'
    BY <2>1, <2>3, <2>5, OtherDetector
  <2>7. (\A l \in Laws : WritersInv(l)' /\ RowsInv(l)') /\ EveryMentionOnce'
    BY <1>1, <2>1, <2>2, <2>3, BatchStored
  <2> QED
    BY <2>4, <2>6, <2>7
<1> QED
  BY <1>4, <1>5

(* A statement rejects, or the process dies.                               *)
LEMMA DetectionFailsStep ==
  ASSUME DetectInv, NEW p \in Detectors, DetectionFails(p)
  PROVE  DetectInv'
<1> USE DEF DetectInv
<1> DEFINE l0 == dlaw(p)
<1>1. /\ dpc[p] # "idle" /\ Forget(p)
      /\ cut' = IF dpc[p] = "save" /\ owner[l0] = p THEN [cut EXCEPT ![l0] = TRUE] ELSE cut
      /\ dpc' = [dpc EXCEPT ![p] = "idle"]
      /\ dtodo' = [dtodo EXCEPT ![p] = <<>>]
      /\ UNCHANGED <<reference, owner, expected, basis, overlap>>
  BY DEF DetectionFails
<1>2. l0 \in Laws
  <2>1. dtodo[p] \in Seq(Laws) /\ dtodo[p] # <<>>
    BY <1>1 DEF DetectTypeOK
  <2> QED
    BY <2>1 DEF dlaw
<1>3. /\ dpc'[p] = "idle"
      /\ \A q \in Detectors \ {p} : dpc'[q] = dpc[q] /\ dtodo'[q] = dtodo[q]
      /\ dpc' \in [Detectors -> {"idle", "read", "detect", "save"}]
      /\ dtodo' \in [Detectors -> Seq(Laws)]
  BY <1>1 DEF DetectTypeOK
<1>4. /\ \A q \in Detectors \ {p} :
           snap'[q] = snap[q] /\ seen'[q] = seen[q] /\ cur'[q] = cur[q] /\ at'[q] = at[q]
           /\ found'[q] = found[q]
      /\ snap' \in [Detectors -> [Numbers -> ArticleRow \cup {NoRow}]]
      /\ seen' \in [Detectors -> SUBSET Numbers]
      /\ cur' \in [Detectors -> Numbers \cup {NoArticle}]
      /\ at' \in [Detectors -> Nat]
      /\ found' \in [Detectors -> Seq(ReferenceRow)]
      /\ DetectorInv(p)'
  BY <1>1, <1>3, ForgottenDetector
<1>5. DetectTypeOK'
  <2>1. /\ \A q \in Detectors : dpc'[q] # "idle" => dtodo'[q] # <<>>
        /\ \A q \in Detectors : dpc'[q] = "save" => found'[q] # <<>>
    BY <1>3, <1>4 DEF DetectTypeOK
  <2>2. cut' \in [Laws -> BOOLEAN]
    BY <1>1, <1>2 DEF DetectTypeOK
  <2> QED
    BY <1>1, <1>3, <1>4, <2>1, <2>2 DEF DetectTypeOK
<1>6. \A q \in Detectors : DetectorInv(q)'
  BY <1>3, <1>4, OtherDetector
<1>7. /\ \A q \in Detectors \ {p}, l \in Laws : Saving(q, l)' <=> Saving(q, l)
      /\ \A l \in Laws : ~Saving(p, l)'
      /\ \A l \in Laws : Saving(p, l) /\ owner[l] = p => cut'[l] = TRUE
      /\ \A l \in Laws : cut[l] = TRUE => cut'[l] = TRUE
  BY <1>1, <1>2, <1>3 DEF Saving, dlaw, DetectTypeOK
<1> HIDE DEF l0
<1>8. ASSUME NEW l \in Laws PROVE WritersInv(l)'
  BY <1>1, <1>4, <1>7 DEF WritersInv
<1>9. ASSUME NEW l \in Laws PROVE RowsInv(l)'
  <2>1. owner[l] # Nobody /\ ~cut'[l] => ~cut[l] /\ Pending(l)' = Pending(l)
    <3>1. cut[l] \in BOOLEAN /\ owner[l] \in Detectors \cup {Nobody}
      BY DEF DetectTypeOK
    <3> QED
      BY <1>1, <1>4, <1>7, <3>1 DEF Pending
  <2> QED
    BY <1>1, <2>1 DEF RowsInv, InText, WithinLaw
<1>10. EveryMentionOnce'
  <2>1. EveryMentionOnce /\ UNCHANGED <<owner, expected, basis>>
    BY <1>1
  <2> HIDE DEF DetectInv
  <2> QED
    BY <2>1 DEF EveryMentionOnce
<1> QED
  BY <1>5, <1>6, <1>8, <1>9, <1>10

(* Every step of every detector.                                           *)
LEMMA DetectNextStep ==
  ASSUME ArticlesInv, DetectInv, DetectNext
  PROVE  DetectInv'
<1>1. PICK p \in Detectors : StartDetection(p) \/ DetectStep(p) \/ DetectionFails(p)
  BY DEF DetectNext
<1>2. CASE DetectedNothing(p)
  <2>1. dpc[p] = "detect" /\ DetectNextLaw(p) /\ UNCHANGED <<reference, historyVars>>
    BY <1>2 DEF DetectedNothing, Detected
  <2> QED
    BY <2>1, NextLawStep
<1> QED
  BY <1>1, <1>2, StartDetectionStep, ReadArticlesStep, NextArticleStep, ResolveMentionStep,
     DeleteReferencesStep, CreateManyStep, DetectionFailsStep DEF DetectStep

-----------------------------------------------------------------------------
(* The inductive invariant.                                                *)
DetectionInv == ArticlesInv /\ DetectInv

(* A completed import leaves the rows of its edition.                      *)
LEMMA ImportedArticles ==
  ASSUME ArticlesInv, NEW l \in Laws, NEW w \in Workers, NEW d \in Docs, Imported(l, w, d)
  PROVE  ArticlesInv'
<1>1. Extract[d] \in Seq(ArticleData)
  BY ExtractAssumption
<1>2. ASSUME NEW n \in Numbers
      PROVE  /\ ImportedRows(w, d)[n] \in ArticleRow \cup {NoRow}
             /\ ImportedRows(w, d)[n] # NoRow =>
                  /\ ImportedRows(w, d)[n].doc = d
                  /\ ImportedRows(w, d)[n].pos \in DOMAIN Extract[d]
                  /\ Extract[d][ImportedRows(w, d)[n].pos].num = n
  <2>1. CASE \E k \in DOMAIN Extract[d] : Extract[d][k].num = n
    <3> DEFINE k == CHOOSE k \in DOMAIN Extract[d] : Extract[d][k].num = n
    <3>1. k \in DOMAIN Extract[d] /\ Extract[d][k].num = n
      BY <2>1
    <3>2. ImportedRows(w, d)[n] = [by |-> w, doc |-> d, pos |-> k, kids |-> Extract[d][k].kids]
      BY <2>1 DEF ImportedRows
    <3> HIDE DEF k
    <3>3. k \in Nat /\ Extract[d][k] \in ArticleData
      BY <1>1, <3>1
    <3>4. Extract[d][k].kids \in Nat
      BY <3>3 DEF ArticleData
    <3> QED
      BY <3>1, <3>2, <3>3, <3>4 DEF ArticleRow
  <2>2. CASE ~ \E k \in DOMAIN Extract[d] : Extract[d][k].num = n
    BY <2>2 DEF ImportedRows
  <2> QED
    BY <2>1, <2>2
<1>3. ImportedRows(w, d) \in [Numbers -> ArticleRow \cup {NoRow}]
  <2>1. ImportedRows(w, d) = [n \in Numbers |-> ImportedRows(w, d)[n]]
    BY DEF ImportedRows
  <2> QED
    BY <1>2, <2>1
<1>4. FromEdition(ImportedRows(w, d))
  BY <1>2 DEF FromEdition
<1>5. article' = [article EXCEPT ![l] = ImportedRows(w, d)]
  BY DEF Imported
<1> QED
  BY <1>3, <1>4, <1>5 DEF ArticlesInv

(* Every step of detectors and imports keeps the invariant.                *)
LEMMA DetectionStep == DetectionInv /\ [DetectionNext]_detectionVars => DetectionInv'
<1> SUFFICES ASSUME DetectionInv, [DetectionNext]_detectionVars PROVE DetectionInv'
  OBVIOUS
<1> USE DEF DetectionInv
<1>1. CASE DetectNext
  <2>1. UNCHANGED article
    BY <1>1 DEF DetectNext, DetectStep, StartDetection, ReadArticles, NextArticle, ResolveMention,
       DetectedNothing, DeleteReferences, CreateMany, DetectionFails, storeVars
  <2>2. ArticlesInv'
    BY <2>1 DEF ArticlesInv, FromEdition
  <2> QED
    BY <1>1, <2>2, DetectNextStep
<1>2. ASSUME NEW l \in RowsOf(MajorLaws), NEW w \in Workers, NEW d \in Docs, Imported(l, w, d)
      PROVE  DetectionInv'
  <2>1. l \in Laws
    BY MajorLawsAssumption DEF RowsOf
  <2>2. ArticlesInv'
    BY <1>2, <2>1, ImportedArticles
  <2>3. UNCHANGED detectVars
    BY <1>2 DEF Imported
  <2> QED
    BY <2>2, <2>3, DetectUndisturbed
<1>3. CASE UNCHANGED detectionVars
  <2>1. UNCHANGED <<article, detectVars>>
    BY <1>3 DEF detectionVars, storeVars
  <2>2. ArticlesInv'
    BY <2>1 DEF ArticlesInv, FromEdition
  <2> QED
    BY <2>1, <2>2, DetectUndisturbed
<1> QED
  BY <1>1, <1>2, <1>3 DEF DetectionNext

(* It holds in the beginning.                                              *)
LEMMA DetectionInitially == DetectionInit => DetectionInv
<1>1. EmptyStore => ArticlesInv
  BY DEF EmptyStore, ArticlesInv, FromEdition, NoArticles
<1> QED
  BY <1>1, DetectInitially DEF DetectionInit, DetectionInv

(* The inductive invariant holds in every reachable state.                 *)
THEOREM DetectionInvariant == DetectSpec => []DetectionInv
<1> QED
  BY DetectionInitially, DetectionStep, PTL DEF DetectSpec

(* Type correctness of the detection model.                                *)
THEOREM DetectTypeCorrect == DetectSpec => []DetectTypeOK
<1>1. DetectionInv => DetectTypeOK
  BY DEF DetectionInv, DetectInv
<1> QED
  BY <1>1, DetectionInvariant, PTL

(* What the invariant says of a law whose last detection is over.          *)
LEMMA LastStored == DetectInv => LastDetectionStored
<1> SUFFICES ASSUME DetectInv, NEW l \in Laws, Settled(l)
             PROVE  /\ expected[l] \subseteq reference[l]
                    /\ \A r \in reference[l] : r \in expected[l] \/ r.by \in overlap[l]
  BY DEF LastDetectionStored
<1>1. Pending(l) = {}
  BY DEF Settled, Pending
<1> QED
  BY <1>1 DEF DetectInv, RowsInv, Settled

(* However detections of one law overlap and fail, the rows of the one     *)
(* whose deleteMany was the last are all stored once it is through, and    *)
(* other rows come only from detections that were writing at that moment.  *)
THEOREM LastDetectionWins == DetectSpec => []LastDetectionStored
<1>1. DetectionInv => LastDetectionStored
  BY LastStored DEF DetectionInv
<1> QED
  BY <1>1, DetectionInvariant, PTL

(* A detection has one row for each mention of the articles it read.       *)
THEOREM MentionsDetectedOnce == DetectSpec => []EveryMentionOnce
<1>1. DetectionInv => EveryMentionOnce
  BY DEF DetectionInv, DetectInv
<1> QED
  BY <1>1, DetectionInvariant, PTL
=============================================================================
