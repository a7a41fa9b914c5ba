-------------------------- MODULE ReferenceDetection --------------------------
(***************************************************************************)
(* scripts/detect-references.ts: reads the articles of a law, detects the  *)
(* references in their text, resolves each to a law and an article, and    *)
(* replaces the law's rows of the Reference table.  The table has neither  *)
(* a unique key nor a foreign key, and nothing keeps two detections of the *)
(* same law apart.                                                         *)
(***************************************************************************)
EXTENDS LawStore

CONSTANTS
  Detectors,    \* processes that run the script
  Names,        \* law names that occur in texts
  Targets,      \* targetArticle values; decimal numbers and kanji differ
  Mentions,     \* Mentions[d][k]: what detectAllReferences finds in the
                \* k-th article of edition d
  CommonLaw,    \* CommonLaw[name]: the id commonLaws gives (exact or partial
                \* match), NoLaw when it has none
  TitleMatches, \* TitleMatches[name]: laws whose title or number contains it
  BatchSize,    \* rows of one createMany (100 in the code)
  NoLaw, NoArticle, Nobody

ASSUME BatchSizeAssumption == BatchSize \in Nat \ {0}

Offset == [previous |-> -1, next |-> 1, previous2 |-> -2, previous3 |-> -3]

(* An article number is <<"main" or "suppl", <<base, branch>>>>; branch 0  *)
(* stands for none.  Keeping only the digits of "3_2" gives 32, so branch  *)
(* numbers are below ten here.                                             *)
digits(n) == IF n[2][2] = 0 THEN n[2][1] ELSE 10 * n[2][1] + n[2][2]

(* The text decides: previous article, next article, two or three before;  *)
(* any other relative text gives null.                                     *)
resolveRelativeReference(n, rel) ==
  IF rel \in DOMAIN Offset THEN <<"main", <<digits(n) + Offset[rel], 0>>>> ELSE NoArticle

Mention ==
       [type : {"external"}, name : Names, art : Targets \cup {NoArticle}]
  \cup [type : {"internal"}, art : Targets]
  \cup [type : {"relative"}, rel : DOMAIN Offset \cup {"other"}]
  \cup [type : {"structural", "application", "range", "multiple"}]

ASSUME MentionsAssumption ==
  /\ Mentions \in [Docs -> Seq(Seq(Mention))]
  /\ \A d \in Docs : Len(Mentions[d]) = Len(Extract[d])

ASSUME TargetsAssumption ==
  /\ NoArticle \notin Targets \cup Numbers
  /\ \A n \in Numbers, rel \in DOMAIN Offset : resolveRelativeReference(n, rel) \in Targets

ASSUME NamesAssumption ==
  /\ CommonLaw \in [Names -> Laws \cup {NoLaw}]
  /\ TitleMatches \in [Names -> SUBSET Laws]
  /\ NoLaw \notin Laws
  /\ Nobody \notin Detectors

(* A Reference row: the detector that wrote it, the article and the place  *)
(* in it, what was found there, and what it was resolved to.               *)
ReferenceRow ==
  [by : Detectors, src : Numbers, at : Nat, mention : Mention,
   law : Laws \cup {NoLaw}, art : Targets \cup {NoArticle}]

VARIABLES
  reference,  \* reference[l]: rows with sourceLawId l
  dpc,        \* what a detector does next
  dtodo,      \* laws left in main()'s loop
  snap,       \* the Article rows findFirst returned
  seen,       \* articles of snap the loop has entered
  cur,        \* the article in work
  at,         \* mentions of it that are resolved
  found,      \* the array `references`, less the batches already written
  owner,      \* history: the detector whose deleteMany was the last
  expected,   \* history: the rows that detector had
  basis,      \* history: the Article rows it had read
  overlap,    \* history: detectors that were writing the law at that moment
  cut         \* history: the owner failed before its last batch

detectVars == <<reference, dpc, dtodo, snap, seen, cur, at, found,
                owner, expected, basis, overlap, cut>>

dlaw(p)      == Head(dtodo[p])
Saving(p, l) == dpc[p] = "save" /\ dlaw(p) = l
RowsOf(s)    == {s[i] : i \in DOMAIN s}

DetectTypeOK ==
  /\ reference \in [Laws -> SUBSET ReferenceRow]
  /\ dpc \in [Detectors -> {"idle", "read", "detect", "save"}]
  /\ dtodo \in [Detectors -> Seq(Laws)]
  /\ snap \in [Detectors -> [Numbers -> ArticleRow \cup {NoRow}]]
  /\ seen \in [Detectors -> SUBSET Numbers]
  /\ cur \in [Detectors -> Numbers \cup {NoArticle}]
  /\ at \in [Detectors -> Nat]
  /\ found \in [Detectors -> Seq(ReferenceRow)]
  /\ owner \in [Laws -> Detectors \cup {Nobody}]
  /\ expected \in [Laws -> SUBSET ReferenceRow]
  /\ basis \in [Laws -> [Numbers -> ArticleRow \cup {NoRow}]]
  /\ overlap \in [Laws -> SUBSET Detectors]
  /\ cut \in [Laws -> BOOLEAN]
  /\ \A p \in Detectors : dpc[p] # "idle" => dtodo[p] # <<>>
  /\ \A p \in Detectors : dpc[p] = "save" => found[p] # <<>>

DetectInit ==
  /\ reference = [l \in Laws |-> {}]
  /\ dpc = [p \in Detectors |-> "idle"]
  /\ dtodo = [p \in Detectors |-> <<>>]
  /\ snap = [p \in Detectors |-> NoArticles]
  /\ seen = [p \in Detectors |-> {}]
  /\ cur = [p \in Detectors |-> NoArticle]
  /\ at = [p \in Detectors |-> 0]
  /\ found = [p \in Detectors |-> <<>>]
  /\ owner = [l \in Laws |-> Nobody]
  /\ expected = [l \in Laws |-> {}]
  /\ basis = [l \in Laws |-> NoArticles]
  /\ overlap = [l \in Laws |-> {}]
  /\ cut = [l \in Laws |-> FALSE]

historyVars == <<owner, expected, basis, overlap, cut>>

-----------------------------------------------------------------------------
Forget(p) ==
  /\ snap' = [snap EXCEPT ![p] = NoArticles]
  /\ seen' = [seen EXCEPT ![p] = {}]
  /\ cur' = [cur EXCEPT ![p] = NoArticle]
  /\ at' = [at EXCEPT ![p] = 0]
  /\ found' = [found EXCEPT ![p] = <<>>]

DetectNextLaw(p) ==
  /\ dtodo' = [dtodo EXCEPT ![p] = Tail(@)]
  /\ dpc' = [dpc EXCEPT ![p] = IF Tail(dtodo[p]) = <<>> THEN "idle" ELSE "read"]
  /\ Forget(p)

StartDetection(p) ==
  /\ dpc[p] = "idle"
  /\ \E list \in {MajorLaws} \cup {<<l>> : l \in Laws} :
       /\ list # <<>>
       /\ dtodo' = [dtodo EXCEPT ![p] = list]
  /\ dpc' = [dpc EXCEPT ![p] = "read"]
  /\ UNCHANGED <<storeVars, reference, snap, seen, cur, at, found, historyVars>>

(* Mutant: a law without version is tried until it has one.                *)
ReadArticlesWaiting(p) ==
  /\ dpc[p] = "read"
  /\ xmlContent[dlaw(p)] # NoVersion
  /\ snap' = [snap EXCEPT ![p] = article[dlaw(p)]]
  /\ dpc' = [dpc EXCEPT ![p] = "detect"]
  /\ UNCHANGED <<storeVars, reference, dtodo, seen, cur, at, found, historyVars>>

(* lawVersion.findFirst with its articles.  The version row is never       *)
(* deleted, so the query that fetches the articles is the one that counts. *)
ReadArticles(p) ==
  /\ dpc[p] = "read"
  /\ IF xmlContent[dlaw(p)] = NoVersion
     THEN DetectNextLaw(p)
     ELSE /\ snap' = [snap EXCEPT ![p] = article[dlaw(p)]]
          /\ dpc' = [dpc EXCEPT ![p] = "detect"]
          /\ UNCHANGED <<dtodo, seen, cur, at, found>>
  /\ UNCHANGED <<storeVars, reference, historyVars>>

MentionsOf(r) == IF r = NoRow THEN <<>> ELSE Mentions[r.doc][r.pos]
ArticleMentions(p) == IF cur[p] = NoArticle THEN <<>> ELSE MentionsOf(snap[p][cur[p]])
Unseen(p) == {n \in Numbers \ seen[p] : snap[p][n] # NoRow}

(* Mutant: the place in the previous article is kept for the next one.     *)
NextArticleKeepingPlace(p) ==
  /\ dpc[p] = "detect"
  /\ at[p] >= Len(ArticleMentions(p))
  /\ \E n \in Unseen(p) :
       /\ \A m \in Unseen(p) : snap[p][n].pos <= snap[p][m].pos
       /\ cur' = [cur EXCEPT ![p] = n]
       /\ seen' = [seen EXCEPT ![p] = @ \cup {n}]
       /\ at' = [at EXCEPT ![p] = IF @ > Len(MentionsOf(snap[p][n]))
                                  THEN Len(MentionsOf(snap[p][n])) ELSE @]
  /\ UNCHANGED <<storeVars, reference, dpc, dtodo, snap, found, historyVars>>

(* The loop goes on to the unseen article with the least sortOrder.        *)
NextArticle(p) ==
  /\ dpc[p] = "detect"
  /\ at[p] = Len(ArticleMentions(p))
  /\ \E n \in Unseen(p) :
       /\ \A m \in Unseen(p) : snap[p][n].pos <= snap[p][m].pos
       /\ cur' = [cur EXCEPT ![p] = n]
       /\ seen' = [seen EXCEPT ![p] = @ \cup {n}]
  /\ at' = [at EXCEPT ![p] = 0]
  /\ UNCHANGED <<storeVars, reference, dpc, dtodo, snap, found, historyVars>>

(* commonLaws first, then any LawMaster row whose title or number matches. *)
findLawIdByName(name) ==
  LET present == {l \in TitleMatches[name] : lawMaster[l] # "absent"}
  IN  IF CommonLaw[name] # NoLaw THEN {CommonLaw[name]}
      ELSE IF present # {} THEN present ELSE {NoLaw}

(* Mutant: references within the law are left unresolved.                  *)
ResolutionsExternalOnly(l, n, m) ==
  IF m.type = "external" THEN {<<t, m.art>> : t \in findLawIdByName(m.name)}
  ELSE {<<NoLaw, NoArticle>>}

(* The pairs targetLawId, targetArticle a mention can be resolved to.      *)
Resolutions(l, n, m) ==
  IF m.type = "external" THEN {<<t, m.art>> : t \in findLawIdByName(m.name)}
  ELSE IF m.type = "internal" THEN {<<l, m.art>>}
  ELSE IF m.type = "relative" THEN {<<l, resolveRelativeReference(n, m.rel)>>}
  ELSE {<<NoLaw, NoArticle>>}

(* One turn of the loop over detectedRefs, the awaited lookup included.    *)
ResolveMention(p) ==
  /\ dpc[p] = "detect"
  /\ at[p] < Len(ArticleMentions(p))
  /\ LET m == ArticleMentions(p)[at[p] + 1]
     IN  \E t \in Resolutions(dlaw(p), cur[p], m) :
           found' = [found EXCEPT ![p] = Append(@,
             [by |-> p, src |-> cur[p], at |-> at[p] + 1, mention |-> m,
              law |-> t[1], art |-> t[2]])]
  /\ at' = [at EXCEPT ![p] = @ + 1]
  /\ UNCHANGED <<storeVars, reference, dpc, dtodo, snap, seen, cur, historyVars>>

Detected(p) ==
  /\ dpc[p] = "detect"
  /\ at[p] = Len(ArticleMentions(p))
  /\ Unseen(p) = {}

(* Nothing detected: the old rows of the law stay.                         *)
DetectedNothing(p) ==
  /\ Detected(p)
  /\ found[p] = <<>>
  /\ DetectNextLaw(p)
  /\ UNCHANGED <<storeVars, reference, historyVars>>

(* Mutant: the old rows are not deleted.                                   *)
DeleteReferencesForgotten(p) ==
  /\ Detected(p)
  /\ found[p] # <<>>
  /\ dpc' = [dpc EXCEPT ![p] = "save"]
  /\ owner' = [owner EXCEPT ![dlaw(p)] = p]
  /\ expected' = [expected EXCEPT ![dlaw(p)] = RowsOf(found[p])]
  /\ basis' = [basis EXCEPT ![dlaw(p)] = snap[p]]
  /\ overlap' = [overlap EXCEPT ![dlaw(p)] = {q \in Detectors : Saving(q, dlaw(p))}]
  /\ cut' = [cut EXCEPT ![dlaw(p)] = FALSE]
  /\ UNCHANGED <<storeVars, reference, dtodo, snap, seen, cur, at, found>>

(* reference.deleteMany by sourceLawId.                                    *)
DeleteReferences(p) ==
  /\ Detected(p)
  /\ found[p] # <<>>
  /\ reference' = [reference EXCEPT ![dlaw(p)] = {}]
  /\ dpc' = [dpc EXCEPT ![p] = "save"]
  /\ owner' = [owner EXCEPT ![dlaw(p)] = p]
  /\ expected' = [expected EXCEPT ![dlaw(p)] = RowsOf(found[p])]
  /\ basis' = [basis EXCEPT ![dlaw(p)] = snap[p]]
  /\ overlap' = [overlap EXCEPT ![dlaw(p)] = {q \in Detectors : Saving(q, dlaw(p))}]
  /\ cut' = [cut EXCEPT ![dlaw(p)] = FALSE]
  /\ UNCHANGED <<storeVars, dtodo, snap, seen, cur, at, found>>

(* Mutant: the loop does not notice that the array is exhausted.           *)
CreateManyUnbounded(p) ==
  /\ dpc[p] = "save"
  /\ reference' = [reference EXCEPT ![dlaw(p)] = @ \cup RowsOf(found[p])]
  /\ found' = [found EXCEPT ![p] = SubSeq(@, BatchSize + 1, Len(@))]
  /\ UNCHANGED <<storeVars, historyVars, dpc, dtodo, snap, seen, cur, at>>

(* reference.createMany of the next batch.  skipDuplicates skips nothing:  *)
(* every row gets a new id and there is no other unique key.               *)
CreateMany(p) ==
  /\ dpc[p] = "save"
  /\ IF Len(found[p]) <= BatchSize
     THEN /\ reference' = [reference EXCEPT ![dlaw(p)] = @ \cup RowsOf(found[p])]
          /\ DetectNextLaw(p)
     ELSE /\ reference' = [reference EXCEPT ![dlaw(p)] =
                             @ \cup RowsOf(SubSeq(found[p], 1, BatchSize))]
          /\ found' = [found EXCEPT ![p] = SubSeq(@, BatchSize + 1, Len(@))]
          /\ UNCHANGED <<dpc, dtodo, snap, seen, cur, at>>
  /\ UNCHANGED <<storeVars, historyVars>>

(* A call rejects or the process dies.  There is no try: main() ends and   *)
(* the laws left are not looked at.                                        *)
DetectionFails(p) ==
  /\ dpc[p] # "idle"
  /\ cut' = IF dpc[p] = "save" /\ owner[dlaw(p)] = p
            THEN [cut EXCEPT ![dlaw(p)] = TRUE] ELSE cut
  /\ dpc' = [dpc EXCEPT ![p] = "idle"]
  /\ dtodo' = [dtodo EXCEPT ![p] = <<>>]
  /\ Forget(p)
  /\ UNCHANGED <<storeVars, reference, owner, expected, basis, overlap>>

DetectStep(p) ==
  \/ ReadArticles(p) \/ NextArticle(p) \/ ResolveMention(p)
  \/ DetectedNothing(p) \/ DeleteReferences(p) \/ CreateMany(p)

DetectNext == \E p \in Detectors : StartDetection(p) \/ DetectStep(p) \/ DetectionFails(p)

-----------------------------------------------------------------------------
(* The script beside completed imports.  LawPipeline has the imports step  *)
(* by step.                                                                *)
ImportedRows(w, d) ==
  [n \in Numbers |->
     IF \E k \in DOMAIN Extract[d] : Extract[d][k].num = n
     THEN LET k == CHOOSE k \in DOMAIN Extract[d] : Extract[d][k].num = n
          IN  [by |-> w, doc |-> d, pos |-> k, kids |-> Extract[d][k].kids]
     ELSE NoRow]

Imported(l, w, d) ==
  /\ lawMaster' = [lawMaster EXCEPT ![l] = "current"]
  /\ xmlContent' = [xmlContent EXCEPT ![l] = d]
  /\ article' = [article EXCEPT ![l] = ImportedRows(w, d)]
  /\ UNCHANGED <<file, detectVars>>

detectionVars == <<storeVars, detectVars>>

(* The script does not look at the files.                                  *)
EmptyStore ==
  /\ file = [l \in Laws |-> NoFile]
  /\ xmlContent = [l \in Laws |-> NoVersion]
  /\ lawMaster = [l \in Laws |-> "absent"]
  /\ article = [l \in Laws |-> NoArticles]

DetectionInit == EmptyStore /\ DetectInit

DetectionNext ==
  \/ DetectNext
  \/ \E l \in RowsOf(MajorLaws), w \in Workers, d \in Docs : Imported(l, w, d)

DetectSpec == DetectionInit /\ [][DetectionNext]_detectionVars

-----------------------------------------------------------------------------
(* The detections of one law that are over, undisturbed by a failure.      *)
Settled(l) == owner[l] # Nobody /\ ~cut[l] /\ ~Saving(owner[l], l)

(* However the detections of a law overlap, once the one that deleted last *)
(* is through, all of its rows are stored, and a row it did not detect is  *)
(* of a detector that was writing when it deleted: without overlap the     *)
(* table holds its rows and nothing else (detect-references.ts, deleteMany *)
(* and the createMany loop, which are not one transaction).                *)
LastDetectionStored ==
  \A l \in Laws :
    Settled(l) => /\ expected[l] \subseteq reference[l]
                  /\ \A r \in reference[l] : r \in expected[l] \/ r.by \in overlap[l]

(* A detection misses nothing of the articles it read and counts nothing   *)
(* twice: it has exactly one row per mention of each article of its        *)
(* snapshot, also when the articles were replaced while it was running.    *)
EveryMentionOnce ==
  \A l \in Laws :
    owner[l] # Nobody =>
      /\ \A n \in Numbers : \A i \in DOMAIN MentionsOf(basis[l][n]) :
           \E r \in expected[l] :
             r.src = n /\ r.at = i /\ r.mention = MentionsOf(basis[l][n])[i]
      /\ \A r, s \in expected[l] : r.src = s.src /\ r.at = s.at => r = s

(* A detection that is started ends.                                       *)
DetectionEnds == \A p \in Detectors : dpc[p] # "idle" ~> dpc[p] = "idle"
=============================================================================
