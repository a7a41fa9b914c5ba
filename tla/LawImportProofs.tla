--------------------------- MODULE LawImportProofs ---------------------------
(***************************************************************************)
(* What TLAPS proves about LawImport, for any set of laws, of workers and  *)
(* of editions: ImportInv is inductive, and with it the completeness of    *)
(* concurrent imports.                                                     *)
(***************************************************************************)
EXTENDS LawImport, TLAPS

(* The tail of a non-empty list of laws is a list of laws.                 *)
LEMMA TailIsList ==
  ASSUME NEW s \in Seq(Laws), s # <<>>
  PROVE  Tail(s) \in Seq(Laws) /\ Head(s) \in Laws
OBVIOUS

(* Every position of an extraction holds an article with its number.       *)
LEMMA ExtractElement ==
  ASSUME NEW d \in Docs, NEW k \in Nat, k # 0, k <= Len(Extract[d])
  PROVE  /\ k \in DOMAIN Extract[d]
         /\ Extract[d][k] \in ArticleData
         /\ Extract[d][k].num \in Numbers
         /\ Extract[d][k].kids \in Nat
<1>1. Extract[d] \in Seq(ArticleData)
  BY ExtractAssumption
<1>2. k \in 1..Len(Extract[d]) /\ Len(Extract[d]) \in Nat
  BY <1>1
<1>3. k \in DOMAIN Extract[d] /\ Extract[d][k] \in ArticleData
  BY <1>1, <1>2
<1> QED
  BY <1>3 DEF ArticleData

(* The worker's part of the type invariant.                                *)
WorkerTypeOK ==
  /\ pc \in [Workers -> InitSteps \cup ImportSteps \cup {"idle"}]
  /\ todo \in [Workers -> Seq(Laws)]
  /\ doc \in [Workers -> Docs \cup {NoFile}]
  /\ pos \in [Workers -> Nat]
  /\ \A p \in Workers : pc[p] # "idle" => todo[p] # <<>>
  /\ \A p \in Workers :
       pc[p] \in {"upsertVersion", "deleteArticles", "createArticle", "createChild"}
         => doc[p] \in Docs

(* The law a busy worker is on.                                            *)
LEMMA LawType ==
  ASSUME ImportTypeOK, NEW p \in Workers, pc[p] # "idle"
  PROVE  law(p) \in Laws
BY TailIsList DEF ImportTypeOK, law

(* Going on to the next law, and ending the script, change one worker only *)
(* and leave it outside the writing part of the script.                    *)
LEMMA LeaveLaw ==
  ASSUME ImportTypeOK, NEW p \in Workers, pc[p] # "idle",
         Stop(p) \/ NextLaw(p, "readFile") \/ NextLaw(p, "findVersion")
  PROVE  /\ WorkerTypeOK'
         /\ pc'[p] \in {"idle", "readFile", "findVersion"}
         /\ \A q \in Workers \ {p} :
              /\ pc'[q] = pc[q] /\ todo'[q] = todo[q]
              /\ doc'[q] = doc[q] /\ pos'[q] = pos[q]
<1>1. todo[p] \in Seq(Laws) /\ todo[p] # <<>>
  BY DEF ImportTypeOK
<1>2. Tail(todo[p]) \in Seq(Laws)
  BY <1>1, TailIsList
<1>3. CASE Stop(p)
  <2>1. <<>> \in Seq(Laws)
    OBVIOUS
  <2> QED
    BY <1>3, <2>1 DEF ImportTypeOK, WorkerTypeOK, Stop, Goto
<1>4. CASE NextLaw(p, "readFile")
  BY <1>1, <1>2, <1>4 DEF ImportTypeOK, WorkerTypeOK, NextLaw, Goto, InitSteps
<1>5. CASE NextLaw(p, "findVersion")
  BY <1>1, <1>2, <1>5 DEF ImportTypeOK, WorkerTypeOK, NextLaw, Goto, ImportSteps
<1> QED
  BY <1>3, <1>4, <1>5

(* The initial states satisfy the invariant.                               *)
LEMMA InitInv == ImportInit => ImportInv
<1> SUFFICES ASSUME ImportInit PROVE ImportInv
  OBVIOUS
<1> USE DEF ImportInit, StoreInit
<1>1. ImportTypeOK
  BY DEF ImportTypeOK, StoreTypeOK, ForeignKeys, NoArticles
<1>2. CreatorInv /\ WriterInv /\ InitOrderInv
  BY DEF CreatorInv, WriterInv, InitOrderInv, Writing
<1>3. RowInv /\ NoTornArticle
  BY DEF RowInv, NoTornArticle, NoArticles
<1>4. CoverageInv
  BY DEF CoverageInv
<1> QED
  BY <1>1, <1>2, <1>3, <1>4 DEF ImportInv

-----------------------------------------------------------------------------
(* Type correctness.                                                       *)

(* Writing one Article row keeps the table well typed.                     *)
LEMMA RowUpdate ==
  ASSUME article \in [Laws -> [Numbers -> ArticleRow \cup {NoRow}]],
         NEW l \in Laws, NEW n \in Numbers, NEW r \in ArticleRow,
         article' = [article EXCEPT ![l] = [@ EXCEPT ![n] = r]]
  PROVE  article' \in [Laws -> [Numbers -> ArticleRow \cup {NoRow}]]
<1>1. [article[l] EXCEPT ![n] = r] \in [Numbers -> ArticleRow \cup {NoRow}]
  OBVIOUS
<1> QED
  BY <1>1


(* Every step keeps the tables and the workers' memory well typed.         *)
LEMMA TypeStep ==
  ASSUME ImportTypeOK, CreatorInv, [ImportNext]_vars
  PROVE  ImportTypeOK'
<1>1. ASSUME NEW l \in Laws, NEW d \in Docs, NewEdition(l, d), UNCHANGED importVars
      PROVE  ImportTypeOK'
  BY <1>1 DEF ImportTypeOK, StoreTypeOK, ForeignKeys, NewEdition, importVars
<1>2. ASSUME NEW p \in Workers, NEW step \in {"readFile", "findVersion"},
             NEW list \in Seq(Laws), Start(p, step, list)
      PROVE  ImportTypeOK'
  BY <1>2 DEF ImportTypeOK, StoreTypeOK, ForeignKeys, Start, Goto, storeVars, InitSteps, ImportSteps
<1>3. ASSUME NEW p \in Workers, pc[p] # "idle",
             Stop(p) \/ NextLaw(p, "readFile") \/ NextLaw(p, "findVersion"),
             StoreTypeOK', UNCHANGED editions, broken' \in [Laws -> BOOLEAN]
      PROVE  ImportTypeOK'
  <2>1. WorkerTypeOK'
    BY <1>3, LeaveLaw
  <2> QED
    BY <2>1, <1>3 DEF ImportTypeOK, WorkerTypeOK
<1>4. ASSUME NEW p \in Workers, Step(p)
      PROVE  ImportTypeOK'
  <2>0. pc[p] # "idle" /\ law(p) \in Laws
    <3>1. pc[p] # "idle"
      BY <1>4 DEF Step, UpsertLawMaster, UpsertLawVersion, UpdateCurrentVersionId,
           FindLatestVersion, LoadXml, DeleteArticles, CreateArticle, CreateChild, ImportDone
    <3> QED
      BY <3>1, LawType
  <2>1. CASE UpsertLawMaster(p)
    <3>1. StoreTypeOK'
      BY <2>0, <2>1 DEF ImportTypeOK, StoreTypeOK, ForeignKeys, UpsertLawMaster
    <3>2. CASE file[law(p)] = NoFile
      BY <1>3, <2>0, <2>1, <3>1, <3>2 DEF UpsertLawMaster, ImportTypeOK
    <3>3. CASE file[law(p)] # NoFile
      BY <2>0, <2>1, <3>1, <3>3
         DEF UpsertLawMaster, ImportTypeOK, StoreTypeOK, ForeignKeys, Goto, InitSteps
    <3> QED
      BY <3>2, <3>3
  <2>2. CASE UpsertLawVersion(p)
    <3>1. StoreTypeOK'
      BY <2>0, <2>2, SentinelAssumption
         DEF UpsertLawVersion, ImportTypeOK, StoreTypeOK, ForeignKeys
    <3> QED
      BY <2>0, <2>2, <3>1 DEF UpsertLawVersion, ImportTypeOK, Goto, InitSteps
  <2>3. CASE UpdateCurrentVersionId(p)
    <3>1. StoreTypeOK'
      BY <2>0, <2>3 DEF ImportTypeOK, StoreTypeOK, ForeignKeys, UpdateCurrentVersionId
    <3> QED
      BY <1>3, <2>0, <2>3, <3>1 DEF UpdateCurrentVersionId, ImportTypeOK
  <2>4. CASE FindLatestVersion(p)
    <3>1. StoreTypeOK'
      BY <2>4 DEF ImportTypeOK, StoreTypeOK, ForeignKeys, FindLatestVersion, storeVars
    <3>2. CASE xmlContent[law(p)] = NoVersion
      <4>1. NextLaw(p, "findVersion") /\ UNCHANGED <<editions, broken>>
        BY <2>4, <3>2, SentinelAssumption DEF FindLatestVersion
      <4> QED
        BY <1>3, <2>0, <3>1, <4>1 DEF ImportTypeOK
    <3>3. CASE xmlContent[law(p)] = EmptyXml
      BY <2>0, <2>4, <3>1, <3>3, SentinelAssumption
         DEF FindLatestVersion, ImportTypeOK, Goto, ImportSteps
    <3>4. CASE xmlContent[law(p)] \notin {NoVersion, EmptyXml}
      <4>1. xmlContent[law(p)] \in Docs
        BY <2>0, <3>4 DEF ImportTypeOK, StoreTypeOK
      <4> QED
        BY <2>0, <2>4, <3>1, <3>4, <4>1 DEF FindLatestVersion, ImportTypeOK, Goto, ImportSteps
    <3> QED
      BY <3>2, <3>3, <3>4
  <2>5. CASE LoadXml(p)
    <3>1. StoreTypeOK'
      <4>1. CASE file[law(p)] = NoFile
        BY <2>5, <4>1 DEF ImportTypeOK, StoreTypeOK, ForeignKeys, LoadXml
      <4>2. CASE file[law(p)] # NoFile
        <5>1. file[law(p)] \in Docs
          BY <2>0, <4>2 DEF ImportTypeOK, StoreTypeOK
        <5> QED
          BY <2>0, <2>5, <4>2, <5>1, SentinelAssumption
             DEF ImportTypeOK, StoreTypeOK, ForeignKeys, LoadXml
      <4> QED
        BY <4>1, <4>2
    <3>2. CASE file[law(p)] = NoFile
      BY <1>3, <2>0, <2>5, <3>1, <3>2 DEF LoadXml, ImportTypeOK
    <3>3. CASE file[law(p)] # NoFile
      BY <2>0, <2>5, <3>1, <3>3 DEF LoadXml, ImportTypeOK, StoreTypeOK, Goto, ImportSteps
    <3> QED
      BY <3>2, <3>3
  <2>6. CASE DeleteArticles(p)
    <3>1. StoreTypeOK'
      BY <2>0, <2>6 DEF ImportTypeOK, StoreTypeOK, ForeignKeys, DeleteArticles, NoArticles
    <3>2. editions' \in [Laws -> SUBSET Docs]
      BY <2>0, <2>6 DEF ImportTypeOK, DeleteArticles, Writing
    <3> QED
      BY <2>0, <2>6, <3>1, <3>2 DEF ImportTypeOK, DeleteArticles, Goto, ImportSteps
  <2>7. CASE CreateArticle(p)
    <3>0. doc[p] \in Docs /\ pos[p] \in Nat /\ pos[p] # 0 /\ Current(p).num \in Numbers
      BY <2>7, ExtractElement DEF CreateArticle, CreatorInv, ImportTypeOK, Current
    <3>1. CASE OwnRow(p) # NoRow
      <4>1. StoreTypeOK'
        BY <2>7, <3>1 DEF CreateArticle, ImportTypeOK, StoreTypeOK, ForeignKeys
      <4> QED
        BY <1>3, <2>0, <2>7, <3>1, <4>1 DEF CreateArticle, ImportTypeOK
    <3>2. CASE OwnRow(p) = NoRow
      <4>1. [by |-> p, doc |-> doc[p], pos |-> pos[p], kids |-> 0] \in ArticleRow
        BY <3>0 DEF ArticleRow
      <4>2. article' = [article EXCEPT ![law(p)] = [@ EXCEPT ![Current(p).num] =
                          [by |-> p, doc |-> doc[p], pos |-> pos[p], kids |-> 0]]]
        BY <2>7, <3>2 DEF CreateArticle
      <4>3. StoreTypeOK'
        BY <2>0, <2>7, <3>0, <4>1, <4>2, RowUpdate DEF CreateArticle, ImportTypeOK, StoreTypeOK, ForeignKeys
      <4>4. UNCHANGED <<todo, doc, editions, broken>>
        BY <2>7, <3>2 DEF CreateArticle
      <4>5. CASE Current(p).kids = 0
        <5>1. pos' = [pos EXCEPT ![p] = pos[p] + 1] /\ UNCHANGED pc
          BY <2>7, <3>2, <4>5 DEF CreateArticle
        <5> QED
          BY <3>0, <4>3, <4>4, <5>1 DEF ImportTypeOK
      <4>6. CASE Current(p).kids # 0
        BY <2>7, <3>0, <3>2, <4>3, <4>4, <4>6 DEF CreateArticle, ImportTypeOK, Goto, ImportSteps
      <4> QED
        BY <4>5, <4>6
    <3> QED
      BY <3>1, <3>2
  <2>8. CASE CreateChild(p)
    <3>0. doc[p] \in Docs /\ pos[p] \in Nat /\ pos[p] # 0 /\ Current(p).num \in Numbers
      BY <2>8, ExtractElement DEF CreateChild, CreatorInv, ImportTypeOK, Current
    <3>1. CASE OwnRow(p) = NoRow \/ OwnRow(p).by # p
      <4>1. StoreTypeOK'
        BY <2>8, <3>1 DEF CreateChild, ImportTypeOK, StoreTypeOK, ForeignKeys
      <4> QED
        BY <1>3, <2>0, <2>8, <3>1, <4>1 DEF CreateChild, ImportTypeOK
    <3>2. CASE ~(OwnRow(p) = NoRow \/ OwnRow(p).by # p)
      <4>1. OwnRow(p) \in ArticleRow
        BY <2>0, <3>0, <3>2 DEF OwnRow, ImportTypeOK, StoreTypeOK, ForeignKeys
      <4>2. [OwnRow(p) EXCEPT !.kids = @ + 1] \in ArticleRow
        BY <4>1 DEF ArticleRow
      <4>3. article' = [article EXCEPT ![law(p)] =
                          [@ EXCEPT ![Current(p).num] = [OwnRow(p) EXCEPT !.kids = @ + 1]]]
        BY <2>0, <2>8, <3>0, <3>2 DEF CreateChild, OwnRow, ImportTypeOK, StoreTypeOK, ForeignKeys
      <4>4. StoreTypeOK'
        BY <2>0, <2>8, <3>0, <4>2, <4>3, RowUpdate DEF CreateChild, ImportTypeOK, StoreTypeOK, ForeignKeys
      <4>5. UNCHANGED <<todo, doc, editions, broken>>
        BY <2>8, <3>2 DEF CreateChild
      <4>6. CASE OwnRow(p).kids + 1 = Current(p).kids
        <5>1. /\ pos' = [pos EXCEPT ![p] = pos[p] + 1]
              /\ pc' = [pc EXCEPT ![p] = "createArticle"]
          BY <2>8, <3>2, <4>6 DEF CreateChild, Goto
        <5>2. pc' \in [Workers -> InitSteps \cup ImportSteps \cup {"idle"}]
          BY <5>1 DEF ImportTypeOK, ImportSteps
        <5>3. pos' \in [Workers -> Nat]
          BY <3>0, <5>1 DEF ImportTypeOK
        <5>4. \A q \in Workers : pc'[q] # pc[q] => q = p
          BY <5>1 DEF ImportTypeOK
        <5>5. pc[p] = "createChild"
          BY <2>8 DEF CreateChild
        <5> QED
          BY <3>0, <4>4, <4>5, <5>2, <5>3, <5>4, <5>5 DEF ImportTypeOK
      <4>7. CASE OwnRow(p).kids + 1 # Current(p).kids
        BY <2>8, <3>0, <3>2, <4>4, <4>5, <4>7 DEF CreateChild, ImportTypeOK
      <4> QED
        BY <4>6, <4>7
    <3> QED
      BY <3>1, <3>2
  <2>9. CASE ImportDone(p)
    BY <1>3, <2>0, <2>9 DEF ImportDone, ImportTypeOK, StoreTypeOK, ForeignKeys, storeVars
  <2> QED
    BY <1>4, <2>1, <2>2, <2>3, <2>4, <2>5, <2>6, <2>7, <2>8, <2>9 DEF Step
<1>5. ASSUME NEW p \in Workers, Reject(p) \/ Crash(p)
      PROVE  ImportTypeOK'
  <2>1. pc[p] # "idle" /\ law(p) \in Laws
    BY <1>5, LawType DEF Reject, Crash
  <2>2. broken' \in [Laws -> BOOLEAN]
    BY <1>5, <2>1 DEF Reject, Crash, CutShort, ImportTypeOK
  <2>3. StoreTypeOK' /\ UNCHANGED editions
    BY <1>5 DEF Reject, Crash, ImportTypeOK, StoreTypeOK, ForeignKeys, storeVars
  <2> QED
    BY <1>3, <1>5, <2>1, <2>2, <2>3 DEF Reject, Crash
<1>6. CASE UNCHANGED vars
  BY <1>6 DEF vars, storeVars, importVars, ImportTypeOK, StoreTypeOK, ForeignKeys
<1>7. ASSUME NEW p \in Workers, StartInit(p) \/ StartImport(p)
      PROVE  ImportTypeOK'
  <2>1. \A l \in Laws : <<l>> \in Seq(Laws)
    OBVIOUS
  <2>2. CASE StartInit(p)
    BY <1>2, <2>2, MajorLawsAssumption DEF StartInit
  <2>3. CASE StartImport(p)
    <3>1. PICK list \in {MajorLaws} \cup {<<l>> : l \in Laws} : Start(p, "findVersion", list)
      BY <2>3 DEF StartImport
    <3>2. list \in Seq(Laws)
      BY <2>1, <3>1, MajorLawsAssumption
    <3> QED
      BY <1>2, <3>1, <3>2
  <2> QED
    BY <1>7, <2>2, <2>3
<1> QED
  BY <1>1, <1>4, <1>5, <1>6, <1>7 DEF ImportNext

-----------------------------------------------------------------------------
(* A worker that leaves the writing part of the script.                    *)

SafeInv == CreatorInv /\ WriterInv /\ RowInv /\ NoTornArticle /\ CoverageInv

SameWorker(q) ==
  pc'[q] = pc[q] /\ todo'[q] = todo[q] /\ doc'[q] = doc[q] /\ pos'[q] = pos[q]

(* A worker that does not move keeps its law; it reaches the same articles *)
(* as long as the owner of its row does not change.                        *)
LEMMA SameReach ==
  ASSUME NEW q, SameWorker(q), Owns(q)' <=> Owns(q)
  PROVE  /\ law(q)' = law(q)
         /\ \A l : Writing(q, l)' <=> Writing(q, l)
         /\ \A l, lo, hi : Reaches(q, l, lo, hi)' <=> Reaches(q, l, lo, hi)
BY DEF SameWorker, law, Writing, Reaches

(* A smaller lower end only adds positions.                                *)
LEMMA ReachesWider ==
  ASSUME ImportTypeOK, NEW q \in Workers, NEW l, NEW lo \in Nat, NEW lo2 \in Nat,
         NEW hi \in Nat, lo2 <= lo, Reaches(q, l, lo, hi)
  PROVE  Reaches(q, l, lo2, hi)
BY DEF ImportTypeOK, Reaches

(* The worker stops writing, and either it was not writing, or it is       *)
(* recorded as cut short, or it has lost a race or has nothing left to do. *)
Leaves(p) ==
  /\ UNCHANGED <<article, editions>>
  /\ \A q \in Workers \ {p} : SameWorker(q)
  /\ pc'[p] \notin {"createArticle", "createChild"}
  /\ \/ broken' = broken /\ pc[p] \notin {"createArticle", "createChild"}
     \/ broken' = [broken EXCEPT ![law(p)] = TRUE]
     \/ /\ broken' = broken
        /\ pc[p] = "createArticle"
        /\ pos[p] > Len(Extract[doc[p]]) \/ OwnRow(p) # NoRow
     \/ broken' = broken /\ pc[p] = "createChild" /\ ~Owns(p)

(* A leaving worker breaks nothing: whatever it still had to write is      *)
(* written or ahead of another worker.                                     *)
LEMMA LeaveInv ==
  ASSUME ImportInv, NEW p \in Workers, pc[p] # "idle" \/ broken' = broken, Leaves(p)
  PROVE  SafeInv'
<1> USE DEF ImportInv
<1>1. \A q \in Workers \ {p} :
        /\ law(q)' = law(q) /\ Current(q)' = Current(q) /\ OwnRow(q)' = OwnRow(q)
        /\ Owns(q)' <=> Owns(q)
  BY DEF Leaves, SameWorker, Owns, OwnRow, law, Current
<1>2. \A q \in Workers \ {p} :
        /\ \A l : Writing(q, l)' <=> Writing(q, l)
        /\ \A l, lo, hi : Reaches(q, l, lo, hi)' <=> Reaches(q, l, lo, hi)
  BY <1>1, SameReach DEF Leaves
<1>3. \A l : ~Writing(p, l)'
  BY DEF Leaves, Writing
<1>4. \A l \in Laws : ~broken'[l] => ~broken[l]
  <2>1. CASE broken' = broken
    BY <2>1
  <2>2. CASE broken' # broken
    BY <2>2 DEF Leaves, ImportTypeOK
  <2> QED
    BY <2>1, <2>2
<1>5. \A l \in Laws : Writing(p, l) /\ ~broken'[l] =>
        \/ pc[p] = "createArticle" /\ (pos[p] > Len(Extract[doc[p]]) \/ OwnRow(p) # NoRow)
        \/ pc[p] = "createChild" /\ ~Owns(p)
  BY DEF Leaves, Writing, ImportTypeOK
<1>6. CreatorInv'
  <2> SUFFICES ASSUME NEW q \in Workers, pc'[q] \in {"createArticle", "createChild"}
               PROVE  /\ pos'[q] # 0
                      /\ pc'[q] = "createChild" =>
                           /\ pos'[q] <= Len(Extract[doc'[q]])
                           /\ Owns(q)' => /\ OwnRow(q)'.doc = doc'[q]
                                          /\ OwnRow(q)'.pos = pos'[q]
                                          /\ OwnRow(q)'.kids < Current(q)'.kids
    BY DEF CreatorInv
  <2>1. q \in Workers \ {p} /\ SameWorker(q)
    BY DEF Leaves
  <2> QED
    BY <1>1, <2>1 DEF CreatorInv, SameWorker
<1>7. WriterInv'
  <2> SUFFICES ASSUME NEW q \in Workers, NEW l \in Laws, Writing(q, l)'
               PROVE  doc'[q] \in editions'[l]
    BY DEF WriterInv
  <2>1. q \in Workers \ {p} /\ SameWorker(q)
    BY <1>3 DEF Leaves
  <2> QED
    BY <1>2, <2>1 DEF WriterInv, SameWorker, Leaves
<1>8. RowInv'
  BY DEF RowInv, Leaves
<1>9. NoTornArticle'
  <2> SUFFICES ASSUME NEW l \in Laws, NEW n \in Numbers, NEW r, r = article[l][n],
                      r # NoRow, ~broken'[l], r.kids # Extract[r.doc][r.pos].kids
               PROVE  /\ pc'[r.by] = "createChild"
                      /\ law(r.by)' = l /\ doc'[r.by] = r.doc /\ pos'[r.by] = r.pos
    BY DEF NoTornArticle, Leaves
  <2>1. /\ pc[r.by] = "createChild"
        /\ law(r.by) = l /\ doc[r.by] = r.doc /\ pos[r.by] = r.pos
    BY <1>4 DEF NoTornArticle
  <2>2. r.by \in Workers
    BY DEF ImportTypeOK, StoreTypeOK, ArticleRow
  <2>3. r.by # p
    <3> SUFFICES ASSUME r.by = p PROVE FALSE
      OBVIOUS
    <3>1. ~Owns(p)
      BY <1>5, <2>1 DEF Writing
    <3>2. OwnRow(p) = r
      BY <2>1 DEF RowInv, OwnRow, Current
    <3> QED
      BY <3>1, <3>2 DEF Owns
  <2> QED
    BY <1>1, <2>1, <2>2, <2>3 DEF Leaves, SameWorker
<1>10. CoverageInv'
  <2> SUFFICES ASSUME NEW l \in Laws, NEW d \in Docs,
                      editions[l] = {d}, DistinctNumbers(d), ~broken'[l]
               PROVE  /\ \A j \in DOMAIN Extract[d] :
                           Written(l, d, j) \/ \E q \in Workers : Reaches(q, l, 1, j)'
                      /\ \A k, j \in DOMAIN Extract[d] :
                           k < j /\ Written(l, d, k) =>
                             Written(l, d, j) \/ \E q \in Workers : Reaches(q, l, k + 1, j)'
    BY DEF CoverageInv, Written, Leaves, DistinctNumbers
  <2>1. /\ \A j \in DOMAIN Extract[d] :
             Written(l, d, j) \/ \E q \in Workers : Reaches(q, l, 1, j)
        /\ \A k, j \in DOMAIN Extract[d] :
             k < j /\ Written(l, d, k) =>
               Written(l, d, j) \/ \E q \in Workers : Reaches(q, l, k + 1, j)
    BY <1>4 DEF CoverageInv
  <2>2. DOMAIN Extract[d] = 1..Len(Extract[d]) /\ Len(Extract[d]) \in Nat
    BY ExtractAssumption
  <2>3. ASSUME NEW lo \in Nat, NEW j \in DOMAIN Extract[d], Reaches(p, l, lo, j)
        PROVE  Written(l, d, j) \/ \E q \in Workers \ {p} : Reaches(q, l, lo, j)
    <3>1. Writing(p, l) /\ doc[p] = d /\ law(p) = l
      BY <2>3 DEF Reaches, WriterInv, Writing
    <3>2. pc[p] = "createArticle" /\ lo <= pos[p] /\ pos[p] <= j
      BY <1>5, <2>3, <3>1 DEF Reaches
    <3>3. pos[p] \in Nat /\ pos[p] # 0
      BY <3>2 DEF ImportTypeOK, CreatorInv
    <3>4. pos[p] \in DOMAIN Extract[d] /\ OwnRow(p) # NoRow
      BY <1>5, <2>2, <3>1, <3>2, <3>3
    <3>5. Written(l, d, pos[p])
      BY <3>1, <3>4 DEF Written, OwnRow, Current
    <3>6. CASE pos[p] = j
      BY <3>5, <3>6
    <3>7. CASE pos[p] < j
      <4>1. Written(l, d, j) \/ \E q \in Workers : Reaches(q, l, pos[p] + 1, j)
        BY <2>1, <3>4, <3>5, <3>7
      <4>2. ~Reaches(p, l, pos[p] + 1, j)
        BY <3>2, <3>3 DEF Reaches
      <4>3. \A q \in Workers : Reaches(q, l, pos[p] + 1, j) => Reaches(q, l, lo, j)
        BY <2>2, <3>2, <3>3, ReachesWider
      <4> QED
        BY <4>1, <4>2, <4>3
    <3> QED
      BY <2>2, <3>2, <3>3, <3>6, <3>7
  <2>4. \A lo \in Nat, j \in DOMAIN Extract[d] :
          (\E q \in Workers : Reaches(q, l, lo, j))
            => Written(l, d, j) \/ \E q \in Workers : Reaches(q, l, lo, j)'
    BY <1>2, <2>3
  <2>5. ASSUME NEW j \in DOMAIN Extract[d]
        PROVE  Written(l, d, j) \/ \E q \in Workers : Reaches(q, l, 1, j)'
    BY <2>1, <2>4
  <2>6. ASSUME NEW k \in DOMAIN Extract[d], NEW j \in DOMAIN Extract[d],
               k < j, Written(l, d, k)
        PROVE  Written(l, d, j) \/ \E q \in Workers : Reaches(q, l, k + 1, j)'
    <3>1. k + 1 \in Nat
      BY <2>2
    <3> QED
      BY <2>1, <2>4, <2>6, <3>1
  <2> QED
    BY <2>5, <2>6
<1> QED
  BY <1>6, <1>7, <1>8, <1>9, <1>10 DEF SafeInv

-----------------------------------------------------------------------------
(* article.deleteMany: the rows of the law are gone, and the worker that   *)
(* deleted them is to create all of them.                                  *)
LEMMA DeleteInv ==
  ASSUME ImportInv, NEW p \in Workers, DeleteArticles(p)
  PROVE  SafeInv'
<1> USE DEF ImportInv
<1>0. /\ law(p) \in Laws /\ doc[p] \in Docs /\ pc[p] = "deleteArticles"
      /\ law(p)' = law(p) /\ pc'[p] = "createArticle" /\ pos'[p] = 1 /\ doc'[p] = doc[p]
  BY LawType DEF DeleteArticles, ImportTypeOK, Goto, law
<1>1. \A q \in Workers \ {p} : SameWorker(q) /\ law(q)' = law(q)
  BY DEF SameWorker, DeleteArticles, ImportTypeOK, Goto, law
<1>2. /\ \A n \in Numbers : article'[law(p)][n] = NoRow
      /\ \A l \in Laws \ {law(p)} : /\ article'[l] = article[l]
                                    /\ editions'[l] = editions[l]
                                    /\ broken'[l] = broken[l]
  BY <1>0 DEF DeleteArticles, NoArticles, ImportTypeOK, StoreTypeOK
<1>3. editions'[law(p)] = {doc[p]} \cup {doc[q] : q \in {w \in Workers : Writing(w, law(p))}}
  BY <1>0 DEF DeleteArticles, ImportTypeOK
<1>4. \A q \in Workers \ {p} : \A l : Writing(q, l)' <=> Writing(q, l)
  BY <1>1 DEF Writing, SameWorker
<1>5. \A q \in Workers \ {p} :
        pc[q] = "createChild" =>
          /\ Current(q)' = Current(q) /\ Current(q).num \in Numbers /\ law(q) \in Laws
          /\ doc[q] \in Docs
          /\ law(q) = law(p) => OwnRow(q)' = NoRow
          /\ law(q) # law(p) => OwnRow(q)' = OwnRow(q)
  <2> SUFFICES ASSUME NEW q \in Workers \ {p}, pc[q] = "createChild"
               PROVE  /\ Current(q)' = Current(q) /\ Current(q).num \in Numbers
                      /\ law(q) \in Laws /\ doc[q] \in Docs
                      /\ law(q) = law(p) => OwnRow(q)' = NoRow
                      /\ law(q) # law(p) => OwnRow(q)' = OwnRow(q)
    OBVIOUS
  <2>1. doc[q] \in Docs /\ pos[q] \in Nat /\ pos[q] # 0 /\ pos[q] <= Len(Extract[doc[q]])
    BY DEF ImportTypeOK, CreatorInv
  <2>2. law(q) \in Laws
    BY LawType
  <2>3. Current(q)' = Current(q) /\ Current(q).num \in Numbers
    BY <1>1, <2>1, ExtractElement DEF Current, SameWorker
  <2> QED
    BY <1>1, <1>2, <2>1, <2>2, <2>3 DEF OwnRow
<1>6. CreatorInv'
  <2> SUFFICES ASSUME NEW q \in Workers, pc'[q] \in {"createArticle", "createChild"}
               PROVE  /\ pos'[q] # 0
                      /\ pc'[q] = "createChild" =>
                           /\ pos'[q] <= Len(Extract[doc'[q]])
                           /\ Owns(q)' => /\ OwnRow(q)'.doc = doc'[q]
                                          /\ OwnRow(q)'.pos = pos'[q]
                                          /\ OwnRow(q)'.kids < Current(q)'.kids
    BY DEF CreatorInv
  <2>1. CASE q = p
    BY <1>0, <2>1
  <2>2. CASE q # p
    BY <1>1, <1>5, <2>2 DEF CreatorInv, SameWorker, Owns
  <2> QED
    BY <2>1, <2>2
<1>7. WriterInv'
  <2> SUFFICES ASSUME NEW q \in Workers, NEW l \in Laws, Writing(q, l)'
               PROVE  doc'[q] \in editions'[l]
    BY DEF WriterInv
  <2>1. CASE q = p
    BY <1>0, <1>3, <2>1 DEF Writing
  <2>2. CASE q # p
    <3>1. Writing(q, l) /\ doc'[q] = doc[q]
      BY <1>1, <1>4, <2>2 DEF SameWorker
    <3> QED
      BY <1>2, <1>3, <3>1 DEF WriterInv
  <2> QED
    BY <2>1, <2>2
<1>8. RowInv'
  BY <1>2 DEF RowInv
<1>9. NoTornArticle'
  <2> SUFFICES ASSUME NEW l \in Laws, NEW n \in Numbers, NEW r, r = article'[l][n],
                      r # NoRow, ~broken'[l], r.kids # Extract[r.doc][r.pos].kids
               PROVE  /\ pc'[r.by] = "createChild"
                      /\ law(r.by)' = l /\ doc'[r.by] = r.doc /\ pos'[r.by] = r.pos
    BY DEF NoTornArticle
  <2>1. r = article[l][n] /\ ~broken[l]
    BY <1>2
  <2>2. /\ pc[r.by] = "createChild"
        /\ law(r.by) = l /\ doc[r.by] = r.doc /\ pos[r.by] = r.pos
    BY <2>1 DEF NoTornArticle
  <2>3. r.by \in Workers
    BY <2>1 DEF ImportTypeOK, StoreTypeOK, ArticleRow
  <2> QED
    BY <1>0, <1>1, <2>2, <2>3 DEF SameWorker
<1>10. CoverageInv'
  <2> SUFFICES ASSUME NEW l \in Laws, NEW d \in Docs,
                      editions'[l] = {d}, DistinctNumbers(d), ~broken'[l]
               PROVE  /\ \A j \in DOMAIN Extract[d] :
                           Written(l, d, j)' \/ \E q \in Workers : Reaches(q, l, 1, j)'
                      /\ \A k, j \in DOMAIN Extract[d] :
                           k < j /\ Written(l, d, k)' =>
                             Written(l, d, j)' \/ \E q \in Workers : Reaches(q, l, k + 1, j)'
    BY DEF CoverageInv, DistinctNumbers
  <2>0. DOMAIN Extract[d] = 1..Len(Extract[d]) /\ Len(Extract[d]) \in Nat
    BY ExtractAssumption
  <2>1. CASE l = law(p)
    <3>1. \A j \in DOMAIN Extract[d] : Extract[d][j].num \in Numbers
      BY <2>0, ExtractElement
    <3>2. \A j \in DOMAIN Extract[d] : ~Written(l, d, j)'
      BY <1>2, <2>1, <3>1 DEF Written
    <3>3. \A j \in DOMAIN Extract[d] : Reaches(p, l, 1, j)'
      BY <1>0, <2>0, <2>1 DEF Reaches, Writing
    <3> QED
      BY <3>2, <3>3
  <2>2. CASE l # law(p)
    <3>1. \A q \in Workers : \A lo, hi : Reaches(q, l, lo, hi) => Reaches(q, l, lo, hi)'
      <4> SUFFICES ASSUME NEW q \in Workers, NEW lo, NEW hi, Reaches(q, l, lo, hi)
                   PROVE  Reaches(q, l, lo, hi)'
        OBVIOUS
      <4>1. q # p /\ law(q) = l
        BY <1>0 DEF Reaches, Writing
      <4>2. pc[q] = "createChild" => (Owns(q)' <=> Owns(q))
        BY <1>5, <2>2, <4>1 DEF Owns
      <4> QED
        BY <1>1, <1>4, <4>1, <4>2 DEF Reaches, SameWorker
    <3>2. \A j : Written(l, d, j)' <=> Written(l, d, j)
      BY <1>2, <2>2 DEF Written
    <3>3. editions[l] = {d} /\ ~broken[l]
      BY <1>2, <2>2
    <3> QED
      BY <3>1, <3>2, <3>3 DEF CoverageInv
  <2> QED
    BY <2>1, <2>2
<1> QED
  BY <1>6, <1>7, <1>8, <1>9, <1>10 DEF SafeInv

-----------------------------------------------------------------------------
(* article.create and the creates below it.  A worker p writes row r at    *)
(* the number n of its law; r's owner is p, and no worker other than p     *)
(* owned the row at n before.  Afterwards p has reached the position after *)
(* its old one.                                                            *)
Writes(p, n, r) ==
  /\ article' = [article EXCEPT ![law(p)] = [@ EXCEPT ![n] = r]]
  /\ UNCHANGED <<todo, doc, editions, broken>>
  /\ \A q \in Workers \ {p} : SameWorker(q)
  /\ n = Current(p).num
  /\ r \in ArticleRow /\ r.by = p /\ r.doc = doc[p] /\ r.pos = pos[p]
  /\ OwnRow(p) = NoRow \/ OwnRow(p).by = p
  /\ \/ /\ pc'[p] = "createChild" /\ pos'[p] = pos[p]
        /\ r.kids < Current(p).kids
     \/ /\ pc'[p] = "createArticle" /\ pos'[p] = pos[p] + 1
        /\ r.kids = Current(p).kids

(* Writing a row, or a child below it, preserves the invariant.            *)
LEMMA WriteInv ==
  ASSUME ImportInv, NEW p \in Workers, NEW n \in Numbers, NEW r,
         Writes(p, n, r),
         \/ pc[p] = "createArticle" /\ OwnRow(p) = NoRow /\ pos[p] <= Len(Extract[doc[p]])
         \/ pc[p] = "createChild" /\ Owns(p)
  PROVE  SafeInv'
<1> USE DEF ImportInv
<1>0. /\ law(p) \in Laws /\ doc[p] \in Docs /\ pos[p] \in Nat /\ pos[p] # 0
      /\ pos[p] \in DOMAIN Extract[doc[p]]
  <2>1. doc[p] \in Docs /\ pos[p] \in Nat /\ pos[p] # 0 /\ pos[p] <= Len(Extract[doc[p]])
    BY DEF ImportTypeOK, CreatorInv
  <2> QED
    BY <2>1, LawType, ExtractElement
<1>1. /\ \A q \in Workers : law(q)' = law(q) /\ doc'[q] = doc[q]
      /\ \A q \in Workers \ {p} : SameWorker(q) /\ Current(q)' = Current(q)
  BY DEF Writes, SameWorker, law, Current
<1>2. /\ article'[law(p)][n] = r
      /\ \A m \in Numbers \ {n} : article'[law(p)][m] = article[law(p)][m]
      /\ \A l \in Laws \ {law(p)} : article'[l] = article[l]
  BY <1>0 DEF Writes, ImportTypeOK, StoreTypeOK
<1>3. r # NoRow /\ article[law(p)][n] = OwnRow(p)
  BY NoRowAssumption DEF Writes, OwnRow
<1>4. \A l \in Laws : /\ Writing(p, l)' <=> l = law(p)
                      /\ Writing(p, l) <=> l = law(p)
  BY <1>1 DEF Writes, Writing
<1>5. \A q \in Workers \ {p} :
        pc[q] = "createChild" =>
          /\ Owns(q)' <=> Owns(q)
          /\ Owns(q) => OwnRow(q)' = OwnRow(q)
  <2> SUFFICES ASSUME NEW q \in Workers \ {p}, pc[q] = "createChild"
               PROVE  (Owns(q)' <=> Owns(q)) /\ (Owns(q) => OwnRow(q)' = OwnRow(q))
    OBVIOUS
  <2>1. doc[q] \in Docs /\ pos[q] \in Nat /\ pos[q] # 0 /\ pos[q] <= Len(Extract[doc[q]])
    BY DEF ImportTypeOK, CreatorInv
  <2>2. law(q) \in Laws /\ Current(q).num \in Numbers
    BY <2>1, LawType, ExtractElement DEF Current
  <2>3. CASE law(q) = law(p) /\ Current(q).num = n
    <3>1. OwnRow(q) = OwnRow(p) /\ OwnRow(q)' = r
      BY <1>1, <1>2, <1>3, <2>3 DEF OwnRow
    <3> QED
      BY <3>1 DEF Owns, Writes
  <2>4. CASE ~(law(q) = law(p) /\ Current(q).num = n)
    <3>1. OwnRow(q)' = OwnRow(q)
      BY <1>1, <1>2, <2>2, <2>4 DEF OwnRow
    <3> QED
      BY <3>1 DEF Owns
  <2> QED
    BY <2>3, <2>4
<1>6. \A q \in Workers \ {p} :
        /\ \A l : Writing(q, l)' <=> Writing(q, l)
        /\ \A l, lo, hi : Reaches(q, l, lo, hi)' <=> Reaches(q, l, lo, hi)
  BY <1>1, <1>5 DEF SameWorker, Writing, Reaches
<1>7. pc'[p] = "createChild" => OwnRow(p)' = r /\ Owns(p)' /\ Current(p)' = Current(p)
  BY <1>1, <1>2, <1>3 DEF OwnRow, Owns, Writes, Current
<1>8. CreatorInv'
  <2> SUFFICES ASSUME NEW q \in Workers, pc'[q] \in {"createArticle", "createChild"}
               PROVE  /\ pos'[q] # 0
                      /\ pc'[q] = "createChild" =>
                           /\ pos'[q] <= Len(Extract[doc'[q]])
                           /\ Owns(q)' => /\ OwnRow(q)'.doc = doc'[q]
                                          /\ OwnRow(q)'.pos = pos'[q]
                                          /\ OwnRow(q)'.kids < Current(q)'.kids
    BY DEF CreatorInv
  <2>1. CASE q = p
    <3>1. pos'[p] # 0
      BY <1>0 DEF Writes
    <3>2. pos[p] <= Len(Extract[doc[p]])
      BY <1>0 DEF CreatorInv
    <3> QED
      BY <1>1, <1>7, <2>1, <3>1, <3>2 DEF Writes
  <2>2. CASE q # p
    BY <1>1, <1>5, <2>2 DEF CreatorInv, SameWorker
  <2> QED
    BY <2>1, <2>2
<1>9. WriterInv'
  <2> SUFFICES ASSUME NEW q \in Workers, NEW l \in Laws, Writing(q, l)'
               PROVE  doc'[q] \in editions'[l]
    BY DEF WriterInv
  <2>1. Writing(q, l)
    BY <1>4, <1>6
  <2> QED
    BY <1>1, <2>1 DEF WriterInv, Writes
<1>10. RowInv'
  <2>1. r.doc \in editions[law(p)] /\ r.pos \in DOMAIN Extract[r.doc]
        /\ Extract[r.doc][r.pos].num = n
    BY <1>0, <1>4 DEF Writes, WriterInv, Current
  <2> SUFFICES ASSUME NEW l \in Laws, NEW m \in Numbers, article'[l][m] # NoRow
               PROVE  /\ article'[l][m].doc \in editions'[l]
                      /\ article'[l][m].pos \in DOMAIN Extract[article'[l][m].doc]
                      /\ Extract[article'[l][m].doc][article'[l][m].pos].num = m
    BY DEF RowInv
  <2>2. CASE l = law(p) /\ m = n
    BY <1>2, <2>1, <2>2 DEF Writes
  <2>3. CASE ~(l = law(p) /\ m = n)
    <3>1. article'[l][m] = article[l][m] /\ editions'[l] = editions[l]
      BY <1>2, <2>3 DEF Writes
    <3> QED
      BY <3>1 DEF RowInv
  <2> QED
    BY <2>2, <2>3
<1>11. NoTornArticle'
  <2> SUFFICES ASSUME NEW l \in Laws, NEW m \in Numbers, NEW s, s = article'[l][m],
                      s # NoRow, ~broken'[l], s.kids # Extract[s.doc][s.pos].kids
               PROVE  /\ pc'[s.by] = "createChild"
                      /\ law(s.by)' = l /\ doc'[s.by] = s.doc /\ pos'[s.by] = s.pos
    BY DEF NoTornArticle
  <2>1. CASE l = law(p) /\ m = n
    <3>1. s = r
      BY <1>2, <2>1
    <3>2. s.by = p /\ s.doc = doc[p] /\ s.pos = pos[p] /\ s.kids # Current(p).kids
      BY <3>1 DEF Writes, Current
    <3>3. pc'[p] = "createChild" /\ pos'[p] = pos[p]
      BY <3>1, <3>2 DEF Writes
    <3> QED
      BY <1>1, <2>1, <3>2, <3>3
  <2>2. CASE ~(l = law(p) /\ m = n)
    <3>1. s = article[l][m] /\ ~broken[l]
      BY <1>2, <2>2 DEF Writes
    <3>2. /\ pc[s.by] = "createChild"
          /\ law(s.by) = l /\ doc[s.by] = s.doc /\ pos[s.by] = s.pos
      BY <3>1 DEF NoTornArticle
    <3>3. s.by \in Workers
      BY <3>1 DEF ImportTypeOK, StoreTypeOK, ArticleRow
    <3>4. s.by # p
      <4>1. Extract[s.doc][s.pos].num = m
        BY <3>1 DEF RowInv
      <4> QED
        BY <2>2, <3>2, <4>1 DEF Writes, Current
    <3> QED
      BY <1>1, <3>2, <3>3, <3>4 DEF SameWorker
  <2> QED
    BY <2>1, <2>2
<1>12. CoverageInv'
  <2> SUFFICES ASSUME NEW l \in Laws, NEW d \in Docs,
                      editions[l] = {d}, DistinctNumbers(d), ~broken[l]
               PROVE  /\ \A j \in DOMAIN Extract[d] :
                           Written(l, d, j)' \/ \E q \in Workers : Reaches(q, l, 1, j)'
                      /\ \A k, j \in DOMAIN Extract[d] :
                           k < j /\ Written(l, d, k)' =>
                             Written(l, d, j)' \/ \E q \in Workers : Reaches(q, l, k + 1, j)'
    BY DEF CoverageInv, DistinctNumbers, Writes
  <2>0. /\ DOMAIN Extract[d] = 1..Len(Extract[d]) /\ Len(Extract[d]) \in Nat
        /\ \A j \in DOMAIN Extract[d] : Extract[d][j].num \in Numbers
    <3>1. DOMAIN Extract[d] = 1..Len(Extract[d]) /\ Len(Extract[d]) \in Nat
      BY ExtractAssumption
    <3> QED
      BY <3>1, ExtractElement
  <2>1. /\ \A j \in DOMAIN Extract[d] :
             Written(l, d, j) \/ \E q \in Workers : Reaches(q, l, 1, j)
        /\ \A k, j \in DOMAIN Extract[d] :
             k < j /\ Written(l, d, k) =>
               Written(l, d, j) \/ \E q \in Workers : Reaches(q, l, k + 1, j)
    BY DEF CoverageInv
  <2>2. CASE l # law(p)
    <3>1. \A j : Written(l, d, j)' <=> Written(l, d, j)
      BY <1>2, <2>2 DEF Written
    <3>2. \A q \in Workers : \A lo, hi : Reaches(q, l, lo, hi) => Reaches(q, l, lo, hi)'
      BY <1>4, <1>6, <2>2 DEF Reaches
    <3> QED
      BY <2>1, <3>1, <3>2
  <2>3. CASE l = law(p)
    <3>1. doc[p] = d /\ pos[p] \in DOMAIN Extract[d] /\ Extract[d][pos[p]].num = n
      BY <1>0, <1>4, <2>3 DEF WriterInv, Writes, Current
    <3>2. \A j \in DOMAIN Extract[d] : Written(l, d, j) => Written(l, d, j)'
      BY <1>2, <1>3, <2>0, <2>3 DEF Written
    <3>3. \A j \in DOMAIN Extract[d] : j = pos[p] => Written(l, d, j)'
      BY <1>2, <1>3, <2>3, <3>1 DEF Written
    <3>4. \A k \in DOMAIN Extract[d] : Written(l, d, k)' => Written(l, d, k) \/ k = pos[p]
      BY <1>2, <2>0, <2>3, <3>1 DEF Written, DistinctNumbers
    <3>5. \A lo \in Nat, hi \in Nat :
            lo <= pos[p] + 1 /\ pos[p] + 1 <= hi => Reaches(p, l, lo, hi)'
      BY <1>0, <1>4, <1>7, <2>3 DEF Reaches, Writes
    <3>6. \A lo \in Nat, j \in DOMAIN Extract[d] :
            Reaches(p, l, lo, j) => Written(l, d, j)' \/ Reaches(p, l, lo, j)'
      <4> SUFFICES ASSUME NEW lo \in Nat, NEW j \in DOMAIN Extract[d], Reaches(p, l, lo, j),
                          j # pos[p]
                   PROVE  Reaches(p, l, lo, j)'
        BY <3>3
      <4>1. lo <= pos[p] + 1 /\ pos[p] + 1 <= j /\ j \in Nat
        BY <1>0, <2>0 DEF Reaches
      <4> QED
        BY <3>5, <4>1
    <3>7. \A lo \in Nat, j \in DOMAIN Extract[d] :
            (\E q \in Workers : Reaches(q, l, lo, j))
              => Written(l, d, j)' \/ \E q \in Workers : Reaches(q, l, lo, j)'
      BY <1>6, <3>6
    <3>8. ASSUME NEW j \in DOMAIN Extract[d]
          PROVE  Written(l, d, j)' \/ \E q \in Workers : Reaches(q, l, 1, j)'
      BY <2>1, <3>2, <3>7
    <3>9. ASSUME NEW k \in DOMAIN Extract[d], NEW j \in DOMAIN Extract[d],
                 k < j, Written(l, d, k)'
          PROVE  Written(l, d, j)' \/ \E q \in Workers : Reaches(q, l, k + 1, j)'
      <4>0. k + 1 \in Nat /\ j \in Nat
        BY <2>0
      <4>1. CASE Written(l, d, k)
        BY <2>1, <3>2, <3>7, <3>9, <4>0, <4>1
      <4>2. CASE k = pos[p]
        <5>1. Reaches(p, l, k + 1, j)'
          BY <2>0, <3>5, <3>9, <4>0, <4>2
        <5> QED
          BY <5>1
      <4> QED
        BY <3>4, <3>9, <4>1, <4>2
    <3> QED
      BY <3>8, <3>9
  <2> QED
    BY <2>2, <2>3
<1> QED
  BY <1>8, <1>9, <1>10, <1>11, <1>12 DEF SafeInv

-----------------------------------------------------------------------------
(* Every step preserves the safety part of the invariant.                  *)
LEMMA SafeStep ==
  ASSUME ImportInv, [ImportNext]_vars
  PROVE  SafeInv'
<1> USE DEF ImportInv
<1>1. ASSUME UNCHANGED <<article, pc, todo, doc, pos, editions, broken>>
      PROVE  SafeInv'
  <2>1. \A q : law(q)' = law(q) /\ Current(q)' = Current(q) /\ OwnRow(q)' = OwnRow(q)
    BY <1>1 DEF law, Current, OwnRow
  <2>2. \A q : /\ Owns(q)' <=> Owns(q)
               /\ \A l : Writing(q, l)' <=> Writing(q, l)
               /\ \A l, lo, hi : Reaches(q, l, lo, hi)' <=> Reaches(q, l, lo, hi)
    BY <1>1, <2>1 DEF Owns, Writing, Reaches
  <2>3. CreatorInv'
    BY <1>1, <2>1, <2>2 DEF CreatorInv
  <2>4. WriterInv' /\ RowInv'
    BY <1>1, <2>2 DEF WriterInv, RowInv
  <2>5. NoTornArticle'
    BY <1>1, <2>1 DEF NoTornArticle
  <2>6. \A l, d, j : Written(l, d, j)' <=> Written(l, d, j)
    BY <1>1 DEF Written
  <2>7. \A d : DistinctNumbers(d)' <=> DistinctNumbers(d)
    BY DEF DistinctNumbers
  <2>8. CoverageInv'
    <3> SUFFICES ASSUME NEW l \in Laws, NEW d \in Docs,
                        editions[l] = {d}, DistinctNumbers(d), ~broken[l]
                 PROVE  /\ \A j \in DOMAIN Extract[d] :
                             Written(l, d, j)' \/ \E p \in Workers : Reaches(p, l, 1, j)'
                        /\ \A k, j \in DOMAIN Extract[d] :
                             k < j /\ Written(l, d, k)' =>
                               Written(l, d, j)' \/ \E p \in Workers : Reaches(p, l, k + 1, j)'
      BY <1>1, <2>7 DEF CoverageInv
    <3> QED
      BY <2>2, <2>6 DEF CoverageInv
  <2> QED
    BY <2>3, <2>4, <2>5, <2>8 DEF SafeInv
<1>2. ASSUME NEW p \in Workers, NEW step \in {"readFile", "findVersion"}, NEW list,
             Start(p, step, list)
      PROVE  SafeInv'
  <2>1. Leaves(p) /\ broken' = broken
    BY <1>2 DEF Start, Goto, Leaves, SameWorker, ImportTypeOK, storeVars
  <2> QED
    BY <2>1, LeaveInv
<1>3. ASSUME NEW p \in Workers,
             pc[p] \in {"readFile", "upsertVersion", "setCurrent", "findVersion", "loadXml"},
             Step(p)
      PROVE  SafeInv'
  <2>1. Leaves(p) /\ broken' = broken
    <3>0. pc[p] # "idle" /\ pc[p] \notin {"createArticle", "createChild", "deleteArticles"}
      BY <1>3
    <3>1. UNCHANGED <<article, editions, broken>>
      BY <1>3, <3>0 DEF Step, UpsertLawMaster, UpsertLawVersion, UpdateCurrentVersionId,
           FindLatestVersion, LoadXml, DeleteArticles, CreateArticle, CreateChild,
           ImportDone, storeVars
    <3>2. \/ NextLaw(p, "readFile") \/ NextLaw(p, "findVersion")
          \/ /\ \E step \in {"upsertVersion", "setCurrent", "loadXml", "deleteArticles"} :
                  Goto(p, step)
             /\ UNCHANGED <<todo, pos>>
             /\ \E x : doc' = [doc EXCEPT ![p] = x]
      <4>1. doc = [doc EXCEPT ![p] = doc[p]]
        BY DEF ImportTypeOK
      <4>2. CASE UpsertLawMaster(p)
        BY <4>2 DEF UpsertLawMaster
      <4>3. CASE UpsertLawVersion(p)
        BY <4>1, <4>3 DEF UpsertLawVersion
      <4>4. CASE UpdateCurrentVersionId(p)
        BY <4>4 DEF UpdateCurrentVersionId
      <4>5. CASE FindLatestVersion(p)
        BY <4>1, <4>5 DEF FindLatestVersion
      <4>6. CASE LoadXml(p)
        BY <4>6 DEF LoadXml
      <4> QED
        BY <1>3, <3>0, <4>2, <4>3, <4>4, <4>5, <4>6
           DEF Step, DeleteArticles, CreateArticle, CreateChild, ImportDone
    <3>3. (\A q \in Workers \ {p} : SameWorker(q))
          /\ pc'[p] \notin {"createArticle", "createChild"}
      <4>1. CASE NextLaw(p, "readFile") \/ NextLaw(p, "findVersion")
        BY <3>0, <4>1, LeaveLaw DEF SameWorker
      <4>2. CASE ~(NextLaw(p, "readFile") \/ NextLaw(p, "findVersion"))
        BY <3>2, <4>2 DEF Goto, SameWorker, ImportTypeOK
      <4> QED
        BY <4>1, <4>2
    <3> QED
      BY <3>0, <3>1, <3>3 DEF Leaves
  <2> QED
    BY <2>1, LeaveInv
<1>4. ASSUME NEW p \in Workers, CreateArticle(p)
      PROVE  SafeInv'
  <2>0. /\ pc[p] = "createArticle" /\ doc[p] \in Docs /\ pos[p] \in Nat /\ pos[p] # 0
        /\ pos[p] <= Len(Extract[doc[p]])
        /\ Current(p).num \in Numbers /\ Current(p).kids \in Nat
    BY <1>4, ExtractElement DEF CreateArticle, CreatorInv, ImportTypeOK, Current
  <2>1. CASE OwnRow(p) # NoRow
    <3>1. NextLaw(p, "findVersion") /\ UNCHANGED <<article, editions, broken>>
      BY <1>4, <2>1 DEF CreateArticle
    <3>2. Leaves(p)
      BY <2>0, <2>1, <3>1, LeaveLaw DEF Leaves, SameWorker
    <3> QED
      BY <3>1, <3>2, LeaveInv
  <2>2. CASE OwnRow(p) = NoRow
    <3> DEFINE r == [by |-> p, doc |-> doc[p], pos |-> pos[p], kids |-> 0]
    <3>1. r \in ArticleRow
      BY <2>0 DEF ArticleRow
    <3>2. /\ article' = [article EXCEPT ![law(p)] = [@ EXCEPT ![Current(p).num] = r]]
          /\ UNCHANGED <<todo, doc, editions, broken>>
      BY <1>4, <2>2 DEF CreateArticle
    <3>3. /\ \/ pc'[p] = "createChild" /\ pos'[p] = pos[p] /\ Current(p).kids # 0
             \/ pc'[p] = "createArticle" /\ pos'[p] = pos[p] + 1 /\ Current(p).kids = 0
          /\ \A q \in Workers \ {p} : pc'[q] = pc[q] /\ pos'[q] = pos[q]
      <4>1. CASE Current(p).kids = 0
        BY <1>4, <2>0, <2>2, <4>1 DEF CreateArticle, ImportTypeOK
      <4>2. CASE Current(p).kids # 0
        BY <1>4, <2>0, <2>2, <4>2 DEF CreateArticle, Goto, ImportTypeOK
      <4> QED
        BY <4>1, <4>2
    <3>4. Writes(p, Current(p).num, r)
      <4>1. r.by = p /\ r.doc = doc[p] /\ r.pos = pos[p] /\ r.kids = 0
        OBVIOUS
      <4> HIDE DEF r
      <4> QED
        BY <2>0, <2>2, <3>1, <3>2, <3>3, <4>1 DEF Writes, SameWorker
    <3> QED
      BY <2>0, <2>2, <3>4, WriteInv
  <2> QED
    BY <2>1, <2>2
<1>5. ASSUME NEW p \in Workers, CreateChild(p)
      PROVE  SafeInv'
  <2>0. /\ pc[p] = "createChild" /\ doc[p] \in Docs /\ pos[p] \in Nat /\ pos[p] # 0
        /\ pos[p] <= Len(Extract[doc[p]]) /\ law(p) \in Laws
        /\ Current(p).num \in Numbers /\ Current(p).kids \in Nat
    BY <1>5, ExtractElement, LawType DEF CreateChild, CreatorInv, ImportTypeOK, Current
  <2>1. CASE ~Owns(p)
    <3>1. NextLaw(p, "findVersion") /\ UNCHANGED <<article, editions, broken>>
      BY <1>5, <2>1 DEF CreateChild, Owns
    <3>2. Leaves(p)
      BY <2>0, <2>1, <3>1, LeaveLaw DEF Leaves, SameWorker
    <3> QED
      BY <3>1, <3>2, LeaveInv
  <2>2. CASE Owns(p)
    <3> DEFINE r == [OwnRow(p) EXCEPT !.kids = @ + 1]
    <3>1. OwnRow(p) \in ArticleRow
      BY <2>0, <2>2 DEF Owns, OwnRow, ImportTypeOK, StoreTypeOK
    <3>2. /\ r \in ArticleRow /\ r.by = p /\ r.doc = doc[p] /\ r.pos = pos[p]
          /\ r.kids = OwnRow(p).kids + 1 /\ OwnRow(p).kids \in Nat
      BY <2>0, <2>2, <3>1 DEF ArticleRow, Owns, CreatorInv
    <3>3. /\ article' = [article EXCEPT ![law(p)] = [@ EXCEPT ![Current(p).num] = r]]
          /\ UNCHANGED <<todo, doc, editions, broken>>
      BY <1>5, <2>0, <2>2 DEF CreateChild, Owns, OwnRow, ImportTypeOK, StoreTypeOK
    <3>4. OwnRow(p).kids < Current(p).kids
      BY <2>0, <2>2 DEF CreatorInv
    <3>5. /\ \/ pc'[p] = "createChild" /\ pos'[p] = pos[p] /\ OwnRow(p).kids + 1 # Current(p).kids
             \/ /\ pc'[p] = "createArticle" /\ pos'[p] = pos[p] + 1
                /\ OwnRow(p).kids + 1 = Current(p).kids
          /\ \A q \in Workers \ {p} : pc'[q] = pc[q] /\ pos'[q] = pos[q]
      <4>1. CASE OwnRow(p).kids + 1 = Current(p).kids
        BY <1>5, <2>0, <2>2, <4>1 DEF CreateChild, Owns, Goto, ImportTypeOK
      <4>2. CASE OwnRow(p).kids + 1 # Current(p).kids
        BY <1>5, <2>0, <2>2, <4>2 DEF CreateChild, Owns, ImportTypeOK
      <4> QED
        BY <4>1, <4>2
    <3>6. Writes(p, Current(p).num, r)
      <4> HIDE DEF r
      <4>1. \/ /\ pc'[p] = "createChild" /\ pos'[p] = pos[p]
               /\ r.kids < Current(p).kids
            \/ /\ pc'[p] = "createArticle" /\ pos'[p] = pos[p] + 1
               /\ r.kids = Current(p).kids
        BY <2>0, <3>2, <3>4, <3>5
      <4> QED
        BY <2>0, <2>2, <3>2, <3>3, <3>5, <4>1 DEF Writes, SameWorker, Owns
    <3> QED
      BY <2>0, <2>2, <3>6, WriteInv
  <2> QED
    BY <2>1, <2>2
<1>6. ASSUME NEW p \in Workers, ImportDone(p)
      PROVE  SafeInv'
  <2>1. Leaves(p) /\ broken' = broken
    BY <1>6, LeaveLaw DEF ImportDone, Leaves, SameWorker, storeVars
  <2> QED
    BY <2>1, LeaveInv
<1>7. ASSUME NEW p \in Workers, Reject(p) \/ Crash(p)
      PROVE  SafeInv'
  <2>1. /\ pc[p] # "idle" /\ UNCHANGED <<article, editions>> /\ CutShort(p)
        /\ Stop(p) \/ NextLaw(p, "findVersion")
    BY <1>7 DEF Reject, Crash, storeVars
  <2>2. Leaves(p)
    BY <2>1, LeaveLaw DEF Leaves, SameWorker, CutShort, Writing
  <2> QED
    BY <2>1, <2>2, LeaveInv
<1>8. ASSUME NEW p \in Workers, Step(p)
      PROVE  SafeInv'
  BY <1>3, <1>4, <1>5, <1>6, <1>8, DeleteInv
     DEF Step, UpsertLawMaster, UpsertLawVersion, UpdateCurrentVersionId,
         FindLatestVersion, LoadXml
<1>9. CASE \E l \in Laws, d \in Docs : NewEdition(l, d) /\ UNCHANGED importVars
  BY <1>1, <1>9 DEF NewEdition, importVars
<1>10. CASE UNCHANGED vars
  BY <1>1, <1>10 DEF vars, storeVars, importVars
<1> QED
  BY <1>2, <1>7, <1>8, <1>9, <1>10 DEF ImportNext, StartInit, StartImport

(* The order of the three calls of init-law-data.ts.                       *)
LEMMA OrderStep ==
  ASSUME ImportInv, [ImportNext]_vars
  PROVE  InitOrderInv'
<1> USE DEF ImportInv
<1>1. ASSUME UNCHANGED <<lawMaster, xmlContent, pc, todo>>
      PROVE  InitOrderInv'
  BY <1>1 DEF InitOrderInv, law
<1>2. ASSUME NEW p \in Workers,
             \A q \in Workers \ {p} : pc'[q] = pc[q] /\ law(q)' = law(q),
             pc'[p] \notin {"upsertVersion", "setCurrent", "loadXml"},
             \A l \in Laws : lawMaster[l] # "absent" => lawMaster'[l] # "absent",
             \A l \in Laws : xmlContent[l] # NoVersion => xmlContent'[l] # NoVersion
      PROVE  InitOrderInv'
  BY <1>2, LawType DEF InitOrderInv
<1>3. ASSUME NEW p \in Workers, UNCHANGED <<lawMaster, xmlContent>>,
             pc[p] # "idle",
             Stop(p) \/ NextLaw(p, "readFile") \/ NextLaw(p, "findVersion")
      PROVE  InitOrderInv'
  <2>1. /\ \A q \in Workers \ {p} : pc'[q] = pc[q] /\ law(q)' = law(q)
        /\ pc'[p] \notin {"upsertVersion", "setCurrent", "loadXml"}
    BY <1>3, LeaveLaw DEF law
  <2> QED
    BY <1>2, <1>3, <2>1
<1>4. ASSUME NEW p \in Workers, UNCHANGED <<lawMaster, xmlContent, todo>>,
             NEW step \in ImportSteps, pc' = [pc EXCEPT ![p] = step],
             step = "loadXml" => law(p) \in Laws /\ xmlContent[law(p)] # NoVersion
      PROVE  InitOrderInv'
  <2>1. \A q \in Workers : law(q)' = law(q)
    BY <1>4 DEF law
  <2>2. InitOrderInv'
    BY <1>4, <2>1 DEF InitOrderInv, ImportSteps, ImportTypeOK
  <2> QED
    BY <1>4, <2>2
<1>5. ASSUME NEW p \in Workers, UpsertLawMaster(p)
      PROVE  InitOrderInv'
  <2>0. pc[p] = "readFile" /\ law(p) \in Laws
    BY <1>5, LawType DEF UpsertLawMaster
  <2>1. CASE file[law(p)] = NoFile
    BY <1>3, <1>5, <2>0, <2>1 DEF UpsertLawMaster
  <2>2. CASE file[law(p)] # NoFile
    <3>1. /\ lawMaster' = [lawMaster EXCEPT ![law(p)] = IF @ = "absent" THEN "created" ELSE @]
          /\ UNCHANGED <<xmlContent, todo>> /\ pc' = [pc EXCEPT ![p] = "upsertVersion"]
      BY <1>5, <2>2 DEF UpsertLawMaster, Goto
    <3>2. \A q \in Workers : law(q)' = law(q)
      BY <3>1 DEF law
    <3>3. /\ \A l \in Laws : /\ lawMaster[l] # "absent" => lawMaster'[l] # "absent"
                             /\ lawMaster'[l] = "current" => lawMaster[l] = "current"
          /\ lawMaster'[law(p)] # "absent"
      BY <2>0, <3>1 DEF ImportTypeOK, StoreTypeOK
    <3>5. InitOrderInv'
      BY <2>0, <3>1, <3>2, <3>3, LawType DEF InitOrderInv, ImportTypeOK
    <3> QED
      BY <3>5
  <2> QED
    BY <2>1, <2>2
<1>6. ASSUME NEW p \in Workers, UpsertLawVersion(p)
      PROVE  InitOrderInv'
  <2>0. pc[p] = "upsertVersion" /\ law(p) \in Laws /\ doc[p] \in Docs
        /\ lawMaster[law(p)] # "absent"
    BY <1>6, LawType DEF UpsertLawVersion, ImportTypeOK, InitOrderInv
  <2>1. /\ xmlContent' = [xmlContent EXCEPT ![law(p)] = doc[p]]
        /\ UNCHANGED <<lawMaster, todo>> /\ pc' = [pc EXCEPT ![p] = "setCurrent"]
    BY <1>6 DEF UpsertLawVersion, Goto
  <2>2. /\ \A l \in Laws : xmlContent[l] # NoVersion => xmlContent'[l] # NoVersion
        /\ xmlContent'[law(p)] # NoVersion
        /\ \A l \in Laws \ {law(p)} : xmlContent'[l] = xmlContent[l]
    BY <2>0, <2>1, SentinelAssumption DEF ImportTypeOK, StoreTypeOK
  <2>3. \A q \in Workers : law(q)' = law(q)
    BY <2>1 DEF law
  <2>5. InitOrderInv'
    BY <2>0, <2>1, <2>2, <2>3, LawType DEF InitOrderInv, ImportTypeOK
  <2> QED
    BY <2>5
<1>7. ASSUME NEW p \in Workers, UpdateCurrentVersionId(p)
      PROVE  InitOrderInv'
  <2>0. pc[p] = "setCurrent" /\ law(p) \in Laws /\ xmlContent[law(p)] # NoVersion
    BY <1>7, LawType DEF UpdateCurrentVersionId, InitOrderInv
  <2>1. /\ lawMaster' = [lawMaster EXCEPT ![law(p)] = "current"]
        /\ UNCHANGED xmlContent /\ NextLaw(p, "readFile")
    BY <1>7 DEF UpdateCurrentVersionId
  <2>2. /\ \A q \in Workers \ {p} : pc'[q] = pc[q] /\ law(q)' = law(q)
        /\ pc'[p] \notin {"upsertVersion", "setCurrent", "loadXml"}
    BY <2>0, <2>1, LeaveLaw DEF law
  <2>3. /\ \A l \in Laws : lawMaster[l] # "absent" => lawMaster'[l] # "absent"
        /\ \A l \in Laws \ {law(p)} : lawMaster'[l] = lawMaster[l]
        /\ lawMaster'[law(p)] = "current"
    BY <2>0, <2>1 DEF ImportTypeOK, StoreTypeOK
  <2>5. InitOrderInv'
    BY <1>2, <2>1, <2>2, <2>3
  <2> QED
    BY <2>5
<1>8. ASSUME NEW p \in Workers, FindLatestVersion(p)
      PROVE  InitOrderInv'
  <2>1. pc[p] # "idle" /\ UNCHANGED <<lawMaster, xmlContent>>
    BY <1>8 DEF FindLatestVersion, storeVars
  <2>2. CASE NextLaw(p, "findVersion")
    BY <1>3, <2>1, <2>2
  <2>3. CASE ~NextLaw(p, "findVersion")
    <3>1. law(p) \in Laws
      BY <2>1, LawType
    <3>2. /\ UNCHANGED todo
          /\ \/ pc' = [pc EXCEPT ![p] = "loadXml"] /\ xmlContent[law(p)] = EmptyXml
             \/ pc' = [pc EXCEPT ![p] = "deleteArticles"]
      BY <1>8, <2>3 DEF FindLatestVersion, Goto
    <3> QED
      BY <1>4, <2>1, <3>1, <3>2, SentinelAssumption DEF ImportSteps
  <2> QED
    BY <2>2, <2>3
<1>9. ASSUME NEW p \in Workers, LoadXml(p)
      PROVE  InitOrderInv'
  <2>0. pc[p] = "loadXml" /\ law(p) \in Laws
    BY <1>9, LawType DEF LoadXml
  <2>1. CASE file[law(p)] = NoFile
    BY <1>3, <1>9, <2>0, <2>1 DEF LoadXml
  <2>2. CASE file[law(p)] # NoFile
    <3>1. /\ xmlContent' = [xmlContent EXCEPT ![law(p)] = file[law(p)]]
          /\ UNCHANGED <<lawMaster, todo>> /\ pc' = [pc EXCEPT ![p] = "deleteArticles"]
      BY <1>9, <2>2 DEF LoadXml, Goto
    <3>2. file[law(p)] \in Docs
      BY <2>0, <2>2 DEF ImportTypeOK, StoreTypeOK
    <3>3. /\ xmlContent[law(p)] # NoVersion
          /\ \A l \in Laws : xmlContent'[l] = NoVersion <=> xmlContent[l] = NoVersion
      <4>1. xmlContent[law(p)] # NoVersion
        BY <2>0 DEF InitOrderInv
      <4> QED
        BY <2>0, <3>1, <3>2, <4>1, SentinelAssumption DEF ImportTypeOK, StoreTypeOK
    <3>4. /\ \A q \in Workers \ {p} : pc'[q] = pc[q] /\ law(q)' = law(q)
          /\ pc'[p] = "deleteArticles"
      BY <3>1 DEF ImportTypeOK, law
    <3> QED
      BY <1>2, <3>1, <3>3, <3>4
  <2> QED
    BY <2>1, <2>2
<1>10. ASSUME NEW p \in Workers, DeleteArticles(p)
       PROVE  InitOrderInv'
  BY <1>4, <1>10 DEF DeleteArticles, Goto, ImportSteps
<1>11. ASSUME NEW p \in Workers, CreateArticle(p) \/ CreateChild(p)
       PROVE  InitOrderInv'
  <2>1. pc[p] # "idle" /\ UNCHANGED <<lawMaster, xmlContent>>
    BY <1>11 DEF CreateArticle, CreateChild
  <2>2. CASE NextLaw(p, "findVersion")
    BY <1>3, <2>1, <2>2
  <2>3. CASE ~NextLaw(p, "findVersion")
    <3>1. UNCHANGED todo /\ (UNCHANGED pc \/ \E step \in {"createArticle", "createChild"} :
                                                pc' = [pc EXCEPT ![p] = step])
      BY <1>11, <2>3 DEF CreateArticle, CreateChild, Goto
    <3> QED
      BY <1>1, <1>4, <2>1, <3>1 DEF ImportSteps
  <2> QED
    BY <2>2, <2>3
<1>12. ASSUME NEW p \in Workers, ImportDone(p) \/ Reject(p) \/ Crash(p)
       PROVE  InitOrderInv'
  BY <1>3, <1>12 DEF ImportDone, Reject, Crash, storeVars
<1>13. ASSUME NEW p \in Workers, StartInit(p) \/ StartImport(p)
       PROVE  InitOrderInv'
  <2>1. /\ UNCHANGED <<lawMaster, xmlContent>>
        /\ \A q \in Workers \ {p} : pc'[q] = pc[q] /\ law(q)' = law(q)
        /\ pc'[p] \in {"readFile", "findVersion"}
    BY <1>13 DEF StartInit, StartImport, Start, Goto, storeVars, law, ImportTypeOK
  <2> QED
    BY <1>2, <2>1
<1>14. CASE \E l \in Laws, d \in Docs : NewEdition(l, d) /\ UNCHANGED importVars
  BY <1>1, <1>14 DEF NewEdition, importVars
<1>15. CASE UNCHANGED vars
  BY <1>1, <1>15 DEF vars, storeVars, importVars
<1> QED
  BY <1>5, <1>6, <1>7, <1>8, <1>9, <1>10, <1>11, <1>12, <1>13, <1>14, <1>15
     DEF ImportNext, Step

-----------------------------------------------------------------------------
(* ImportInv is an invariant of every behaviour of the two scripts.        *)
THEOREM ImportInvariant == ImportSpec => []ImportInv
<1>1. ImportInv /\ [ImportNext]_vars => ImportInv'
  BY TypeStep, SafeStep, OrderStep DEF ImportInv, SafeInv
<1> QED
  BY InitInv, <1>1, PTL DEF ImportSpec

(* The database tables and the workers' memory stay well typed.            *)
THEOREM ImportTypeCorrect == ImportSpec => []ImportTypeOK
<1>1. ImportInv => ImportTypeOK
  BY DEF ImportInv
<1> QED
  BY <1>1, ImportInvariant, PTL

(* Any number of concurrent imports of one edition leave the law complete. *)
THEOREM ConcurrentImportsComplete == ImportSpec => []ImportedComplete
<1>1. ImportInv => ImportedComplete
  <2> SUFFICES ASSUME ImportInv, NEW l \in Laws, NEW d \in Docs,
                      editions[l] = {d}, DistinctNumbers(d), ~broken[l],
                      \A p \in Workers : ~Writing(p, l)
               PROVE  Complete(article[l], d)
    BY DEF ImportedComplete
  <2> USE DEF ImportInv
  <2>1. \A k \in DOMAIN Extract[d] : article[l][Extract[d][k].num] # NoRow
    BY DEF CoverageInv, Reaches, Written
  <2>2. \A k \in DOMAIN Extract[d] : Extract[d][k].num \in Numbers
    <3>1. DOMAIN Extract[d] = 1..Len(Extract[d]) /\ Len(Extract[d]) \in Nat
      BY ExtractAssumption
    <3> QED
      BY <3>1, ExtractElement
  <2>3. ASSUME NEW k \in DOMAIN Extract[d], NEW r, r = article[l][Extract[d][k].num]
        PROVE  r # NoRow /\ r.doc = d /\ r.pos = k /\ r.kids = Extract[d][k].kids
    <3>1. r # NoRow
      BY <2>1, <2>3
    <3>2. r.doc = d /\ r.pos \in DOMAIN Extract[d] /\ Extract[d][r.pos].num = Extract[d][k].num
      BY <2>2, <2>3, <3>1 DEF RowInv
    <3>3. r.pos = k
      BY <3>2 DEF DistinctNumbers
    <3>4. r.by \in Workers
      BY <2>2, <2>3, <3>1 DEF ImportTypeOK, StoreTypeOK, ArticleRow
    <3>5. r.kids = Extract[d][k].kids
      BY <2>2, <2>3, <3>1, <3>2, <3>3, <3>4 DEF NoTornArticle, Writing
    <3> QED
      BY <3>1, <3>2, <3>3, <3>5
  <2>4. \A n \in Numbers : article[l][n] # NoRow =>
                             \E k \in DOMAIN Extract[d] : Extract[d][k].num = n
    BY DEF RowInv
  <2> QED
    BY <2>3, <2>4 DEF Complete
<1> QED
  BY <1>1, ImportInvariant, PTL

(* No half-written article survives the worker that was writing it.        *)
THEOREM NoTornArticles == ImportSpec => []NoTornArticle
<1>1. ImportInv => NoTornArticle
  BY DEF ImportInv
<1> QED
  BY <1>1, ImportInvariant, PTL
=============================================================================
