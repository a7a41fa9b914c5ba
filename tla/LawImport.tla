------------------------------ MODULE LawImport ------------------------------
(***************************************************************************)
(* scripts/init-law-data.ts and scripts/import-law-data.ts, run by several *)
(* workers at once.  Every awaited database call is one step: nothing in   *)
(* the scripts is a transaction, so other workers, rejected calls and the  *)
(* end of the process come between any two of them.                        *)
(***************************************************************************)
EXTENDS LawStore

VARIABLES
  pc,       \* the call a worker makes next, "idle" when it runs no script
  todo,     \* laws left in main()'s loop, the one being worked on first
  doc,      \* the XML text a worker holds in memory
  pos,      \* index of the article it is creating
  editions, \* history: editions written to the law since its last deleteMany
  broken    \* history: a rejected call or a dead process cut an import short

importVars == <<pc, todo, doc, pos, editions, broken>>
vars == <<storeVars, importVars>>

InitSteps   == {"readFile", "upsertVersion", "setCurrent"}
ImportSteps == {"findVersion", "loadXml", "deleteArticles", "createArticle", "createChild"}

law(p) == Head(todo[p])

(* A worker that has deleted the old rows and is writing the new ones.     *)
Writing(p, l) == pc[p] \in {"createArticle", "createChild"} /\ law(p) = l

ImportTypeOK ==
  /\ StoreTypeOK
  /\ pc \in [Workers -> InitSteps \cup ImportSteps \cup {"idle"}]
  /\ todo \in [Workers -> Seq(Laws)]
  /\ doc \in [Workers -> Docs \cup {NoFile}]
  /\ pos \in [Workers -> Nat]
  /\ editions \in [Laws -> SUBSET Docs]
  /\ broken \in [Laws -> BOOLEAN]
  /\ \A p \in Workers : pc[p] # "idle" => todo[p] # <<>>
  /\ \A p \in Workers :
       pc[p] \in {"upsertVersion", "deleteArticles", "createArticle", "createChild"}
         => doc[p] \in Docs

ImportInit ==
  /\ StoreInit
  /\ pc = [p \in Workers |-> "idle"]
  /\ todo = [p \in Workers |-> <<>>]
  /\ doc = [p \in Workers |-> NoFile]
  /\ pos = [p \in Workers |-> 0]
  /\ editions = [l \in Laws |-> {}]
  /\ broken = [l \in Laws |-> FALSE]

-----------------------------------------------------------------------------
(* Control flow shared by the scripts.                                     *)

Goto(p, step) == pc' = [pc EXCEPT ![p] = step]

Start(p, step, list) ==
  /\ pc[p] = "idle"
  /\ list # <<>>
  /\ todo' = [todo EXCEPT ![p] = list]
  /\ Goto(p, step)
  /\ UNCHANGED <<storeVars, doc, pos, editions, broken>>

(* Mutant: the loop does not notice that the list is exhausted.            *)
NextLawUnbounded(p, step) ==
  /\ todo' = [todo EXCEPT ![p] = Tail(todo[p])]
  /\ doc' = [doc EXCEPT ![p] = NoFile]
  /\ pos' = [pos EXCEPT ![p] = 0]
  /\ Goto(p, step)

(* The loop of main() goes on to the next law, or the script ends.         *)
NextLaw(p, step) ==
  /\ todo' = [todo EXCEPT ![p] = Tail(todo[p])]
  /\ doc' = [doc EXCEPT ![p] = NoFile]
  /\ pos' = [pos EXCEPT ![p] = 0]
  /\ Goto(p, IF Tail(todo[p]) = <<>> THEN "idle" ELSE step)

Stop(p) ==
  /\ todo' = [todo EXCEPT ![p] = <<>>]
  /\ doc' = [doc EXCEPT ![p] = NoFile]
  /\ pos' = [pos EXCEPT ![p] = 0]
  /\ Goto(p, "idle")

-----------------------------------------------------------------------------
(* scripts/init-law-data.ts                                                *)

StartInit(p) == Start(p, "readFile", MajorLaws)

(* findAndReadXML, then the first call: lawMaster.upsert.                  *)
UpsertLawMaster(p) ==
  /\ pc[p] = "readFile"
  /\ IF file[law(p)] = NoFile
     THEN NextLaw(p, "readFile") /\ UNCHANGED lawMaster
     ELSE /\ doc' = [doc EXCEPT ![p] = file[law(p)]]
          /\ lawMaster' = [lawMaster EXCEPT ![law(p)] =
                             IF @ = "absent" THEN "created" ELSE @]
          /\ Goto(p, "upsertVersion")
          /\ UNCHANGED <<todo, pos>>
  /\ UNCHANGED <<file, xmlContent, article, editions, broken>>

(* The foreign key to LawMaster must hold; Reject is the refused call.     *)
UpsertLawVersion(p) ==
  /\ pc[p] = "upsertVersion"
  /\ lawMaster[law(p)] # "absent"
  /\ xmlContent' = [xmlContent EXCEPT ![law(p)] = doc[p]]
  /\ Goto(p, "setCurrent")
  /\ UNCHANGED <<file, lawMaster, article, todo, doc, pos, editions, broken>>

(* The foreign key of currentVersionId must hold.                          *)
UpdateCurrentVersionId(p) ==
  /\ pc[p] = "setCurrent"
  /\ xmlContent[law(p)] # NoVersion
  /\ lawMaster' = [lawMaster EXCEPT ![law(p)] = "current"]
  /\ NextLaw(p, "readFile")
  /\ UNCHANGED <<file, xmlContent, article, editions, broken>>

-----------------------------------------------------------------------------
(* scripts/import-law-data.ts                                              *)

StartImport(p) ==
  \E list \in {MajorLaws} \cup {<<l>> : l \in Laws} : Start(p, "findVersion", list)

FindLatestVersion(p) ==
  /\ pc[p] = "findVersion"
  /\ \/ /\ xmlContent[law(p)] = NoVersion
        /\ NextLaw(p, "findVersion")
     \/ /\ xmlContent[law(p)] = EmptyXml
        /\ Goto(p, "loadXml")
        /\ UNCHANGED <<todo, doc, pos>>
     \/ /\ xmlContent[law(p)] \notin {NoVersion, EmptyXml}
        /\ doc' = [doc EXCEPT ![p] = xmlContent[law(p)]]
        /\ Goto(p, "deleteArticles")
        /\ UNCHANGED <<todo, pos>>
  /\ UNCHANGED <<storeVars, editions, broken>>

(* The XML is read from the file and stored in the version row, which      *)
(* lawVersion.update expects to exist.                                     *)
LoadXml(p) ==
  /\ pc[p] = "loadXml"
  /\ xmlContent[law(p)] # NoVersion
  /\ IF file[law(p)] = NoFile
     THEN NextLaw(p, "findVersion") /\ UNCHANGED xmlContent
     ELSE /\ doc' = [doc EXCEPT ![p] = file[law(p)]]
          /\ xmlContent' = [xmlContent EXCEPT ![law(p)] = file[law(p)]]
          /\ Goto(p, "deleteArticles")
          /\ UNCHANGED <<todo, pos>>
  /\ UNCHANGED <<file, lawMaster, article, editions, broken>>

(* Mutant: the old articles are not deleted.                               *)
DeleteArticlesForgotten(p) ==
  /\ pc[p] = "deleteArticles"
  /\ pos' = [pos EXCEPT ![p] = 1]
  /\ Goto(p, "createArticle")
  /\ editions' = [editions EXCEPT ![law(p)] =
                    {doc[p]} \cup {doc[q] : q \in {w \in Workers : Writing(w, law(p))}}]
  /\ broken' = [broken EXCEPT ![law(p)] = FALSE]
  /\ UNCHANGED <<file, lawMaster, xmlContent, article, todo, doc>>

(* article.deleteMany; paragraphs and items go with their article.         *)
DeleteArticles(p) ==
  /\ pc[p] = "deleteArticles"
  /\ article' = [article EXCEPT ![law(p)] = NoArticles]
  /\ pos' = [pos EXCEPT ![p] = 1]
  /\ Goto(p, "createArticle")
  /\ editions' = [editions EXCEPT ![law(p)] =
                    {doc[p]} \cup {doc[q] : q \in {w \in Workers : Writing(w, law(p))}}]
  /\ broken' = [broken EXCEPT ![law(p)] = FALSE]
  /\ UNCHANGED <<file, lawMaster, xmlContent, todo, doc>>

Current(p) == Extract[doc[p]][pos[p]]
OwnRow(p)  == article[law(p)][Current(p).num]

(* Mutant: the article's paragraphs are not written when there is one.     *)
CreateArticleLosingChild(p) ==
  /\ pc[p] = "createArticle"
  /\ pos[p] <= Len(Extract[doc[p]])
  /\ OwnRow(p) = NoRow
  /\ article' = [article EXCEPT ![law(p)][Current(p).num] =
                   [by |-> p, doc |-> doc[p], pos |-> pos[p], kids |-> 0]]
  /\ IF Current(p).kids <= 1
     THEN pos' = [pos EXCEPT ![p] = @ + 1] /\ UNCHANGED pc
     ELSE Goto(p, "createChild") /\ UNCHANGED pos
  /\ UNCHANGED <<file, lawMaster, xmlContent, todo, doc, editions, broken>>

(* Mutant: a create that meets an existing row is tried again.             *)
CreateArticleRetrying(p) ==
  /\ pc[p] = "createArticle"
  /\ pos[p] <= Len(Extract[doc[p]])
  /\ OwnRow(p) = NoRow
  /\ article' = [article EXCEPT ![law(p)][Current(p).num] =
                   [by |-> p, doc |-> doc[p], pos |-> pos[p], kids |-> 0]]
  /\ IF Current(p).kids = 0
     THEN pos' = [pos EXCEPT ![p] = @ + 1] /\ UNCHANGED pc
     ELSE Goto(p, "createChild") /\ UNCHANGED pos
  /\ UNCHANGED <<file, lawMaster, xmlContent, todo, doc, editions, broken>>

(* article.create.  A second row with the same number is rejected by the   *)
(* unique index; the catch block then gives the law up.                    *)
CreateArticle(p) ==
  /\ pc[p] = "createArticle"
  /\ pos[p] <= Len(Extract[doc[p]])
  /\ IF OwnRow(p) # NoRow
     THEN NextLaw(p, "findVersion") /\ UNCHANGED article
     ELSE /\ article' = [article EXCEPT ![law(p)][Current(p).num] =
                           [by |-> p, doc |-> doc[p], pos |-> pos[p], kids |-> 0]]
          /\ IF Current(p).kids = 0
             THEN pos' = [pos EXCEPT ![p] = @ + 1] /\ UNCHANGED pc
             ELSE Goto(p, "createChild") /\ UNCHANGED pos
          /\ UNCHANGED <<todo, doc>>
  /\ UNCHANGED <<file, lawMaster, xmlContent, editions, broken>>

(* paragraph.create or item.create below the article just created.  The    *)
(* foreign key rejects the call when that row has been deleted meanwhile.  *)
CreateChild(p) ==
  /\ pc[p] = "createChild"
  /\ IF OwnRow(p) = NoRow \/ OwnRow(p).by # p
     THEN NextLaw(p, "findVersion") /\ UNCHANGED article
     ELSE /\ article' = [article EXCEPT ![law(p)][Current(p).num].kids = @ + 1]
          /\ IF OwnRow(p).kids + 1 = Current(p).kids
             THEN pos' = [pos EXCEPT ![p] = @ + 1] /\ Goto(p, "createArticle")
             ELSE UNCHANGED <<pos, pc>>
          /\ UNCHANGED <<todo, doc>>
  /\ UNCHANGED <<file, lawMaster, xmlContent, editions, broken>>

(* Mutant: the loop ends before the last article.                          *)
ImportDoneEarly(p) ==
  /\ pc[p] = "createArticle"
  /\ pos[p] >= Len(Extract[doc[p]])
  /\ NextLaw(p, "findVersion")
  /\ UNCHANGED <<storeVars, editions, broken>>

ImportDone(p) ==
  /\ pc[p] = "createArticle"
  /\ pos[p] > Len(Extract[doc[p]])
  /\ NextLaw(p, "findVersion")
  /\ UNCHANGED <<storeVars, editions, broken>>

-----------------------------------------------------------------------------
(* Failures.                                                               *)

CutShort(p) == broken' = IF Writing(p, law(p))
                         THEN [broken EXCEPT ![law(p)] = TRUE] ELSE broken

(* A database call rejects: importLawData logs the error and main() goes   *)
(* on with the next law; init-law-data has no try, its main() ends.        *)
Reject(p) ==
  /\ pc[p] # "idle"
  /\ CutShort(p)
  /\ IF pc[p] \in ImportSteps THEN NextLaw(p, "findVersion") ELSE Stop(p)
  /\ UNCHANGED <<storeVars, editions>>

Crash(p) ==
  /\ pc[p] # "idle"
  /\ CutShort(p)
  /\ Stop(p)
  /\ UNCHANGED <<storeVars, editions>>

-----------------------------------------------------------------------------
Step(p) ==
  \/ UpsertLawMaster(p) \/ UpsertLawVersion(p) \/ UpdateCurrentVersionId(p)
  \/ FindLatestVersion(p) \/ LoadXml(p) \/ DeleteArticles(p)
  \/ CreateArticle(p) \/ CreateChild(p) \/ ImportDone(p)

ImportNext ==
  \/ \E l \in Laws, d \in Docs : NewEdition(l, d) /\ UNCHANGED importVars
  \/ \E p \in Workers :
       StartInit(p) \/ StartImport(p) \/ Step(p) \/ Reject(p) \/ Crash(p)

ImportSpec == ImportInit /\ [][ImportNext]_vars

(* A started Node process keeps running its own calls; nothing obliges     *)
(* anyone to start a script or to publish an edition.                      *)
FairImportSpec == ImportSpec /\ \A p \in Workers : WF_vars(Step(p))

-----------------------------------------------------------------------------
(* Properties.                                                             *)

(* Concurrent imports of one edition cannot leave the law incomplete: once *)
(* nobody writes the law any more, and no process died or lost its         *)
(* database while writing, the Article, Paragraph and Item rows are exactly*)
(* those extracted from the edition.  The importers share nothing but the  *)
(* unique index and the foreign keys that make the loser of a race give    *)
(* up (import-law-data.ts, deleteMany to the end of the create loops).     *)
ImportedComplete ==
  \A l \in Laws : \A d \in Docs :
    /\ editions[l] = {d}
    /\ DistinctNumbers(d)
    /\ ~broken[l]
    /\ \A p \in Workers : ~Writing(p, l)
    => Complete(article[l], d)

(* What the comments of extractArticlesFromXML say of the articles of the  *)
(* main and of the supplementary provisions: each is taken over.  An       *)
(* import that ends without a failing call has stored every article of the *)
(* edition.  It does not hold for a law with two supplementary provisions  *)
(* that both start at article 1: their numbers collide.                    *)
AllArticlesImported ==
  \A l \in Laws : \A d \in Docs :
    /\ editions[l] = {d}
    /\ ~broken[l]
    /\ \A p \in Workers : ~Writing(p, l)
    => \A k \in DOMAIN Extract[d] :
         \E n \in Numbers : article[l][n] # NoRow /\ article[l][n].pos = k

(* Whatever editions are being imported, an article that lacks paragraphs  *)
(* or items is one its creator is still working on: a deleteMany of        *)
(* another worker never leaves a half-written article behind.              *)
NoTornArticle ==
  \A l \in Laws : \A n \in Numbers :
    LET r == article[l][n]
    IN  /\ r # NoRow
        /\ ~broken[l]
        /\ r.kids # Extract[r.doc][r.pos].kids
        => /\ pc[r.by] = "createChild"
           /\ law(r.by) = l /\ doc[r.by] = r.doc /\ pos[r.by] = r.pos

(* Every script that is started ends, also when it keeps losing races.     *)
ScriptsEnd == \A p \in Workers : pc[p] # "idle" ~> pc[p] = "idle"

-----------------------------------------------------------------------------
(* The inductive invariant behind the properties.                          *)

(* A worker whose article row is still there.                              *)
Owns(p) == OwnRow(p) # NoRow /\ OwnRow(p).by = p

(* A worker creating paragraphs and items holds the row's text and has     *)
(* some left to create, unless the row is gone.                            *)
CreatorInv ==
  \A p \in Workers :
    /\ pc[p] \in {"createArticle", "createChild"} => pos[p] # 0
    /\ pc[p] = "createChild" =>
         /\ pos[p] <= Len(Extract[doc[p]])
         /\ Owns(p) => /\ OwnRow(p).doc = doc[p]
                       /\ OwnRow(p).pos = pos[p]
                       /\ OwnRow(p).kids < Current(p).kids

WriterInv ==
  \A p \in Workers, l \in Laws : Writing(p, l) => doc[p] \in editions[l]

RowInv ==
  \A l \in Laws, n \in Numbers :
    LET r == article[l][n]
    IN  r # NoRow => /\ r.doc \in editions[l]
                     /\ r.pos \in DOMAIN Extract[r.doc]
                     /\ Extract[r.doc][r.pos].num = n

(* Worker p will get to the articles of law l from position lo to hi.      *)
Reaches(p, l, lo, hi) ==
  /\ Writing(p, l)
  /\ \/ pc[p] = "createArticle" /\ lo <= pos[p] /\ pos[p] <= hi
     \/ pc[p] = "createChild" /\ Owns(p) /\ lo <= pos[p] + 1 /\ pos[p] + 1 <= hi

Written(l, d, j) == article[l][Extract[d][j].num] # NoRow

(* Every article is written or ahead of some worker; and behind a written  *)
(* article every later one is written or ahead of a worker that is already *)
(* past the written one, so the loser of a race at that article is not     *)
(* needed.                                                                 *)
CoverageInv ==
  \A l \in Laws, d \in Docs :
    editions[l] = {d} /\ DistinctNumbers(d) /\ ~broken[l] =>
      /\ \A j \in DOMAIN Extract[d] :
           Written(l, d, j) \/ \E p \in Workers : Reaches(p, l, 1, j)
      /\ \A k, j \in DOMAIN Extract[d] :
           k < j /\ Written(l, d, k) =>
             Written(l, d, j) \/ \E p \in Workers : Reaches(p, l, k + 1, j)

(* No call of the scripts is refused by a foreign key.                     *)
InitOrderInv ==
  \A p \in Workers :
    /\ pc[p] \in {"upsertVersion", "setCurrent"} => lawMaster[law(p)] # "absent"
    /\ pc[p] \in {"setCurrent", "loadXml"} => xmlContent[law(p)] # NoVersion

ImportInv ==
  /\ ImportTypeOK
  /\ CreatorInv
  /\ WriterInv
  /\ RowInv
  /\ NoTornArticle
  /\ CoverageInv
  /\ InitOrderInv
=============================================================================
