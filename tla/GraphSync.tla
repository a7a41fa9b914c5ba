------------------------------ MODULE GraphSync ------------------------------
(***************************************************************************)
(* scripts/sync-references-to-neo4j.ts: copies Reference rows to the graph *)
(* of Law and Article nodes in Neo4j. One Cypher statement is one atomic   *)
(* step, and this script deletes nothing. Article nodes have an index and  *)
(* no uniqueness constraint, so that two MERGEs at once may make two of a  *)
(* kind: a member of a set of nodes or edges stands for one of them or     *)
(* more. The edges that manager.ts deletes and the numbers that the        *)
(* normaliser changes are those of ReferenceEdges and ArticleNormalizer.   *)
(***************************************************************************)
EXTENDS ReferenceDetection

CONSTANT Syncers  \* processes that run the script

VARIABLES
  lawNode,    \* Law nodes: "none", "untitled", "titled", or "id" as title
  artNode,    \* Article nodes <<lawId, number>>
  hasArticle, \* HAS_ARTICLE edges <<lawId, node>>
  refEdge,    \* REFERENCES edges
  spc,        \* what a syncer does next
  only,       \* the argument lawId, NoLaw when there is none
  batch,      \* the rows findMany returned, each with its sourceLawId
  rest,       \* those the loop has not finished
  row,        \* the one in work
  masters,    \* the LawMaster rows it has read
  errors      \* errorCount > 0

graphVars == <<lawNode, artNode, hasArticle, refEdge>>
syncVars  == <<graphVars, spc, only, batch, rest, row, masters, errors>>

(* A row as findMany returns it.  by and at stand for its id.              *)
Returned(l, r) == [law |-> l, by |-> r.by, src |-> r.src, at |-> r.at,
                   mention |-> r.mention, tlaw |-> r.law, tart |-> r.art]

SyncRow == [law : Laws, by : Detectors, src : Numbers, at : Nat, mention : Mention,
            tlaw : Laws \cup {NoLaw}, tart : Targets \cup {NoArticle}]

NoSyncRow == [law |-> NoLaw]

(* Mutant: only the target law is looked at.                               *)
HasTargetLaw(r) == r.tlaw # NoLaw

HasTarget(r) == r.tlaw # NoLaw /\ r.tart # NoArticle

(* Mutant: the ends are swapped.                                           *)
EdgeReversed(r) == [from |-> <<r.tlaw, r.tart>>, to |-> <<r.law, r.src>>, mention |-> r.mention]

(* MERGE identifies an edge by its ends, type, text and confidence, which  *)
(* all come from the mention.                                              *)
EdgeOf(r) == [from |-> <<r.law, r.src>>, to |-> <<r.tlaw, r.tart>>, mention |-> r.mention]

Node == Laws \X (Numbers \cup Targets)

SyncSteps == {"sourceLaw", "sourceArticle", "targetLaw", "targetArticle", "edge"}

SyncTypeOK ==
  /\ lawNode \in [Laws -> {"none", "untitled", "titled", "id"}]
  /\ artNode \subseteq Node
  /\ hasArticle \subseteq (Laws \X Node)
  /\ refEdge \subseteq [from : Node, to : Node, mention : Mention]
  /\ spc \in [Syncers -> {"idle", "readRefs", "readMasters", "pick", "done"} \cup SyncSteps]
  /\ only \in [Syncers -> Laws \cup {NoLaw}]
  /\ batch \in [Syncers -> SUBSET SyncRow]
  /\ rest \in [Syncers -> SUBSET SyncRow]
  /\ row \in [Syncers -> SyncRow \cup {NoSyncRow}]
  /\ masters \in [Syncers -> SUBSET Laws]
  /\ errors \in [Syncers -> BOOLEAN]

SyncInit ==
  /\ lawNode = [l \in Laws |-> "none"]
  /\ artNode = {}
  /\ hasArticle = {}
  /\ refEdge = {}
  /\ spc = [p \in Syncers |-> "idle"]
  /\ only = [p \in Syncers |-> NoLaw]
  /\ batch = [p \in Syncers |-> {}]
  /\ rest = [p \in Syncers |-> {}]
  /\ row = [p \in Syncers |-> NoSyncRow]
  /\ masters = [p \in Syncers |-> {}]
  /\ errors = [p \in Syncers |-> FALSE]

-----------------------------------------------------------------------------
SyncGoto(p, step) == spc' = [spc EXCEPT ![p] = step]

Selected(p) == IF only[p] = NoLaw THEN Laws ELSE {only[p]}

StartSync(p) ==
  /\ spc[p] \in {"idle", "done"}
  /\ \E l \in Laws \cup {NoLaw} : only' = [only EXCEPT ![p] = l]
  /\ SyncGoto(p, "readRefs")
  /\ batch' = [batch EXCEPT ![p] = {}]
  /\ errors' = [errors EXCEPT ![p] = FALSE]
  /\ UNCHANGED <<graphVars, rest, row, masters>>

(* reference.findMany                                                      *)
ReadReferences(p) ==
  /\ spc[p] = "readRefs"
  /\ batch' = [batch EXCEPT ![p] =
                 UNION {{Returned(l, r) : r \in reference[l]} : l \in Selected(p)}]
  /\ rest' = [rest EXCEPT ![p] = batch'[p]]
  /\ SyncGoto(p, "readMasters")
  /\ UNCHANGED <<graphVars, only, row, masters, errors>>

(* Mutant: only laws whose current version is set are read.                *)
ReadMastersCurrent(p) ==
  /\ spc[p] = "readMasters"
  /\ masters' = [masters EXCEPT ![p] = {l \in Selected(p) : lawMaster[l] = "current"}]
  /\ SyncGoto(p, "pick")
  /\ UNCHANGED <<graphVars, only, batch, rest, row, errors>>

(* lawMaster.findMany                                                      *)
ReadMasters(p) ==
  /\ spc[p] = "readMasters"
  /\ masters' = [masters EXCEPT ![p] = {l \in Selected(p) : lawMaster[l] # "absent"}]
  /\ SyncGoto(p, "pick")
  /\ UNCHANGED <<graphVars, only, batch, rest, row, errors>>

PickReference(p) ==
  /\ spc[p] = "pick"
  /\ \E r \in rest[p] : row' = [row EXCEPT ![p] = r]
  /\ SyncGoto(p, "sourceLaw")
  /\ UNCHANGED <<graphVars, only, batch, rest, masters, errors>>

(* Mutant: the reference is not taken off the list.                        *)
FinishedKeeping(p) ==
  /\ row' = [row EXCEPT ![p] = NoSyncRow]
  /\ SyncGoto(p, "pick")
  /\ UNCHANGED rest

(* Success or error, the loop goes on with the next reference.             *)
Finished(p) ==
  /\ rest' = [rest EXCEPT ![p] = @ \ {row[p]}]
  /\ row' = [row EXCEPT ![p] = NoSyncRow]
  /\ SyncGoto(p, "pick")

(* MERGE (sourceLaw:Law) SET title: the master's, or the id without one.   *)
MergeSourceLaw(p) ==
  /\ spc[p] = "sourceLaw"
  /\ lawNode' = [lawNode EXCEPT ![row[p].law] =
                   IF row[p].law \in masters[p] THEN "titled" ELSE "id"]
  /\ SyncGoto(p, "sourceArticle")
  /\ UNCHANGED <<artNode, hasArticle, refEdge, only, batch, rest, row, masters, errors>>

(* MATCH (law) MERGE (article) MERGE (law)-[:HAS_ARTICLE]->(article): no    *)
(* law, no effect.                                                         *)
MergeArticle(l, n) ==
  IF lawNode[l] = "none" THEN UNCHANGED <<artNode, hasArticle>>
  ELSE /\ artNode' = artNode \cup {<<l, n>>}
       /\ hasArticle' = hasArticle \cup {<<l, <<l, n>>>>}

MergeSourceArticle(p) ==
  /\ spc[p] = "sourceArticle"
  /\ MergeArticle(row[p].law, row[p].src)
  /\ IF HasTarget(row[p])
     THEN SyncGoto(p, "targetLaw") /\ UNCHANGED <<rest, row>>
     ELSE Finished(p)
  /\ UNCHANGED <<lawNode, refEdge, only, batch, masters, errors>>

(* Mutant: the target's Law node is expected to be there.                  *)
MergeTargetLawSkipped(p) ==
  /\ spc[p] = "targetLaw"
  /\ SyncGoto(p, "targetArticle")
  /\ UNCHANGED <<graphVars, only, batch, rest, row, masters, errors>>

MergeTargetLaw(p) ==
  /\ spc[p] = "targetLaw"
  /\ lawNode' = [lawNode EXCEPT ![row[p].tlaw] = IF @ = "none" THEN "untitled" ELSE @]
  /\ SyncGoto(p, "targetArticle")
  /\ UNCHANGED <<artNode, hasArticle, refEdge, only, batch, rest, row, masters, errors>>

(* Mutant: the target article is hung below the source law.                *)
MergeTargetArticleMislinked(p) ==
  /\ spc[p] = "targetArticle"
  /\ artNode' = artNode \cup {<<row[p].tlaw, row[p].tart>>}
  /\ hasArticle' = hasArticle \cup {<<row[p].law, <<row[p].tlaw, row[p].tart>>>>}
  /\ SyncGoto(p, "edge")
  /\ UNCHANGED <<lawNode, refEdge, only, batch, rest, row, masters, errors>>

MergeTargetArticle(p) ==
  /\ spc[p] = "targetArticle"
  /\ MergeArticle(row[p].tlaw, row[p].tart)
  /\ SyncGoto(p, "edge")
  /\ UNCHANGED <<lawNode, refEdge, only, batch, rest, row, masters, errors>>

(* MATCH source MATCH target MERGE the edge: nothing without both ends.    *)
MergeEdge(p) ==
  LET e == EdgeOf(row[p])
  IN  /\ spc[p] = "edge"
      /\ refEdge' = IF {e.from, e.to} \subseteq artNode THEN refEdge \cup {e} ELSE refEdge
      /\ Finished(p)
      /\ UNCHANGED <<lawNode, artNode, hasArticle, only, batch, masters, errors>>

(* A statement fails: the reference is counted as an error and skipped.    *)
StatementFails(p) ==
  /\ spc[p] \in SyncSteps
  /\ errors' = [errors EXCEPT ![p] = TRUE]
  /\ Finished(p)
  /\ UNCHANGED <<graphVars, only, batch, masters>>

SyncDone(p) ==
  /\ spc[p] = "pick"
  /\ rest[p] = {}
  /\ SyncGoto(p, "done")
  /\ only' = [only EXCEPT ![p] = NoLaw]
  /\ masters' = [masters EXCEPT ![p] = {}]
  /\ UNCHANGED <<graphVars, batch, rest, row, errors>>

(* A findMany rejects, or the process dies.                                *)
SyncAborts(p) ==
  /\ spc[p] \notin {"idle", "done"}
  /\ SyncGoto(p, "idle")
  /\ only' = [only EXCEPT ![p] = NoLaw]
  /\ batch' = [batch EXCEPT ![p] = {}]
  /\ rest' = [rest EXCEPT ![p] = {}]
  /\ row' = [row EXCEPT ![p] = NoSyncRow]
  /\ masters' = [masters EXCEPT ![p] = {}]
  /\ errors' = [errors EXCEPT ![p] = FALSE]
  /\ UNCHANGED graphVars

SyncStep(p) ==
  \/ ReadReferences(p) \/ ReadMasters(p) \/ PickReference(p) \/ MergeSourceLaw(p)
  \/ MergeSourceArticle(p) \/ MergeTargetLaw(p) \/ MergeTargetArticle(p)
  \/ MergeEdge(p) \/ SyncDone(p)

SyncNext ==
  /\ \E p \in Syncers : StartSync(p) \/ SyncStep(p) \/ StatementFails(p) \/ SyncAborts(p)
  /\ UNCHANGED <<storeVars, detectVars>>

-----------------------------------------------------------------------------
(* Detection and synchronisation beside completed imports.                 *)
allSyncVars == <<storeVars, detectVars, syncVars>>

SyncSpec ==
  /\ DetectionInit /\ SyncInit
  /\ [][SyncNext \/ (DetectionNext /\ UNCHANGED syncVars)]_allSyncVars

-----------------------------------------------------------------------------
(* A sync that reports no error has every reference with a target that it  *)
(* read in the graph, whatever other syncs did meanwhile or left undone:   *)
(* none of the MATCH clauses before a MERGE has silently matched nothing   *)
(* (sync-references-to-neo4j.ts, the five statements of the loop).         *)
SyncComplete ==
  \A p \in Syncers :
    spc[p] = "done" /\ ~errors[p] =>
      \A r \in batch[p] : HasTarget(r) => EdgeOf(r) \in refEdge

(* Every Article node hangs below its Law node, so a traversal that starts *)
(* at a law finds all of its articles, also those only referred to and     *)
(* those of a sync that failed half way.                                   *)
ArticlesReachable ==
  \A a \in artNode : lawNode[a[1]] # "none" /\ <<a[1], a>> \in hasArticle

(* The rows of law l are those of a detection that is over, that nothing   *)
(* overlapped, and that read the articles the law still has.               *)
DetectedNow(l) == Settled(l) /\ overlap[l] = {} /\ basis[l] = article[l]

(* End to end: when the law's articles are those of one edition, a         *)
(* detection has read them as they are, and a sync that met no error has   *)
(* read its rows as they are, then the graph has an edge for every         *)
(* reference of the edition to an article of the same law.  No part of the *)
(* path loses, reorders or half-applies anything, whatever ran before or   *)
(* beside it.                                                              *)
EditionInGraph ==
  \A l \in Laws, d \in Docs, p \in Syncers :
    /\ Complete(article[l], d)
    /\ DetectedNow(l)
    /\ spc[p] = "done" /\ ~errors[p]
    /\ \A r \in reference[l] : Returned(l, r) \in batch[p]
    => \A k \in DOMAIN Extract[d] : \A i \in DOMAIN Mentions[d][k] :
         LET m == Mentions[d][k][i]
         IN  m.type = "internal" =>
               [from |-> <<l, Extract[d][k].num>>, to |-> <<l, m.art>>, mention |-> m]
                 \in refEdge

(* Nothing in the graph is made up: every edge starts at an article of     *)
(* some edition whose text contains the mention, although the article may  *)
(* have been replaced since detection read it.                             *)
EdgesFromText ==
  \A e \in refEdge :
    \E d \in Docs : \E k \in DOMAIN Extract[d] :
      /\ Extract[d][k].num = e.from[2]
      /\ e.mention \in RowsOf(Mentions[d][k])

(* A sync that is started ends, also when every statement fails.           *)
SyncEnds ==
  \A p \in Syncers : spc[p] \notin {"idle", "done"} ~> spc[p] \in {"idle", "done"}
=============================================================================
