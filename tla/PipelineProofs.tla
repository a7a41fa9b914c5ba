---------------------------- MODULE PipelineProofs ----------------------------
(***************************************************************************)
(* Proofs about the synchronisation with the graph, beside completed       *)
(* imports (SyncSpec) and in the whole data path (PipelineSpec), for any   *)
(* number of processes, laws, editions and references.                     *)
(***************************************************************************)
EXTENDS LawPipeline, ReferenceDetectionProofs, LawImportProofs

(* What the statements before the next one of a syncer have left in the    *)
(* graph.  Nothing is ever deleted there, so no other process undoes it.   *)
LoopRow(p) == spc[p] \in SyncSteps
SourceDone(p) == spc[p] \in {"targetLaw", "targetArticle", "edge"}

SyncerInv(p) ==
  /\ rest[p] \subseteq batch[p]
  /\ spc[p] \in {"idle", "readRefs", "done"} => rest[p] = {}
  /\ LoopRow(p) => row[p] \in rest[p]
  /\ spc[p] = "sourceArticle" \/ SourceDone(p) => lawNode[row[p].law] # "none"
  /\ SourceDone(p) => HasTarget(row[p]) /\ <<row[p].law, row[p].src>> \in artNode
  /\ spc[p] \in {"targetArticle", "edge"} => lawNode[row[p].tlaw] # "none"
  /\ spc[p] = "edge" => <<row[p].tlaw, row[p].tart>> \in artNode
  /\ \A r \in batch[p] : InText(r)
  /\ ~errors[p] => \A r \in batch[p] \ rest[p] : HasTarget(r) => EdgeOf(r) \in refEdge

SyncInv ==
  /\ SyncTypeOK
  /\ \A p \in Syncers : SyncerInv(p)
  /\ ArticlesReachable
  /\ EdgesFromText

(* Where the rows of a law are, its LawMaster is.                          *)
MasterOf(l) == lawMaster[l] # "absent"

TitlesInv ==
  /\ TitlesKnown
  /\ \A l \in Laws : reference[l] # {} => MasterOf(l)
  /\ \A p \in Detectors : dpc[p] \in {"detect", "save"} => MasterOf(dlaw(p))
  /\ \A p \in Syncers : \A r \in batch[p] : MasterOf(r.law)
  /\ \A p \in Syncers : spc[p] = "readMasters" => \A r \in batch[p] : r.law \in Selected(p)
  /\ \A p \in Syncers :
       spc[p] = "pick" \/ LoopRow(p) => \A r \in rest[p] : r.law \in masters[p]

-----------------------------------------------------------------------------
(* A row as findMany returns it has the type and the text of the stored    *)
(* one.                                                                    *)
LEMMA ReturnedRow ==
  ASSUME NEW l \in Laws, NEW r \in ReferenceRow
  PROVE  /\ Returned(l, r) \in SyncRow
         /\ Returned(l, r).law = l
         /\ InText(r) => InText(Returned(l, r))
BY DEF Returned, ReferenceRow, SyncRow, InText

(* The row in work.                                                        *)
LEMMA RowInWork ==
  ASSUME SyncInv, NEW p \in Syncers, LoopRow(p)
  PROVE  /\ row[p] \in rest[p] /\ row[p] \in batch[p] /\ row[p] \in SyncRow
         /\ row[p].law \in Laws /\ row[p].src \in Numbers /\ row[p].mention \in Mention
         /\ <<row[p].law, row[p].src>> \in Node
         /\ HasTarget(row[p]) => /\ row[p].tlaw \in Laws /\ row[p].tart \in Targets
                                 /\ <<row[p].tlaw, row[p].tart>> \in Node
<1>1. row[p] \in rest[p] /\ row[p] \in batch[p]
  BY DEF SyncInv, SyncerInv
<1>2. row[p] \in SyncRow
  BY <1>1 DEF SyncInv, SyncTypeOK
<1>3. /\ row[p].law \in Laws /\ row[p].src \in Numbers /\ row[p].mention \in Mention
      /\ row[p].tlaw \in Laws \cup {NoLaw} /\ row[p].tart \in Targets \cup {NoArticle}
  BY <1>2 DEF SyncRow
<1> QED
  BY <1>1, <1>2, <1>3 DEF HasTarget, Node

(* The graph as the others see it: it only grows.                          *)
Grows ==
  /\ artNode \subseteq artNode' /\ refEdge \subseteq refEdge'
  /\ \A l \in Laws : lawNode[l] # "none" => lawNode'[l] # "none"

(* A syncer that does not step keeps its part while the graph grows.       *)
LEMMA OtherSyncer ==
  ASSUME SyncInv, NEW q \in Syncers, Grows,
         spc'[q] = spc[q], batch'[q] = batch[q], rest'[q] = rest[q], row'[q] = row[q],
         errors'[q] = errors[q]
  PROVE  SyncerInv(q)'
<1>1. SyncerInv(q)
  BY DEF SyncInv
<1>2. LoopRow(q) => row[q].law \in Laws /\ (HasTarget(row[q]) => row[q].tlaw \in Laws)
  BY RowInWork
<1>3. spc[q] = "sourceArticle" \/ SourceDone(q) => lawNode'[row[q].law] # "none"
  BY <1>1, <1>2 DEF SyncerInv, LoopRow, SourceDone, SyncSteps, Grows
<1>4. spc[q] \in {"targetArticle", "edge"} => lawNode'[row[q].tlaw] # "none"
  BY <1>1, <1>2 DEF SyncerInv, LoopRow, SourceDone, SyncSteps, Grows
<1>5. /\ SourceDone(q) => HasTarget(row[q]) /\ <<row[q].law, row[q].src>> \in artNode'
      /\ spc[q] = "edge" => <<row[q].tlaw, row[q].tart>> \in artNode'
      /\ ~errors[q] => \A r \in batch[q] \ rest[q] : HasTarget(r) => EdgeOf(r) \in refEdge'
  BY <1>1 DEF SyncerInv, Grows
<1>6. /\ rest[q] \subseteq batch[q]
      /\ spc[q] \in {"idle", "readRefs", "done"} => rest[q] = {}
      /\ LoopRow(q) => row[q] \in rest[q]
      /\ \A r \in batch[q] : InText(r)
  BY <1>1 DEF SyncerInv
<1> QED
  BY <1>3, <1>4, <1>5, <1>6 DEF SyncerInv, LoopRow, SourceDone, HasTarget, EdgeOf, InText

(* A step of p alone.                                                      *)
Alone(p) ==
  \A q \in Syncers \ {p} :
    spc'[q] = spc[q] /\ batch'[q] = batch[q] /\ rest'[q] = rest[q] /\ row'[q] = row[q]
    /\ errors'[q] = errors[q]

(* A step of one syncer on a graph that grows keeps the invariant of all.  *)
LEMMA SyncerSteps ==
  ASSUME SyncInv, NEW p \in Syncers, SyncTypeOK', Alone(p), Grows, SyncerInv(p)',
         ArticlesReachable', EdgesFromText'
  PROVE  SyncInv'
BY OtherSyncer DEF SyncInv, Alone

(* Steps that leave the graph alone.                                       *)
LEMMA GraphUnchanged ==
  ASSUME SyncInv, UNCHANGED graphVars
  PROVE  Grows /\ ArticlesReachable' /\ EdgesFromText'
BY DEF SyncInv, graphVars, Grows, ArticlesReachable, EdgesFromText

(* findMany gives a sync the rows as they are.                             *)
LEMMA ReadReferencesStep ==
  ASSUME DetectInv, SyncInv, NEW p \in Syncers, ReadReferences(p)
  PROVE  SyncInv'
<1> DEFINE read == UNION {{Returned(l, r) : r \in reference[l]} : l \in Selected(p)}
<1>1. /\ batch' = [batch EXCEPT ![p] = read] /\ rest' = [rest EXCEPT ![p] = batch'[p]]
      /\ spc' = [spc EXCEPT ![p] = "readMasters"]
      /\ UNCHANGED <<graphVars, only, row, masters, errors>>
  BY DEF ReadReferences, SyncGoto
<1>2. Selected(p) \subseteq Laws
  BY DEF Selected, SyncInv, SyncTypeOK
<1>3. \A x \in read : x \in SyncRow /\ InText(x)
  <2> SUFFICES ASSUME NEW l \in Selected(p), NEW r \in reference[l]
               PROVE  Returned(l, r) \in SyncRow /\ InText(Returned(l, r))
    OBVIOUS
  <2>1. l \in Laws /\ r \in ReferenceRow /\ InText(r)
    BY <1>2 DEF DetectInv, DetectTypeOK, RowsInv
  <2> QED
    BY <2>1, ReturnedRow
<1> HIDE DEF read
<1>4. batch'[p] = read /\ rest'[p] = read /\ spc'[p] = "readMasters" /\ Alone(p)
  BY <1>1 DEF Alone, SyncInv, SyncTypeOK
<1>5. SyncTypeOK'
  BY <1>1, <1>3, <1>4 DEF SyncInv, SyncTypeOK, graphVars
<1>6. SyncerInv(p)'
  BY <1>3, <1>4 DEF SyncerInv, LoopRow, SourceDone, SyncSteps, InText
<1> QED
  BY <1>1, <1>4, <1>5, <1>6, GraphUnchanged, SyncerSteps

(* The other steps between statements, and the failures.                   *)
LEMMA QuietSyncStep ==
  ASSUME SyncInv, NEW p \in Syncers,
         \/ StartSync(p) \/ ReadMasters(p) \/ PickReference(p) \/ SyncDone(p)
         \/ StatementFails(p) \/ SyncAborts(p)
  PROVE  SyncInv'
<1> USE DEF SyncGoto
<1>1. SyncTypeOK /\ SyncerInv(p)
  BY DEF SyncInv
<1>2. CASE StartSync(p)
  <2>1. SyncTypeOK' /\ Alone(p)
    BY <1>1, <1>2 DEF StartSync, SyncTypeOK, Alone, graphVars
  <2>2. spc'[p] = "readRefs" /\ batch'[p] = {} /\ rest'[p] = {}
    BY <1>1, <1>2 DEF StartSync, SyncTypeOK, SyncerInv
  <2>3. SyncerInv(p)'
    BY <2>2 DEF SyncerInv, LoopRow, SourceDone, SyncSteps
  <2> QED
    BY <1>2, <2>1, <2>3, GraphUnchanged, SyncerSteps DEF StartSync
<1>3. CASE ReadMasters(p)
  <2>0. Selected(p) \subseteq Laws
    BY <1>1 DEF Selected, SyncTypeOK
  <2>1. SyncTypeOK' /\ Alone(p)
    BY <1>1, <1>3, <2>0 DEF ReadMasters, SyncTypeOK, Alone, graphVars
  <2>2. spc'[p] = "pick" /\ UNCHANGED <<batch, rest, errors, refEdge>>
    BY <1>1, <1>3 DEF ReadMasters, SyncTypeOK, graphVars
  <2>3. SyncerInv(p)'
    BY <1>1, <2>2 DEF SyncerInv, LoopRow, SourceDone, SyncSteps, InText
  <2> QED
    BY <1>3, <2>1, <2>3, GraphUnchanged, SyncerSteps DEF ReadMasters
<1>4. CASE PickReference(p)
  <2>0. PICK r \in rest[p] : row' = [row EXCEPT ![p] = r]
    BY <1>4 DEF PickReference
  <2>1. SyncTypeOK' /\ Alone(p)
    BY <1>1, <1>4, <2>0 DEF PickReference, SyncTypeOK, Alone, graphVars, SyncSteps
  <2>2. spc'[p] = "sourceLaw" /\ row'[p] = r /\ UNCHANGED <<batch, rest, errors, refEdge>>
    BY <1>1, <1>4, <2>0 DEF PickReference, SyncTypeOK, graphVars
  <2>3. SyncerInv(p)'
    BY <1>1, <2>2 DEF SyncerInv, LoopRow, SourceDone, SyncSteps, InText
  <2> QED
    BY <1>4, <2>1, <2>3, GraphUnchanged, SyncerSteps DEF PickReference
<1>5. CASE SyncDone(p)
  <2>1. SyncTypeOK' /\ Alone(p)
    BY <1>1, <1>5 DEF SyncDone, SyncTypeOK, Alone, graphVars
  <2>2. spc'[p] = "done" /\ rest[p] = {} /\ UNCHANGED <<batch, rest, errors, refEdge>>
    BY <1>1, <1>5 DEF SyncDone, SyncTypeOK, graphVars
  <2>3. SyncerInv(p)'
    BY <1>1, <2>2 DEF SyncerInv, LoopRow, SourceDone, SyncSteps, InText
  <2> QED
    BY <1>5, <2>1, <2>3, GraphUnchanged, SyncerSteps DEF SyncDone
<1>6. CASE StatementFails(p)
  <2>1. SyncTypeOK' /\ Alone(p)
    BY <1>1, <1>6 DEF StatementFails, Finished, SyncTypeOK, Alone, graphVars
  <2>2. spc'[p] = "pick" /\ rest'[p] = rest[p] \ {row[p]} /\ errors'[p] = TRUE
        /\ batch'[p] = batch[p]
    BY <1>1, <1>6 DEF StatementFails, Finished, SyncTypeOK
  <2>3. SyncerInv(p)'
    BY <1>1, <2>2 DEF SyncerInv, LoopRow, SourceDone, SyncSteps, InText
  <2> QED
    BY <1>6, <2>1, <2>3, GraphUnchanged, SyncerSteps DEF StatementFails
<1>7. CASE SyncAborts(p)
  <2>1. SyncTypeOK' /\ Alone(p)
    BY <1>1, <1>7 DEF SyncAborts, SyncTypeOK, Alone, graphVars
  <2>2. spc'[p] = "idle" /\ rest'[p] = {} /\ batch'[p] = {}
    BY <1>1, <1>7 DEF SyncAborts, SyncTypeOK
  <2>3. SyncerInv(p)'
    BY <2>2 DEF SyncerInv, LoopRow, SourceDone, SyncSteps
  <2> QED
    BY <1>7, <2>1, <2>3, GraphUnchanged, SyncerSteps DEF SyncAborts
<1> QED
  BY <1>2, <1>3, <1>4, <1>5, <1>6, <1>7

(* A Law node is made or renamed: no node goes.                            *)
LEMMA MergeLawStep ==
  ASSUME SyncInv, NEW p \in Syncers, MergeSourceLaw(p) \/ MergeTargetLaw(p)
  PROVE  SyncInv'
<1> USE DEF SyncGoto
<1>1. SyncTypeOK /\ SyncerInv(p) /\ ArticlesReachable /\ EdgesFromText
  BY DEF SyncInv
<1>2. CASE MergeSourceLaw(p)
  <2>1. row[p] \in rest[p] /\ row[p].law \in Laws
    BY <1>2, RowInWork DEF MergeSourceLaw, LoopRow, SyncSteps
  <2>2. lawNode'[row[p].law] # "none" /\ \A l \in Laws \ {row[p].law} : lawNode'[l] = lawNode[l]
    BY <1>1, <1>2, <2>1 DEF MergeSourceLaw, SyncTypeOK
  <2>3. /\ spc' = [spc EXCEPT ![p] = "sourceArticle"]
        /\ UNCHANGED <<artNode, hasArticle, refEdge, only, batch, rest, row, masters, errors>>
    BY <1>2 DEF MergeSourceLaw
  <2>4. SyncTypeOK' /\ Alone(p) /\ spc'[p] = "sourceArticle"
    BY <1>1, <1>2, <2>1, <2>3 DEF MergeSourceLaw, SyncTypeOK, Alone, SyncSteps
  <2>5. Grows /\ EdgesFromText'
    BY <1>1, <2>2, <2>3 DEF Grows, EdgesFromText
  <2>6. ArticlesReachable'
    <3>1. \A a \in artNode : a[1] \in Laws
      BY <1>1 DEF SyncTypeOK, Node
    <3> QED
      BY <1>1, <2>2, <2>3, <3>1 DEF ArticlesReachable
  <2>7. SyncerInv(p)'
    BY <1>1, <2>1, <2>2, <2>3, <2>4 DEF SyncerInv, LoopRow, SourceDone, SyncSteps, InText
  <2> QED
    BY <2>4, <2>5, <2>6, <2>7, SyncerSteps
<1>3. CASE MergeTargetLaw(p)
  <2>0. LoopRow(p) /\ SourceDone(p)
    BY <1>3 DEF MergeTargetLaw, LoopRow, SourceDone, SyncSteps
  <2>1. /\ row[p] \in rest[p] /\ HasTarget(row[p]) /\ row[p].tlaw \in Laws /\ row[p].law \in Laws
        /\ lawNode[row[p].law] # "none" /\ <<row[p].law, row[p].src>> \in artNode
    BY <1>1, <2>0, RowInWork DEF SyncerInv
  <2>2. /\ lawNode'[row[p].tlaw] # "none"
        /\ \A l \in Laws : lawNode[l] # "none" => lawNode'[l] # "none"
    BY <1>1, <1>3, <2>1 DEF MergeTargetLaw, SyncTypeOK
  <2>3. /\ spc' = [spc EXCEPT ![p] = "targetArticle"]
        /\ UNCHANGED <<artNode, hasArticle, refEdge, only, batch, rest, row, masters, errors>>
    BY <1>3 DEF MergeTargetLaw
  <2>4. SyncTypeOK' /\ Alone(p) /\ spc'[p] = "targetArticle"
    BY <1>1, <1>3, <2>1, <2>3 DEF MergeTargetLaw, SyncTypeOK, Alone, SyncSteps
  <2>5. Grows /\ EdgesFromText'
    BY <1>1, <2>2, <2>3 DEF Grows, EdgesFromText
  <2>6. ArticlesReachable'
    <3>1. \A a \in artNode : a[1] \in Laws
      BY <1>1 DEF SyncTypeOK, Node
    <3> QED
      BY <1>1, <2>2, <2>3, <3>1 DEF ArticlesReachable
  <2>7. SyncerInv(p)'
    <3>1. lawNode'[row[p].law] # "none"
      BY <2>1, <2>2
    <3> QED
      BY <1>1, <2>1, <2>2, <2>3, <2>4, <3>1
         DEF SyncerInv, LoopRow, SourceDone, SyncSteps, InText, HasTarget
  <2> QED
    BY <2>4, <2>5, <2>6, <2>7, SyncerSteps
<1> QED
  BY <1>2, <1>3

(* MERGE of an Article node below a law that has its node.                 *)
LEMMA ArticleMerged ==
  ASSUME SyncInv, NEW l \in Laws, NEW n, <<l, n>> \in Node, lawNode[l] # "none",
         MergeArticle(l, n), UNCHANGED <<lawNode, refEdge>>
  PROVE  /\ artNode' = artNode \cup {<<l, n>>} /\ artNode' \subseteq Node
         /\ hasArticle' \subseteq (Laws \X Node)
         /\ Grows /\ ArticlesReachable' /\ EdgesFromText'
<1>1. artNode' = artNode \cup {<<l, n>>} /\ hasArticle' = hasArticle \cup {<<l, <<l, n>>>>}
  BY DEF MergeArticle
<1>2. artNode' \subseteq Node /\ hasArticle' \subseteq (Laws \X Node)
  BY <1>1 DEF SyncInv, SyncTypeOK
<1>3. Grows /\ EdgesFromText'
  BY <1>1 DEF Grows, EdgesFromText, SyncInv
<1>4. ArticlesReachable'
  <2> SUFFICES ASSUME NEW a \in artNode'
               PROVE  lawNode'[a[1]] # "none" /\ <<a[1], a>> \in hasArticle'
    BY DEF ArticlesReachable
  <2>1. CASE a = <<l, n>>
    BY <1>1, <2>1
  <2>2. CASE a \in artNode
    BY <1>1, <2>2 DEF SyncInv, ArticlesReachable
  <2> QED
    BY <1>1, <2>1, <2>2
<1> QED
  BY <1>1, <1>2, <1>3, <1>4

(* The MERGE of an article below its law.                                  *)
LEMMA MergeArticleStep ==
  ASSUME SyncInv, NEW p \in Syncers, MergeSourceArticle(p) \/ MergeTargetArticle(p)
  PROVE  SyncInv'
<1> USE DEF SyncGoto
<1>1. SyncTypeOK /\ SyncerInv(p)
  BY DEF SyncInv
<1>2. CASE MergeSourceArticle(p)
  <2>1. /\ row[p] \in rest[p] /\ row[p].law \in Laws /\ <<row[p].law, row[p].src>> \in Node
        /\ lawNode[row[p].law] # "none"
    BY <1>1, <1>2, RowInWork DEF MergeSourceArticle, LoopRow, SyncSteps, SyncerInv
  <2>2. /\ MergeArticle(row[p].law, row[p].src)
        /\ UNCHANGED <<lawNode, refEdge, only, batch, masters, errors>>
    BY <1>2 DEF MergeSourceArticle
  <2>3. /\ artNode' = artNode \cup {<<row[p].law, row[p].src>>} /\ artNode' \subseteq Node
        /\ hasArticle' \subseteq (Laws \X Node)
        /\ Grows /\ ArticlesReachable' /\ EdgesFromText'
    BY <2>1, <2>2, ArticleMerged
  <2>4. CASE HasTarget(row[p])
    <3>1. spc' = [spc EXCEPT ![p] = "targetLaw"] /\ UNCHANGED <<rest, row>>
      BY <1>2, <2>4 DEF MergeSourceArticle
    <3>2. SyncTypeOK' /\ Alone(p) /\ spc'[p] = "targetLaw"
      BY <1>1, <2>2, <2>3, <3>1 DEF SyncTypeOK, Alone, SyncSteps
    <3>3. SyncerInv(p)'
      BY <1>1, <2>1, <2>2, <2>3, <2>4, <3>1, <3>2
         DEF SyncerInv, LoopRow, SourceDone, SyncSteps, InText, HasTarget
    <3> QED
      BY <2>3, <3>2, <3>3, SyncerSteps
  <2>5. CASE ~HasTarget(row[p])
    <3>1. /\ spc' = [spc EXCEPT ![p] = "pick"] /\ rest' = [rest EXCEPT ![p] = @ \ {row[p]}]
          /\ row' = [row EXCEPT ![p] = NoSyncRow]
      BY <1>2, <2>5 DEF MergeSourceArticle, Finished
    <3>2. SyncTypeOK' /\ Alone(p) /\ spc'[p] = "pick" /\ rest'[p] = rest[p] \ {row[p]}
      BY <1>1, <2>2, <2>3, <3>1 DEF SyncTypeOK, Alone
    <3>3. SyncerInv(p)'
      BY <1>1, <2>1, <2>2, <2>5, <3>2 DEF SyncerInv, LoopRow, SourceDone, SyncSteps, InText
    <3> QED
      BY <2>3, <3>2, <3>3, SyncerSteps
  <2> QED
    BY <2>4, <2>5
<1>3. CASE MergeTargetArticle(p)
  <2>0. LoopRow(p) /\ SourceDone(p) /\ spc[p] = "targetArticle"
    BY <1>3 DEF MergeTargetArticle, LoopRow, SourceDone, SyncSteps
  <2>1. /\ row[p] \in rest[p] /\ HasTarget(row[p]) /\ row[p].tlaw \in Laws
        /\ <<row[p].tlaw, row[p].tart>> \in Node
        /\ lawNode[row[p].law] # "none" /\ lawNode[row[p].tlaw] # "none"
        /\ <<row[p].law, row[p].src>> \in artNode
    BY <1>1, <2>0, RowInWork DEF SyncerInv
  <2>2. /\ MergeArticle(row[p].tlaw, row[p].tart)
        /\ spc' = [spc EXCEPT ![p] = "edge"]
        /\ UNCHANGED <<lawNode, refEdge, only, batch, rest, row, masters, errors>>
    BY <1>3 DEF MergeTargetArticle
  <2>3. /\ artNode' = artNode \cup {<<row[p].tlaw, row[p].tart>>} /\ artNode' \subseteq Node
        /\ hasArticle' \subseteq (Laws \X Node)
        /\ Grows /\ ArticlesReachable' /\ EdgesFromText'
    BY <2>1, <2>2, ArticleMerged
  <2>4. SyncTypeOK' /\ Alone(p) /\ spc'[p] = "edge"
    BY <1>1, <2>2, <2>3 DEF SyncTypeOK, Alone, SyncSteps
  <2>5. SyncerInv(p)'
    BY <1>1, <2>1, <2>2, <2>3, <2>4
       DEF SyncerInv, LoopRow, SourceDone, SyncSteps, InText, HasTarget
  <2> QED
    BY <2>3, <2>4, <2>5, SyncerSteps
<1> QED
  BY <1>2, <1>3

(* The MERGE of the relationship between two articles that are there.      *)
LEMMA MergeEdgeStep ==
  ASSUME SyncInv, NEW p \in Syncers, MergeEdge(p)
  PROVE  SyncInv'
<1> DEFINE e == EdgeOf(row[p])
<1>1. SyncTypeOK /\ SyncerInv(p) /\ ArticlesReachable /\ EdgesFromText
  BY DEF SyncInv
<1>2. LoopRow(p) /\ SourceDone(p) /\ spc[p] = "edge"
  BY DEF MergeEdge, LoopRow, SourceDone, SyncSteps
<1>3. /\ row[p] \in rest[p] /\ row[p] \in batch[p] /\ HasTarget(row[p])
      /\ <<row[p].law, row[p].src>> \in Node /\ <<row[p].tlaw, row[p].tart>> \in Node
      /\ row[p].mention \in Mention
      /\ <<row[p].law, row[p].src>> \in artNode /\ <<row[p].tlaw, row[p].tart>> \in artNode
  BY <1>1, <1>2, RowInWork DEF SyncerInv
<1>4. /\ e.from = <<row[p].law, row[p].src>> /\ e.to = <<row[p].tlaw, row[p].tart>>
      /\ e.mention = row[p].mention /\ e \in [from : Node, to : Node, mention : Mention]
  BY <1>3 DEF EdgeOf
<1>5. /\ refEdge' = refEdge \cup {e}
      /\ rest' = [rest EXCEPT ![p] = @ \ {row[p]}]
      /\ row' = [row EXCEPT ![p] = NoSyncRow]
      /\ spc' = [spc EXCEPT ![p] = "pick"]
      /\ UNCHANGED <<lawNode, artNode, hasArticle, only, batch, masters, errors>>
  BY <1>3, <1>4 DEF MergeEdge, Finished, SyncGoto
<1>6. EdgesFromText'
  <2>1. InText(row[p])
    BY <1>1, <1>3 DEF SyncerInv
  <2>2. e.from[2] = row[p].src
    BY <1>4
  <2> HIDE DEF e
  <2> QED
    BY <1>1, <1>4, <1>5, <2>1, <2>2 DEF EdgesFromText, InText
<1>7. Grows /\ ArticlesReachable'
  BY <1>1, <1>5 DEF Grows, ArticlesReachable
<1> HIDE DEF e
<1>8. SyncTypeOK' /\ Alone(p) /\ spc'[p] = "pick" /\ rest'[p] = rest[p] \ {row[p]}
  BY <1>1, <1>4, <1>5 DEF SyncTypeOK, Alone
<1>9. SyncerInv(p)'
  <2>1. ~errors[p] => \A r \in batch[p] \ rest'[p] : HasTarget(r) => EdgeOf(r) \in refEdge'
    BY <1>1, <1>5, <1>8 DEF SyncerInv, e
  <2> QED
    BY <1>1, <1>5, <1>8, <2>1
       DEF SyncerInv, LoopRow, SourceDone, SyncSteps, InText, HasTarget, EdgeOf
<1> QED
  BY <1>6, <1>7, <1>8, <1>9, SyncerSteps

(* An empty graph.                                                         *)
LEMMA SyncInitially == SyncInit => SyncInv
<1> SUFFICES ASSUME SyncInit PROVE SyncInv
  OBVIOUS
<1>1. SyncTypeOK
  BY DEF SyncInit, SyncTypeOK
<1>2. \A p \in Syncers : SyncerInv(p)
  BY DEF SyncInit, SyncerInv, LoopRow, SourceDone, SyncSteps
<1>3. ArticlesReachable /\ EdgesFromText
  BY DEF SyncInit, ArticlesReachable, EdgesFromText
<1> QED
  BY <1>1, <1>2, <1>3 DEF SyncInv

(* Every step of the syncs keeps the invariant.                            *)
LEMMA SyncNextStep ==
  ASSUME DetectInv, SyncInv, SyncNext
  PROVE  SyncInv'
<1>1. PICK p \in Syncers : StartSync(p) \/ SyncStep(p) \/ StatementFails(p) \/ SyncAborts(p)
  BY DEF SyncNext
<1> QED
  BY <1>1, ReadReferencesStep, QuietSyncStep, MergeLawStep, MergeArticleStep, MergeEdgeStep
     DEF SyncStep

(* Steps of the other scripts leave graph and syncs alone.                 *)
LEMMA SyncUndisturbed ==
  ASSUME SyncInv, UNCHANGED syncVars
  PROVE  SyncInv'
<1>1. UNCHANGED <<graphVars, spc, only, batch, rest, row, masters, errors>>
  BY DEF syncVars
<1>2. Grows /\ ArticlesReachable' /\ EdgesFromText'
  BY <1>1, GraphUnchanged
<1>3. SyncTypeOK'
  BY <1>1 DEF SyncInv, SyncTypeOK, graphVars
<1> QED
  BY <1>1, <1>2, <1>3, OtherSyncer DEF SyncInv

-----------------------------------------------------------------------------
(* What the invariants of the parts say of the graph.                      *)

LEMMA SyncedRows == SyncInv => SyncComplete
BY DEF SyncInv, SyncerInv, SyncComplete

(* From the articles of an edition by way of the detected rows to the      *)
(* edges.                                                                  *)
LEMMA EditionSynced == DetectInv /\ SyncInv => EditionInGraph
<1> SUFFICES ASSUME DetectInv, SyncInv, NEW l \in Laws, NEW d \in Docs, NEW p \in Syncers,
                    Complete(article[l], d), DetectedNow(l),
                    spc[p] = "done", ~errors[p],
                    \A r \in reference[l] : Returned(l, r) \in batch[p],
                    NEW k \in DOMAIN Extract[d], NEW i \in DOMAIN Mentions[d][k],
                    Mentions[d][k][i].type = "internal"
             PROVE  [from |-> <<l, Extract[d][k].num>>, to |-> <<l, Mentions[d][k][i].art>>,
                     mention |-> Mentions[d][k][i]] \in refEdge
  BY DEF EditionInGraph
<1> DEFINE n == Extract[d][k].num
           m == Mentions[d][k][i]
<1>1. n \in Numbers /\ m \in Mention
  <2>1. Extract[d] \in Seq(ArticleData) /\ Mentions[d] \in Seq(Seq(Mention))
        /\ Len(Mentions[d]) = Len(Extract[d])
    BY ExtractAssumption, MentionsAssumption
  <2>2. Extract[d][k] \in ArticleData /\ k \in DOMAIN Mentions[d]
    BY <2>1
  <2>3. Mentions[d][k] \in Seq(Mention)
    BY <2>1, <2>2
  <2> QED
    BY <2>2, <2>3 DEF ArticleData
<1>2. MentionsOf(basis[l][n]) = Mentions[d][k]
  BY DEF DetectedNow, Complete, MentionsOf
<1>3. PICK r \in expected[l] : r.src = n /\ r.at = i /\ r.mention = m
  BY <1>1, <1>2 DEF DetectedNow, Settled, DetectInv, EveryMentionOnce
<1>4. r \in reference[l]
  BY LastStored DEF DetectedNow, LastDetectionStored
<1>5. r.law = l /\ r.art = m.art
  BY <1>3 DEF DetectedNow, Settled, DetectInv, RowsInv, WithinLaw
<1>6. m.art \in Targets
  BY <1>1 DEF Mention
<1>7. HasTarget(Returned(l, r))
  BY <1>5, <1>6, TargetsAssumption, NamesAssumption DEF HasTarget, Returned
<1>8. EdgeOf(Returned(l, r)) \in refEdge
  BY <1>4, <1>7, SyncedRows DEF SyncComplete
<1> QED
  BY <1>3, <1>5, <1>8 DEF EdgeOf, Returned

-----------------------------------------------------------------------------
(* Detection and synchronisation beside completed imports.                 *)
GraphInv == DetectionInv /\ SyncInv

(* The invariant of detection and synchronisation in the beginning.        *)
LEMMA GraphInitially == DetectionInit /\ SyncInit => GraphInv
BY DetectionInitially, SyncInitially DEF GraphInv

(* Every step of SyncSpec keeps it.                                        *)
LEMMA GraphStep ==
  GraphInv /\ [SyncNext \/ (DetectionNext /\ UNCHANGED syncVars)]_allSyncVars => GraphInv'
<1> SUFFICES ASSUME DetectionInv, SyncInv,
                    [SyncNext \/ (DetectionNext /\ UNCHANGED syncVars)]_allSyncVars
             PROVE  DetectionInv' /\ SyncInv'
  BY DEF GraphInv
<1>1. CASE SyncNext
  <2>1. UNCHANGED <<storeVars, detectVars>>
    BY <1>1 DEF SyncNext
  <2>2. DetectionInv'
    BY <2>1, DetectionStep DEF detectionVars
  <2> QED
    BY <1>1, <2>2, SyncNextStep DEF DetectionInv
<1>2. CASE DetectionNext /\ UNCHANGED syncVars
  BY <1>2, DetectionStep, SyncUndisturbed
<1>3. CASE UNCHANGED allSyncVars
  <2>1. UNCHANGED detectionVars /\ UNCHANGED syncVars
    BY <1>3 DEF allSyncVars, detectionVars
  <2> QED
    BY <2>1, DetectionStep, SyncUndisturbed
<1> QED
  BY <1>1, <1>2, <1>3

(* The invariant of any number of detections and syncs.                    *)
THEOREM GraphInvariant == SyncSpec => []GraphInv
<1> QED
  BY GraphInitially, GraphStep, PTL DEF SyncSpec

(* The graph and the memory of the sync processes stay well typed.         *)
THEOREM SyncTypeCorrect == SyncSpec => []SyncTypeOK
<1>1. GraphInv => SyncTypeOK
  BY DEF GraphInv, SyncInv
<1> QED
  BY <1>1, GraphInvariant, PTL

(* A sync that reports no error has stored every reference with a target   *)
(* that findMany gave it, whatever other syncs do or leave undone.         *)
THEOREM CleanSyncsComplete == SyncSpec => []SyncComplete
<1>1. GraphInv => SyncComplete
  BY SyncedRows DEF GraphInv
<1> QED
  BY <1>1, GraphInvariant, PTL

(* Syncs that fail between any two statements leave no article without its *)
(* law.                                                                    *)
THEOREM ArticlesHangTogether == SyncSpec => []ArticlesReachable
<1>1. GraphInv => ArticlesReachable
  BY DEF GraphInv, SyncInv
<1> QED
  BY <1>1, GraphInvariant, PTL

(* Every edge of the graph stands in the text of some edition.             *)
THEOREM EdgesAreFromText == SyncSpec => []EdgesFromText
<1>1. GraphInv => EdgesFromText
  BY DEF GraphInv, SyncInv
<1> QED
  BY <1>1, GraphInvariant, PTL

(* Detected and synced once more, an edition that was replaced at any time *)
(* is in the graph with all of its references to articles of the law.      *)
THEOREM SyncedEditionInGraph == SyncSpec => []EditionInGraph
<1>1. GraphInv => EditionInGraph
  BY EditionSynced DEF GraphInv, DetectionInv
<1> QED
  BY <1>1, GraphInvariant, PTL

-----------------------------------------------------------------------------
(* The whole path: the steps of the imports, of detections and of syncs.   *)
PipelineInv == ImportInv /\ DetectInv /\ SyncInv /\ TitlesInv

(* Imports give detection the articles it relies on.                       *)
LEMMA ImportedFromEdition == ImportInv => ArticlesInv
BY DEF ImportInv, ImportTypeOK, StoreTypeOK, RowInv, ArticlesInv, FromEdition

(* The step proved in LawImportProofs.                                     *)
LEMMA ImportStep == ImportInv /\ [ImportNext]_vars => ImportInv'
BY TypeStep, SafeStep, OrderStep DEF ImportInv, SafeInv

(* Detection reads the tables of the imports and writes none of them.      *)
LEMMA StoreUnchangedByDetection ==
  ASSUME DetectNext
  PROVE  UNCHANGED storeVars
BY DEF DetectNext, DetectStep, StartDetection, ReadArticles, NextArticle, ResolveMention,
   DetectedNothing, DeleteReferences, CreateMany, DetectionFails

(* No step deletes a LawMaster.                                            *)
LEMMA MastersStay ==
  ASSUME ImportTypeOK, [ImportNext]_vars, NEW l \in Laws, MasterOf(l)
  PROVE  MasterOf(l)'
<1> USE DEF ImportTypeOK, StoreTypeOK, MasterOf
<1>1. CASE UNCHANGED lawMaster
  BY <1>1
<1>2. ASSUME NEW p \in Workers, UpsertLawMaster(p)
      PROVE  MasterOf(l)'
  BY <1>2 DEF UpsertLawMaster
<1>3. ASSUME NEW p \in Workers, UpdateCurrentVersionId(p)
      PROVE  MasterOf(l)'
  BY <1>3 DEF UpdateCurrentVersionId
<1>4. ASSUME NEW p \in Workers,
             \/ StartInit(p) \/ StartImport(p) \/ Reject(p) \/ Crash(p)
             \/ UpsertLawVersion(p) \/ FindLatestVersion(p) \/ LoadXml(p)
             \/ DeleteArticles(p) \/ CreateArticle(p) \/ CreateChild(p) \/ ImportDone(p)
      PROVE  UNCHANGED lawMaster
  BY <1>4 DEF StartInit, StartImport, Start, Reject, Crash, UpsertLawVersion, FindLatestVersion,
     LoadXml, DeleteArticles, CreateArticle, CreateChild, ImportDone, storeVars
<1>5. ASSUME NEW k \in Laws, NEW d \in Docs, NewEdition(k, d)
      PROVE  UNCHANGED lawMaster
  BY <1>5 DEF NewEdition
<1>6. CASE UNCHANGED vars
  BY <1>6 DEF vars, storeVars
<1> QED
  BY <1>1, <1>2, <1>3, <1>4, <1>5, <1>6 DEF ImportNext, Step

(* Imports do not disturb what detection and sync know of the LawMasters.  *)
LEMMA TitlesBesideImport ==
  ASSUME TitlesInv, DetectTypeOK, SyncTypeOK, ImportTypeOK, [ImportNext]_vars,
         UNCHANGED <<detectVars, syncVars>>
  PROVE  TitlesInv'
<1>1. \A l \in Laws : MasterOf(l) => MasterOf(l)'
  BY MastersStay
<1>2. UNCHANGED <<reference, dpc, dtodo, lawNode, spc, only, batch, rest, masters>>
  BY DEF detectVars, syncVars, graphVars
<1>3. TitlesKnown'
  BY <1>2 DEF TitlesInv, TitlesKnown
<1>4. \A l \in Laws : reference'[l] # {} => MasterOf(l)'
  BY <1>1, <1>2 DEF TitlesInv
<1>5. \A p \in Detectors : dpc'[p] \in {"detect", "save"} => MasterOf(dlaw(p))'
  <2> SUFFICES ASSUME NEW p \in Detectors, dpc[p] \in {"detect", "save"}
               PROVE  MasterOf(dlaw(p))'
    BY <1>2
  <2>1. dlaw(p) \in Laws /\ MasterOf(dlaw(p))
    BY DEF TitlesInv, DetectTypeOK, dlaw
  <2>2. dlaw(p)' = dlaw(p)
    BY <1>2 DEF dlaw
  <2> QED
    BY <1>1, <2>1, <2>2 DEF MasterOf
<1>6. \A p \in Syncers : \A r \in batch'[p] : MasterOf(r.law)'
  <2> SUFFICES ASSUME NEW p \in Syncers, NEW r \in batch[p]
               PROVE  MasterOf(r.law)'
    BY <1>2
  <2>1. r.law \in Laws /\ MasterOf(r.law)
    BY DEF TitlesInv, SyncTypeOK, SyncRow
  <2> QED
    BY <1>1, <2>1
<1>7. \A p \in Syncers : spc'[p] = "readMasters" => \A r \in batch'[p] : r.law \in Selected(p)'
  BY <1>2 DEF TitlesInv, Selected
<1>8. \A p \in Syncers :
        spc'[p] = "pick" \/ LoopRow(p)' => \A r \in rest'[p] : r.law \in masters'[p]
  BY <1>2 DEF TitlesInv, LoopRow
<1> QED
  BY <1>3, <1>4, <1>5, <1>6, <1>7, <1>8 DEF TitlesInv

(* Detection reads and writes only laws that have a version, and those     *)
(* have their LawMaster.                                                   *)
LEMMA TitlesDetectStep ==
  ASSUME TitlesInv, DetectTypeOK, ImportInv, DetectNext, UNCHANGED syncVars
  PROVE  TitlesInv'
<1>1. PICK p \in Detectors : StartDetection(p) \/ DetectStep(p) \/ DetectionFails(p)
  BY DEF DetectNext
<1>2. UNCHANGED lawMaster
  BY StoreUnchangedByDetection DEF storeVars
<1>3. UNCHANGED <<lawNode, spc, only, batch, rest, masters>>
  BY DEF syncVars, graphVars
<1>4. \A q \in Detectors \ {p} : dpc'[q] = dpc[q] /\ dtodo'[q] = dtodo[q]
  BY <1>1 DEF DetectTypeOK, DetectStep, StartDetection, ReadArticles, NextArticle,
     ResolveMention, DetectedNothing, DeleteReferences, CreateMany, DetectionFails, DetectNextLaw
<1>5. dpc'[p] \in {"detect", "save"} =>
        dtodo'[p] = dtodo[p] /\ dpc[p] \in {"read", "detect", "save"} /\ MasterOf(dlaw(p))
  <2>1. CASE ReadArticles(p)
    <3>1. CASE xmlContent[dlaw(p)] = NoVersion
      BY <2>1, <3>1 DEF ReadArticles, DetectNextLaw, DetectTypeOK
    <3>2. CASE xmlContent[dlaw(p)] # NoVersion
      <4>1. dlaw(p) \in Laws
        BY <2>1 DEF ReadArticles, DetectTypeOK, dlaw
      <4>2. MasterOf(dlaw(p))
        BY <3>2, <4>1 DEF ImportInv, ImportTypeOK, StoreTypeOK, ForeignKeys, MasterOf
      <4> QED
        BY <2>1, <3>2, <4>2 DEF ReadArticles
    <3> QED
      BY <3>1, <3>2
  <2>2. CASE StartDetection(p) \/ DetectedNothing(p) \/ DetectionFails(p)
    BY <2>2 DEF StartDetection, DetectedNothing, DetectionFails, DetectNextLaw, DetectTypeOK
  <2>3. CASE NextArticle(p) \/ ResolveMention(p) \/ DeleteReferences(p)
    <3>1. dpc[p] = "detect" /\ UNCHANGED dtodo
      BY <2>3 DEF NextArticle, ResolveMention, DeleteReferences, Detected
    <3> QED
      BY <3>1 DEF TitlesInv
  <2>4. CASE CreateMany(p)
    <3>1. dpc[p] = "save" /\ (dpc'[p] \in {"detect", "save"} => UNCHANGED dtodo)
      BY <2>4 DEF CreateMany, DetectNextLaw, DetectTypeOK
    <3> QED
      BY <3>1 DEF TitlesInv
  <2> QED
    BY <1>1, <2>1, <2>2, <2>3, <2>4 DEF DetectStep
<1>6. \A l \in Laws : reference'[l] # {} => MasterOf(l)
  <2>1. CASE CreateMany(p)
    <3>1. MasterOf(dlaw(p))
      BY <2>1 DEF CreateMany, TitlesInv
    <3>2. \A l \in Laws \ {dlaw(p)} : reference'[l] = reference[l]
      BY <2>1 DEF CreateMany, DetectTypeOK
    <3> QED
      BY <3>1, <3>2 DEF TitlesInv
  <2>2. CASE DeleteReferences(p)
    BY <2>2 DEF DeleteReferences, DetectTypeOK, TitlesInv
  <2>3. CASE ~CreateMany(p) /\ ~DeleteReferences(p)
    <3>1. UNCHANGED reference
      BY <1>1, <2>3 DEF DetectStep, StartDetection, ReadArticles, NextArticle, ResolveMention,
         DetectedNothing, DetectionFails
    <3> QED
      BY <3>1 DEF TitlesInv
  <2> QED
    BY <2>1, <2>2, <2>3
<1>7. TitlesKnown'
  BY <1>3 DEF TitlesInv, TitlesKnown
<1>8. \A l \in Laws : reference'[l] # {} => MasterOf(l)'
  BY <1>2, <1>6 DEF MasterOf
<1>9. \A q \in Detectors : dpc'[q] \in {"detect", "save"} => MasterOf(dlaw(q))'
  BY <1>2, <1>4, <1>5 DEF MasterOf, dlaw, TitlesInv
<1>10. \A q \in Syncers : \A r \in batch'[q] : MasterOf(r.law)'
  BY <1>2, <1>3 DEF MasterOf, TitlesInv
<1>11. \A q \in Syncers :
         spc'[q] = "readMasters" => \A r \in batch'[q] : r.law \in Selected(q)'
  BY <1>3 DEF TitlesInv, Selected
<1>12. \A q \in Syncers :
         spc'[q] = "pick" \/ LoopRow(q)' => \A r \in rest'[q] : r.law \in masters'[q]
  BY <1>3 DEF TitlesInv, LoopRow
<1> QED
  BY <1>7, <1>8, <1>9, <1>10, <1>11, <1>12 DEF TitlesInv

(* A sync reads the LawMasters after the rows, so it knows the title of    *)
(* every source law.                                                       *)
TitledSyncer(p) ==
  /\ \A r \in batch[p] : MasterOf(r.law)
  /\ spc[p] = "readMasters" => \A r \in batch[p] : r.law \in Selected(p)
  /\ spc[p] = "pick" \/ LoopRow(p) => \A r \in rest[p] : r.law \in masters[p]

(* A sync gives a law node the title it has read.                          *)
LEMMA TitlesSyncStep ==
  ASSUME TitlesInv, SyncInv, SyncNext
  PROVE  TitlesInv'
<1>1. PICK p \in Syncers : StartSync(p) \/ SyncStep(p) \/ StatementFails(p) \/ SyncAborts(p)
  BY DEF SyncNext
<1>2. UNCHANGED <<lawMaster, reference, dpc, dtodo>>
  BY DEF SyncNext, storeVars, detectVars
<1>3. SyncTypeOK /\ SyncerInv(p) /\ TitledSyncer(p)
  BY DEF SyncInv, TitlesInv, TitledSyncer
<1> USE DEF SyncGoto
<1>4. \A q \in Syncers \ {p} :
        /\ spc'[q] = spc[q] /\ only'[q] = only[q] /\ batch'[q] = batch[q]
        /\ rest'[q] = rest[q] /\ masters'[q] = masters[q]
  <2>1. CASE StartSync(p) \/ ReadReferences(p) \/ ReadMasters(p) \/ PickReference(p) \/ SyncDone(p)
    BY <1>3, <2>1 DEF SyncTypeOK, StartSync, ReadReferences, ReadMasters, PickReference, SyncDone
  <2>2. CASE MergeSourceLaw(p) \/ MergeTargetLaw(p) \/ MergeTargetArticle(p)
    BY <1>3, <2>2 DEF SyncTypeOK, MergeSourceLaw, MergeTargetLaw, MergeTargetArticle
  <2>3. CASE MergeSourceArticle(p) \/ MergeEdge(p) \/ StatementFails(p) \/ SyncAborts(p)
    BY <1>3, <2>3 DEF SyncTypeOK, MergeSourceArticle, MergeEdge, StatementFails, SyncAborts,
       Finished
  <2> QED
    BY <1>1, <2>1, <2>2, <2>3 DEF SyncStep
<1>5. TitledSyncer(p)'
  <2>1. CASE ReadReferences(p)
    <3>1. batch'[p] = UNION {{Returned(l, r) : r \in reference[l]} : l \in Selected(p)}
          /\ spc'[p] = "readMasters" /\ Selected(p)' = Selected(p)
      BY <1>3, <2>1 DEF ReadReferences, SyncTypeOK, Selected
    <3>2. \A x \in batch'[p] : x.law \in Selected(p) /\ MasterOf(x.law)
      <4> SUFFICES ASSUME NEW l \in Selected(p), NEW r \in reference[l]
                   PROVE  Returned(l, r).law \in Selected(p) /\ MasterOf(Returned(l, r).law)
        BY <3>1
      <4>1. l \in Laws
        BY <1>3 DEF Selected, SyncTypeOK
      <4> QED
        BY <4>1 DEF Returned, TitlesInv
    <3> QED
      BY <1>2, <3>1, <3>2 DEF TitledSyncer, LoopRow, SyncSteps, MasterOf
  <2>2. CASE ReadMasters(p)
    <3>1. /\ masters'[p] = {l \in Selected(p) : MasterOf(l)}
          /\ spc'[p] = "pick" /\ UNCHANGED <<batch, rest>> /\ spc[p] = "readMasters"
      BY <1>3, <2>2 DEF ReadMasters, SyncTypeOK, MasterOf
    <3> QED
      BY <1>2, <1>3, <3>1 DEF TitledSyncer, SyncerInv, MasterOf
  <2>3. CASE StartSync(p) \/ SyncAborts(p)
    <3>1. batch'[p] = {} /\ spc'[p] \in {"readRefs", "idle"}
      BY <1>3, <2>3 DEF StartSync, SyncAborts, SyncTypeOK
    <3> QED
      BY <3>1 DEF TitledSyncer, LoopRow, SyncSteps
  <2>4. CASE SyncDone(p)
    <3>1. UNCHANGED batch /\ spc'[p] = "done"
      BY <1>3, <2>4 DEF SyncDone, SyncTypeOK
    <3> QED
      BY <1>2, <1>3, <3>1 DEF TitledSyncer, LoopRow, SyncSteps, MasterOf
  <2>5. CASE PickReference(p) \/ MergeSourceLaw(p) \/ MergeTargetLaw(p) \/ MergeTargetArticle(p)
             \/ MergeSourceArticle(p) \/ MergeEdge(p) \/ StatementFails(p)
    <3>1. (spc[p] = "pick" \/ LoopRow(p)) /\ UNCHANGED <<batch, masters>>
      BY <2>5 DEF PickReference, MergeSourceLaw, MergeTargetLaw, MergeTargetArticle,
         MergeSourceArticle, MergeEdge, StatementFails, LoopRow, SyncSteps
    <3>2. rest'[p] \subseteq rest[p] /\ spc'[p] # "readMasters"
      BY <1>3, <2>5 DEF PickReference, MergeSourceLaw, MergeTargetLaw, MergeTargetArticle,
         MergeSourceArticle, MergeEdge, StatementFails, Finished, SyncTypeOK
    <3> QED
      BY <1>2, <1>3, <3>1, <3>2 DEF TitledSyncer, MasterOf
  <2> QED
    BY <1>1, <2>1, <2>2, <2>3, <2>4, <2>5 DEF SyncStep
<1>6. \A q \in Syncers \ {p} : TitledSyncer(q)'
  <2> SUFFICES ASSUME NEW q \in Syncers \ {p} PROVE TitledSyncer(q)'
    OBVIOUS
  <2>1. TitledSyncer(q)
    BY DEF TitlesInv, TitledSyncer
  <2> QED
    BY <1>2, <1>4, <2>1 DEF TitledSyncer, MasterOf, LoopRow, Selected
<1>7. TitlesKnown'
  <2>1. CASE MergeSourceLaw(p)
    <3>1. row[p] \in rest[p] /\ row[p].law \in Laws
      BY <2>1, RowInWork DEF MergeSourceLaw, LoopRow, SyncSteps
    <3>2. row[p].law \in masters[p]
      BY <1>3, <2>1, <3>1 DEF MergeSourceLaw, TitledSyncer, LoopRow, SyncSteps
    <3>3. lawNode' = [lawNode EXCEPT ![row[p].law] = "titled"]
      BY <2>1, <3>2 DEF MergeSourceLaw
    <3> QED
      BY <1>3, <3>3 DEF TitlesKnown, TitlesInv, SyncTypeOK
  <2>2. CASE MergeTargetLaw(p)
    BY <1>3, <2>2 DEF MergeTargetLaw, TitlesKnown, TitlesInv, SyncTypeOK
  <2>3. CASE UNCHANGED lawNode
    BY <2>3 DEF TitlesKnown, TitlesInv
  <2>4. ~MergeSourceLaw(p) /\ ~MergeTargetLaw(p) => UNCHANGED lawNode
    BY <1>1 DEF SyncStep, StartSync, ReadReferences, ReadMasters, PickReference, SyncDone,
       MergeTargetArticle, MergeSourceArticle, MergeEdge, StatementFails, SyncAborts, graphVars
  <2> QED
    BY <2>1, <2>2, <2>3, <2>4
<1>8. \A l \in Laws : reference'[l] # {} => MasterOf(l)'
  BY <1>2 DEF MasterOf, TitlesInv
<1>9. \A q \in Detectors : dpc'[q] \in {"detect", "save"} => MasterOf(dlaw(q))'
  BY <1>2 DEF MasterOf, dlaw, TitlesInv
<1> QED
  BY <1>5, <1>6, <1>7, <1>8, <1>9 DEF TitlesInv, TitledSyncer

(* The invariant of all scripts in the beginning.                          *)
LEMMA PipelineInitially == PipelineInit => PipelineInv
<1> SUFFICES ASSUME PipelineInit PROVE PipelineInv
  OBVIOUS
<1>1. ImportInv /\ DetectInv /\ SyncInv
  BY InitInv, DetectInitially, SyncInitially DEF PipelineInit
<1>2. TitlesInv
  BY DEF PipelineInit, DetectInit, SyncInit, TitlesInv, TitlesKnown, LoopRow, SyncSteps
<1> QED
  BY <1>1, <1>2 DEF PipelineInv

(* Every step of any of the scripts keeps it.                              *)
LEMMA PipelineStep == PipelineInv /\ [PipelineNext]_pipelineVars => PipelineInv'
<1> SUFFICES ASSUME ImportInv, DetectInv, SyncInv, TitlesInv, [PipelineNext]_pipelineVars
             PROVE  ImportInv' /\ DetectInv' /\ SyncInv' /\ TitlesInv'
  BY DEF PipelineInv
<1>1. ImportTypeOK /\ DetectTypeOK /\ SyncTypeOK /\ ArticlesInv
  BY ImportedFromEdition DEF ImportInv, DetectInv, SyncInv
<1>2. CASE ImportNext /\ UNCHANGED <<detectVars, syncVars>>
  BY <1>1, <1>2, ImportStep, DetectUndisturbed, SyncUndisturbed, TitlesBesideImport
<1>3. CASE DetectNext /\ UNCHANGED <<importVars, syncVars>>
  <2>1. UNCHANGED vars
    BY <1>3, StoreUnchangedByDetection DEF vars
  <2> QED
    BY <1>1, <1>3, <2>1, ImportStep, DetectNextStep, SyncUndisturbed, TitlesDetectStep
<1>4. CASE SyncNext /\ UNCHANGED importVars
  <2>1. UNCHANGED vars /\ UNCHANGED detectVars
    BY <1>4 DEF vars, SyncNext
  <2> QED
    BY <1>4, <2>1, ImportStep, DetectUndisturbed, SyncNextStep, TitlesSyncStep
<1>5. CASE UNCHANGED pipelineVars
  <2>1. UNCHANGED vars /\ UNCHANGED <<detectVars, syncVars>>
    BY <1>5 DEF pipelineVars, vars
  <2> QED
    BY <1>1, <2>1, ImportStep, DetectUndisturbed, SyncUndisturbed, TitlesBesideImport
<1> QED
  BY <1>2, <1>3, <1>4, <1>5 DEF PipelineNext

(* The invariants of the three scripts hold together, whatever their       *)
(* steps interleave to.                                                    *)
THEOREM PipelineInvariant == PipelineSpec => []PipelineInv
<1> QED
  BY PipelineInitially, PipelineStep, PTL DEF PipelineSpec

(* From the XML to the graph: an edition that is completely imported,      *)
(* detected as it is and synced without error has all of its references to *)
(* articles of the same law as edges, whatever other imports, detections   *)
(* and syncs ran, failed or died before or beside it.                      *)
THEOREM ImportedEditionInGraph == PipelineSpec => []EditionInGraph
<1>1. PipelineInv => EditionInGraph
  BY EditionSynced DEF PipelineInv
<1> QED
  BY <1>1, PipelineInvariant, PTL

(* No law is shown under its id: its LawMaster is there before its rows    *)
(* are, and the sync reads the masters after the rows.                     *)
THEOREM TitlesAlwaysKnown == PipelineSpec => []TitlesKnown
<1>1. PipelineInv => TitlesKnown
  BY DEF PipelineInv, TitlesInv
<1> QED
  BY <1>1, PipelineInvariant, PTL

(* What the scripts promise beside completed imports they promise beside   *)
(* imports that interleave with them step by step, and they do not disturb *)
(* the imports.                                                            *)
THEOREM PipelineKeepsParts ==
  PipelineSpec => [](NoTornArticle /\ LastDetectionStored
                     /\ EveryMentionOnce /\ SyncComplete /\ ArticlesReachable /\ EdgesFromText)
<1>1. PipelineInv => /\ NoTornArticle
                     /\ LastDetectionStored /\ EveryMentionOnce
                     /\ SyncComplete /\ ArticlesReachable /\ EdgesFromText
  BY LastStored, SyncedRows DEF PipelineInv, ImportInv, DetectInv, SyncInv
<1> QED
  BY <1>1, PipelineInvariant, PTL
=============================================================================
