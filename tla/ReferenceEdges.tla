--------------------------- MODULE ReferenceEdges ---------------------------
(***************************************************************************)
(* The two scripts that CREATE REFERENCES edges in Neo4j instead of        *)
(* MERGEing them: the sync command of scripts/manager.ts, which fills the  *)
(* graph of Law nodes from the checkpoint files of the batch detector, and *)
(* scripts/sync-enhanced-to-neo4j.ts, which fills that of Article and      *)
(* Paragraph nodes from the Reference table.  One Cypher statement and the *)
(* rewriting of one file are atomic steps, but for MERGE: the graph has    *)
(* indexes and at most one uniqueness constraint, on the ids of laws, so a *)
(* MERGE looks for its nodes and creates those it did not find later, and  *)
(* two of them may both create a node.  HAS_ARTICLE and HAS_PARAGRAPH      *)
(* edges, the edges of other scripts and the properties of nodes and edges *)
(* are left out.                                                           *)
(***************************************************************************)
EXTENDS Integers, Sequences, FiniteSets, FiniteSetsExt, Functions, Subsequences

CONSTANTS
  Writers,      \* processes
  GraphLaws,    \* law ids
  ListedLaws,   \* those in laws_data/all_law_list.csv, in their order
  Checkpoints,  \* the batch files in their order, each a list of entries
  EnhancedRows, \* the Reference rows, at most 1000, in the order they come
  TestRow,      \* the row main creates without arguments
  ArticleNumbers,
  numericFormat, \* toNumericFormat
  NoTarget,     \* targetLawId is null
  InitialNodes, \* the nodes other scripts may have left in the graph
  BatchSize,    \* 5000 laws in one MERGE, 5000 edges in one CREATE
  DeleteLimit,  \* 10000 edges in one DELETE
  MaxSyncs      \* bound: syncs that are started

(* An entry of a checkpoint file: a law and its number of references.      *)
Entry == [law : GraphLaws, references : Nat]

(* A row: the law and article at both ends, and whether it names           *)
(* paragraphs, which no row of the table does.                             *)
RowType == [slaw : GraphLaws, sart : ArticleNumbers, tlaw : GraphLaws \cup {NoTarget},
            tart : ArticleNumbers, paragraphs : BOOLEAN]

(* A node by its label and the properties that MERGE and MATCH name: the   *)
(* id of a law; the law and the article number of an article; those a      *)
(* paragraph was given, its own number left out.                           *)
LawNode(l)          == <<"Law", l, "">>
ArticleNode(l, n)   == <<"Article", l, n>>
ParagraphNode(l, n) == <<"Paragraph", l, n>>
NodeKeys == ({"Law"} \X GraphLaws \X {""})
            \cup ({"Article", "Paragraph"} \X GraphLaws \X ArticleNumbers)

ASSUME EdgesAssumption ==
  /\ IsFiniteSet(GraphLaws) /\ ListedLaws \in Seq(GraphLaws) /\ NoTarget \notin GraphLaws
  /\ GraphLaws \cap RowType = {}
  /\ Checkpoints \in Seq(Seq(Entry))
  /\ EnhancedRows \in Seq(RowType)
  /\ \A i \in DOMAIN EnhancedRows : ~EnhancedRows[i].paragraphs
  /\ TestRow \in RowType /\ TestRow.paragraphs
  /\ numericFormat \in [ArticleNumbers -> ArticleNumbers]
  /\ \A a \in ArticleNumbers : numericFormat[numericFormat[a]] = numericFormat[a]
  /\ InitialNodes \subseteq [NodeKeys -> Nat]
  /\ BatchSize \in Nat \ {0} /\ DeleteLimit \in Nat \ {0} /\ MaxSyncs \in Nat

VARIABLES
  files,      \* what the checkpoint files contain
  copies,     \* how many nodes there are for a key
  lawKey,     \* on Law.id: "none", an "index", or the "unique" constraint
  edges,      \* number of REFERENCES edges: from a Law, or for a row
  wpc,        \* what a writer does next
  rowsLeft,   \* enhanced sync: the rows still to do
  fileNo,     \* manager sync: the file in work
  processed,  \* processedLaws
  pending,    \* manager sync: laws to MERGE; then the laws at which the
              \* allReferences not yet created start
  missing,    \* the nodes a running MERGE has not found
  args,       \* which script a writer runs, and its arguments
  syncs,      \* syncs started so far
  undisturbed,\* history: no other writer has been active since it started
  unfailed,   \* history: no statement of it has failed
  base        \* history: the edges it began with, none after --clean

neoVars == <<copies, lawKey, edges>>
historyVars == <<undisturbed, unfailed, base>>
edgeVars == <<files, neoVars, wpc, rowsLeft, fileNo, processed, pending, missing, args,
              syncs, historyVars>>

AllRows == Range(EnhancedRows) \cup {TestRow}
EdgeKeys == GraphLaws \cup AllRows
NoEdges == [k \in EdgeKeys |-> 0]

(* How many edges e counts: those of every key, numbered, taken together.  *)
Total(e) == Cardinality(UNION {{k} \X (1..e[k]) : k \in EdgeKeys})

UpsertSteps == <<"sourceLaw", "targetLaw", "sourceArticle", "targetArticle",
                 "sourceParagraph", "targetParagraph", "create">>
ManagerSteps == {"fix", "clean", "laws", "file", "batch"}
MergeSteps == {"laws"} \cup (Range(UpsertSteps) \ {"create"})

(* No law has two nodes.                                                   *)
LawsUnique == \A l \in GraphLaws : copies[LawNode(l)] <= 1

(* The options of the one script, the rows the other goes through.         *)
Arguments == [script : {"manager"}, options : SUBSET {"fixDuplicates", "clean"}, rows : {<<>>}]
             \cup [script : {"enhanced"}, options : {{}}, rows : {EnhancedRows, <<TestRow>>}]

EdgesTypeOK ==
  /\ files \in Seq(Seq(Entry))
  /\ copies \in [NodeKeys -> Nat]
  /\ lawKey \in {"none", "index", "unique"}
  /\ lawKey = "unique" => LawsUnique
  /\ edges \in [EdgeKeys -> Nat]
  /\ wpc \in [Writers -> {"idle", "done"} \cup {"schema"} \cup Range(UpsertSteps) \cup ManagerSteps]
  /\ rowsLeft \in [Writers -> Seq(AllRows)]
  /\ fileNo \in [Writers -> Nat \ {0}]
  /\ processed \in [Writers -> SUBSET GraphLaws]
  /\ pending \in [Writers -> Seq(GraphLaws)]
  /\ missing \in [Writers -> SUBSET NodeKeys]
  /\ args \in [Writers -> Arguments]
  /\ syncs \in 0..MaxSyncs
  /\ undisturbed \in [Writers -> BOOLEAN] /\ unfailed \in [Writers -> BOOLEAN]
  /\ base \in [Writers -> [EdgeKeys -> Nat]]
  /\ \A p \in Writers :
       /\ wpc[p] \in Range(UpsertSteps) => rowsLeft[p] # <<>>
       /\ wpc[p] \in {"fix", "batch"} => fileNo[p] \in DOMAIN files
       /\ wpc[p] = "batch" => pending[p] # <<>>
       /\ missing[p] # {} => wpc[p] \in MergeSteps

EdgesInit ==
  /\ files = Checkpoints
  /\ copies \in InitialNodes
  /\ lawKey = "none"
  /\ edges = NoEdges
  /\ wpc = [p \in Writers |-> "idle"]
  /\ rowsLeft = [p \in Writers |-> <<>>]
  /\ fileNo = [p \in Writers |-> 1]
  /\ processed = [p \in Writers |-> {}]
  /\ pending = [p \in Writers |-> <<>>]
  /\ missing = [p \in Writers |-> {}]
  /\ args = [p \in Writers |-> [script |-> "manager", options |-> {}, rows |-> <<>>]]
  /\ syncs = 0
  /\ undisturbed = [p \in Writers |-> FALSE]
  /\ unfailed = [p \in Writers |-> TRUE]
  /\ base = [p \in Writers |-> NoEdges]

-----------------------------------------------------------------------------
Goto(p, step) == wpc' = [wpc EXCEPT ![p] = step]
Working == {p \in Writers : wpc[p] \notin {"idle", "done"}}

Started(p) ==
  /\ p \notin Working
  /\ syncs < MaxSyncs
  /\ syncs' = syncs + 1
  /\ undisturbed' = [q \in Writers |-> q = p /\ Working = {}]
  /\ unfailed' = [unfailed EXCEPT ![p] = TRUE]

(* What a writer forgets when its process ends.                            *)
Forgotten(p) ==
  /\ rowsLeft' = [rowsLeft EXCEPT ![p] = <<>>]
  /\ fileNo' = [fileNo EXCEPT ![p] = 1]
  /\ processed' = [processed EXCEPT ![p] = {}]
  /\ pending' = [pending EXCEPT ![p] = <<>>]
  /\ missing' = [missing EXCEPT ![p] = {}]

(* A statement outside every catch fails, or the process dies.             *)
WriterAborts(p) ==
  /\ p \in Working
  /\ Goto(p, "idle")
  /\ Forgotten(p)
  /\ undisturbed' = [undisturbed EXCEPT ![p] = FALSE]
  /\ UNCHANGED <<files, neoVars, args, syncs, unfailed, base>>

-----------------------------------------------------------------------------
(* MERGE, in both scripts.                                                 *)

FirstBatch(p) == SubSeq(pending[p], 1, Min({BatchSize, Len(pending[p])}))
LaterBatches(p) == SubSeq(pending[p], BatchSize + 1, Len(pending[p]))

(* The node that an upsert step names: upsertLawNode, upsertArticleNode    *)
(* (which normalises the number) or upsertParagraphNode (which does not).  *)
NodeOf(step, r) ==
  CASE step = "sourceLaw"       -> LawNode(r.slaw)
    [] step = "targetLaw"       -> LawNode(r.tlaw)
    [] step = "sourceArticle"   -> ArticleNode(r.slaw, numericFormat[r.sart])
    [] step = "targetArticle"   -> ArticleNode(r.tlaw, numericFormat[r.tart])
    [] step = "sourceParagraph" -> ParagraphNode(r.slaw, r.sart)
    [] step = "targetParagraph" -> ParagraphNode(r.tlaw, r.tart)

(* The nodes of the MERGE that a writer is at; a null id is an error.      *)
Merging(p) ==
  /\ wpc[p] \in MergeSteps
  /\ wpc[p] = "targetLaw" => Head(rowsLeft[p]).tlaw # NoTarget

Sought(p) == IF wpc[p] = "laws" THEN {LawNode(l) : l \in Range(FirstBatch(p))}
             ELSE {NodeOf(wpc[p], Head(rowsLeft[p]))}

Unfound(p) == {k \in Sought(p) : copies[k] = 0}

(* The MERGE has looked for its nodes and will create some.                *)
Look(p) ==
  /\ Merging(p)
  /\ missing[p] = {} /\ Unfound(p) # {}
  /\ missing' = [missing EXCEPT ![p] = Unfound(p)]
  /\ UNCHANGED <<files, neoVars, wpc, rowsLeft, fileNo, processed, pending, args, syncs,
                 historyVars>>

(* The uniqueness constraint makes the creation of a law wait for that of  *)
(* another writer, and find its node.                                      *)
Refused(k) == k[1] = "Law" /\ lawKey = "unique" /\ copies[k] > 0

(* The MERGE creates what it has not found, or has found everything.       *)
Merged(p) ==
  /\ missing[p] # {} \/ Unfound(p) = {}
  /\ copies' = [k \in NodeKeys |->
                  IF k \in missing[p] /\ ~Refused(k) THEN copies[k] + 1 ELSE copies[k]]
  /\ missing' = [missing EXCEPT ![p] = {}]

-----------------------------------------------------------------------------
(* manager.ts sync                                                         *)

StartManagerSync(p, opts) ==
  /\ Started(p)
  /\ args' = [args EXCEPT ![p] = [script |-> "manager", options |-> opts, rows |-> <<>>]]
  /\ base' = [base EXCEPT ![p] = IF "clean" \in opts THEN NoEdges ELSE edges]
  /\ Goto(p, IF "fixDuplicates" \in opts /\ files # <<>> THEN "fix"
             ELSE IF "clean" \in opts THEN "clean" ELSE "laws")
  /\ pending' = [pending EXCEPT ![p] = ListedLaws]
  /\ UNCHANGED <<files, neoVars, rowsLeft, fileNo, processed, missing>>

(* new Map(laws by lawId).values(): a law keeps the place of its first     *)
(* entry and the contents of its last.                                     *)
Firsts(entries) == {i \in DOMAIN entries : \A j \in 1..(i - 1) : entries[j].law # entries[i].law}

Deduplicated(entries) ==
  LET firsts  == Firsts(entries)
      last(i) == CHOOSE j \in DOMAIN entries :
                   /\ entries[j].law = entries[i].law
                   /\ \A k \in DOMAIN entries : entries[k].law = entries[i].law => k <= j
  IN  [n \in 1..Cardinality(firsts) |-> entries[last(Nth(firsts, n))]]

FixFile(p) ==
  /\ wpc[p] = "fix"
  /\ files' = [files EXCEPT ![fileNo[p]] = Deduplicated(@)]
  /\ IF fileNo[p] < Len(files)
       THEN fileNo' = [fileNo EXCEPT ![p] = @ + 1] /\ UNCHANGED wpc
       ELSE /\ fileNo' = [fileNo EXCEPT ![p] = 1]
            /\ Goto(p, IF "clean" \in args[p].options THEN "clean" ELSE "laws")
  /\ UNCHANGED <<neoVars, rowsLeft, processed, pending, missing, args, syncs, historyVars>>

(* What is left when n edges, no matter which, are deleted.                *)
LeftAfter(n) ==
  {e \in {[k \in EdgeKeys |-> edges[k] - d[k]] : d \in [EdgeKeys -> 0..n]} :
     /\ \A k \in EdgeKeys : e[k] >= 0
     /\ Total(e) = Total(edges) - n}

(* Mutant: the edges are deleted in one go.                                *)
CleanBatchOnce(p) ==
  /\ wpc[p] = "clean"
  /\ edges' \in LeftAfter(Min({DeleteLimit, Total(edges)}))
  /\ Goto(p, "laws")
  /\ UNCHANGED <<files, copies, lawKey, rowsLeft, fileNo, processed, pending, missing,
                 args, syncs, historyVars>>

(* cleanNeo4jData: the loop ends with a DELETE that met fewer edges than   *)
(* its limit.                                                              *)
CleanBatch(p) ==
  LET count == Min({DeleteLimit, Total(edges)})
  IN  /\ wpc[p] = "clean"
      /\ edges' \in LeftAfter(count)
      /\ IF count < DeleteLimit THEN Goto(p, "laws") ELSE UNCHANGED wpc
      /\ UNCHANGED <<files, copies, lawKey, rowsLeft, fileNo, processed, pending, missing,
                     args, syncs, historyVars>>

(* UNWIND $laws MERGE (l:Law {id}), one batch.                             *)
MergeLaws(p) ==
  /\ wpc[p] = "laws"
  /\ Merged(p)
  /\ pending' = [pending EXCEPT ![p] = LaterBatches(p)]
  /\ IF Len(pending[p]) > BatchSize THEN UNCHANGED wpc ELSE Goto(p, "file")
  /\ UNCHANGED <<files, lawKey, edges, rowsLeft, fileNo, processed, args, syncs, historyVars>>

(* allReferences of one file: every law not met before, as often as it has *)
(* references.                                                             *)
Generated(entries, met) ==
  LET refs[i \in 0..Len(entries)] ==
        IF i = 0 THEN <<>>
        ELSE refs[i - 1] \o (IF i \in Firsts(entries) /\ entries[i].law \notin met
                             THEN [n \in 1..entries[i].references |-> entries[i].law] ELSE <<>>)
  IN  refs[Len(entries)]

LawsIn(entries) == {entries[i].law : i \in DOMAIN entries}

ReadFile(p) ==
  /\ wpc[p] = "file"
  /\ fileNo[p] <= Len(files)
  /\ LET entries == files[fileNo[p]]
         refs    == Generated(entries, processed[p])
     IN  /\ processed' = [processed EXCEPT ![p] = @ \cup LawsIn(entries)]
         /\ pending' = [pending EXCEPT ![p] = refs]
         /\ IF refs = <<>>
              THEN fileNo' = [fileNo EXCEPT ![p] = @ + 1] /\ UNCHANGED wpc
              ELSE Goto(p, "batch") /\ UNCHANGED fileNo
  /\ UNCHANGED <<files, neoVars, rowsLeft, missing, args, syncs, historyVars>>

(* Mutant: the loop goes on when the last batch was a full one.            *)
BatchDoneBeyond(p) ==
  /\ pending' = [pending EXCEPT ![p] = LaterBatches(p)]
  /\ IF Len(pending[p]) >= BatchSize
       THEN UNCHANGED <<wpc, fileNo>>
       ELSE Goto(p, "file") /\ fileNo' = [fileNo EXCEPT ![p] = @ + 1]

(* Takes the first batch off allReferences, and the next file after it.    *)
BatchDone(p) ==
  /\ pending' = [pending EXCEPT ![p] = LaterBatches(p)]
  /\ IF Len(pending[p]) > BatchSize
       THEN UNCHANGED <<wpc, fileNo>>
       ELSE Goto(p, "file") /\ fileNo' = [fileNo EXCEPT ![p] = @ + 1]

(* MATCH the Law nodes of both ends, CREATE an edge for every pair.  The   *)
(* target of a reference is the law itself or a listed law.                *)
Targets(l) == {l} \cup Range(ListedLaws)

Created(batch, to, l) ==
  UNION {{i} \X (1..copies[LawNode(l)]) \X (1..copies[LawNode(to[i])]) :
         i \in {j \in DOMAIN batch : batch[j] = l}}

CreateBatch(p) ==
  /\ wpc[p] = "batch"
  /\ \E to \in [DOMAIN FirstBatch(p) -> GraphLaws] :
       /\ \A i \in DOMAIN FirstBatch(p) : to[i] \in Targets(FirstBatch(p)[i])
       /\ edges' = [k \in EdgeKeys |-> edges[k] +
                      IF k \in GraphLaws THEN Cardinality(Created(FirstBatch(p), to, k)) ELSE 0]
  /\ BatchDone(p)
  /\ UNCHANGED <<files, copies, lawKey, rowsLeft, processed, missing, args, syncs, historyVars>>

(* The error is ignored.                                                   *)
BatchFails(p) ==
  /\ wpc[p] = "batch"
  /\ BatchDone(p)
  /\ unfailed' = [unfailed EXCEPT ![p] = FALSE]
  /\ UNCHANGED <<files, neoVars, rowsLeft, processed, missing, args, syncs, undisturbed, base>>

(* CREATE INDEX law_id; its error is ignored.                              *)
ManagerSyncDone(p) ==
  /\ wpc[p] = "file"
  /\ fileNo[p] > Len(files)
  /\ lawKey' \in {lawKey, IF lawKey = "none" THEN "index" ELSE lawKey}
  /\ Goto(p, "done")
  /\ Forgotten(p)
  /\ UNCHANGED <<files, copies, edges, args, syncs, historyVars>>

-----------------------------------------------------------------------------
(* sync-enhanced-to-neo4j.ts: --from-db, or the test row without argument. *)

StartEnhancedSync(p, rows) ==
  /\ Started(p)
  /\ rowsLeft' = [rowsLeft EXCEPT ![p] = rows]
  /\ args' = [args EXCEPT ![p] = [script |-> "enhanced", options |-> {}, rows |-> rows]]
  /\ base' = [base EXCEPT ![p] = edges]
  /\ Goto(p, "schema")
  /\ UNCHANGED <<files, neoVars, fileNo, processed, pending, missing>>

(* setupSchema: CREATE CONSTRAINT law_id_unique is refused when a law has  *)
(* two nodes or there is an index already; every error is ignored.         *)
setupSchema(p) ==
  /\ wpc[p] = "schema"
  /\ lawKey' \in {lawKey, IF lawKey = "none" /\ LawsUnique THEN "unique" ELSE lawKey}
  /\ Goto(p, IF rowsLeft[p] = <<>> THEN "done" ELSE "sourceLaw")
  /\ UNCHANGED <<files, copies, edges, rowsLeft, fileNo, processed, pending, missing, args,
                 syncs, historyVars>>

RowDone(p) ==
  /\ rowsLeft' = [rowsLeft EXCEPT ![p] = Tail(@)]
  /\ Goto(p, IF Len(rowsLeft[p]) > 1 THEN "sourceLaw" ELSE "done")

StepAfter(step, r) ==
  IF step = "targetArticle" /\ ~r.paragraphs THEN "create"
  ELSE UpsertSteps[1 + CHOOSE i \in DOMAIN UpsertSteps : UpsertSteps[i] = step]

Upsert(p) ==
  /\ Merging(p) /\ wpc[p] # "laws"
  /\ Merged(p)
  /\ Goto(p, StepAfter(wpc[p], Head(rowsLeft[p])))
  /\ UNCHANGED <<files, lawKey, edges, rowsLeft, fileNo, processed, pending, args, syncs,
                 historyVars>>

(* The MATCH clauses look for the numbers as they are in the row.          *)
Source(r) == IF r.paragraphs THEN ParagraphNode(r.slaw, r.sart) ELSE ArticleNode(r.slaw, r.sart)
Target(r) == IF r.paragraphs THEN ParagraphNode(r.tlaw, r.tart) ELSE ArticleNode(r.tlaw, r.tart)

Pairs(r) == IF r.tlaw = NoTarget THEN 0 ELSE copies[Source(r)] * copies[Target(r)]

(* CREATE between the ends that the MATCH clauses find, every pair of them.*)
CreateEnhanced(p) ==
  LET r == Head(rowsLeft[p])
  IN  /\ wpc[p] = "create"
      /\ edges' = [edges EXCEPT ![r] = @ + Pairs(r)]
      /\ RowDone(p)
      /\ UNCHANGED <<files, copies, lawKey, fileNo, processed, pending, missing, args, syncs,
                     historyVars>>

(* MERGE with a null id is an error, and any statement may fail: the row   *)
(* is skipped, or with the test row the process exits.  An error of the    *)
(* last statement is not passed on.                                        *)
EnhancedFails(p) ==
  /\ wpc[p] \in Range(UpsertSteps)
  /\ IF Head(rowsLeft[p]).paragraphs /\ wpc[p] # "create"
       THEN Goto(p, "idle") /\ rowsLeft' = [rowsLeft EXCEPT ![p] = <<>>]
       ELSE RowDone(p)
  /\ unfailed' = [unfailed EXCEPT ![p] = wpc[p] = "targetLaw" /\ Head(rowsLeft[p]).tlaw = NoTarget /\ @]
  /\ missing' = [missing EXCEPT ![p] = {}]
  /\ UNCHANGED <<files, neoVars, fileNo, processed, pending, args, syncs, undisturbed, base>>

EdgesNext ==
  \E p \in Writers :
    \/ \E opts \in SUBSET {"fixDuplicates", "clean"} : StartManagerSync(p, opts)
    \/ FixFile(p) \/ CleanBatch(p) \/ Look(p) \/ MergeLaws(p) \/ ReadFile(p)
    \/ CreateBatch(p) \/ BatchFails(p) \/ ManagerSyncDone(p)
    \/ \E rows \in {EnhancedRows, <<TestRow>>} : StartEnhancedSync(p, rows)
    \/ setupSchema(p) \/ Upsert(p) \/ CreateEnhanced(p) \/ EnhancedFails(p)
    \/ WriterAborts(p)

EdgesSpec == EdgesInit /\ [][EdgesNext]_edgeVars

-----------------------------------------------------------------------------
(* The references of the first entry for law l in the first file that has  *)
(* one.                                                                    *)
FilesWith(l) == {f \in DOMAIN files : l \in LawsIn(files[f])}
EntriesOf(entries, l) == {i \in DOMAIN entries : entries[i].law = l}

FirstCount(l) ==
  IF FilesWith(l) = {} THEN 0
  ELSE LET entries == files[Min(FilesWith(l))]
       IN  entries[Min(EntriesOf(entries, l))].references

(* The edges a sync is expected to add: for a law as many as its first     *)
(* entry counts, if it has a node; for a row one for every pair of nodes   *)
(* that have the numbers of the row.                                       *)
Expected(p) ==
  [k \in EdgeKeys |->
     IF k \in GraphLaws
     THEN IF args[p].script = "manager" /\ copies[LawNode(k)] > 0 THEN FirstCount(k) ELSE 0
     ELSE Cardinality({i \in DOMAIN args[p].rows : args[p].rows[i] = k}) * Pairs(k)]

(* A sync that no other writer overlapped and none of whose statements     *)
(* failed has added to the graph, or after --clean put into it, exactly    *)
(* the edges of what it read, whatever unfinished and overlapping syncs    *)
(* have left behind before: of the first checkpoint entry of every law     *)
(* that has a node, unless an overlap has left two nodes for a law; and of *)
(* every row, as often as its ends have nodes, so none when normalisation  *)
(* changes a number and no other script made a node for it, and several    *)
(* when an overlap has doubled one (manager.ts cleanNeo4jData and          *)
(* syncToNeo4jWithDeduplication, sync-enhanced-to-neo4j.ts                 *)
(* createEnhancedReference).                                               *)
AloneSyncExact ==
  \A p \in Writers :
    wpc[p] = "done" /\ undisturbed[p] /\ unfailed[p] =>
      \A k \in EdgeKeys :
        k \notin GraphLaws \/ LawsUnique => edges[k] = base[p][k] + Expected(p)[k]

(* The article numbers of row r are what normalisation makes of them.      *)
Normalised(r) == numericFormat[r.sart] = r.sart /\ numericFormat[r.tart] = r.tart

(* What createEnhancedReference says first, that it makes the nodes of     *)
(* both ends, and the count of successes that syncFromPostgreSQL prints:   *)
(* a row with a target that was synchronised without an error has an edge. *)
(* It does not hold for a number that normalisation changes: the nodes are *)
(* made with the normalised number and looked for with that of the row.    *)
SyncedRowsHaveEdges ==
  \A p \in Writers :
    wpc[p] = "done" /\ undisturbed[p] /\ unfailed[p] /\ args[p].script = "enhanced" =>
      \A r \in Range(args[p].rows) : r.tlaw # NoTarget => edges[r] > base[p][r]
=============================================================================
