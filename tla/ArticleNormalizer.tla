-------------------------- MODULE ArticleNormalizer --------------------------
(***************************************************************************)
(* scripts/normalize-article-numbers.ts: rewrites the article numbers of   *)
(* the Reference rows in PostgreSQL and of the Article nodes in Neo4j to   *)
(* one format, row by row and node by node, without a transaction.  Rows   *)
(* are addressed by id; meanwhile a detection may replace rows.  The loop  *)
(* over REFERENCES edges updates edge properties that the synchronisation  *)
(* does not write, so it changes nothing and is left out.                  *)
(***************************************************************************)
EXTENDS Integers, FiniteSets

CONSTANTS
  Rows,      \* ids of Reference rows; an id is never used twice
  Nodes,     \* ids of Article nodes
  Numbers,   \* article numbers in any format
  Stored,    \* rows that detections store
  NoNumber,  \* no number: a missing column or an empty text
  Absent     \* no row with that id

(* A number is a format, a base and a branch (0 for none); "text" is a     *)
(* text without a digit.                                                   *)
Formats == {"arabic", "kanji", "suppl", "text"}
Arabic(b) == [format |-> "arabic", base |-> b, branch |-> 0]

ASSUME NumbersAssumption ==
  /\ Numbers \subseteq [format : Formats, base : Nat, branch : Nat]
  /\ NoNumber \notin Numbers

Texts == Numbers \cup {NoNumber}

(* Mutant: the branch of a kanji number survives until the next pass.      *)
toNumericFormatTwice(n) ==
  IF n = NoNumber \/ n.format = "text" THEN NoNumber
  ELSE IF n.format = "kanji" THEN [n EXCEPT !.format = "arabic"]
  ELSE Arabic(n.base)

(* toNumericFormat: kanji digits become Arabic ones, then the first run of *)
(* digits is what is left of the text: the prefix of a supplementary       *)
(* provision and the branch are gone, and without a digit all is.          *)
toNumericFormat(n) ==
  IF n = NoNumber \/ n.format = "text" THEN NoNumber ELSE Arabic(n.base)

ASSUME ClosedAssumption == \A n \in Texts : toNumericFormat(n) \in Texts

RefRow == [src : Texts, tgt : Texts]

ASSUME RowsAssumption == Stored \subseteq RefRow /\ Absent \notin RefRow

Options == [skipBackup : BOOLEAN, postgresOnly : BOOLEAN, neo4jOnly : BOOLEAN, dryRun : BOOLEAN]

VARIABLES
  ref,       \* the Reference table
  node,      \* the number property of the Article nodes
  opts,      \* command line options
  npc,       \* what the script does next
  readRef,   \* rows the script has read and not yet handled
  readNode,  \* nodes the script has read and not yet handled
  backup,    \* rows of the backup files; no file is ever overwritten
  failed,    \* some update or backup failed in this run
  seen,      \* history: ids this run's findMany returned
  unsaved,   \* history: a run did without the backup of a row it may have read
  origRef,   \* history: the row as it was first stored
  origNode   \* history: the node's number when the system started

normVars == <<ref, node, opts, npc, readRef, readNode, backup, failed,
              seen, unsaved, origRef, origNode>>

NormTypeOK ==
  /\ ref \in [Rows -> RefRow \cup {Absent}]
  /\ node \in [Nodes -> Texts]
  /\ opts \in Options
  /\ npc \in {"idle", "backup", "readRefs", "refs", "readNodes", "nodes", "done"}
  /\ readRef \subseteq (Rows \X RefRow)
  /\ readNode \subseteq (Nodes \X Texts)
  /\ backup \subseteq (Rows \X RefRow)
  /\ failed \in BOOLEAN
  /\ seen \subseteq Rows
  /\ unsaved \in BOOLEAN
  /\ origRef \in [Rows -> RefRow \cup {Absent}]
  /\ origNode \in [Nodes -> Texts]

Table == {<<i, ref[i]>> : i \in {j \in Rows : ref[j] # Absent}}

NormInit ==
  /\ ref \in [Rows -> Stored \cup {Absent}]
  /\ node \in [Nodes -> Numbers]
  /\ opts = [o \in {"skipBackup", "postgresOnly", "neo4jOnly", "dryRun"} |-> FALSE]
  /\ npc = "idle"
  /\ readRef = {} /\ readNode = {} /\ backup = {} /\ failed = FALSE
  /\ seen = {} /\ unsaved = FALSE
  /\ origRef = ref /\ origNode = node

-----------------------------------------------------------------------------
NormGoto(step) == npc' = step
Running == npc \notin {"idle", "done"}

AfterBackup(o) == IF ~o.neo4jOnly THEN "readRefs"
                  ELSE IF ~o.postgresOnly THEN "readNodes" ELSE "done"
AfterRefs == IF ~opts.postgresOnly THEN "readNodes" ELSE "done"

(* main up to the first call: no backup with --skip-backup or --dry-run.   *)
StartNormalize(o) ==
  /\ ~Running
  /\ opts' = o
  /\ failed' = FALSE
  /\ seen' = {}
  /\ IF ~o.skipBackup /\ ~o.dryRun
       THEN NormGoto("backup") /\ UNCHANGED unsaved
       ELSE NormGoto(AfterBackup(o)) /\ unsaved' = TRUE
  /\ UNCHANGED <<ref, node, readRef, readNode, backup, origRef, origNode>>

(* Mutant: one file, written anew by every run.                            *)
createBackupOverwriting ==
  /\ npc = "backup"
  /\ \/ backup' = Table /\ UNCHANGED <<failed, unsaved>>
     \/ failed' = TRUE /\ unsaved' = TRUE /\ UNCHANGED backup
  /\ NormGoto(AfterBackup(opts))
  /\ UNCHANGED <<ref, node, opts, readRef, readNode, seen, origRef, origNode>>

(* createBackup: the table goes to a file of its own, then the graph is    *)
(* exported (a file nothing here reads).  On an error, before or after the *)
(* first file is written, the script says so and goes on.                  *)
createBackup ==
  /\ npc = "backup"
  /\ \/ backup' = backup \cup Table /\ UNCHANGED <<failed, unsaved>>
     \/ backup' = backup \cup Table /\ failed' = TRUE /\ UNCHANGED unsaved
     \/ failed' = TRUE /\ unsaved' = TRUE /\ UNCHANGED backup
  /\ NormGoto(AfterBackup(opts))
  /\ UNCHANGED <<ref, node, opts, readRef, readNode, seen, origRef, origNode>>

(* reference.findMany, or its error, which skips the table.                *)
ReadRefs ==
  /\ npc = "readRefs"
  /\ \/ /\ readRef' = Table /\ seen' = {t[1] : t \in Table}
        /\ NormGoto("refs") /\ UNCHANGED failed
     \/ failed' = TRUE /\ NormGoto(AfterRefs) /\ UNCHANGED <<readRef, seen>>
  /\ UNCHANGED <<ref, node, opts, readNode, backup, unsaved, origRef, origNode>>

(* Mutant: a column without a number becomes absent from the row.          *)
NormalizedDropping(r) ==
  IF r.tgt = NoNumber THEN [src |-> toNumericFormat(r.src)]
  ELSE [src |-> toNumericFormat(r.src), tgt |-> toNumericFormat(r.tgt)]

(* The columns of a row as the loop would have them.                       *)
Normalized(r) == [src |-> toNumericFormat(r.src), tgt |-> toNumericFormat(r.tgt)]

(* Mutant: a row that has been deleted is written again.                   *)
UpdateRefUpserting ==
  /\ npc = "refs"
  /\ \E t \in readRef :
       /\ readRef' = readRef \ {t}
       /\ ref' = [ref EXCEPT ![t[1]] = Normalized(t[2])]
  /\ UNCHANGED <<node, opts, npc, readNode, backup, failed, seen, unsaved, origRef, origNode>>

(* One pass of the loop: reference.update by id when a column changes.  It *)
(* rejects when the row has been deleted since, or when the call fails.    *)
UpdateRef ==
  /\ npc = "refs"
  /\ \E t \in readRef :
       /\ readRef' = readRef \ {t}
       /\ \/ Normalized(t[2]) = t[2] /\ UNCHANGED <<ref, failed>>
          \/ /\ Normalized(t[2]) # t[2] /\ ref[t[1]] # Absent
             /\ ref' = [ref EXCEPT ![t[1]] = Normalized(t[2])]
             /\ UNCHANGED failed
          \/ /\ Normalized(t[2]) # t[2]
             /\ failed' = TRUE /\ UNCHANGED ref
  /\ UNCHANGED <<node, opts, npc, readNode, backup, seen, unsaved, origRef, origNode>>

RefsDone ==
  /\ npc = "refs" /\ readRef = {}
  /\ NormGoto(AfterRefs)
  /\ UNCHANGED <<ref, node, opts, readRef, readNode, backup, failed, seen, unsaved, origRef, origNode>>

(* MATCH (a:Article), or its error, which skips the nodes.                 *)
ReadNodes ==
  /\ npc = "readNodes"
  /\ \/ /\ readNode' = {<<a, node[a]>> : a \in Nodes}
        /\ NormGoto("nodes") /\ UNCHANGED failed
     \/ failed' = TRUE /\ NormGoto("done") /\ UNCHANGED readNode
  /\ UNCHANGED <<ref, node, opts, readRef, backup, seen, unsaved, origRef, origNode>>

(* Mutant: a rejected SET is not counted.                                  *)
UpdateNodeSilent ==
  /\ npc = "nodes"
  /\ \E t \in readNode :
       /\ readNode' = readNode \ {t}
       /\ node' \in {node, [node EXCEPT ![t[1]] = toNumericFormat(t[2])]}
  /\ UNCHANGED <<ref, opts, npc, readRef, backup, failed, seen, unsaved, origRef, origNode>>

(* SET a.number by node id.  Nothing makes the numbers of a law's nodes    *)
(* unique (the graph has indexes only), so nodes may get the same number.  *)
UpdateNode ==
  /\ npc = "nodes"
  /\ \E t \in readNode :
       LET n == toNumericFormat(t[2])
       IN  /\ readNode' = readNode \ {t}
           /\ \/ n = t[2] /\ UNCHANGED <<node, failed>>
              \/ /\ n # t[2]
                 /\ node' = [node EXCEPT ![t[1]] = n]
                 /\ UNCHANGED failed
              \/ /\ n # t[2]
                 /\ failed' = TRUE /\ UNCHANGED node
  /\ UNCHANGED <<ref, opts, npc, readRef, backup, seen, unsaved, origRef, origNode>>

NodesDone ==
  /\ npc = "nodes" /\ readNode = {}
  /\ NormGoto("done")
  /\ UNCHANGED <<ref, node, opts, readRef, readNode, backup, failed, seen, unsaved, origRef, origNode>>

(* The process dies.                                                       *)
NormCrash ==
  /\ Running
  /\ NormGoto("idle")
  /\ readRef' = {} /\ readNode' = {} /\ failed' = FALSE
  /\ UNCHANGED <<ref, node, opts, backup, seen, unsaved, origRef, origNode>>

(* detect-references.ts deletes a row of its law, or stores a new one; a   *)
(* row stored between the backup and findMany is in no backup.             *)
RowDeleted(i) ==
  /\ ref[i] # Absent
  /\ ref' = [ref EXCEPT ![i] = Absent]
  /\ UNCHANGED <<node, opts, npc, readRef, readNode, backup, failed, seen, unsaved, origRef, origNode>>

RowStored(i, r) ==
  /\ origRef[i] = Absent
  /\ ref' = [ref EXCEPT ![i] = r]
  /\ origRef' = [origRef EXCEPT ![i] = r]
  /\ unsaved' = (unsaved \/ Running)
  /\ UNCHANGED <<node, opts, npc, readRef, readNode, backup, failed, seen, origNode>>

NormNext ==
  \/ \E o \in Options : StartNormalize(o)
  \/ createBackup \/ ReadRefs \/ UpdateRef \/ RefsDone
  \/ ReadNodes \/ UpdateNode \/ NodesDone \/ NormCrash
  \/ \E i \in Rows : RowDeleted(i)
  \/ \E i \in Rows, r \in Stored : RowStored(i, r)

NormSpec == NormInit /\ [][NormNext]_normVars

-----------------------------------------------------------------------------
(* Runs that were cut short and repeated add up to one run: every row and  *)
(* node is as it was stored or normalised once.                            *)
NormalizedOnce ==
  /\ \A i \in Rows : ref[i] # Absent => ref[i] \in {origRef[i], Normalized(origRef[i])}
  /\ \A a \in Nodes : node[a] \in {origNode[a], toNumericFormat(origNode[a])}

(* No update brings back a row that a detection has deleted in between.    *)
NoResurrection ==
  [][\A i \in Rows : origRef[i] # Absent /\ ref[i] = Absent => ref'[i] = Absent]_normVars

(* A run that reports no failure has left nothing in another format in     *)
(* what it went through, whatever was stored and deleted meanwhile.        *)
CleanRunNormalizes ==
  npc = "done" /\ ~failed =>
    /\ \A i \in seen : ref[i] # Absent => ref[i] = Normalized(ref[i])
    /\ ~opts.postgresOnly =>
         \A a \in Nodes : node[a] = toNumericFormat(node[a])

(* While every run has made its backup, what normalisation has overwritten *)
(* is in a backup file, however many runs were cut short and repeated.     *)
OriginalsBackedUp ==
  ~unsaved => \A i \in Rows :
    ref[i] \notin {Absent, origRef[i]} => <<i, origRef[i]>> \in backup

(* What the script prints for --dry-run: nothing is updated.               *)
DryRunChangesNothing ==
  [][Running /\ opts.dryRun =>
       node' = node
       /\ \A i \in Rows : origRef'[i] = origRef[i] => ref'[i] \in {ref[i], Absent}]_normVars
=============================================================================
