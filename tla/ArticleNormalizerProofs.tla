----------------------- MODULE ArticleNormalizerProofs -----------------------
(***************************************************************************)
(* Proofs about the normaliser, for any rows, nodes and numbers.           *)
(***************************************************************************)
EXTENDS ArticleNormalizer, TLAPS

(* What the loops rely on.  A row or a node that was read is as it was     *)
(* read, or gone; every number is the first one or its normal form.        *)
RowsInv ==
  /\ \A i \in Rows :
       ref[i] # Absent => /\ origRef[i] # Absent
                          /\ ref[i] \in {origRef[i], Normalized(origRef[i])}
  /\ \A t \in readRef : ref[t[1]] \in {t[2], Absent} /\ origRef[t[1]] # Absent
  /\ \A i \in seen : origRef[i] # Absent

NodesInv ==
  /\ \A a \in Nodes : node[a] \in {origNode[a], toNumericFormat(origNode[a])}
  /\ \A t \in readNode : t[2] = node[t[1]]

(* What is left to do is still in the lists, and a list is only there      *)
(* while its loop runs.                                                    *)
ProgressInv ==
  /\ npc # "refs" => readRef = {}
  /\ npc # "nodes" => readNode = {}
  /\ Running /\ ~failed =>
       \A i \in seen : \/ ref[i] = Absent \/ ref[i] = Normalized(ref[i])
                       \/ <<i, ref[i]>> \in readRef
  /\ npc = "nodes" /\ ~failed =>
       \A a \in Nodes : node[a] = toNumericFormat(node[a]) \/ <<a, node[a]>> \in readNode

(* In a run past its backup, everything in the table is in some backup.    *)
BackupInv ==
  ~unsaved /\ npc \in {"readRefs", "refs", "readNodes", "nodes"} =>
    \A i \in Rows : ref[i] # Absent => <<i, origRef[i]>> \in backup

NormInv ==
  /\ NormTypeOK /\ RowsInv /\ NodesInv /\ ProgressInv /\ BackupInv
  /\ CleanRunNormalizes /\ OriginalsBackedUp

-----------------------------------------------------------------------------
(* Normalising keeps the type and has nothing left to do the second time.  *)
LEMMA NumericTwice ==
  ASSUME NEW n \in Texts
  PROVE  /\ toNumericFormat(n) \in Texts
         /\ toNumericFormat(toNumericFormat(n)) = toNumericFormat(n)
<1>1. toNumericFormat(n) \in Texts
  BY ClosedAssumption
<1>2. CASE n = NoNumber \/ n.format = "text"
  <2>1. toNumericFormat(n) = NoNumber /\ toNumericFormat(NoNumber) = NoNumber
    BY <1>2 DEF toNumericFormat
  <2> QED
    BY <1>1, <2>1
<1>3. CASE ~(n = NoNumber \/ n.format = "text")
  <2>1. toNumericFormat(n) = Arabic(n.base)
    BY <1>3 DEF toNumericFormat
  <2>2. Arabic(n.base).format = "arabic" /\ Arabic(n.base).base = n.base
    BY DEF Arabic
  <2>3. toNumericFormat(Arabic(n.base)) \in {NoNumber, Arabic(n.base)}
    BY <2>2 DEF toNumericFormat
  <2> QED
    BY <1>1, <2>1, <2>2, <2>3 DEF toNumericFormat
<1> QED
  BY <1>1, <1>2, <1>3

(* The same for the two columns of a row.                                  *)
LEMMA NormalizedTwice ==
  ASSUME NEW r \in RefRow
  PROVE  /\ Normalized(r) \in RefRow
         /\ Normalized(Normalized(r)) = Normalized(r)
BY NumericTwice DEF Normalized, RefRow

(* A row of the table, as findMany returns it.                             *)
LEMMA TableRow ==
  ASSUME NormTypeOK
  PROVE  /\ Table \subseteq (Rows \X RefRow)
         /\ \A t \in Table : t[1] \in Rows /\ t[2] = ref[t[1]] /\ ref[t[1]] # Absent
         /\ \A i \in Rows : ref[i] # Absent => <<i, ref[i]>> \in Table
BY DEF NormTypeOK, Table

-----------------------------------------------------------------------------
(* The initial states satisfy the invariant.                               *)
LEMMA InitNorm == NormInit => NormInv
<1> SUFFICES ASSUME NormInit PROVE NormInv
  OBVIOUS
<1>1. NormTypeOK
  BY RowsAssumption DEF NormInit, NormTypeOK, Texts, Options
<1>2. RowsInv /\ NodesInv /\ ProgressInv /\ BackupInv
  BY DEF NormInit, RowsInv, NodesInv, ProgressInv, BackupInv, Running
<1>3. CleanRunNormalizes /\ OriginalsBackedUp
  BY DEF NormInit, CleanRunNormalizes, OriginalsBackedUp
<1> QED
  BY <1>1, <1>2, <1>3 DEF NormInv

(* Every step keeps the variables well typed.                              *)
LEMMA NormTypeStep ==
  ASSUME NormInv, [NormNext]_normVars
  PROVE  NormTypeOK'
<1> USE DEF NormInv, NormTypeOK, NormGoto
<1>1. ASSUME NEW o \in Options, StartNormalize(o) PROVE NormTypeOK'
  BY <1>1 DEF StartNormalize, AfterBackup
<1>2. CASE createBackup
  BY <1>2, TableRow DEF createBackup, AfterBackup
<1>3. CASE ReadRefs
  BY <1>3, TableRow DEF ReadRefs, AfterRefs
<1>4. CASE UpdateRef
  BY <1>4, NormalizedTwice DEF UpdateRef
<1>5. CASE RefsDone
  BY <1>5 DEF RefsDone, AfterRefs
<1>6. CASE ReadNodes
  <2>1. {<<a, node[a]>> : a \in Nodes} \subseteq (Nodes \X Texts)
    OBVIOUS
  <2> QED
    BY <1>6, <2>1 DEF ReadNodes
<1>7. CASE UpdateNode
  BY <1>7, NumericTwice DEF UpdateNode
<1>8. CASE NodesDone \/ NormCrash
  BY <1>8 DEF NodesDone, NormCrash
<1>9. ASSUME NEW i \in Rows, RowDeleted(i) PROVE NormTypeOK'
  BY <1>9 DEF RowDeleted
<1>10. ASSUME NEW i \in Rows, NEW r \in Stored, RowStored(i, r) PROVE NormTypeOK'
  BY <1>10, RowsAssumption DEF RowStored
<1>11. CASE UNCHANGED normVars
  BY <1>11 DEF normVars
<1> QED
  BY <1>1, <1>2, <1>3, <1>4, <1>5, <1>6, <1>7, <1>8, <1>9, <1>10, <1>11 DEF NormNext

(* Rows and nodes stay what they were or become normal, once.              *)
LEMMA NormRowsStep ==
  ASSUME NormInv, [NormNext]_normVars
  PROVE  RowsInv' /\ NodesInv'
<1> USE DEF NormInv, NormTypeOK, RowsInv, NodesInv
<1>1. ASSUME NEW o \in Options, StartNormalize(o) PROVE RowsInv' /\ NodesInv'
  BY <1>1 DEF StartNormalize
<1>2. CASE createBackup \/ RefsDone \/ NodesDone \/ NormCrash
  BY <1>2 DEF createBackup, RefsDone, NodesDone, NormCrash
<1>3. CASE ReadRefs
  BY <1>3, TableRow DEF ReadRefs
<1>4. CASE UpdateRef
  <2>1. PICK t \in readRef : UpdateRef!2!(t)
    BY <1>4 DEF UpdateRef
  <2>2. UNCHANGED <<node, seen, origRef, origNode, readNode>>
    BY <1>4 DEF UpdateRef
  <2>3. CASE UNCHANGED ref
    BY <2>1, <2>2, <2>3
  <2>4. CASE ref[t[1]] # Absent /\ ref' = [ref EXCEPT ![t[1]] = Normalized(t[2])]
    <3>1. t[1] \in Rows /\ t[2] = ref[t[1]] /\ t = <<t[1], t[2]>>
      BY <2>1, <2>4
    <3>2. Normalized(t[2]) = Normalized(origRef[t[1]])
      BY <2>4, <3>1, NormalizedTwice
    <3>3. \A s \in readRef : s[1] = t[1] => s = t
      BY <2>4, <3>1
    <3> QED
      BY <2>1, <2>2, <2>4, <3>1, <3>2, <3>3
  <2> QED
    BY <2>1, <2>3, <2>4
<1>5. CASE ReadNodes
  BY <1>5 DEF ReadNodes
<1>6. CASE UpdateNode
  <2>1. PICK t \in readNode : UpdateNode!2!(t)
    BY <1>6 DEF UpdateNode
  <2>2. UNCHANGED <<ref, seen, origRef, origNode, readRef>>
    BY <1>6 DEF UpdateNode
  <2>3. t[1] \in Nodes /\ t[2] = node[t[1]] /\ t = <<t[1], t[2]>>
    OBVIOUS
  <2>4. toNumericFormat(t[2]) = toNumericFormat(origNode[t[1]])
    BY <2>3, NumericTwice
  <2>5. \A s \in readNode : s[1] = t[1] => s = t
    BY <2>3
  <2> QED
    BY <2>1, <2>2, <2>3, <2>4, <2>5
<1>7. ASSUME NEW i \in Rows, RowDeleted(i) PROVE RowsInv' /\ NodesInv'
  BY <1>7 DEF RowDeleted
<1>8. ASSUME NEW i \in Rows, NEW r \in Stored, RowStored(i, r) PROVE RowsInv' /\ NodesInv'
  BY <1>8, RowsAssumption DEF RowStored
<1>9. CASE UNCHANGED normVars
  BY <1>9 DEF normVars
<1> QED
  BY <1>1, <1>2, <1>3, <1>4, <1>5, <1>6, <1>7, <1>8, <1>9 DEF NormNext

(* What is not yet normal is still in the list of its loop.                *)
LEMMA NormProgressStep ==
  ASSUME NormInv, [NormNext]_normVars
  PROVE  ProgressInv' /\ CleanRunNormalizes'
<1> DEFINE Goal == ProgressInv' /\ CleanRunNormalizes'
<1> USE DEF NormInv, NormTypeOK, NormGoto, Running, ProgressInv, CleanRunNormalizes
<1>1. ASSUME NEW o \in Options, StartNormalize(o) PROVE Goal
  BY <1>1 DEF StartNormalize, AfterBackup, Options
<1>2. CASE createBackup
  BY <1>2 DEF createBackup, AfterBackup
<1>3. CASE ReadRefs
  BY <1>3, TableRow DEF ReadRefs, AfterRefs
<1>4. CASE UpdateRef
  <2>1. PICK t \in readRef : UpdateRef!2!(t)
    BY <1>4 DEF UpdateRef
  <2>2. npc = "refs" /\ UNCHANGED <<node, opts, npc, seen, readNode>>
    BY <1>4 DEF UpdateRef
  <2>3. t[1] \in Rows /\ t[2] \in RefRow /\ t = <<t[1], t[2]>> /\ ref[t[1]] \in {t[2], Absent}
    BY DEF RowsInv
  <2>4. CASE failed' = TRUE
    BY <2>1, <2>2, <2>4
  <2>5. CASE Normalized(t[2]) = t[2] /\ UNCHANGED <<ref, failed>>
    BY <2>1, <2>2, <2>3, <2>5
  <2>6. CASE /\ ref[t[1]] # Absent /\ UNCHANGED failed
             /\ ref' = [ref EXCEPT ![t[1]] = Normalized(t[2])]
    <3>1. ref'[t[1]] = Normalized(ref'[t[1]])
      BY <2>3, <2>6, NormalizedTwice
    <3>2. \A i \in Rows : i # t[1] => ref'[i] = ref[i] /\ <<i, ref[i]>> # t
      BY <2>3, <2>6
    <3> QED
      BY <2>1, <2>2, <3>1, <3>2
  <2> QED
    BY <2>1, <2>4, <2>5, <2>6
<1>5. CASE RefsDone
  BY <1>5 DEF RefsDone, AfterRefs
<1>6. CASE ReadNodes
  BY <1>6 DEF ReadNodes
<1>7. CASE UpdateNode
  <2>1. PICK t \in readNode : UpdateNode!2!(t)
    BY <1>7 DEF UpdateNode
  <2>2. npc = "nodes" /\ UNCHANGED <<ref, opts, npc, seen, readRef>>
    BY <1>7 DEF UpdateNode
  <2>3. t[1] \in Nodes /\ t[2] = node[t[1]] /\ t = <<t[1], t[2]>>
    BY DEF NodesInv
  <2>4. CASE failed' = TRUE
    BY <2>1, <2>2, <2>4
  <2>5. CASE toNumericFormat(t[2]) = t[2] /\ UNCHANGED <<node, failed>>
    BY <2>1, <2>2, <2>3, <2>5
  <2>6. CASE UNCHANGED failed /\ node' = [node EXCEPT ![t[1]] = toNumericFormat(t[2])]
    <3>1. node'[t[1]] = toNumericFormat(node'[t[1]])
      BY <2>3, <2>6, NumericTwice
    <3>2. \A a \in Nodes : a # t[1] => node'[a] = node[a] /\ <<a, node[a]>> # t
      BY <2>3, <2>6
    <3> QED
      BY <2>1, <2>2, <3>1, <3>2
  <2> QED
    BY <2>1, <2>4, <2>5, <2>6
<1>8. CASE NodesDone \/ NormCrash
  BY <1>8 DEF NodesDone, NormCrash
<1>9. ASSUME NEW i \in Rows, RowDeleted(i) PROVE Goal
  BY <1>9 DEF RowDeleted
<1>10. ASSUME NEW i \in Rows, NEW r \in Stored, RowStored(i, r) PROVE Goal
  <2>1. i \notin seen
    BY <1>10 DEF RowStored, RowsInv
  <2> QED
    BY <1>10, <2>1 DEF RowStored
<1>11. CASE UNCHANGED normVars
  BY <1>11 DEF normVars
<1> QED
  BY <1>1, <1>2, <1>3, <1>4, <1>5, <1>6, <1>7, <1>8, <1>9, <1>10, <1>11 DEF NormNext

(* What is overwritten has been saved.                                     *)
LEMMA NormBackupStep ==
  ASSUME NormInv, [NormNext]_normVars
  PROVE  BackupInv' /\ OriginalsBackedUp'
<1> DEFINE Goal == BackupInv' /\ OriginalsBackedUp'
<1> USE DEF NormInv, NormTypeOK, NormGoto, BackupInv, OriginalsBackedUp
<1>1. ASSUME NEW o \in Options, StartNormalize(o) PROVE Goal
  BY <1>1 DEF StartNormalize
<1>2. CASE createBackup
  <2>1. \A i \in Rows : ref[i] # Absent /\ ~unsaved => <<i, origRef[i]>> \in backup \cup Table
    BY TableRow
  <2> QED
    BY <1>2, <2>1 DEF createBackup, AfterBackup
<1>3. CASE ReadRefs \/ RefsDone
  BY <1>3 DEF ReadRefs, RefsDone, AfterRefs
<1>4. CASE UpdateRef
  BY <1>4 DEF UpdateRef
<1>5. CASE ReadNodes \/ UpdateNode \/ NodesDone \/ NormCrash
  BY <1>5 DEF ReadNodes, UpdateNode, NodesDone, NormCrash
<1>6. ASSUME NEW i \in Rows, RowDeleted(i) PROVE Goal
  BY <1>6 DEF RowDeleted
<1>7. ASSUME NEW i \in Rows, NEW r \in Stored, RowStored(i, r) PROVE Goal
  BY <1>7 DEF RowStored, Running
<1>8. CASE UNCHANGED normVars
  BY <1>8 DEF normVars
<1> QED
  BY <1>1, <1>2, <1>3, <1>4, <1>5, <1>6, <1>7, <1>8 DEF NormNext

-----------------------------------------------------------------------------
(* The inductive invariant holds in every reachable state of any number of *)
(* runs of the script, cut short and repeated, beside detections.          *)
THEOREM NormInvariant == NormSpec => []NormInv
<1>1. NormInv /\ [NormNext]_normVars => NormInv'
  BY NormTypeStep, NormRowsStep, NormProgressStep, NormBackupStep DEF NormInv
<1> QED
  BY <1>1, InitNorm, PTL DEF NormSpec

(* Rows, nodes, lists and backups stay what their columns are declared as. *)
THEOREM NormTypeCorrect == NormSpec => []NormTypeOK
<1>1. NormInv => NormTypeOK
  BY DEF NormInv
<1> QED
  BY <1>1, NormInvariant, PTL

(* However often the script is killed and started again, every number is   *)
(* as it was stored or normalised once.                                    *)
THEOREM RepeatedRunsNormalizeOnce == NormSpec => []NormalizedOnce
<1>1. NormInv => NormalizedOnce
  BY DEF NormInv, RowsInv, NodesInv, NormalizedOnce
<1> QED
  BY <1>1, NormInvariant, PTL

(* A run without a reported failure leaves nothing in another format.      *)
THEOREM CleanRunsNormalize == NormSpec => []CleanRunNormalizes
<1>1. NormInv => CleanRunNormalizes
  BY DEF NormInv
<1> QED
  BY <1>1, NormInvariant, PTL

(* What the runs have overwritten is in a backup, as long as every run     *)
(* made one and no row came in after it.                                   *)
THEOREM OverwrittenIsBackedUp == NormSpec => []OriginalsBackedUp
<1>1. NormInv => OriginalsBackedUp
  BY DEF NormInv
<1> QED
  BY <1>1, NormInvariant, PTL

(* No step of the script brings a deleted row back.                        *)
THEOREM DeletedRowsStayDeleted == NormSpec => NoResurrection
<1> DEFINE Stays == \A i \in Rows : origRef[i] # Absent /\ ref[i] = Absent => ref'[i] = Absent
<1>1. NormInv /\ [NormNext]_normVars => [Stays]_normVars
  <2> SUFFICES ASSUME NormInv, NormNext PROVE Stays
    OBVIOUS
  <2> USE DEF NormInv, NormTypeOK
  <2>1. ASSUME UNCHANGED ref PROVE Stays
    BY <2>1
  <2>2. CASE UpdateRef
    BY <2>2 DEF UpdateRef
  <2>3. ASSUME NEW i \in Rows, RowDeleted(i) PROVE Stays
    BY <2>3 DEF RowDeleted
  <2>4. ASSUME NEW i \in Rows, NEW r \in Stored, RowStored(i, r) PROVE Stays
    BY <2>4 DEF RowStored
  <2> QED
    BY <2>1, <2>2, <2>3, <2>4
       DEF NormNext, StartNormalize, createBackup, ReadRefs, RefsDone, ReadNodes, UpdateNode,
           NodesDone, NormCrash
<1> QED
  BY <1>1, NormInvariant, PTL DEF NormSpec, NoResurrection

=============================================================================
