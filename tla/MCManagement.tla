----------------------------- MODULE MCManagement -----------------------------
(***************************************************************************)
(* A small instance of the management commands.                            *)
(***************************************************************************)
EXTENDS Management, TLC

CONSTANTS A, B, C

MCVersions == {"1.0.0", "2.0.0"}

(* Two laws, so two batches.                                               *)
MCListedLaws == <<A, C>>

(* Law A twice in one file with different counts and again in the next; B, *)
(* which no list of laws contains; a law without references.               *)
E(law, n) == [law |-> law, references |-> n]
MCCheckpoints == << <<E(A, 1), E(A, 2)>>, <<E(A, 1), E(B, 1)>> >>

(* Numbers as the table holds them: 3_2 loses its branch.                  *)
MCNumericFormat == [n \in ArticleNumbers |-> IF n = "3_2" THEN "3" ELSE IF n = "dai1jo" THEN "1" ELSE n]

Row(sart, tlaw, tart) == [slaw |-> A, sart |-> sart, tlaw |-> tlaw, tart |-> tart, paragraphs |-> FALSE]
MCRows == <<Row("1", A, "3_2"), Row("3", NoTarget, "1")>>
MCTestRow == [slaw |-> A, sart |-> "dai1jo", tlaw |-> A, tart |-> "dai1jo", paragraphs |-> TRUE]

(* An empty graph, or one in which another script has left an article      *)
(* without normalising its number.                                         *)
MCInitialNodes ==
  LET empty == [k \in NodeKeys |-> 0] IN {empty, [empty EXCEPT ![ArticleNode(A, "3_2")] = 1]}

(* The commands share no data: a behaviour uses one kind.  The last sync   *)
(* starts when no other runs: beside another it would not be alone, and no *)
(* later sync would meet what the two have left.                           *)
MCNext ==
  \/ syncs = 0 /\ ManagerNext /\ UNCHANGED edgeVars
  \/ /\ commands = 0 /\ EdgesNext /\ UNCHANGED managerVars
     /\ syncs' = MaxSyncs /\ syncs # MaxSyncs => Working = {}

MCSpec == ManagementInit /\ [][MCNext]_<<managerVars, edgeVars>>

MCSymmetry == Permutations(Managers) \cup Permutations(Writers)
=============================================================================
