----------------------------- MODULE Management -----------------------------
(***************************************************************************)
(* The management commands: those of manager.ts on the versioned tables,   *)
(* and the scripts that write edges to the graph.  They share no data, and *)
(* run beside each other.                                                  *)
(***************************************************************************)
EXTENDS ReferenceManager, ReferenceEdges

ManagementInit == ManagerInit /\ EdgesInit

ManagementNext ==
  \/ ManagerNext /\ UNCHANGED edgeVars
  \/ EdgesNext /\ UNCHANGED managerVars

ManagementSpec == ManagementInit /\ [][ManagementNext]_<<managerVars, edgeVars>>

(* Every variable has its type; in particular a sync in work has a row,    *)
(* file or batch left, and the uniqueness constraint on laws holds.        *)
ManagementTypeOK == ManagerTypeOK /\ EdgesTypeOK
=============================================================================
