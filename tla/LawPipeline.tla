----------------------------- MODULE LawPipeline -----------------------------
(***************************************************************************)
(* The data path of LawFinder from the XML files to the graph:             *)
(* init and import, detection, synchronisation with the graph.  The three  *)
(* scripts share the database and nothing else; any of them may run, or    *)
(* run again, while the others are under way.                              *)
(***************************************************************************)
EXTENDS LawImport, GraphSync

pipelineVars == <<storeVars, importVars, detectVars, syncVars>>

PipelineInit == ImportInit /\ DetectInit /\ SyncInit

PipelineNext ==
  \/ ImportNext /\ UNCHANGED <<detectVars, syncVars>>
  \/ DetectNext /\ UNCHANGED <<importVars, syncVars>>
  \/ SyncNext /\ UNCHANGED importVars

PipelineSpec == PipelineInit /\ [][PipelineNext]_pipelineVars

(* A started detection or sync goes on with its own calls; an import may   *)
(* stop anywhere.                                                          *)
FairPipelineSpec ==
  /\ PipelineSpec
  /\ \A p \in Detectors : WF_pipelineVars(DetectStep(p) /\ UNCHANGED <<importVars, syncVars>>)
  /\ \A p \in Syncers :
       WF_pipelineVars(SyncStep(p) /\ UNCHANGED <<storeVars, importVars, detectVars>>)

-----------------------------------------------------------------------------
(* The graph never shows a law under its id instead of its title: rows of  *)
(* a law exist only once init-law-data has created its LawMaster, and the  *)
(* masters are read after the rows.                                        *)
TitlesKnown == \A l \in Laws : lawNode[l] # "id"
=============================================================================
