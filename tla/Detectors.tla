------------------------------ MODULE Detectors ------------------------------
(***************************************************************************)
(* The two detector objects that live longer than one text, beside each    *)
(* other.  They share nothing.                                             *)
(***************************************************************************)
EXTENDS DetectorContext, HybridDetection

DetectorsInit == ContextInit /\ HybridInit

DetectorsNext ==
  \/ ContextNext /\ UNCHANGED hybridVars
  \/ HybridNext /\ UNCHANGED contextVars

DetectorsSpec == DetectorsInit /\ [][DetectorsNext]_<<contextVars, hybridVars>>

(* Every variable of the two detectors has its type, in particular a       *)
(* recentLaws that never outgrows its limit and a Map without other        *)
(* references than the texts and answers contain.                          *)
DetectorsTypeOK == ContextTypeOK /\ HybridTypeOK
=============================================================================
