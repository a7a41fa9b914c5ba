--------------------------- MODULE MCReferenceCache ---------------------------
EXTENDS ReferenceCache, TLC

CONSTANTS k1, k2, k3, r1, r2, v1, v2

(* Two inputs that differ in case or blanks have the same key.             *)
MCInputs   == Keys \X {"trimmed", "blank"}
MCKey      == [i \in Inputs |-> i[1]]
MCSymmetry == Permutations(Keys) \cup Permutations(Results) \cup Permutations(Versions)
=============================================================================
