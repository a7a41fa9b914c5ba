------------------------------ MODULE ResultStore ------------------------------
(***************************************************************************)
(* What a cache of detection results promises its user: a partial map from *)
(* keys to results that may forget, at any time, but never invents or      *)
(* mixes up results, loses at most one entry to make room for a new one,   *)
(* and comes back from its saved form whole or empty.  How it chooses what *)
(* to forget is left open.  ReferenceCache implements it.                  *)
(***************************************************************************)
EXTENDS Naturals, FiniteSets

CONSTANTS Keys, Results, Limits, Absent

VARIABLES
  store,   \* result of each key, or Absent
  limit,   \* number of entries from which a new one displaces another
  copy     \* the saved store, or Absent

storeVars == <<store, limit, copy>>

Present(s) == {k \in Keys : s[k] # Absent}
Without(s, ks) == [k \in Keys |-> IF k \in ks THEN Absent ELSE s[k]]
EmptyStore == [k \in Keys |-> Absent]

StoreInit == store = EmptyStore /\ limit \in Limits /\ copy = Absent

(* A result is stored.  Only a new key in a full store costs an entry, and *)
(* it costs exactly one.                                                   *)
Put(k, r) ==
  LET full == store[k] = Absent /\ Cardinality(Present(store)) >= limit
  IN  /\ \E gone \in IF full THEN {{o} : o \in Present(store)} ELSE {{}} :
           store' = [Without(store, gone) EXCEPT ![k] = r]
      /\ UNCHANGED <<limit, copy>>

Forget == (\E ks \in SUBSET Present(store) : store' = Without(store, ks)) /\ UNCHANGED <<limit, copy>>

Save == copy' = store /\ UNCHANGED <<store, limit>>

(* A new process takes the saved store over, or starts empty.              *)
Restore ==
  /\ copy # Absent
  /\ store' \in {copy, EmptyStore}
  /\ limit' \in Limits
  /\ UNCHANGED copy

StoreNext == (\E k \in Keys, r \in Results : Put(k, r)) \/ Forget \/ Save \/ Restore

StoreSpec == StoreInit /\ [][StoreNext]_storeVars
=============================================================================
