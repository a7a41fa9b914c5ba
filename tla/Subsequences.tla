----------------------------- MODULE Subsequences -----------------------------
(***************************************************************************)
(* Subsequences by the positions they keep: what splice, filter and        *)
(* Map.delete leave of an array or of a Map's insertion order.  The        *)
(* definitions are closed forms, so that SubsequenceTheorems can prove     *)
(* what they return.                                                       *)
(***************************************************************************)
EXTENDS Integers, Sequences, FiniteSets

(* The place of i among the positions at, and the position at place n.     *)
Rank(at, i) == Cardinality({j \in at : j <= i})
Nth(at, n)  == CHOOSE i \in at : Rank(at, i) = n

(* The elements of s at the positions at, in the order of s.               *)
AtPositions(s, at) == [n \in 1..Cardinality(at) |-> s[Nth(at, n)]]

(* s without the elements of the set ks.                                   *)
Excluding(s, ks) == AtPositions(s, {i \in DOMAIN s : s[i] \notin ks})
=============================================================================
