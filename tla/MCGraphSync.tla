----------------------------- MODULE MCGraphSync -----------------------------
EXTENDS GraphSync, FiniteSets, TLC

CONSTANTS l1, l2, d1, d2, w1, p1, s1, s2, minpo

Num(n) == <<"main", <<n, 0>>>>
Kanji(n) == <<"kanji", <<n, 0>>>>

(* Two editions of one article, the second renumbering it; a reference to  *)
(* the same law and one to a law that has no node yet.                     *)
MCDocs    == {d1, d2}
MCNumbers == {Num(1), Num(2)}
MCExtract == [d \in Docs |-> <<[num |-> IF d = d1 THEN Num(1) ELSE Num(2), kids |-> 0]>>]
MCMentions ==
  [d \in Docs |->
     IF d = d1 THEN << <<[type |-> "internal", art |-> Kanji(2)],
                         [type |-> "external", name |-> minpo, art |-> Kanji(1)]>> >>
               ELSE << <<[type |-> "relative", rel |-> "other"]>> >>]
MCTargets == {Kanji(1), Kanji(2)} \cup {<<"main", <<n, 0>>>> : n \in -2..3}
MCMajorLaws == <<l1>>
MCCommonLaw == minpo :> l2
MCTitleMatches == minpo :> {}

(* What a behaviour is about: one sync beside imports of both editions, or *)
(* two syncs at once of one edition.                                       *)
VARIABLE theme

MCInit == DetectionInit /\ SyncInit /\ theme \in {"editions", "syncs"}

MCNext ==
  /\ SyncNext \/ (DetectionNext /\ UNCHANGED syncVars)
  /\ theme = "editions" => Cardinality({p \in Syncers : spc'[p] # "idle"}) <= 1
  /\ theme = "syncs" => \A l \in Laws : xmlContent'[l] # d2
  /\ UNCHANGED theme

MCSpec == MCInit /\ [][MCNext]_<<allSyncVars, theme>>

MCSymmetry == Permutations(Syncers)
=============================================================================
