------------------------- MODULE ReferenceCacheProofs -------------------------
(***************************************************************************)
(* Proofs about the reference cache, for any keys, results, versions and   *)
(* limits.                                                                 *)
(***************************************************************************)
EXTENDS ReferenceCache, SubsequenceTheorems

(* A saved cache is one that was: its keys are those of its entries, and   *)
(* they have its version.                                                  *)
SavedInv ==
  saved # Nothing =>
    /\ Enumerates(saved.keys, {k \in Keys : saved.entries[k] # NoEntry})
    /\ \A k \in Keys :
         saved.entries[k] # NoEntry => saved.entries[k].detectorVersion = saved.version

InUseOrder(s, use) == \A i, j \in DOMAIN s : i < j => use[s[i]] <= use[s[j]]

(* The access order is the order of the last uses.                         *)
UseInv ==
  /\ \A k \in Keys : lastUse[k] <= uses
  /\ InUseOrder(accessOrder, lastUse)

CacheInv ==
  CacheTypeOK /\ OrderMatchesCache /\ SavedInv /\ UseInv /\ SizeBounded /\ OneVersion

-----------------------------------------------------------------------------
(* Removing keys from an order removes them from what it enumerates.       *)
LEMMA ExcludingEnumerates ==
  ASSUME NEW s \in Seq(Keys), NEW ks, Enumerates(s, ks), NEW gone
  PROVE  /\ Excluding(s, gone) \in Seq(Keys)
         /\ Enumerates(Excluding(s, gone), ks \ gone)
<1> DEFINE t == Excluding(s, gone)
<1>1. /\ t \in Seq(Keys)
      /\ {t[n] : n \in DOMAIN t} = {s[i] : i \in DOMAIN s} \ gone
      /\ \A m, n \in DOMAIN t :
           m < n => \E i, j \in DOMAIN s : i < j /\ s[i] = t[m] /\ s[j] = t[n]
  BY ExcludingProperties
<1> HIDE DEF t
<1>2. DOMAIN t = 1..Len(t) /\ Len(t) \in Nat /\ DOMAIN s = 1..Len(s) /\ Len(s) \in Nat
  BY <1>1
<1>3. ASSUME NEW m \in DOMAIN t, NEW n \in DOMAIN t, t[m] = t[n], m < n
      PROVE  FALSE
  <2>1. PICK i \in DOMAIN s, j \in DOMAIN s : i < j /\ s[i] = t[m] /\ s[j] = t[n]
    BY <1>1, <1>3
  <2>2. i = j
    BY <1>3, <2>1 DEF Enumerates
  <2> QED
    BY <1>2, <2>1, <2>2
<1>4. \A m, n \in DOMAIN t : m < n \/ n < m \/ m = n
  BY <1>2
<1>5. \A m, n \in DOMAIN t : t[m] = t[n] => m = n
  BY <1>3, <1>4
<1> QED
  BY <1>1, <1>5 DEF Enumerates, t

(* Removing keys keeps the order of use.                                   *)
LEMMA ExcludingInUseOrder ==
  ASSUME NEW s \in Seq(Keys), NEW use, InUseOrder(s, use), NEW gone
  PROVE  InUseOrder(Excluding(s, gone), use)
<1> DEFINE t == Excluding(s, gone)
<1>1. \A m, n \in DOMAIN t :
        m < n => \E i, j \in DOMAIN s : i < j /\ s[i] = t[m] /\ s[j] = t[n]
  BY ExcludingProperties
<1> HIDE DEF t
<1>2. InUseOrder(t, use)
  BY <1>1 DEF InUseOrder
<1> QED
  BY <1>2 DEF t

(* The head of an order leaves.                                            *)
LEMMA TailEnumerates ==
  ASSUME NEW s \in Seq(Keys), s # <<>>, NEW ks, Enumerates(s, ks)
  PROVE  /\ Head(s) \in ks /\ Head(s) \in Keys
         /\ Tail(s) \in Seq(Keys)
         /\ Enumerates(Tail(s), ks \ {Head(s)})
<1> DEFINE t == Tail(s)
<1>1. Len(s) \in Nat \ {0} /\ DOMAIN s = 1..Len(s)
  OBVIOUS
<1>2. t \in Seq(Keys) /\ DOMAIN t = 1..(Len(s) - 1) /\ \A i \in DOMAIN t : t[i] = s[i + 1]
  OBVIOUS
<1>3. Head(s) = s[1] /\ 1 \in DOMAIN s
  BY <1>1
<1>4. \A i \in DOMAIN t : i + 1 \in DOMAIN s /\ i + 1 # 1
  BY <1>1, <1>2
<1>5. \A i \in DOMAIN s : i # 1 => i - 1 \in DOMAIN t /\ t[i - 1] = s[i]
  BY <1>1, <1>2
<1> HIDE DEF t
<1>6. {t[i] : i \in DOMAIN t} = ks \ {s[1]}
  <2>1. ASSUME NEW i \in DOMAIN t PROVE t[i] \in ks \ {s[1]}
    BY <1>2, <1>3, <1>4 DEF Enumerates
  <2>2. ASSUME NEW k \in ks \ {s[1]} PROVE \E i \in DOMAIN t : t[i] = k
    BY <1>5 DEF Enumerates
  <2> QED
    BY <2>1, <2>2
<1>7. ASSUME NEW i \in DOMAIN t, NEW j \in DOMAIN t, t[i] = t[j]
      PROVE  i = j
  <2>1. i + 1 = j + 1
    BY <1>2, <1>4, <1>7 DEF Enumerates
  <2> QED
    BY <1>1, <1>2, <2>1
<1>8. s[1] \in ks /\ s[1] \in Keys
  BY <1>3 DEF Enumerates
<1> QED
  BY <1>2, <1>3, <1>6, <1>7, <1>8 DEF Enumerates, t

(* The rest of an order of use is one.                                     *)
LEMMA TailInUseOrder ==
  ASSUME NEW s \in Seq(Keys), s # <<>>, NEW use, InUseOrder(s, use)
  PROVE  InUseOrder(Tail(s), use)
<1>1. Tail(s) \in Seq(Keys) /\ Len(s) \in Nat \ {0} /\ DOMAIN s = 1..Len(s)
      /\ DOMAIN Tail(s) = 1..(Len(s) - 1)
      /\ \A i \in DOMAIN Tail(s) : Tail(s)[i] = s[i + 1]
  OBVIOUS
<1>2. \A i, j \in DOMAIN Tail(s) :
        i < j => i + 1 \in DOMAIN s /\ j + 1 \in DOMAIN s /\ i + 1 < j + 1
  BY <1>1
<1> QED
  BY <1>1, <1>2 DEF InUseOrder

(* A new key is appended.                                                  *)
LEMMA AppendEnumerates ==
  ASSUME NEW s \in Seq(Keys), NEW ks, Enumerates(s, ks), NEW k \in Keys, k \notin ks
  PROVE  Append(s, k) \in Seq(Keys) /\ Enumerates(Append(s, k), ks \cup {k})
<1> DEFINE t == Append(s, k)
<1>1. Len(s) \in Nat /\ DOMAIN s = 1..Len(s)
  OBVIOUS
<1>2. t \in Seq(Keys) /\ DOMAIN t = 1..(Len(s) + 1) /\ t[Len(s) + 1] = k
      /\ \A i \in DOMAIN s : t[i] = s[i]
  OBVIOUS
<1>3. DOMAIN t = DOMAIN s \cup {Len(s) + 1}
  BY <1>1, <1>2
<1> HIDE DEF t
<1>4. {t[i] : i \in DOMAIN t} = ks \cup {k}
  BY <1>2, <1>3 DEF Enumerates
<1>5. \A i, j \in DOMAIN t : t[i] = t[j] => i = j
  BY <1>2, <1>3 DEF Enumerates
<1> QED
  BY <1>2, <1>4, <1>5 DEF Enumerates, t

(* The key used last goes to the end, and the order stays one of use.      *)
LEMMA UpdateOrder ==
  ASSUME NEW s \in Seq(Keys), NEW ks, Enumerates(s, ks), NEW k \in Keys,
         NEW use \in [Keys -> Nat], NEW u \in Nat, \A x \in Keys : use[x] <= u,
         InUseOrder(s, use)
  PROVE  /\ updateAccessOrder(s, k) \in Seq(Keys)
         /\ Enumerates(updateAccessOrder(s, k), ks \cup {k})
         /\ InUseOrder(updateAccessOrder(s, k), [use EXCEPT ![k] = u + 1])
<1> DEFINE t == Excluding(s, {k})
           a == Append(t, k)
           f == [use EXCEPT ![k] = u + 1]
<1>1. t \in Seq(Keys) /\ Enumerates(t, ks \ {k})
  BY ExcludingEnumerates
<1>2. InUseOrder(t, use)
  BY ExcludingInUseOrder
<1>3. a = updateAccessOrder(s, k)
  BY DEF updateAccessOrder, removeFromAccessOrder
<1> HIDE DEF t
<1>4. a \in Seq(Keys) /\ Enumerates(a, ks \cup {k})
  <2>1. a \in Seq(Keys) /\ Enumerates(a, (ks \ {k}) \cup {k})
    BY <1>1, AppendEnumerates
  <2>2. (ks \ {k}) \cup {k} = ks \cup {k}
    OBVIOUS
  <2> QED
    BY <2>1, <2>2
<1>5. Len(t) \in Nat /\ DOMAIN t = 1..Len(t) /\ DOMAIN a = 1..(Len(t) + 1)
      /\ a[Len(t) + 1] = k /\ \A i \in DOMAIN t : a[i] = t[i]
  BY <1>1
<1>6. \A i \in DOMAIN t : t[i] \in Keys /\ t[i] # k
  <2>1. \A i \in DOMAIN t : t[i] \in ks \ {k}
    BY <1>1 DEF Enumerates
  <2>2. \A i \in DOMAIN t : t[i] \in Keys
    BY <1>1, <1>5
  <2> QED
    BY <2>1, <2>2
<1>7. f[k] = u + 1 /\ \A x \in Keys : f[x] <= u + 1 /\ (x # k => f[x] = use[x])
  OBVIOUS
<1> HIDE DEF a, f
<1>8. ASSUME NEW i \in DOMAIN a, NEW j \in DOMAIN a, i < j
      PROVE  f[a[i]] <= f[a[j]]
  <2>1. i \in DOMAIN t /\ (j \in DOMAIN t \/ j = Len(t) + 1)
    BY <1>5, <1>8
  <2>2. CASE j \in DOMAIN t
    BY <1>2, <1>5, <1>6, <1>7, <1>8, <2>1, <2>2 DEF InUseOrder
  <2>3. CASE j = Len(t) + 1
    BY <1>5, <1>6, <1>7, <2>1, <2>3
  <2> QED
    BY <2>1, <2>2, <2>3
<1>9. InUseOrder(a, f)
  BY <1>8 DEF InUseOrder
<1> QED
  BY <1>3, <1>4, <1>9 DEF f

(* The length of an order is the number of its keys.                       *)
LEMMA EnumeratedCardinality ==
  ASSUME NEW s \in Seq(Keys), NEW ks, Enumerates(s, ks)
  PROVE  IsFiniteSet(ks) /\ Cardinality(ks) = Len(s)
<1>1. Len(s) \in Nat /\ DOMAIN s = 1..Len(s) /\ s \in [1..Len(s) -> Keys]
  OBVIOUS
<1>2. s \in [1..Len(s) -> ks]
  BY <1>1 DEF Enumerates
<1>3. s \in Injection(1..Len(s), ks)
  BY <1>1, <1>2 DEF Enumerates, Injection, IsInjective
<1>4. s \in Surjection(1..Len(s), ks)
  BY <1>1, <1>2 DEF Enumerates, Surjection
<1>5. IsFiniteSet(1..Len(s)) /\ Cardinality(1..Len(s)) = Len(s)
  BY <1>1, FS_Interval
<1> QED
  BY <1>3, <1>4, <1>5, FS_Surjection

-----------------------------------------------------------------------------
(* A new cache.                                                            *)
LEMMA CacheInitially == CacheInit => CacheInv
<1> SUFFICES ASSUME CacheInit PROVE CacheInv
  OBVIOUS
<1>1. Cached = {}
  BY DEF CacheInit, Cached
<1>2. CacheTypeOK
  BY LimitsAssumption, NoEntryAssumption DEF CacheInit, CacheTypeOK
<1>3. OrderMatchesCache
  BY <1>1 DEF CacheInit, OrderMatchesCache, Enumerates
<1>4. SavedInv /\ UseInv /\ OneVersion
  BY <1>1, <1>2 DEF CacheInit, CacheTypeOK, SavedInv, UseInv, InUseOrder, OneVersion
<1>5. SizeBounded
  BY <1>1, FS_EmptySet, LimitsAssumption DEF CacheInit, SizeBounded, size
<1> QED
  BY <1>2, <1>3, <1>4, <1>5 DEF CacheInv

(* Removing entries, whichever and for whatever reason, keeps everything.  *)
LEMMA DropStep ==
  ASSUME CacheInv, NEW ks, Drop(ks),
         UNCHANGED <<config, now, saved, lastUse, uses, restored>>,
         totalHits' \in Nat, totalMisses' \in Nat
  PROVE  CacheInv'
<1> USE DEF CacheInv
<1>1. /\ Cached' = Cached \ ks
      /\ \A k \in Cached' : k \in Cached /\ cache'[k] = cache[k]
  BY DEF Drop, Cached
<1>2. /\ mapOrder' \in Seq(Keys) /\ Enumerates(mapOrder', Cached')
      /\ accessOrder' \in Seq(Keys) /\ Enumerates(accessOrder', Cached')
  BY <1>1, ExcludingEnumerates DEF Drop, CacheTypeOK, OrderMatchesCache
<1>3. CacheTypeOK'
  BY <1>2 DEF CacheTypeOK, Drop, config
<1>4. OrderMatchesCache'
  BY <1>2 DEF OrderMatchesCache, Enumerates
<1>5. SavedInv'
  BY DEF SavedInv, Enumerates
<1>6. UseInv'
  <2>1. InUseOrder(accessOrder', lastUse)
    BY ExcludingInUseOrder DEF UseInv, CacheTypeOK, Drop
  <2> QED
    BY <2>1 DEF UseInv, InUseOrder
<1>7. SizeBounded'
  <2>1. IsFiniteSet(Cached) /\ IsFiniteSet(Cached')
    BY <1>2, EnumeratedCardinality DEF CacheTypeOK, OrderMatchesCache
  <2>2. Cardinality(Cached') <= Cardinality(Cached)
    BY <1>1, <2>1, FS_Subset
  <2>3. Cardinality(Cached') \in Nat /\ Cardinality(Cached) \in Nat
    BY <2>1, FS_CardinalityType
  <2> QED
    BY <2>2, <2>3 DEF SizeBounded, size, CacheTypeOK, config
<1>8. OneVersion'
  BY <1>1 DEF OneVersion, config
<1> QED
  BY <1>3, <1>4, <1>5, <1>6, <1>7, <1>8

(* get of an entry that is still alive moves its key to the end.           *)
LEMMA GetHitStep ==
  ASSUME CacheInv, NEW k \in Keys, GetHit(k)
  PROVE  CacheInv'
<1> USE DEF CacheInv
<1>1. /\ cache[k] \in Entry
      /\ cache' = [cache EXCEPT ![k].hitCount = @ + 1]
      /\ cache'[k] \in Entry /\ cache'[k].detectorVersion = cache[k].detectorVersion
      /\ \A o \in Keys : o # k => cache'[o] = cache[o]
  <2>1. cache[k] \in Entry /\ cache \in [Keys -> Entry \cup {NoEntry}]
    BY DEF GetHit, Live, CacheTypeOK
  <2>2. cache' = [cache EXCEPT ![k] = [cache[k] EXCEPT !.hitCount = cache[k].hitCount + 1]]
    BY DEF GetHit
  <2>3. [cache[k] EXCEPT !.hitCount = cache[k].hitCount + 1] \in Entry
        /\ [cache[k] EXCEPT !.hitCount = cache[k].hitCount + 1].detectorVersion
             = cache[k].detectorVersion
    BY <2>1 DEF Entry
  <2> QED
    BY <2>1, <2>2, <2>3 DEF GetHit
<1>2. Cached' = Cached /\ k \in Cached
  BY <1>1, NoEntryAssumption DEF Cached
<1>3. /\ accessOrder' \in Seq(Keys)
      /\ Enumerates(accessOrder', Cached')
      /\ InUseOrder(accessOrder', lastUse')
  <2>1. Cached \cup {k} = Cached'
    BY <1>2
  <2> QED
    BY <2>1, UpdateOrder DEF GetHit, Use, CacheTypeOK, OrderMatchesCache, UseInv
<1>4. CacheTypeOK'
  BY <1>1, <1>3 DEF CacheTypeOK, GetHit, Use, config
<1>5. OrderMatchesCache'
  BY <1>2, <1>3 DEF OrderMatchesCache, Enumerates, GetHit
<1>6. SavedInv'
  BY DEF SavedInv, Enumerates, GetHit
<1>7. UseInv'
  BY <1>3 DEF UseInv, InUseOrder, GetHit, Use, CacheTypeOK
<1>8. SizeBounded'
  BY <1>2 DEF SizeBounded, size, GetHit, config
<1>9. OneVersion'
  BY <1>1, <1>2 DEF OneVersion, GetHit, config, Cached
<1> QED
  BY <1>4, <1>5, <1>6, <1>7, <1>8, <1>9

(* What set() does to the keys: the new one comes, one goes at most.       *)
LEMMA SetKeys ==
  ASSUME CacheInv, NEW i \in Inputs, NEW refs \in Results, set(i, refs)
  PROVE  LET k == generateKey[i]
             lru == Head(accessOrder)
         IN  /\ k \in Keys
             /\ Evicts(k) => /\ lru \in Cached /\ lru # k /\ k \notin Cached
                             /\ Cached' = (Cached \ {lru}) \cup {k}
             /\ ~Evicts(k) => Cached' = Cached \cup {k}
             /\ cache' \in [Keys -> Entry \cup {NoEntry}]
             /\ cache'[k].references = refs /\ cache'[k].detectorVersion = detectorVersion
             /\ \A o \in Cached' : o # k => o \in Cached /\ cache'[o] = cache[o]
<1> USE DEF CacheInv
<1> DEFINE k   == generateKey[i]
           lru == Head(accessOrder)
           e   == [references |-> refs, timestamp |-> now, hitCount |-> 0,
                   detectorVersion |-> detectorVersion]
<1>1. k \in Keys
  BY KeysAssumption
<1>2. e \in Entry /\ e # NoEntry
  BY NoEntryAssumption DEF Entry, CacheTypeOK
<1>3. CASE Evicts(k)
  <2>1. lru \in Cached /\ lru \in Keys
    BY <1>3, TailEnumerates DEF Evicts, CacheTypeOK, OrderMatchesCache
  <2>2. k \notin Cached /\ lru # k
    BY <1>3, <2>1 DEF Evicts, Cached
  <2>3. cache' = [cache EXCEPT ![lru] = NoEntry, ![k] = e]
    BY <1>3 DEF set
  <2> HIDE DEF k, lru, e
  <2>4. cache'[k] = e /\ cache'[lru] = NoEntry
        /\ \A o \in Keys : o # k /\ o # lru => cache'[o] = cache[o]
    BY <1>1, <2>1, <2>2, <2>3 DEF CacheTypeOK
  <2>5. Cached' = (Cached \ {lru}) \cup {k}
    BY <1>1, <1>2, <2>1, <2>4 DEF Cached
  <2>6. cache' \in [Keys -> Entry \cup {NoEntry}]
    BY <1>1, <1>2, <2>1, <2>3 DEF CacheTypeOK
  <2> QED
    BY <1>1, <1>3, <2>1, <2>2, <2>4, <2>5, <2>6 DEF Cached, k, lru, e
<1>4. CASE ~Evicts(k)
  <2>3. cache' = [cache EXCEPT ![k] = e]
    BY <1>4 DEF set
  <2> HIDE DEF k, lru, e
  <2>4. cache'[k] = e /\ \A o \in Keys : o # k => cache'[o] = cache[o]
    BY <1>1, <2>3 DEF CacheTypeOK
  <2>5. Cached' = Cached \cup {k}
    BY <1>1, <1>2, <2>4 DEF Cached
  <2>6. cache' \in [Keys -> Entry \cup {NoEntry}]
    BY <1>1, <1>2, <2>3 DEF CacheTypeOK
  <2> QED
    BY <1>1, <1>4, <2>4, <2>5, <2>6 DEF Cached, k, lru, e
<1> QED
  BY <1>3, <1>4

(* set, with or without an eviction.                                       *)
LEMMA SetStep ==
  ASSUME CacheInv, NEW i \in Inputs, NEW refs \in Results, set(i, refs)
  PROVE  CacheInv'
<1> USE DEF CacheInv
<1> DEFINE k   == generateKey[i]
           lru == Head(accessOrder)
           mo  == IF Evicts(k) THEN Excluding(mapOrder, {lru}) ELSE mapOrder
           ao  == IF Evicts(k) THEN Tail(accessOrder) ELSE accessOrder
           kept == IF Evicts(k) THEN Cached \ {lru} ELSE Cached
<1>1. /\ k \in Keys
      /\ Evicts(k) => /\ lru \in Cached /\ lru # k /\ k \notin Cached
                      /\ Cached' = (Cached \ {lru}) \cup {k}
      /\ ~Evicts(k) => Cached' = Cached \cup {k}
      /\ cache' \in [Keys -> Entry \cup {NoEntry}]
      /\ cache'[k].detectorVersion = detectorVersion
      /\ \A o \in Cached' : o # k => o \in Cached /\ cache'[o] = cache[o]
  BY SetKeys
<1>2. Cached' = kept \cup {k}
  BY <1>1
<1>3. /\ mapOrder' = IF cache[k] = NoEntry THEN Append(mo, k) ELSE mo
      /\ accessOrder' = updateAccessOrder(ao, k)
      /\ uses' = uses + 1
      /\ lastUse' = [lastUse EXCEPT ![k] = uses + 1]
      /\ UNCHANGED <<config, totals, now, saved, restored>>
  BY DEF set, Use
<1>4. mo \in Seq(Keys) /\ Enumerates(mo, kept)
  BY ExcludingEnumerates DEF CacheTypeOK, OrderMatchesCache
<1>5. /\ ao \in Seq(Keys) /\ Enumerates(ao, kept)
      /\ InUseOrder(ao, lastUse)
  BY TailEnumerates, TailInUseOrder DEF CacheTypeOK, OrderMatchesCache, UseInv, Evicts
<1>6. (k \in kept) <=> cache[k] # NoEntry
  BY <1>1 DEF Cached
<1> HIDE DEF mo, ao, kept, k
<1>7. mapOrder' \in Seq(Keys) /\ Enumerates(mapOrder', Cached')
  <2>1. CASE cache[k] = NoEntry
    BY <1>1, <1>2, <1>3, <1>4, <1>6, <2>1, AppendEnumerates
  <2>2. CASE cache[k] # NoEntry
    <3>1. kept \cup {k} = kept
      BY <1>6, <2>2
    <3> QED
      BY <1>2, <1>3, <1>4, <2>2, <3>1
  <2> QED
    BY <2>1, <2>2
<1>8. /\ accessOrder' \in Seq(Keys) /\ Enumerates(accessOrder', Cached')
      /\ InUseOrder(accessOrder', lastUse')
  BY <1>1, <1>2, <1>3, <1>5, UpdateOrder DEF CacheTypeOK, UseInv
<1>9. CacheTypeOK'
  BY <1>1, <1>3, <1>7, <1>8 DEF CacheTypeOK, config, totals
<1>10. OrderMatchesCache'
  BY <1>7, <1>8 DEF OrderMatchesCache, Enumerates
<1>11. SavedInv'
  BY <1>3 DEF SavedInv, Enumerates
<1>12. UseInv'
  BY <1>1, <1>3, <1>8 DEF UseInv, InUseOrder, CacheTypeOK
<1>13. SizeBounded'
  <2>1. IsFiniteSet(Cached) /\ Cardinality(Cached) \in Nat
    BY EnumeratedCardinality, FS_CardinalityType DEF CacheTypeOK, OrderMatchesCache
  <2>2. UNCHANGED <<maxSize, restored>> /\ maxSize \in Nat \ {0} /\ restored \in Nat
    BY <1>3 DEF config, CacheTypeOK
  <2>3. CASE Evicts(k)
    <3>1. Cached \ {lru} # Cached /\ IsFiniteSet(Cached \ {lru})
          /\ Cardinality(Cached \ {lru}) = Cardinality(Cached) - 1
      BY <1>1, <2>1, <2>3, FS_RemoveElement
    <3>2. Cardinality((Cached \ {lru}) \cup {k}) = Cardinality(Cached \ {lru}) + 1
      BY <1>1, <2>3, <3>1, FS_AddElement
    <3>3. Cached' = (Cached \ {lru}) \cup {k}
      BY <1>1, <2>3
    <3>4. Cardinality(Cached') = Cardinality(Cached)
      BY <2>1, <3>1, <3>2, <3>3
    <3> QED
      BY <2>1, <2>2, <3>4 DEF SizeBounded, size
  <2>4. CASE ~Evicts(k) /\ k \in Cached
    <3>1. Cached' = Cached
      BY <1>1, <2>4
    <3> QED
      BY <2>2, <3>1 DEF SizeBounded, size
  <2>5. CASE ~Evicts(k) /\ k \notin Cached
    <3>1. Cardinality(Cached') = Cardinality(Cached) + 1
      BY <1>1, <2>1, <2>5, FS_AddElement
    <3>2. cache[k] = NoEntry
      BY <1>1, <2>5 DEF Cached
    <3>3. accessOrder = <<>> => Cached = {}
      BY DEF OrderMatchesCache, Enumerates
    <3>4. accessOrder = <<>> => Cardinality(Cached) = 0
      BY <3>3, FS_EmptySet
    <3>5. Cardinality(Cached) < maxSize
      <4>1. ~ (Cardinality(Cached) >= maxSize) \/ accessOrder = <<>>
        BY <2>5, <3>2 DEF Evicts, size
      <4> QED
        BY <2>1, <2>2, <3>4, <4>1
    <3> QED
      BY <2>1, <2>2, <3>1, <3>5 DEF SizeBounded, size
  <2> QED
    BY <2>3, <2>4, <2>5
<1>14. OneVersion'
  BY <1>1, <1>3 DEF OneVersion, config
<1> QED
  BY <1>9, <1>10, <1>11, <1>12, <1>13, <1>14

(* The saved cache replaces the one of the process, with the default limits.*)
LEMMA DeserializeStep ==
  ASSUME CacheInv, NEW v \in Versions, deserialize(v)
  PROVE  CacheInv'
<1> USE DEF CacheInv
<1>1. saved \in SavedCache /\ saved' = saved /\ now' = now /\ uses' = uses
      /\ maxSize' = DefaultMaxSize /\ ttl' = DefaultTtl /\ detectorVersion' = v
      /\ lastUse' = [k \in Keys |-> 0]
  BY DEF deserialize, CacheTypeOK
<1>2. SavedInv'
  BY <1>1 DEF SavedInv, Enumerates
<1>3. /\ \A k \in Keys : lastUse'[k] <= uses'
      /\ accessOrder' \in Seq(Keys) => InUseOrder(accessOrder', lastUse')
  BY <1>1 DEF InUseOrder, CacheTypeOK
<1>4. CASE saved.version = v
  <2>1. /\ cache' = saved.entries /\ mapOrder' = saved.keys /\ accessOrder' = saved.keys
        /\ totalHits' = saved.hits /\ totalMisses' = saved.misses
        /\ restored' = Len(saved.keys)
    BY <1>4 DEF deserialize
  <2>2. /\ cache' \in [Keys -> Entry \cup {NoEntry}] /\ mapOrder' \in Seq(Keys)
        /\ accessOrder' \in Seq(Keys) /\ totalHits' \in Nat /\ totalMisses' \in Nat
    BY <1>1, <2>1 DEF SavedCache
  <2>3. CacheTypeOK'
    BY <1>1, <2>1, <2>2, LimitsAssumption DEF CacheTypeOK
  <2>4. Cached' = {k \in Keys : saved.entries[k] # NoEntry}
    BY <2>1 DEF Cached
  <2>5. Enumerates(saved.keys, Cached')
    BY <2>4 DEF SavedInv, deserialize
  <2>6. OrderMatchesCache'
    BY <2>1, <2>5 DEF OrderMatchesCache, Enumerates
  <2>7. UseInv'
    BY <1>3, <2>2 DEF UseInv, InUseOrder
  <2>8. SizeBounded'
    <3>1. Cardinality(Cached') = Len(saved.keys) /\ Len(saved.keys) \in Nat
      BY <2>1, <2>2, <2>5, EnumeratedCardinality
    <3> QED
      BY <2>1, <3>1 DEF SizeBounded, size
  <2>9. OneVersion'
    BY <1>1, <1>4, <2>1, <2>4 DEF OneVersion, SavedInv, deserialize
  <2> QED
    BY <1>2, <2>3, <2>6, <2>7, <2>8, <2>9
<1>5. CASE saved.version # v
  <2>1. /\ cache' = [k \in Keys |-> NoEntry] /\ mapOrder' = <<>> /\ accessOrder' = <<>>
        /\ totalHits' = 0 /\ totalMisses' = 0 /\ restored' = 0
    BY <1>5 DEF deserialize
  <2>2. CacheTypeOK'
    BY <1>1, <2>1, LimitsAssumption DEF CacheTypeOK
  <2>3. Cached' = {}
    BY <2>1 DEF Cached
  <2>4. OrderMatchesCache' /\ OneVersion'
    BY <2>1, <2>3 DEF OrderMatchesCache, Enumerates, OneVersion
  <2>5. UseInv'
    BY <1>3, <2>1 DEF UseInv, InUseOrder
  <2>6. SizeBounded'
    BY <2>1, <2>3, FS_EmptySet DEF SizeBounded, size
  <2> QED
    BY <1>2, <2>2, <2>4, <2>5, <2>6
<1> QED
  BY <1>4, <1>5

(* The inductive step, action by action.                                   *)
LEMMA CacheStep == CacheInv /\ [CacheNext]_cacheVars => CacheInv'
<1> SUFFICES ASSUME CacheInv, [CacheNext]_cacheVars PROVE CacheInv'
  OBVIOUS
<1> USE DEF CacheInv
<1>1. ASSUME NEW i \in Inputs, get(i) PROVE CacheInv'
  <2>1. generateKey[i] \in Keys
    BY KeysAssumption
  <2>2. CASE GetHit(generateKey[i])
    BY <2>1, <2>2, GetHitStep
  <2>3. CASE GetMiss(generateKey[i])
    BY <2>3, DropStep DEF GetMiss, CacheTypeOK
  <2> QED
    BY <1>1, <2>2, <2>3 DEF get
<1>2. ASSUME NEW i \in Inputs, has(i) PROVE CacheInv'
  BY <1>2, DropStep DEF has, totals, CacheTypeOK
<1>3. ASSUME NEW i \in Inputs, delete(i) PROVE CacheInv'
  BY <1>3, DropStep DEF delete, totals, CacheTypeOK
<1>4. ASSUME NEW i \in Inputs, NEW refs \in Results, set(i, refs) PROVE CacheInv'
  BY <1>4, SetStep
<1>5. CASE clear
  BY <1>5, DropStep DEF clear
<1>6. CASE pruneExpired
  BY <1>6, DropStep DEF pruneExpired, totals, CacheTypeOK
<1>7. CASE serialize
  <2>1. saved' \in SavedCache /\ saved'.keys = mapOrder /\ saved'.entries = cache
        /\ saved'.version = detectorVersion
    BY <1>7 DEF serialize, SavedCache, CacheTypeOK
  <2>2. CacheTypeOK'
    BY <1>7, <2>1 DEF serialize, contents, config, totals, CacheTypeOK
  <2>3. SavedInv'
    BY <2>1 DEF SavedInv, OrderMatchesCache, OneVersion, Cached, Enumerates
  <2>4. Cached' = Cached
    BY <1>7 DEF serialize, contents, Cached
  <2>5. OrderMatchesCache' /\ UseInv' /\ SizeBounded' /\ OneVersion'
    BY <1>7, <2>4 DEF serialize, contents, config, OrderMatchesCache, Enumerates, UseInv,
       InUseOrder, SizeBounded, size, OneVersion
  <2> QED
    BY <2>2, <2>3, <2>5
<1>8. CASE Tick
  <2>1. Cached' = Cached
    BY <1>8 DEF Tick, contents, Cached
  <2>2. CacheTypeOK'
    BY <1>8 DEF Tick, contents, config, totals, CacheTypeOK
  <2>3. SavedInv' /\ OrderMatchesCache' /\ UseInv' /\ SizeBounded' /\ OneVersion'
    BY <1>8, <2>1 DEF Tick, contents, config, SavedInv, OrderMatchesCache, Enumerates, UseInv,
       InUseOrder, SizeBounded, size, OneVersion
  <2> QED
    BY <2>2, <2>3
<1>9. ASSUME NEW v \in Versions, deserialize(v) PROVE CacheInv'
  BY <1>9, DeserializeStep
<1>10. CASE UNCHANGED cacheVars
  <2>1. Cached' = Cached
    BY <1>10 DEF cacheVars, contents, Cached
  <2>2. CacheTypeOK'
    BY <1>10 DEF cacheVars, contents, config, totals, CacheTypeOK
  <2>3. SavedInv' /\ OrderMatchesCache' /\ UseInv' /\ SizeBounded' /\ OneVersion'
    BY <1>10, <2>1 DEF cacheVars, contents, config, SavedInv, OrderMatchesCache, Enumerates,
       UseInv, InUseOrder, SizeBounded, size, OneVersion
  <2> QED
    BY <2>2, <2>3
<1> QED
  BY <1>1, <1>2, <1>3, <1>4, <1>5, <1>6, <1>7, <1>8, <1>9, <1>10 DEF CacheNext

-----------------------------------------------------------------------------
(* The inductive invariant holds in every reachable state.                 *)
THEOREM CacheInvariant == CacheSpec => []CacheInv
<1> QED
  BY CacheInitially, CacheStep, PTL DEF CacheSpec

(* Type correctness: after any calls and restores the arrays, the Map and  *)
(* the counters are what the class declares.                               *)
THEOREM CacheTypeCorrect == CacheSpec => []CacheTypeOK
<1>1. CacheInv => CacheTypeOK
  BY DEF CacheInv
<1> QED
  BY <1>1, CacheInvariant, PTL

(* accessOrder and the Map's insertion order list the cached keys, each    *)
(* once, whatever the sequence of get, set, has, delete, clear,            *)
(* pruneExpired, serialize and deserialize.                                *)
THEOREM OrdersMatchCache == CacheSpec => []OrderMatchesCache
<1>1. CacheInv => OrderMatchesCache
  BY DEF CacheInv
<1> QED
  BY <1>1, CacheInvariant, PTL

(* The cache never holds more than maxSize entries, or than it was         *)
(* restored with.                                                          *)
THEOREM CacheSizeBounded == CacheSpec => []SizeBounded
<1>1. CacheInv => SizeBounded
  BY DEF CacheInv
<1> QED
  BY <1>1, CacheInvariant, PTL

(* Every entry has the version of the running detector, across restores.   *)
THEOREM CacheOfOneVersion == CacheSpec => []OneVersion
<1>1. CacheInv => OneVersion
  BY DEF CacheInv
<1> QED
  BY <1>1, CacheInvariant, PTL

(* An entry that a use of the cache displaces is one used no later than    *)
(* any other.                                                              *)
THEOREM LeastRecentlyUsedEvicted == CacheSpec => OnlyLruEvicted
<1> DEFINE Lru == \A k \in Keys :
                    /\ cache[k] # NoEntry /\ cache'[k] = NoEntry
                    /\ uses' # uses
                    => \A o \in Cached : lastUse[k] <= lastUse[o]
<1>1. CacheInv /\ [CacheNext]_cacheVars => [Lru]_cacheVars
  <2> SUFFICES ASSUME CacheInv, CacheNext PROVE Lru
    OBVIOUS
  <2>1. ASSUME uses' = uses PROVE Lru
    BY <2>1
  <2>2. ASSUME NEW k \in Keys, GetHit(k) PROVE Lru
    <3>1. \A o \in Keys : cache[o] # NoEntry => cache'[o] # NoEntry
      <4>1. cache[k] \in Entry /\ cache \in [Keys -> Entry \cup {NoEntry}]
        BY <2>2 DEF GetHit, Live, CacheInv, CacheTypeOK
      <4>2. [cache[k] EXCEPT !.hitCount = cache[k].hitCount + 1] \in Entry
        BY <4>1 DEF Entry
      <4> QED
        BY <2>2, <4>1, <4>2, NoEntryAssumption DEF GetHit
    <3> QED
      BY <3>1
  <2>3. ASSUME NEW i \in Inputs, NEW refs \in Results, set(i, refs) PROVE Lru
    <3> SUFFICES ASSUME NEW k \in Keys, cache[k] # NoEntry, cache'[k] = NoEntry, NEW o \in Cached
                 PROVE  lastUse[k] <= lastUse[o]
      OBVIOUS
    <3>1. k \in Cached /\ k \notin Cached'
      BY DEF Cached
    <3>2. k = Head(accessOrder) /\ accessOrder # <<>>
      BY <2>3, <3>1, SetKeys DEF Evicts
    <3>3. /\ accessOrder \in Seq(Keys) /\ lastUse \in [Keys -> Nat]
          /\ Enumerates(accessOrder, Cached) /\ InUseOrder(accessOrder, lastUse)
      BY DEF CacheInv, CacheTypeOK, OrderMatchesCache, UseInv
    <3>4. PICK j \in DOMAIN accessOrder : accessOrder[j] = o
      BY <3>3 DEF Enumerates
    <3>5. 1 \in DOMAIN accessOrder /\ accessOrder[1] = k /\ (j = 1 \/ 1 < j)
      BY <3>2, <3>3
    <3> QED
      BY <3>3, <3>4, <3>5 DEF InUseOrder
  <2> QED
    BY <2>1, <2>2, <2>3, KeysAssumption
       DEF CacheNext, get, GetMiss, has, delete, clear, pruneExpired, serialize, deserialize, Tick
<1> QED
  BY <1>1, CacheInvariant, PTL DEF CacheSpec, OnlyLruEvicted

-----------------------------------------------------------------------------
(* The keys that have a result in the abstract store are the cached ones.  *)
LEMMA ReferencesPresent ==
  ASSUME NEW entries \in [Keys -> Entry \cup {NoEntry}]
  PROVE  /\ ReferencesOf(entries) \in [Keys -> Results \cup {Nothing}]
         /\ \A k \in Keys : ReferencesOf(entries)[k] # Nothing <=> entries[k] # NoEntry
BY NoEntryAssumption DEF ReferencesOf, Entry

(* The abstract store counts as the cache does.                            *)
LEMMA SameCardinality ==
  ASSUME NEW S
  PROVE  Abstract!Cardinality(S) = Cardinality(S)
BY Zenon DEF Abstract!Cardinality, Cardinality

(* Removing entries is forgetting results.                                 *)
LEMMA DropForgets ==
  ASSUME CacheInv, NEW ks, Drop(ks), UNCHANGED <<maxSize, saved>>
  PROVE  Abstract!StoreNext
<1>1. cache \in [Keys -> Entry \cup {NoEntry}]
  BY DEF CacheInv, CacheTypeOK
<1>2. ks \cap Cached \subseteq Abstract!Present(ReferencesOf(cache))
  BY <1>1, ReferencesPresent DEF Abstract!Present, Cached
<1>3. ReferencesOf(cache)' = Abstract!Without(ReferencesOf(cache), ks \cap Cached)
  BY DEF Abstract!Without, ReferencesOf, Drop, Cached
<1> QED
  BY <1>2, <1>3 DEF Abstract!StoreNext, Abstract!Forget

(* set() is a Put of the abstract store.                                   *)
LEMMA SetPuts ==
  ASSUME CacheInv, NEW i \in Inputs, NEW refs \in Results, set(i, refs)
  PROVE  Abstract!StoreNext
<1> DEFINE k    == generateKey[i]
           lru  == Head(accessOrder)
           st   == ReferencesOf(cache)
           full == st[k] = Nothing /\ Cardinality(Abstract!Present(st)) >= maxSize
<1>1. cache \in [Keys -> Entry \cup {NoEntry}] /\ maxSize \in Nat \ {0}
  BY DEF CacheInv, CacheTypeOK
<1>2. k \in Keys
  BY KeysAssumption
<1>3. Abstract!Present(st) = Cached
  BY <1>1, ReferencesPresent DEF Abstract!Present, Cached
<1>4. full <=> Evicts(k)
  <2>1. st[k] = Nothing <=> cache[k] = NoEntry
    BY <1>1, <1>2, ReferencesPresent
  <2>2. accessOrder = <<>> => Cardinality(Cached) = 0
    <3>1. accessOrder = <<>> => Cached = {}
      BY DEF CacheInv, OrderMatchesCache, Enumerates
    <3> QED
      BY <3>1, FS_EmptySet
  <2>3. accessOrder = <<>> => ~ (Cardinality(Cached) >= maxSize)
    BY <1>1, <2>2
  <2> QED
    BY <1>3, <2>1, <2>3 DEF Evicts, size
<1>5. /\ Evicts(k) => lru \in Cached /\ lru # k /\ Cached' = (Cached \ {lru}) \cup {k}
      /\ ~Evicts(k) => Cached' = Cached \cup {k}
      /\ cache' \in [Keys -> Entry \cup {NoEntry}]
      /\ cache'[k].references = refs
      /\ \A o \in Cached' : o # k => o \in Cached /\ cache'[o] = cache[o]
  BY SetKeys
<1>6. cache'[k] # NoEntry
  BY <1>2, <1>5 DEF Cached
<1> DEFINE gone == IF full THEN {lru} ELSE {}
<1>7. gone \in IF full THEN {{o} : o \in Abstract!Present(st)} ELSE {{}}
  BY <1>3, <1>4, <1>5
<1>8. st' = [Abstract!Without(st, gone) EXCEPT ![k] = refs]
  <2>1. \A o \in Keys : cache'[o] = NoEntry <=> (o # k /\ (o \in gone \/ cache[o] = NoEntry))
    BY <1>2, <1>4, <1>5 DEF Cached
  <2>2. \A o \in Keys : o # k /\ o \notin gone => cache'[o] = cache[o]
    BY <1>5, <2>1 DEF Cached
  <2> HIDE DEF gone, k
  <2>3. st' = [o \in Keys |-> IF o = k THEN refs
                              ELSE IF o \in gone THEN Nothing ELSE st[o]]
    BY <1>2, <1>5, <1>6, <2>1, <2>2 DEF ReferencesOf
  <2> QED
    BY <1>2, <2>3 DEF Abstract!Without
<1>9. UNCHANGED <<maxSize, saved>>
  BY DEF set, config
<1>10. Abstract!Put(k, refs)
  BY <1>7, <1>8, <1>9, SameCardinality DEF Abstract!Put
<1> QED
  BY <1>2, <1>10 DEF Abstract!StoreNext

(* The cache implements the abstract store: every call is one of its       *)
(* steps, or changes nothing its user sees.                                *)
THEOREM CacheImplementsStore == CacheSpec => ImplementsResultStore
<1>1. CacheInit => Abstract!StoreInit
  BY DEF CacheInit, Abstract!StoreInit, Abstract!EmptyStore, ReferencesOf
<1>2. CacheInv /\ [CacheNext]_cacheVars => [Abstract!StoreNext]_(Abstract!storeVars)
  <2> SUFFICES ASSUME CacheInv, [CacheNext]_cacheVars
               PROVE  Abstract!StoreNext \/ UNCHANGED Abstract!storeVars
    OBVIOUS
  <2>0. /\ cache \in [Keys -> Entry \cup {NoEntry}] /\ saved \in SavedCache \cup {Nothing}
    BY DEF CacheInv, CacheTypeOK
  <2>1. ASSUME UNCHANGED <<cache, maxSize, saved>> PROVE UNCHANGED Abstract!storeVars
    BY <2>1 DEF Abstract!storeVars, ReferencesOf
  <2>2. ASSUME NEW k \in Keys, GetHit(k) PROVE UNCHANGED Abstract!storeVars
    <3>1. cache[k] \in Entry
      BY <2>0, <2>2 DEF GetHit, Live
    <3>2. [cache[k] EXCEPT !.hitCount = cache[k].hitCount + 1] \in Entry
          /\ [cache[k] EXCEPT !.hitCount = cache[k].hitCount + 1].references = cache[k].references
      BY <3>1 DEF Entry
    <3>3. /\ cache' = [cache EXCEPT ![k] = [cache[k] EXCEPT !.hitCount = cache[k].hitCount + 1]]
          /\ UNCHANGED <<maxSize, saved>>
      BY <2>2 DEF GetHit, config
    <3>4. ReferencesOf(cache') = ReferencesOf(cache)
      BY <2>0, <3>1, <3>2, <3>3, NoEntryAssumption DEF ReferencesOf
    <3> QED
      BY <3>3, <3>4 DEF Abstract!storeVars, ReferencesOf
  <2>3. ASSUME NEW ks, Drop(ks), UNCHANGED <<config, saved>> PROVE Abstract!StoreNext
    BY <2>3, DropForgets DEF config
  <2>4. ASSUME NEW i \in Inputs, NEW refs \in Results, set(i, refs) PROVE Abstract!StoreNext
    BY <2>4, SetPuts
  <2>5. CASE serialize
    <3>1. saved' # Nothing /\ saved'.entries = cache /\ UNCHANGED <<cache, maxSize>>
      BY <2>5, NoEntryAssumption DEF serialize, contents, config, SavedCache, CacheInv, CacheTypeOK
    <3> QED
      BY <3>1 DEF Abstract!StoreNext, Abstract!Save, ReferencesOf
  <2>6. ASSUME NEW v \in Versions, deserialize(v) PROVE Abstract!StoreNext
    <3>1. saved \in SavedCache /\ saved # Nothing /\ saved' = saved /\ maxSize' = DefaultMaxSize
          /\ cache' \in {saved.entries, [k \in Keys |-> NoEntry]}
      BY <2>0, <2>6 DEF deserialize
    <3>2. ReferencesOf(saved.entries) # Nothing
      BY <3>1, ReferencesPresent, NoEntryAssumption DEF SavedCache
    <3>3. ReferencesOf(cache') \in {ReferencesOf(saved.entries), Abstract!EmptyStore}
      BY <3>1 DEF ReferencesOf, Abstract!EmptyStore
    <3> QED
      BY <3>1, <3>2, <3>3 DEF Abstract!StoreNext, Abstract!Restore, ReferencesOf
  <2>7. ASSUME NEW i \in Inputs, get(i) PROVE Abstract!StoreNext \/ UNCHANGED Abstract!storeVars
    BY <2>2, <2>3, <2>7, KeysAssumption DEF get, GetMiss
  <2>8. ASSUME NEW i \in Inputs, has(i) \/ delete(i) PROVE Abstract!StoreNext
    BY <2>3, <2>8 DEF has, delete
  <2>9. CASE clear \/ pruneExpired
    BY <2>3, <2>9 DEF clear, pruneExpired
  <2>10. CASE Tick \/ UNCHANGED cacheVars
    BY <2>1, <2>10 DEF Tick, cacheVars, contents, config
  <2> QED
    BY <2>4, <2>5, <2>6, <2>7, <2>8, <2>9, <2>10 DEF CacheNext
<1> QED
  BY <1>1, <1>2, CacheInvariant, PTL DEF CacheSpec, ImplementsResultStore, Abstract!StoreSpec
=============================================================================
