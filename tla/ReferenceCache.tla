---------------------------- MODULE ReferenceCache ----------------------------
(***************************************************************************)
(* src/lib/reference-cache.ts: the cache of detection results that the     *)
(* detector EnhancedReferenceDetectorV41 keeps, with a size limit, a time  *)
(* to live, a detector version per entry, and a saved form from which a    *)
(* later process restores it.  warmup() is a loop of set() and has no      *)
(* action of its own.                                                      *)
(***************************************************************************)
EXTENDS Integers, Sequences, FiniteSets, Subsequences

CONSTANTS
  Inputs,          \* pairs of text and context
  Keys,
  generateKey,     \* generateKey[i]: trimmed, lower case, joined, maybe hashed
  Results,         \* reference arrays
  Versions,        \* detector versions
  MaxSize, Ttl,    \* options of the first cache
  DefaultMaxSize,  \* 1000
  DefaultTtl,      \* one hour
  MaxTime,         \* bound of the clock
  MaxUses,         \* bound of the number of uses
  MaxMisses,       \* bound of totalMisses
  NoEntry, Nothing \* Nothing: nothing saved, no result

ASSUME KeysAssumption == generateKey \in [Inputs -> Keys]
ASSUME LimitsAssumption ==
  /\ MaxSize \in Nat \ {0} /\ DefaultMaxSize \in Nat \ {0}
  /\ Ttl \in Nat \ {0} /\ DefaultTtl \in Nat \ {0}
  /\ MaxTime \in Nat /\ MaxUses \in Nat /\ MaxMisses \in Nat

Entry == [references : Results, timestamp : Nat, hitCount : Nat, detectorVersion : Versions]

VARIABLES
  cache,        \* the Map: entry of each key
  mapOrder,     \* its keys in insertion order
  accessOrder,  \* the array of keys, least recently used first
  maxSize, ttl, detectorVersion,
  totalHits, totalMisses,
  now,          \* Date.now()
  saved,        \* the serialized cache
  lastUse,      \* history: when set or a hit last touched the key, 0 before a restore
  uses,         \* history: number of uses
  restored      \* history: size of the cache when it was restored

config     == <<maxSize, ttl, detectorVersion>>
totals     == <<totalHits, totalMisses>>
contents   == <<cache, mapOrder, accessOrder>>
cacheVars  == <<contents, config, totals, now, saved, lastUse, uses, restored>>

Cached  == {k \in Keys : cache[k] # NoEntry}
size    == Cardinality(Cached)

SavedCache == [version : Versions, keys : Seq(Keys), entries : [Keys -> Entry \cup {NoEntry}],
               hits : Nat, misses : Nat]

ASSUME NoEntryAssumption ==
  /\ NoEntry \notin Entry
  /\ Nothing \notin Results \cup SavedCache \cup [Keys -> Results \cup {Nothing}]

CacheTypeOK ==
  /\ cache \in [Keys -> Entry \cup {NoEntry}]
  /\ mapOrder \in Seq(Keys)
  /\ accessOrder \in Seq(Keys)
  /\ maxSize \in Nat \ {0} /\ ttl \in Nat \ {0} /\ detectorVersion \in Versions
  /\ totalHits \in Nat /\ totalMisses \in Nat
  /\ now \in Nat /\ uses \in Nat /\ restored \in Nat
  /\ saved \in SavedCache \cup {Nothing}
  /\ lastUse \in [Keys -> Nat]

CacheInit ==
  /\ cache = [k \in Keys |-> NoEntry]
  /\ mapOrder = <<>>
  /\ accessOrder = <<>>
  /\ maxSize = MaxSize /\ ttl = Ttl /\ detectorVersion \in Versions
  /\ totalHits = 0 /\ totalMisses = 0
  /\ now = 0 /\ saved = Nothing
  /\ lastUse = [k \in Keys |-> 0]
  /\ uses = 0 /\ restored = 0

-----------------------------------------------------------------------------
(* accessOrder as an argument: removeFromAccessOrder, updateAccessOrder.   *)
removeFromAccessOrder(s, k) == Excluding(s, {k})
updateAccessOrder(s, k)     == Append(removeFromAccessOrder(s, k), k)

Expired(k) == now - cache[k].timestamp > ttl \/ cache[k].detectorVersion # detectorVersion

Live(k) == cache[k] # NoEntry /\ ~Expired(k)

(* Mutant: the access order keeps the key.                                 *)
DropLeavingOrder(ks) ==
  /\ cache' = [k \in Keys |-> IF k \in ks THEN NoEntry ELSE cache[k]]
  /\ mapOrder' = Excluding(mapOrder, ks)
  /\ UNCHANGED accessOrder

(* Entries leave the Map and the access order together.                    *)
Drop(ks) ==
  /\ cache' = [k \in Keys |-> IF k \in ks THEN NoEntry ELSE cache[k]]
  /\ mapOrder' = Excluding(mapOrder, ks)
  /\ accessOrder' = Excluding(accessOrder, ks)

Use(k) ==
  /\ uses < MaxUses
  /\ uses' = uses + 1
  /\ lastUse' = [lastUse EXCEPT ![k] = uses + 1]

(* Mutant: a hit does not count as a use of the entry.                     *)
GetHitUntouched(k) ==
  /\ Live(k)
  /\ Use(k)
  /\ totalHits' = totalHits + 1
  /\ cache' = [cache EXCEPT ![k].hitCount = @ + 1]
  /\ UNCHANGED <<mapOrder, accessOrder, config, totalMisses, now, saved, restored>>

GetHit(k) ==
  /\ Live(k)
  /\ Use(k)
  /\ totalHits' = totalHits + 1
  /\ cache' = [cache EXCEPT ![k].hitCount = @ + 1]
  /\ accessOrder' = updateAccessOrder(accessOrder, k)
  /\ UNCHANGED <<mapOrder, config, totalMisses, now, saved, restored>>

(* No entry, or one that is too old or of another version: it goes.        *)
GetMiss(k) ==
  /\ ~Live(k)
  /\ totalMisses < MaxMisses
  /\ totalMisses' = totalMisses + 1
  /\ Drop(IF cache[k] = NoEntry THEN {} ELSE {k})
  /\ UNCHANGED <<config, totalHits, now, saved, lastUse, uses, restored>>

get(i) == GetHit(generateKey[i]) \/ GetMiss(generateKey[i])

(* Mutant: a full cache evicts also when it already has the key.           *)
EvictsAlways(k) == size >= maxSize /\ accessOrder # <<>>

(* evictLRU, when a key is added to a full cache.                          *)
Evicts(k) == size >= maxSize /\ cache[k] = NoEntry /\ accessOrder # <<>>

(* Mutant: a full cache does not evict.                                    *)
SetUnlimited(i, refs) ==
  LET k == generateKey[i]
  IN  /\ Use(k)
      /\ cache' = [cache EXCEPT ![k] = [references |-> refs, timestamp |-> now, hitCount |-> 0,
                                        detectorVersion |-> detectorVersion]]
      /\ mapOrder' = IF cache[k] = NoEntry THEN Append(mapOrder, k) ELSE mapOrder
      /\ accessOrder' = updateAccessOrder(accessOrder, k)
      /\ UNCHANGED <<config, totals, now, saved, restored>>

set(i, refs) ==
  LET k    == generateKey[i]
      lru  == Head(accessOrder)
      ev   == Evicts(k)
      kept == IF ev THEN [cache EXCEPT ![lru] = NoEntry] ELSE cache
      mo   == IF ev THEN Excluding(mapOrder, {lru}) ELSE mapOrder
      ao   == IF ev THEN Tail(accessOrder) ELSE accessOrder
  IN  /\ Use(k)
      /\ cache' = [kept EXCEPT ![k] = [references |-> refs, timestamp |-> now, hitCount |-> 0,
                                       detectorVersion |-> detectorVersion]]
      /\ mapOrder' = IF cache[k] = NoEntry THEN Append(mo, k) ELSE mo
      /\ accessOrder' = updateAccessOrder(ao, k)
      /\ UNCHANGED <<config, totals, now, saved, restored>>

(* has() removes a stale entry but counts neither hit nor miss.            *)
has(i) ==
  LET k == generateKey[i]
  IN  /\ cache[k] # NoEntry /\ Expired(k)
      /\ Drop({k})
      /\ UNCHANGED <<config, totals, now, saved, lastUse, uses, restored>>

delete(i) ==
  /\ Drop({generateKey[i]})
  /\ UNCHANGED <<config, totals, now, saved, lastUse, uses, restored>>

clear ==
  /\ Drop(Keys)
  /\ totalHits' = 0 /\ totalMisses' = 0
  /\ UNCHANGED <<config, now, saved, lastUse, uses, restored>>

pruneExpired ==
  /\ Drop({k \in Cached : Expired(k)})
  /\ UNCHANGED <<config, totals, now, saved, lastUse, uses, restored>>

(* Mutant: the statistics are left out.                                    *)
serializeWithoutStatistics ==
  /\ saved' = [version |-> detectorVersion, keys |-> mapOrder, entries |-> cache,
               hits |-> Nothing, misses |-> Nothing]
  /\ UNCHANGED <<contents, config, totals, now, lastUse, uses, restored>>

serialize ==
  /\ saved' = [version |-> detectorVersion, keys |-> mapOrder, entries |-> cache,
               hits |-> totalHits, misses |-> totalMisses]
  /\ UNCHANGED <<contents, config, totals, now, lastUse, uses, restored>>

(* Mutant: the saved version is not looked at.                             *)
deserializeAny(v) ==
  /\ saved # Nothing
  /\ maxSize' = DefaultMaxSize /\ ttl' = DefaultTtl /\ detectorVersion' = v
  /\ cache' = saved.entries
  /\ mapOrder' = saved.keys
  /\ accessOrder' = saved.keys
  /\ totalHits' = saved.hits
  /\ totalMisses' = saved.misses
  /\ lastUse' = [k \in Keys |-> 0]
  /\ restored' = Len(saved.keys)
  /\ UNCHANGED <<now, saved, uses>>

(* A new process restores the saved cache for its detector version: the    *)
(* limits are the defaults, the order of use is the order of insertion,    *)
(* and a cache of another version is not taken over.                       *)
deserialize(v) ==
  LET same == saved.version = v
  IN  /\ saved # Nothing
      /\ maxSize' = DefaultMaxSize /\ ttl' = DefaultTtl /\ detectorVersion' = v
      /\ cache' = IF same THEN saved.entries ELSE [k \in Keys |-> NoEntry]
      /\ mapOrder' = IF same THEN saved.keys ELSE <<>>
      /\ accessOrder' = IF same THEN saved.keys ELSE <<>>
      /\ totalHits' = IF same THEN saved.hits ELSE 0
      /\ totalMisses' = IF same THEN saved.misses ELSE 0
      /\ lastUse' = [k \in Keys |-> 0]
      /\ restored' = IF same THEN Len(saved.keys) ELSE 0
      /\ UNCHANGED <<now, saved, uses>>

Tick ==
  /\ now < MaxTime
  /\ now' = now + 1
  /\ UNCHANGED <<contents, config, totals, saved, lastUse, uses, restored>>

CacheNext ==
  \/ \E i \in Inputs : get(i) \/ has(i) \/ delete(i) \/ \E refs \in Results : set(i, refs)
  \/ clear \/ pruneExpired \/ serialize \/ Tick
  \/ \E v \in Versions : deserialize(v)

CacheSpec == CacheInit /\ [][CacheNext]_cacheVars

-----------------------------------------------------------------------------
Enumerates(s, ks) ==
  /\ {s[i] : i \in DOMAIN s} = ks
  /\ \A i, j \in DOMAIN s : s[i] = s[j] => i = j

(* The access order and the Map never drift apart, over any sequence of    *)
(* calls: each cached key is in the order exactly once.  Were a key left   *)
(* behind, evictLRU would delete nothing and the cache would grow.         *)
OrderMatchesCache == Enumerates(accessOrder, Cached) /\ Enumerates(mapOrder, Cached)

(* The limit holds, except that a restored cache may start above it; then  *)
(* it never grows beyond what was restored.                                *)
SizeBounded == size <= maxSize \/ size <= restored

(* A step that makes a live entry disappear is an explicit removal, or it  *)
(* adds a key to a full cache and takes the least recently used one.       *)
OnlyLruEvicted ==
  [][\A k \in Keys :
       /\ cache[k] # NoEntry /\ cache'[k] = NoEntry
       /\ uses' # uses
       => \A o \in Cached : lastUse[k] <= lastUse[o]]_cacheVars

(* Entries of two detector versions never meet in one cache.               *)
OneVersion == \A k \in Cached : cache[k].detectorVersion = detectorVersion

-----------------------------------------------------------------------------
(* The refinement mapping: order of use, time, versions and statistics are *)
(* how the cache chooses what to forget.                                   *)
ReferencesOf(entries) ==
  [k \in Keys |-> IF entries[k] = NoEntry THEN Nothing ELSE entries[k].references]

Abstract == INSTANCE ResultStore WITH
  Limits <- {MaxSize, DefaultMaxSize},
  Absent <- Nothing,
  store  <- ReferencesOf(cache),
  limit  <- maxSize,
  copy   <- IF saved = Nothing THEN Nothing ELSE ReferencesOf(saved.entries)

(* To its user the cache is a store of results: a key holds the result set *)
(* last or nothing, setting a new key in a full cache costs exactly one    *)
(* other entry and setting a known key none, and a restored cache is the   *)
(* saved one or empty, never a part of it.                                 *)
ImplementsResultStore == Abstract!StoreSpec
=============================================================================
