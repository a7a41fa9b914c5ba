---------------------------- MODULE DetectorProofs ----------------------------
(***************************************************************************)
(* Proofs about the detectors.  The hybrid detector, for any number of     *)
(* calls, texts, answers and configurations: what a call returns was an    *)
(* answer in time to a question its own text asks.  The detector with a    *)
(* context, for any texts, matches, definitions and negative patterns and  *)
(* any sequence of calls: its references name laws of its own texts, 同法  *)
(* means the law named last, and overlap removal and filter lose nothing   *)
(* but what they are for.                                                  *)
(***************************************************************************)
EXTENDS Detectors, SubsequenceTheorems

Started(c) == pc[c] # "idle"
Over == {"idle", "returned", "threw"}

(* A call that began is about a text, one that never began holds no        *)
(* references, and one that waits for an answer asked what its text asks.  *)
CallInv ==
  \A c \in Calls :
    /\ Started(c) => textOf[c] \in HybridTexts
    /\ ~Started(c) => refMap[c] = <<>>
    /\ \A p \in Prompts : pc[c] = Waiting(p) => textOf[c] \in TextsWith[p]

GivenInTime(r, p, x, given) == \E a \in given : a.ref = r /\ a.prompt = p /\ a.prefix = x

(* What is cached for a prompt and a beginning was an answer in time to    *)
(* that prompt and that beginning.                                         *)
CachedInTime ==
  \A p \in Prompts, x \in Prefix50s :
    hcache[p][x] # NoAnswered => \A r \in RefsIn(hcache[p][x]) : GivenInTime(r, p, x, timely)

(* What OnlyTimelyAnswers says of one reference of a call for text t.      *)
Timely(r, t, given) ==
  \E a \in given : a.ref = r /\ a.prefix = prefix50[t] /\ t \in TextsWith[a.prompt]

HybridInv == HybridTypeOK /\ CallInv /\ CachedInTime /\ OnlyTimelyAnswers

-----------------------------------------------------------------------------
(* The operators on Maps.                                                  *)

(* A reference is its key and what it refers to, so that RefsIn are the    *)
(* elements.                                                               *)
LEMMA RefsInElements ==
  ASSUME NEW s \in Seq(HybridRef)
  PROVE  /\ \A i \in DOMAIN s : s[i] \in RefsIn(s)
         /\ \A r \in RefsIn(s) : r \in HybridRef /\ \E i \in DOMAIN s : r = s[i]
<1>1. ASSUME NEW h \in HybridRef PROVE h = [key |-> h.key, target |-> h.target]
  <2>1. PICK q : h \in RefsIn(q)
    <3> DEFINE P == UNION {Parsed[p][t] : p \in Prompts, t \in HybridTexts}
    <3>1. HybridRef = UNION {RefsIn(a) : a \in P}
      BY DEF HybridRef
    <3> HIDE DEF P
    <3> QED
      BY <3>1
  <2>2. PICK i \in DOMAIN q : h = [key |-> q[i].key, target |-> q[i].target]
    BY <2>1 DEF RefsIn
  <2> QED
    BY <2>2
<1>2. \A i \in DOMAIN s : s[i] \in HybridRef
  OBVIOUS
<1>3. \A i \in DOMAIN s : s[i] = [key |-> s[i].key, target |-> s[i].target]
  BY <1>1, <1>2
<1> QED
  BY <1>2, <1>3 DEF RefsIn

(* AddAll adds nothing but references of refs.                             *)
LEMMA AddAllProperties ==
  ASSUME NEW map \in Seq(HybridRef), NEW refs \in Seq(HybridRef)
  PROVE  /\ AddAll(map, refs) \in Seq(HybridRef)
         /\ RefsIn(AddAll(map, refs)) \subseteq RefsIn(map) \cup RefsIn(refs)
<1> DEFINE more == AtPositions(refs, FirstMet(map, refs))
           all  == map \o more
<1>1. FirstMet(map, refs) \in SUBSET DOMAIN refs
  BY DEF FirstMet
<1>2. more \in Seq(HybridRef) /\ \A n \in DOMAIN more : \E i \in DOMAIN refs : more[n] = refs[i]
  BY <1>1, AtPositionsProperties
<1>3. AddAll(map, refs) = all
  BY DEF AddAll
<1> HIDE DEF more
<1>4. /\ all \in Seq(HybridRef)
      /\ \A i \in DOMAIN all : (i \in DOMAIN map /\ all[i] = map[i])
                               \/ \E n \in DOMAIN more : all[i] = more[n]
  <2>1. /\ all \in Seq(HybridRef) /\ Len(all) = Len(map) + Len(more)
        /\ Len(map) \in Nat /\ Len(more) \in Nat
        /\ DOMAIN all = 1..Len(all) /\ DOMAIN map = 1..Len(map) /\ DOMAIN more = 1..Len(more)
    BY <1>2
  <2>2. \A i \in 1..Len(all) : all[i] = IF i <= Len(map) THEN map[i] ELSE more[i - Len(map)]
    BY <1>2
  <2>3. ASSUME NEW i \in 1..Len(all), ~ (i <= Len(map)) PROVE i - Len(map) \in 1..Len(more)
    BY <2>1, <2>3
  <2>4. ASSUME NEW i \in 1..Len(all), i <= Len(map) PROVE i \in 1..Len(map)
    BY <2>1, <2>4
  <2> HIDE DEF all
  <2> QED
    BY <2>1, <2>2, <2>3, <2>4
<1> HIDE DEF all
<1>5. ASSUME NEW r \in RefsIn(all) PROVE r \in RefsIn(map) \cup RefsIn(refs)
  <2>1. PICK i \in DOMAIN all : r = all[i]
    BY <1>4, RefsInElements
  <2>2. (\E j \in DOMAIN map : r = map[j]) \/ \E j \in DOMAIN refs : r = refs[j]
    BY <1>2, <1>4, <2>1
  <2> QED
    BY <2>2, RefsInElements
<1> QED
  BY <1>3, <1>4, <1>5

(* Kept leaves nothing but references of the Map.                          *)
LEMMA KeptProperties ==
  ASSUME NEW map \in Seq(HybridRef), NEW bad
  PROVE  /\ Kept(map, bad) \in Seq(HybridRef)
         /\ RefsIn(Kept(map, bad)) \subseteq RefsIn(map)
<1> DEFINE at == {i \in DOMAIN map : map[i].key \notin bad}
           t  == AtPositions(map, at)
<1>1. at \in SUBSET DOMAIN map
  OBVIOUS
<1>2. /\ t \in Seq(HybridRef)
      /\ \A n \in DOMAIN t : \E i \in DOMAIN map : t[n] = map[i]
  BY <1>1, AtPositionsProperties
<1>3. Kept(map, bad) = t
  BY DEF Kept
<1> HIDE DEF at, t
<1>4. ASSUME NEW r \in RefsIn(t) PROVE r \in RefsIn(map)
  BY <1>2, RefsInElements
<1> QED
  BY <1>2, <1>3, <1>4

-----------------------------------------------------------------------------
(* The steps.                                                              *)

Steps == {"validation", "validating", "returned"} \cup Prompts \cup {Waiting(p) : p \in Prompts}

(* A call at or in a prompt is under way, and so is it after it.           *)
LEMMA PcFacts ==
  /\ \A p \in Prompts : /\ p \notin Over /\ Waiting(p) \notin Over
                         /\ After(p) \in Steps /\ Waiting(p) \in Steps
                         /\ \A q \in Prompts : After(p) # Waiting(q) /\ (Waiting(p) = Waiting(q) => p = q)
                         /\ Waiting(p) \notin {"abbreviations", "validation", "validating", "returned", "threw"}
  /\ "returned" \in Steps /\ "validating" \in Steps /\ "idle" \notin Steps
  BY DEF Prompts, Waiting, After, Steps, Over

(* A call that is under way goes on, and its Map has no references but its *)
(* own and such as were given in time.                                     *)
LEMMA CallStep ==
  ASSUME HybridInv, NEW c \in Calls, NEW step \in Steps, NEW map \in Seq(HybridRef),
         pc[c] \notin Over,
         \A p \in Prompts : step = Waiting(p) => textOf[c] \in TextsWith[p],
         pc' = [pc EXCEPT ![c] = step],
         refMap' = [refMap EXCEPT ![c] = map],
         UNCHANGED <<config, textOf, starts>>,
         late' \subseteq [prompt : Prompts, text : HybridTexts],
         timely \subseteq timely',
         timely' \subseteq [prompt : Prompts, prefix : Prefix50s, ref : HybridRef],
         hcache' \in [Prompts -> [Prefix50s -> Seq(HybridRef) \cup {NoAnswered}]],
         CachedInTime',
         \A r \in RefsIn(map) : r \in RefsIn(refMap[c]) \/ Timely(r, textOf[c], timely')
  PROVE  HybridInv'
<1>1. /\ pc'[c] = step /\ refMap'[c] = map
      /\ \A d \in Calls \ {c} : pc'[d] = pc[d] /\ refMap'[d] = refMap[d]
  BY DEF HybridInv, HybridTypeOK
<1>2. step # "idle"
  BY PcFacts
<1>3. CallInv'
  <2> SUFFICES ASSUME NEW d \in Calls
               PROVE  /\ pc'[d] # "idle" => textOf[d] \in HybridTexts
                      /\ pc'[d] = "idle" => refMap'[d] = <<>>
                      /\ \A p \in Prompts : pc'[d] = Waiting(p) => textOf[d] \in TextsWith[p]
    BY DEF CallInv, Started, Waiting
  <2>1. CASE d = c
    BY <1>1, <1>2, <2>1 DEF HybridInv, CallInv, Started, Over
  <2>2. CASE d # c
    BY <1>1, <2>2 DEF HybridInv, CallInv, Started
  <2> QED
    BY <2>1, <2>2
<1>4. OnlyTimelyAnswers'
  <2> SUFFICES ASSUME NEW d \in Calls, NEW r \in RefsIn(refMap'[d])
               PROVE  \E a \in timely' : /\ a.ref = r /\ a.prefix = prefix50[textOf'[d]]
                                         /\ textOf'[d] \in TextsWith[a.prompt]
    BY Zenon DEF OnlyTimelyAnswers
  <2>1. ASSUME r \in RefsIn(refMap[d]) PROVE Timely(r, textOf[d], timely')
    <3>1. PICK a \in timely : a.ref = r /\ a.prefix = prefix50[textOf[d]] /\ textOf[d] \in TextsWith[a.prompt]
      BY <2>1 DEF HybridInv, OnlyTimelyAnswers
    <3>2. a \in timely'
      OBVIOUS
    <3> QED
      BY <3>1, <3>2 DEF Timely
  <2>2. Timely(r, textOf[d], timely')
    <3>1. CASE d = c
      BY <1>1, <2>1, <3>1
    <3>2. CASE d # c
      BY <1>1, <2>1, <3>2
    <3> QED
      BY <3>1, <3>2
  <2> QED
    BY <2>2 DEF Timely
<1>5. HybridTypeOK'
  <2>1. pc' \in [Calls -> {"idle", "validation", "validating", "returned", "threw"}
                         \cup Prompts \cup {Waiting(p) : p \in Prompts}]
    BY DEF HybridInv, HybridTypeOK, Steps
  <2>2. refMap' \in [Calls -> Seq(HybridRef)]
    BY DEF HybridInv, HybridTypeOK
  <2> QED
    BY <2>1, <2>2 DEF HybridInv, HybridTypeOK
<1> QED
  BY <1>3, <1>4, <1>5 DEF HybridInv

(* A call begins with an empty Map, or throws at once.                     *)
LEMMA StartStep ==
  ASSUME HybridInv, NEW c \in Calls, NEW t \in HybridTexts, StartHybrid(c, t)
  PROVE  HybridInv'
<1> DEFINE next == IF t \in AlgorithmTexts THEN "threw"
                   ELSE IF shouldUseLLM(t) /\ config.maxLLMCallsPerText > 0 THEN "abbreviations"
                   ELSE "returned"
<1>1. next \in {"abbreviations", "returned", "threw"}
  OBVIOUS
<1>2. /\ pc' = [pc EXCEPT ![c] = next] /\ refMap' = [refMap EXCEPT ![c] = <<>>]
      /\ textOf' = [textOf EXCEPT ![c] = t]
      /\ starts < MaxStarts /\ starts' = starts + 1
      /\ UNCHANGED <<config, hcache, late, timely>>
  BY DEF StartHybrid
<1> HIDE DEF next
<1>3. /\ pc'[c] = next /\ refMap'[c] = <<>> /\ textOf'[c] = t
      /\ \A d \in Calls \ {c} : pc'[d] = pc[d] /\ refMap'[d] = refMap[d] /\ textOf'[d] = textOf[d]
  BY <1>2 DEF HybridInv, HybridTypeOK
<1>4. HybridTypeOK'
  <2>1. starts' \in 0..MaxStarts
    BY <1>2, HybridAssumption DEF HybridInv, HybridTypeOK
  <2>2. pc' \in [Calls -> {"idle", "validation", "validating", "returned", "threw"}
                         \cup Prompts \cup {Waiting(p) : p \in Prompts}]
    BY <1>1, <1>2 DEF HybridInv, HybridTypeOK, Prompts
  <2>3. refMap' \in [Calls -> Seq(HybridRef)]
    BY <1>2 DEF HybridInv, HybridTypeOK
  <2>4. textOf' \in [Calls -> HybridTexts \cup {NoText}]
    BY <1>2 DEF HybridInv, HybridTypeOK
  <2> QED
    BY <1>2, <2>1, <2>2, <2>3, <2>4 DEF HybridInv, HybridTypeOK
<1>5. CallInv'
  <2> SUFFICES ASSUME NEW d \in Calls
               PROVE  /\ pc'[d] # "idle" => textOf'[d] \in HybridTexts
                      /\ pc'[d] = "idle" => refMap'[d] = <<>>
                      /\ \A p \in Prompts : pc'[d] = Waiting(p) => textOf'[d] \in TextsWith[p]
    BY DEF CallInv, Started, Waiting
  <2>1. CASE d = c
    BY <1>1, <1>3, <2>1, PcFacts
  <2>2. CASE d # c
    BY <1>3, <2>2 DEF HybridInv, CallInv, Started
  <2> QED
    BY <2>1, <2>2
<1>6. CachedInTime'
  <2>1. hcache' = hcache /\ timely' = timely
    BY <1>2
  <2> QED
    BY <2>1 DEF HybridInv, CachedInTime, GivenInTime, Prefix50s
<1>7. OnlyTimelyAnswers'
  <2> SUFFICES ASSUME NEW d \in Calls, NEW r \in RefsIn(refMap'[d])
               PROVE  Timely(r, textOf'[d], timely)
    BY <1>2 DEF OnlyTimelyAnswers, Timely
  <2>1. d # c
    BY <1>3 DEF RefsIn
  <2> QED
    BY <1>3, <2>1 DEF HybridInv, OnlyTimelyAnswers, Timely
<1> QED
  BY <1>4, <1>5, <1>6, <1>7 DEF HybridInv

(* The steps of a call that change nothing but its program counter, and a  *)
(* timeout, which also leaves a request behind.                            *)
LEMMA QuietStep ==
  ASSUME HybridInv, NEW c \in Calls, NEW step \in Steps,
         pc[c] \notin Over,
         \A p \in Prompts : step = Waiting(p) => textOf[c] \in TextsWith[p],
         pc' = [pc EXCEPT ![c] = step],
         late' \subseteq [prompt : Prompts, text : HybridTexts],
         UNCHANGED <<config, hcache, textOf, refMap, starts, timely>>
  PROVE  HybridInv'
<1>1. refMap[c] \in Seq(HybridRef) /\ refMap' = [refMap EXCEPT ![c] = refMap[c]]
  BY DEF HybridInv, HybridTypeOK
<1>2. CachedInTime'
  <2>1. hcache' = hcache /\ timely' = timely
    OBVIOUS
  <2> QED
    BY <2>1 DEF HybridInv, CachedInTime, GivenInTime, Prefix50s
<1>3. /\ timely \subseteq timely' /\ timely' \subseteq [prompt : Prompts, prefix : Prefix50s, ref : HybridRef]
      /\ hcache' \in [Prompts -> [Prefix50s -> Seq(HybridRef) \cup {NoAnswered}]]
  BY DEF HybridInv, HybridTypeOK
<1> QED
  BY <1>1, <1>2, <1>3, CallStep

(* The step of a prompt is over when its references are in the Map.        *)
LEMMA AddStep ==
  ASSUME HybridInv, NEW c \in Calls, NEW p \in Prompts, NEW refs \in Seq(HybridRef),
         pc[c] \notin Over,
         pc' = [pc EXCEPT ![c] = After(p)],
         refMap' = [refMap EXCEPT ![c] = AddAll(@, refs)],
         UNCHANGED <<config, textOf, late, starts>>,
         timely \subseteq timely',
         timely' \subseteq [prompt : Prompts, prefix : Prefix50s, ref : HybridRef],
         hcache' \in [Prompts -> [Prefix50s -> Seq(HybridRef) \cup {NoAnswered}]],
         textOf[c] \in TextsWith[p],
         \A r \in RefsIn(refs) : GivenInTime(r, p, prefix50[textOf[c]], timely'),
         CachedInTime'
  PROVE  HybridInv'
<1> DEFINE map == AddAll(refMap[c], refs)
<1>1. After(p) \in Steps /\ \A q \in Prompts : After(p) # Waiting(q)
  BY PcFacts
<1>2. refMap[c] \in Seq(HybridRef) /\ refMap' = [refMap EXCEPT ![c] = map]
  BY DEF HybridInv, HybridTypeOK
<1>3. /\ map \in Seq(HybridRef)
      /\ RefsIn(map) \subseteq RefsIn(refMap[c]) \cup RefsIn(refs)
  BY <1>2, AddAllProperties
<1> HIDE DEF map
<1>4. \A r \in RefsIn(map) : r \in RefsIn(refMap[c]) \/ Timely(r, textOf[c], timely')
  BY <1>3 DEF GivenInTime, Timely
<1>5. late' \subseteq [prompt : Prompts, text : HybridTexts] /\ UNCHANGED <<config, textOf, starts>>
  BY DEF HybridInv, HybridTypeOK
<1> QED
  BY <1>1, <1>2, <1>3, <1>4, <1>5, CallStep

(* What the cache holds for a beginning was given in time to it.           *)
LEMMA FromCacheStep ==
  ASSUME HybridInv, NEW c \in Calls, NEW p \in Prompts, FromCache(c, p)
  PROVE  HybridInv'
<1> DEFINE x    == prefix50[textOf[c]]
           refs == hcache[p][x]
<1>1. pc[c] \notin Over /\ textOf[c] \in TextsWith[p]
  BY PcFacts DEF FromCache
<1>2. textOf[c] \in HybridTexts /\ x \in Prefix50s
  BY <1>1 DEF HybridInv, CallInv, Started, Prefix50s, Over
<1>3. refs # NoAnswered
  BY DEF FromCache, Cached
<1>4. refs \in Seq(HybridRef)
  BY <1>2, <1>3 DEF HybridInv, HybridTypeOK
<1>5. \A r \in RefsIn(refs) : GivenInTime(r, p, x, timely)
  BY <1>2, <1>3 DEF HybridInv, CachedInTime
<1>6. CachedInTime'
  BY DEF HybridInv, CachedInTime, GivenInTime, Prefix50s, FromCache
<1>7. /\ timely' = timely /\ hcache' = hcache
      /\ timely \subseteq [prompt : Prompts, prefix : Prefix50s, ref : HybridRef]
      /\ hcache \in [Prompts -> [Prefix50s -> Seq(HybridRef) \cup {NoAnswered}]]
  BY DEF HybridInv, HybridTypeOK, FromCache
<1>8. /\ pc' = [pc EXCEPT ![c] = After(p)] /\ refMap' = [refMap EXCEPT ![c] = AddAll(@, refs)]
      /\ UNCHANGED <<config, textOf, late, starts>>
  BY DEF FromCache
<1> HIDE DEF refs
<1> QED
  BY <1>1, <1>4, <1>5, <1>6, <1>7, <1>8, AddStep

(* An answer in time is recorded as such before it is cached.              *)
LEMMA AnswerStep ==
  ASSUME HybridInv, NEW c \in Calls, NEW p \in Prompts, NEW a \in Parsed[p][textOf[c]], Answer(c, p, a)
  PROVE  HybridInv'
<1> DEFINE t     == textOf[c]
           x     == prefix50[t]
           given == Answered(p, t, a)
<1>1. pc[c] = Waiting(p) /\ pc[c] \notin Over
  BY PcFacts DEF Answer
<1>2. t \in HybridTexts /\ x \in Prefix50s /\ t \in TextsWith[p]
  BY <1>1 DEF HybridInv, CallInv, Started, Prefix50s, Over
<1>3. a \in Seq(HybridRef)
  BY <1>2, HybridAssumption
<1>4. /\ timely' = timely \cup given
      /\ hcache' = hcache \/ hcache' = [hcache EXCEPT ![p][x] = a]
      /\ pc' = [pc EXCEPT ![c] = After(p)] /\ refMap' = [refMap EXCEPT ![c] = AddAll(@, a)]
      /\ UNCHANGED <<config, textOf, late, starts>>
  BY DEF Answer
<1>5. \A r \in RefsIn(a) : GivenInTime(r, p, x, timely')
  <2> SUFFICES ASSUME NEW r \in RefsIn(a) PROVE \E g \in timely' : g.ref = r /\ g.prompt = p /\ g.prefix = x
    BY DEF GivenInTime
  <2>1. [prompt |-> p, prefix |-> x, ref |-> r] \in given
    BY DEF Answered
  <2> QED
    BY <1>4, <2>1
<1>6. timely' \subseteq [prompt : Prompts, prefix : Prefix50s, ref : HybridRef]
  <2>1. \A r \in RefsIn(a) : r \in HybridRef
    BY <1>3, RefsInElements
  <2>2. given \subseteq [prompt : Prompts, prefix : Prefix50s, ref : HybridRef]
    BY <1>2, <2>1 DEF Answered
  <2>3. timely \subseteq [prompt : Prompts, prefix : Prefix50s, ref : HybridRef]
    BY DEF HybridInv, HybridTypeOK
  <2> QED
    BY <1>4, <2>2, <2>3
<1>7. hcache \in [Prompts -> [Prefix50s -> Seq(HybridRef) \cup {NoAnswered}]]
  BY DEF HybridInv, HybridTypeOK
<1> HIDE DEF given
<1>8. hcache' \in [Prompts -> [Prefix50s -> Seq(HybridRef) \cup {NoAnswered}]]
  <2> DEFINE V == Seq(HybridRef) \cup {NoAnswered}
             row == [hcache[p] EXCEPT ![x] = a]
  <2>1. a \in V
    BY <1>3
  <2> HIDE DEF V
  <2>2. hcache \in [Prompts -> [Prefix50s -> V]]
    BY <1>7 DEF V
  <2>3. row \in [Prefix50s -> V]
    BY <1>2, <2>1, <2>2
  <2>4. hcache' = hcache \/ hcache' = [hcache EXCEPT ![p] = row]
    BY <1>4
  <2> HIDE DEF row
  <2>5. hcache' \in [Prompts -> [Prefix50s -> V]]
    BY <2>2, <2>3, <2>4
  <2> QED
    BY <2>5 DEF V
<1>9. CachedInTime'
  <2> SUFFICES ASSUME NEW q \in Prompts, NEW y \in Prefix50s,
                      hcache'[q][y] # NoAnswered, NEW r \in RefsIn(hcache'[q][y])
               PROVE  GivenInTime(r, q, y, timely')
    BY DEF CachedInTime, GivenInTime, Prefix50s
  <2>1. hcache'[q][y] = hcache[q][y] \/ (q = p /\ y = x /\ hcache'[q][y] = a)
    BY <1>2, <1>4, <1>7
  <2>2. CASE hcache'[q][y] = hcache[q][y]
    <3>1. GivenInTime(r, q, y, timely)
      BY <2>2 DEF HybridInv, CachedInTime
    <3> QED
      BY <1>4, <3>1 DEF GivenInTime
  <2>3. CASE q = p /\ y = x /\ hcache'[q][y] = a
    BY <1>5, <2>3
  <2> QED
    BY <2>1, <2>2, <2>3
<1>10. timely \subseteq timely'
  BY <1>4
<1> QED
  BY <1>1, <1>2, <1>3, <1>4, <1>5, <1>6, <1>8, <1>9, <1>10, AddStep

(* Validation only deletes references.                                     *)
LEMMA ValidationStep ==
  ASSUME HybridInv, NEW c \in Calls, NEW verdicts, pc[c] = "validating",
         RemoveRejected(c, verdicts), pc' = [pc EXCEPT ![c] = "returned"],
         UNCHANGED <<config, hcache, textOf, late, starts, timely>>
  PROVE  HybridInv'
<1> DEFINE map == refMap[c]
           bad == {map[i].key : i \in {j \in Validated(map) : ~Accepts(verdicts[j])}}
<1>1. map \in Seq(HybridRef)
  BY DEF HybridInv, HybridTypeOK
<1>2. refMap' = [refMap EXCEPT ![c] = Kept(map, bad)]
  BY DEF RemoveRejected
<1> HIDE DEF bad
<1>3. Kept(map, bad) \in Seq(HybridRef) /\ RefsIn(Kept(map, bad)) \subseteq RefsIn(map)
  BY <1>1, KeptProperties
<1>4. CachedInTime'
  BY DEF HybridInv, CachedInTime, GivenInTime, Prefix50s
<1>5. /\ timely \subseteq timely' /\ timely' \subseteq [prompt : Prompts, prefix : Prefix50s, ref : HybridRef]
      /\ hcache' \in [Prompts -> [Prefix50s -> Seq(HybridRef) \cup {NoAnswered}]]
      /\ late' \subseteq [prompt : Prompts, text : HybridTexts]
  BY DEF HybridInv, HybridTypeOK
<1>6. pc[c] \notin Over /\ UNCHANGED <<config, textOf, starts>>
  BY DEF Over
<1>7. "returned" \in Steps /\ \A p \in Prompts : "returned" # Waiting(p)
  BY PcFacts
<1> QED
  BY <1>2, <1>3, <1>4, <1>5, <1>6, <1>7, CallStep

-----------------------------------------------------------------------------
(* The theorems.                                                           *)

(* A new detector has no calls and an empty cache.                         *)
LEMMA HybridInitInv == HybridInit => HybridInv
<1> SUFFICES ASSUME HybridInit PROVE HybridInv
  OBVIOUS
<1>1. RefsIn(<<>>) = {}
  BY DEF RefsIn
<1>2. HybridTypeOK
  BY HybridAssumption DEF HybridInit, HybridTypeOK
<1>3. CallInv
  BY PcFacts DEF HybridInit, CallInv, Started, Over
<1>4. CachedInTime
  BY DEF HybridInit, CachedInTime
<1>5. OnlyTimelyAnswers
  BY <1>1 DEF HybridInit, OnlyTimelyAnswers
<1> QED
  BY <1>2, <1>3, <1>4, <1>5 DEF HybridInv

(* The steps of a call that need no answer.                                *)
LEMMA OwnStepInv ==
  ASSUME HybridInv, NEW c \in Calls, OwnStep(c)
  PROVE  HybridInv'
<1>0. late \subseteq [prompt : Prompts, text : HybridTexts]
  BY DEF HybridInv, HybridTypeOK
<1>1. ASSUME NEW p \in Prompts, SkipPrompt(c, p) PROVE HybridInv'
  <2>1. pc[c] \notin Over /\ After(p) \in Steps /\ \A q \in Prompts : After(p) # Waiting(q)
    BY <1>1, PcFacts DEF SkipPrompt
  <2> QED
    BY <1>0, <1>1, <2>1, QuietStep DEF SkipPrompt
<1>2. ASSUME NEW p \in Prompts, AskModel(c, p) PROVE HybridInv'
  <2>1. /\ pc[c] \notin Over /\ Waiting(p) \in Steps
        /\ \A q \in Prompts : Waiting(p) = Waiting(q) => textOf[c] \in TextsWith[q]
    BY <1>2, PcFacts DEF AskModel
  <2> QED
    BY <1>0, <1>2, <2>1, QuietStep DEF AskModel
<1>3. ASSUME NEW p \in Prompts, Timeout(c, p) PROVE HybridInv'
  <2>1. pc[c] \notin Over /\ After(p) \in Steps /\ \A q \in Prompts : After(p) # Waiting(q)
    BY <1>3, PcFacts DEF Timeout
  <2>2. textOf[c] \in HybridTexts
    BY <2>1 DEF HybridInv, CallInv, Started, Over
  <2>3. late' \subseteq [prompt : Prompts, text : HybridTexts]
    BY <1>0, <1>3, <2>2 DEF Timeout
  <2> QED
    BY <1>3, <2>1, <2>3, QuietStep DEF Timeout
<1>4. CASE SkipValidation(c)
  <2>1. pc[c] \notin Over /\ "returned" \in Steps /\ \A q \in Prompts : "returned" # Waiting(q)
    BY <1>4, PcFacts DEF SkipValidation, Over
  <2> QED
    BY <1>0, <1>4, <2>1, QuietStep DEF SkipValidation
<1>5. CASE AskValidation(c)
  <2>1. pc[c] \notin Over /\ "validating" \in Steps /\ \A q \in Prompts : "validating" # Waiting(q)
    BY <1>5, PcFacts DEF AskValidation, Over
  <2> QED
    BY <1>0, <1>5, <2>1, QuietStep DEF AskValidation
<1> QED
  BY <1>1, <1>2, <1>3, <1>4, <1>5, FromCacheStep DEF OwnStep

(* A step that leaves all calls alone: the cache loses entries or stays.   *)
LEMMA OutsideStep ==
  ASSUME HybridInv, config' \in Configs, late' \subseteq late,
         hcache' = hcache \/ hcache' = [p \in Prompts |-> [x \in Prefix50s |-> NoAnswered]],
         UNCHANGED <<pc, textOf, refMap, starts, timely>>
  PROVE  HybridInv'
<1>1. HybridTypeOK'
  <2>1. hcache' \in [Prompts -> [Prefix50s -> Seq(HybridRef) \cup {NoAnswered}]]
    BY DEF HybridInv, HybridTypeOK
  <2> QED
    BY <2>1 DEF HybridInv, HybridTypeOK
<1>2. CachedInTime'
  <2> SUFFICES ASSUME NEW p \in Prompts, NEW x \in Prefix50s,
                      hcache'[p][x] # NoAnswered, NEW r \in RefsIn(hcache'[p][x])
               PROVE  GivenInTime(r, p, x, timely)
    BY DEF CachedInTime, GivenInTime, Prefix50s
  <2>1. hcache' = hcache
    OBVIOUS
  <2> QED
    BY <2>1 DEF HybridInv, CachedInTime
<1>3. pc' = pc /\ textOf' = textOf /\ refMap' = refMap /\ timely' = timely
  OBVIOUS
<1>4. CallInv'
  BY <1>3 DEF HybridInv, CallInv, Started, Waiting
<1>5. OnlyTimelyAnswers'
  BY <1>3 DEF HybridInv, OnlyTimelyAnswers
<1> QED
  BY <1>1, <1>2, <1>4, <1>5 DEF HybridInv

(* Every step of the detector keeps the invariant.                         *)
LEMMA HybridNextInv == HybridInv /\ [HybridNext]_hybridVars => HybridInv'
<1> SUFFICES ASSUME HybridInv, [HybridNext]_hybridVars PROVE HybridInv'
  OBVIOUS
<1>0. config \in Configs
  BY DEF HybridInv, HybridTypeOK
<1>1. ASSUME NEW c \in Calls, NEW t \in HybridTexts, StartHybrid(c, t) PROVE HybridInv'
  BY <1>1, StartStep
<1>2. ASSUME NEW c \in Calls, OwnStep(c) PROVE HybridInv'
  BY <1>2, OwnStepInv
<1>3. ASSUME NEW c \in Calls, NEW p \in Prompts, NEW a \in Parsed[p][textOf[c]], Answer(c, p, a)
      PROVE  HybridInv'
  BY <1>3, AnswerStep
<1>4. ASSUME NEW c \in Calls, ValidationAnswered(c) PROVE HybridInv'
  <2>1. PICK verdicts \in [Validated(refMap[c]) -> Verdicts] : RemoveRejected(c, verdicts)
    BY <1>4 DEF ValidationAnswered
  <2> QED
    BY <1>4, <2>1, ValidationStep DEF ValidationAnswered
<1>5. ASSUME NEW c \in Calls, ValidationFailed(c) PROVE HybridInv'
  BY <1>5, ValidationStep DEF ValidationFailed
<1>6. ASSUME NEW q \in late, NEW a \in Parsed[q.prompt][q.text], LateAnswer(q, a) PROVE HybridInv'
  BY <1>0, <1>6, OutsideStep DEF LateAnswer
<1>7. CASE clearCache
  BY <1>0, <1>7, OutsideStep DEF clearCache
<1>8. ASSUME NEW new \in Configs, updateConfig(new) PROVE HybridInv'
  BY <1>8, OutsideStep DEF updateConfig
<1>9. CASE UNCHANGED hybridVars
  BY <1>0, <1>9, OutsideStep DEF hybridVars
<1>10. CASE HybridNext
  <2>1. CASE \E c \in Calls :
               \/ \E t \in HybridTexts : StartHybrid(c, t)
               \/ OwnStep(c)
               \/ \E p \in Prompts : textOf[c] # NoText /\ \E a \in Parsed[p][textOf[c]] : Answer(c, p, a)
               \/ ValidationAnswered(c) \/ ValidationFailed(c)
    BY <1>1, <1>2, <1>3, <1>4, <1>5, <2>1
  <2> QED
    BY <1>6, <1>7, <1>8, <1>10, <2>1 DEF HybridNext
<1> QED
  BY <1>9, <1>10

(* The inductive invariant holds whatever overlaps: calls, late answers,   *)
(* changes of the configuration and clearing of the cache.                 *)
THEOREM HybridInvariant == HybridSpec => []HybridInv
  BY HybridInitInv, HybridNextInv, PTL DEF HybridSpec

(* Type correctness of the hybrid detector.                                *)
THEOREM HybridTypeCorrect == HybridSpec => []HybridTypeOK
<1>1. HybridInv => HybridTypeOK
  BY DEF HybridInv
<1> QED
  BY <1>1, HybridInvariant, PTL

(* An answer of the language model that comes after the timeout reaches no *)
(* call, not even through the cache, and what does reach one answers a     *)
(* question its own text asks, about the same first 50 characters.         *)
THEOREM LateAnswersReachNoCall == HybridSpec => []OnlyTimelyAnswers
<1>1. HybridInv => OnlyTimelyAnswers
  BY DEF HybridInv
<1> QED
  BY <1>1, HybridInvariant, PTL

-----------------------------------------------------------------------------
(* The detector with a context.                                            *)

(* The kinds of matches.                                                   *)
LEMMA KindNames ==
  /\ Range(PatternOrder) = {"lawName", "lawNumbered", "lawArticle", "lawArticleKanji", "termArticle",
                            "article", "thisLaw", "relative", "range", "term", "pairArticle", "local",
                            "abbreviation"}
  /\ Range(ContextOrder) = {"sameLaw", "thisLaw", "sameArticle", "appendix", "thatRule"}
  /\ Range(LlmOrder) = {"sameLaw", "thatRule", "vague", "application"}
<1>1. Range(PatternOrder) = {PatternOrder[i] : i \in 1..13}
  BY DEF PatternOrder, Range
<1>2. \A i \in 1..13 : \/ i = 1 \/ i = 2 \/ i = 3 \/ i = 4 \/ i = 5 \/ i = 6 \/ i = 7 \/ i = 8
                       \/ i = 9 \/ i = 10 \/ i = 11 \/ i = 12 \/ i = 13
  OBVIOUS
<1>3. /\ 1 \in 1..13 /\ 2 \in 1..13 /\ 3 \in 1..13 /\ 4 \in 1..13 /\ 5 \in 1..13 /\ 6 \in 1..13
      /\ 7 \in 1..13 /\ 8 \in 1..13 /\ 9 \in 1..13 /\ 10 \in 1..13 /\ 11 \in 1..13 /\ 12 \in 1..13
      /\ 13 \in 1..13
  OBVIOUS
<1>4. /\ PatternOrder[1] = "lawName" /\ PatternOrder[2] = "lawNumbered" /\ PatternOrder[3] = "lawArticle"
      /\ PatternOrder[4] = "lawArticleKanji" /\ PatternOrder[5] = "termArticle" /\ PatternOrder[6] = "article"
      /\ PatternOrder[7] = "thisLaw" /\ PatternOrder[8] = "relative" /\ PatternOrder[9] = "range"
      /\ PatternOrder[10] = "term" /\ PatternOrder[11] = "pairArticle" /\ PatternOrder[12] = "local"
      /\ PatternOrder[13] = "abbreviation"
  BY DEF PatternOrder
<1>5. Range(PatternOrder) = {"lawName", "lawNumbered", "lawArticle", "lawArticleKanji", "termArticle",
                             "article", "thisLaw", "relative", "range", "term", "pairArticle", "local",
                             "abbreviation"}
  <2>1. \A x \in Range(PatternOrder) : \E i \in 1..13 : x = PatternOrder[i]
    BY <1>1
  <2>2. \A i \in 1..13 : PatternOrder[i] \in Range(PatternOrder)
    BY <1>1
  <2>3. \A x \in Range(PatternOrder) :
          x \in {"lawName", "lawNumbered", "lawArticle", "lawArticleKanji", "termArticle",
                 "article", "thisLaw", "relative", "range", "term", "pairArticle", "local",
                 "abbreviation"}
    BY <1>2, <1>4, <2>1
  <2> QED
    BY <1>3, <1>4, <2>2, <2>3
<1>6. Range(ContextOrder) = {"sameLaw", "thisLaw", "sameArticle", "appendix", "thatRule"}
  BY DEF ContextOrder, Range
<1>7. Range(LlmOrder) = {"sameLaw", "thatRule", "vague", "application"}
  BY DEF LlmOrder, Range
<1> QED
  BY <1>5, <1>6, <1>7

-----------------------------------------------------------------------------
(* What a detector may say of text t in law, having heard of the laws hd.  *)
Allowed(t, law, hd) ==
  {r \in Reference :
     \/ r.kind = "llm"
     \/ r.law \in {NoLaw, law} \cup LawsIn(t, law)
     \/ r.kind \in {"sameLaw", "term", "termArticle", "abbreviation"} /\ r.law \in hd \cup {DefaultLaw}}

(* The context of a call for text t.                                       *)
CallContext(c, t, hd) ==
  /\ c.law \in Laws \cup {NoLaw}
  /\ c.article \in Nat \cup {NoArticle}
  /\ c.recent \in Seq([law : Laws \cap hd, at : Nat])
  /\ c.defs \in [Terms -> Definitions((Laws \cup {NoLaw}) \cap hd)]

(* The matches of a text, all of them and in the order of the patterns.    *)
LEMMA MatchesOfText ==
  ASSUME NEW t \in Texts
  PROVE  /\ Found[t] \in Seq(Range(Found[t])) /\ DOMAIN Found[t] = 1..Len(Found[t]) /\ Len(Found[t]) \in Nat
         /\ \A i \in DOMAIN Found[t] : Found[t][i] \in Range(Found[t])
         /\ \A m \in Range(Found[t]) : IsMatch(m) /\ \E i \in DOMAIN Found[t] : m = Found[t][i]
<1>1. Found[t] \in Seq(Range(Found[t])) /\ \A m \in Range(Found[t]) : IsMatch(m)
  BY ContextAssumption
<1> QED
  BY <1>1 DEF Range

LEMMA OrderedMatches ==
  ASSUME NEW t \in Texts, NEW S, NEW order \in Seq(S)
  PROVE  LET some == InOrder(order)[t]
         IN  /\ some \in Seq({m \in Range(Found[t]) : m.kind \in Range(order)})
             /\ \A m \in Range(Found[t]) : m.kind \in Range(order) => \E k \in DOMAIN some : some[k] = m
<1> DEFINE M == Range(Found[t])
           at(k) == {i \in DOMAIN Found[t] : Found[t][i].kind = k}
           seqs == [i \in DOMAIN order |-> OfKind(t, order[i])]
           some == InOrder(order)[t]
           K == {m \in M : m.kind \in Range(order)}
<1>1. /\ Found[t] \in Seq(M) /\ \A i \in DOMAIN Found[t] : Found[t][i] \in M
      /\ \A m \in M : \E i \in DOMAIN Found[t] : m = Found[t][i]
  BY MatchesOfText
<1>2. ASSUME NEW k PROVE /\ OfKind(t, k) \in Seq(M)
                         /\ \A n \in DOMAIN OfKind(t, k) : OfKind(t, k)[n] \in M /\ OfKind(t, k)[n].kind = k
                         /\ \A m \in M : m.kind = k => \E n \in DOMAIN OfKind(t, k) : OfKind(t, k)[n] = m
  <2> DEFINE s == OfKind(t, k)
  <2>1. s = AtPositions(Found[t], at(k)) /\ at(k) \in SUBSET DOMAIN Found[t]
    BY DEF OfKind
  <2> HIDE DEF s, M
  <2>2. /\ s \in Seq(M)
        /\ \A n \in DOMAIN s : \E i \in at(k) : s[n] = Found[t][i]
        /\ \A i \in at(k) : \E n \in DOMAIN s : s[n] = Found[t][i]
    <3> HIDE DEF at
    <3> QED
      BY <1>1, <2>1, AtPositionsProperties
  <2>3. \A n \in DOMAIN s : s[n] \in M /\ s[n].kind = k
    BY <1>1, <2>2
  <2>4. \A m \in M : m.kind = k => \E n \in DOMAIN s : s[n] = m
    BY <1>1, <2>2
  <2> QED
    BY <2>2, <2>3, <2>4 DEF s
<1> HIDE DEF M
<1>3. /\ Len(order) \in Nat /\ DOMAIN order = 1..Len(order) /\ \A i \in DOMAIN order : order[i] \in Range(order)
      /\ \A k \in Range(order) : \E i \in DOMAIN order : order[i] = k
  BY DEF Range
<1>4. seqs \in Seq(Seq(K))
  <2>1. ASSUME NEW i \in DOMAIN order PROVE OfKind(t, order[i]) \in Seq(K)
    <3> DEFINE s == OfKind(t, order[i])
    <3>1. s \in Seq(M) /\ \A n \in DOMAIN s : s[n] \in K
      BY <1>2, <1>3
    <3> HIDE DEF s, K
    <3>2. Len(s) \in Nat /\ DOMAIN s = 1..Len(s) /\ s = [n \in 1..Len(s) |-> s[n]]
      BY <3>1
    <3>3. s \in [1..Len(s) -> K]
      BY <3>1, <3>2
    <3> QED
      BY <3>2, <3>3 DEF s
  <2> HIDE DEF K
  <2> QED
    BY <1>3, <2>1
<1>5. some = FlattenSeq(seqs)
  BY DEF InOrder
<1>6. DOMAIN seqs = DOMAIN order /\ \A i \in DOMAIN order : seqs[i] = OfKind(t, order[i])
  OBVIOUS
<1> HIDE DEF seqs, some
<1>7. /\ some \in Seq(K)
      /\ \A i \in DOMAIN seqs : \A n \in DOMAIN seqs[i] : \E k \in DOMAIN some : some[k] = seqs[i][n]
  <2> HIDE DEF K
  <2> QED
    BY <1>4, <1>5, FlattenProperties
<1>8. ASSUME NEW m \in M, m.kind \in Range(order) PROVE \E k \in DOMAIN some : some[k] = m
  <2>1. PICK i \in DOMAIN order : order[i] = m.kind
    BY <1>3, <1>8
  <2>2. PICK n \in DOMAIN seqs[i] : seqs[i][n] = m
    BY <1>2, <1>6, <2>1
  <2> QED
    BY <1>6, <1>7, <2>2
<1> QED
  BY <1>7, <1>8 DEF some, M

-----------------------------------------------------------------------------
(* The phases, match by match.                                             *)

(* What a match becomes is a reference with its kind and place.            *)
LEMMA RefProperties ==
  ASSUME NEW m, IsMatch(m), NEW law \in Laws \cup {NoLaw}, NEW article \in Nat \cup {NaN, NoArticle}
  PROVE  /\ m.kind \in Range(PatternOrder) \cup Range(ContextOrder) => Ref(m, law, article) \in Reference
         /\ [Ref(m, law, article) EXCEPT !.kind = "llm"] \in Reference
         /\ [Ref(m, law, article) EXCEPT !.kind = "llm"].kind = "llm"
         /\ Ref(m, law, article).law = law /\ Ref(m, law, article).kind = m.kind
         /\ Ref(m, law, article).at = m.at
  BY DEF Ref, Reference, IsMatch

(* A relative word stays in the law of the context.                        *)
LEMMA ResolvedInLaw ==
  ASSUME NEW w \in Word, w.unit = "article" => w.dir # "all",
         NEW law, NEW article \in Nat \cup {NaN}, NaN \notin Nat
  PROVE  LET r == resolve(w, [lawId |-> law, paragraph |-> 1, article |-> article])
         IN  r # Unresolved => r.lawId = law /\ r.article \in Nat \cup {NaN}
<1> DEFINE ctx == [lawId |-> law, paragraph |-> 1, article |-> article]
           Good(r) == r.lawId = law /\ r.article \in Nat \cup {NaN}
<1>1. ctx.lawId = law /\ ctx.article = article /\ ctx.paragraph = 1
  OBVIOUS
<1>2. /\ w.unit \in {"article", "paragraph", "item"} /\ w.dir \in {"prev", "next", "all", "same", "each"}
      /\ w.n \in Nat /\ w.para \in Nat
  BY DEF Word
<1> HIDE DEF ctx
<1>3. \A a \in Nat \cup {NaN} : \A p, s : Good(At(ctx, a, p, s))
  BY <1>1 DEF At
<1>4. ASSUME NEW v, v.dir \in {"prev", "next"}, v.n \in Nat
      PROVE  Good(resolveArticleRelative(v, ctx)) /\ resolveArticleRelative(v, ctx).article \in Nat \cup {NaN}
  <2>1. CASE article = NaN
    BY <1>1, <1>3, <2>1 DEF resolveArticleRelative
  <2>2. CASE article # NaN
    <3>0. article \in Nat
      BY <2>2
    <3>1. /\ article > 1 => article - 1 \in Nat
          /\ AtLeastOne(article - v.n) \in Nat /\ article + AtLeastOne(v.n) \in Nat
      BY <1>4, <3>0 DEF AtLeastOne
    <3>2. CASE v.dir = "prev" /\ v.n = 0
      <4>1. resolveArticleRelative(v, ctx) =
              IF article <= 1 THEN At(ctx, article, 0, FALSE) ELSE At(ctx, article - 1, 0, TRUE)
        BY <1>1, <2>2, <3>2 DEF resolveArticleRelative
      <4>2. article <= 1 \/ article > 1
        BY <3>0
      <4> QED
        BY <1>3, <3>0, <3>1, <4>1, <4>2
    <3>3. CASE v.dir = "prev" /\ v.n > 0
      <4>1. v.n # 0
        BY <3>3
      <4>2. resolveArticleRelative(v, ctx) = At(ctx, AtLeastOne(article - v.n), 0, TRUE)
        BY <1>1, <2>2, <3>3, <4>1 DEF resolveArticleRelative
      <4> QED
        BY <1>3, <3>1, <4>2
    <3>4. CASE v.dir = "next"
      BY <1>1, <1>3, <3>0, <3>1, <3>4, <2>2 DEF resolveArticleRelative
    <3> QED
      BY <1>4, <3>2, <3>3, <3>4
  <2> QED
    BY <2>1, <2>2
<1>5. CASE w.unit = "item" /\ w.dir # "each"
  BY <1>5 DEF resolve, ctx
<1>6. CASE w.dir \in {"same", "each"} /\ ~ (w.unit = "item" /\ w.dir # "each")
  <2>1. resolve(w, ctx) = resolveSameReference(w, ctx)
    BY <1>6 DEF resolve
  <2>2. \E p : resolveSameReference(w, ctx) = At(ctx, article, p, TRUE)
    BY <1>1 DEF resolveSameReference
  <2>3. Good(resolveSameReference(w, ctx))
    BY <1>3, <2>2
  <2> QED
    BY <2>1, <2>3 DEF ctx
<1>7. CASE w.unit = "article" /\ w.dir \in {"prev", "next"} /\ w.para = 0
  <2>1. resolve(w, ctx) = resolveArticleRelative(w, ctx)
    BY <1>7 DEF resolve
  <2> QED
    BY <1>2, <1>4, <1>7, <2>1 DEF ctx
<1>8. CASE w.unit = "article" /\ w.dir \in {"prev", "next"} /\ w.para > 0
  <2> DEFINE v == [w EXCEPT !.n = 0]
  <2>1. resolve(w, ctx) = resolveComplexRelative(w, ctx)
    BY <1>8 DEF resolve
  <2>2. v.dir \in {"prev", "next"} /\ v.n \in Nat
    BY <1>8 DEF Word
  <2> HIDE DEF v
  <2>3. resolveArticleRelative(v, ctx).article \in Nat \cup {NaN}
    BY <1>4, <2>2
  <2>4. resolveComplexRelative(w, ctx) = Unresolved \/ Good(resolveComplexRelative(w, ctx))
    BY <1>3, <2>3 DEF resolveComplexRelative, v
  <2> QED
    BY <2>1, <2>4 DEF ctx
<1>9. CASE w.unit = "paragraph" /\ w.dir \in {"prev", "next", "all"}
  <2>1. resolve(w, ctx) = resolveParagraphRelative(w, ctx)
    BY <1>9 DEF resolve
  <2>2. Good(resolveParagraphRelative(w, ctx))
    <3>1. CASE w.dir = "prev" /\ w.n = 0
      BY <1>1, <1>3, <3>1 DEF resolveParagraphRelative
    <3>2. CASE w.dir = "prev" /\ w.n > 0
      BY <1>1, <1>3, <3>2 DEF resolveParagraphRelative
    <3>3. CASE w.dir = "next"
      BY <1>1, <1>3, <3>3 DEF resolveParagraphRelative
    <3>4. CASE w.dir = "all"
      BY <1>1, <1>3, <3>4 DEF resolveParagraphRelative
    <3> QED
      BY <1>2, <1>9, <3>1, <3>2, <3>3, <3>4
  <2> QED
    BY <2>1, <2>2 DEF ctx
<1> QED
  BY <1>2, <1>5, <1>6, <1>7, <1>8, <1>9

(* Phase 1 says of a match only what is allowed, and never 同法.           *)
LEMMA ByPatternAllowed ==
  ASSUME NEW t \in Texts, NEW m \in Range(Found[t]), m.kind \in Range(PatternOrder),
         NEW hd, NEW c, CallContext(c, t, hd), NEW refs
  PROVE  ByPattern(m, refs, c) \in Seq({r \in Allowed(t, c.law, hd) : r.kind # "sameLaw"})
<1> DEFINE A == {r \in Allowed(t, c.law, hd) : r.kind # "sameLaw"}
           law == findLawId(m, c.law)
           Articled == Nat \cup {NaN, NoArticle}
<1>1. IsMatch(m) /\ NaN \notin Nat /\ DefaultLaw \in Laws
  BY MatchesOfText, ContextAssumption
<1>2. /\ c.law \in Laws \cup {NoLaw} /\ c.article \in Nat \cup {NoArticle}
      /\ c.defs \in [Terms -> Definitions((Laws \cup {NoLaw}) \cap hd)]
  BY DEF CallContext
<1>3. m.kind \in LawKinds => law \in Laws \cup {NoLaw} /\ law \in LawsIn(t, c.law)
  BY <1>1, <1>2 DEF IsMatch, findLawId, LawsIn
<1>4. m.kind # "sameLaw" /\ m.kind # "llm"
  BY KindNames
<1>5. ASSUME NEW l \in Laws \cup {NoLaw}, NEW a \in Articled,
             \/ l \in {NoLaw, c.law} \cup LawsIn(t, c.law)
             \/ m.kind \in {"term", "termArticle", "abbreviation"} /\ l \in hd \cup {DefaultLaw}
      PROVE  Ref(m, l, a) \in A /\ <<Ref(m, l, a)>> \in Seq(A)
  <2>1. Ref(m, l, a) \in Reference /\ Ref(m, l, a).law = l /\ Ref(m, l, a).kind = m.kind
    <3>1. a \in Nat \cup {NaN, NoArticle} /\ m.kind \in Range(PatternOrder) \cup Range(ContextOrder)
      OBVIOUS
    <3> HIDE DEF A, Articled, law
    <3> QED
      BY <1>1, <3>1 DEF Ref, Reference, IsMatch
  <2>2. Ref(m, l, a) \in A
    BY <1>4, <1>5, <2>1 DEF Allowed
  <2> HIDE DEF A
  <2> QED
    BY <2>2
<1>6. \A condition : \A s : (condition => s \in Seq(A)) => When(condition, s) \in Seq(A)
  <2>1. <<>> \in Seq(A)
    OBVIOUS
  <2> HIDE DEF A
  <2> QED
    BY <2>1 DEF When
<1>7. m.kind \notin Unnumbered => m.num \in Articled
  BY <1>1 DEF IsMatch
<1>8. NoArticle \in Articled /\ c.law \in {NoLaw, c.law} /\ NoLaw \in {NoLaw, c.law}
  OBVIOUS
<1> HIDE DEF A, law, Articled
<1>9. CASE m.kind \in NameKinds
  <2>1. m.kind \in LawKinds
    BY <1>9 DEF LawKinds
  <2>2. ByPattern(m, refs, c) = When(Known(law), <<Ref(m, law, NoArticle)>>)
    BY <1>9 DEF ByPattern, law, NameKinds
  <2> QED
    BY <1>3, <1>5, <1>6, <1>8, <2>1, <2>2 DEF A
<1>10. CASE m.kind = "lawArticle"
  <2>1. m.kind \in LawKinds /\ m.kind \notin NameKinds /\ m.kind \notin Unnumbered
    BY <1>10 DEF LawKinds, NameKinds, Unnumbered
  <2>2. ByPattern(m, refs, c) = When(Known(law) /\ law # c.law, <<Ref(m, law, m.num)>>)
    BY <1>10, <2>1 DEF ByPattern, law
  <2> QED
    BY <1>3, <1>5, <1>6, <1>7, <2>1, <2>2 DEF A
<1>11. CASE m.kind = "lawArticleKanji"
  <2>1. m.kind \in LawKinds /\ m.kind \notin NameKinds /\ m.kind \notin Unnumbered
    BY <1>11 DEF LawKinds, NameKinds, Unnumbered
  <2> DEFINE when == /\ Known(law) /\ m.num <= maxArticle[law]
                     /\ ~\E r \in Range(refs) : r.kind = "lawNumbered" /\ r.law = law
  <2>2. ByPattern(m, refs, c) = When(when, <<Ref(m, law, m.num)>>)
    BY <1>11, <2>1 DEF ByPattern, law
  <2> HIDE DEF when
  <2> QED
    BY <1>3, <1>5, <1>6, <1>7, <2>1, <2>2 DEF A
<1>12. CASE m.kind = "termArticle"
  <2>1. m.kind \notin NameKinds /\ m.kind \notin Unnumbered /\ m.term \in Terms
    BY <1>1, <1>12 DEF NameKinds, Unnumbered, IsMatch, TermKinds
  <2> DEFINE l == ArticleLaw(c.defs[m.term], c)
  <2>2. ByPattern(m, refs, c) = <<Ref(m, l, m.num)>>
    BY <1>12, <2>1 DEF ByPattern
  <2>3. l = c.law \/ l \in (Laws \cup {NoLaw}) \cap hd
    BY <1>2, <2>1 DEF ArticleLaw, DefinedLaw, Definitions
  <2> HIDE DEF l
  <2>4. l \in Laws \cup {NoLaw}
    BY <1>2, <2>3
  <2> QED
    BY <1>5, <1>7, <1>12, <2>1, <2>2, <2>3, <2>4 DEF A
<1>13. CASE m.kind = "article"
  <2>1. m.kind \notin NameKinds /\ m.kind \notin Unnumbered
    BY <1>13 DEF NameKinds, Unnumbered
  <2> DEFINE when == ~\E r \in Range(refs) : r.placed /\ r.at = m.at
  <2>2. ByPattern(m, refs, c) = When(when, <<Ref(m, c.law, m.num)>>)
    BY <1>13, <2>1 DEF ByPattern
  <2>3. <<Ref(m, c.law, m.num)>> \in Seq(A)
    BY <1>2, <1>5, <1>7, <1>8, <2>1
  <2> HIDE DEF when
  <2> QED
    BY <1>6, <2>2, <2>3 DEF A
<1>14. CASE m.kind = "thisLaw"
  <2>1. m.kind \notin NameKinds /\ m.kind \notin Unnumbered
    BY <1>14 DEF NameKinds, Unnumbered
  <2> DEFINE r == Ref(m, c.law, m.num)
             s == [r EXCEPT !.at = 0, !.placed = FALSE]
  <2>2. ByPattern(m, refs, c) = <<s>>
    BY <1>14, <2>1 DEF ByPattern
  <2>3. r \in A
    BY <1>2, <1>5, <1>7, <1>8, <2>1 DEF A
  <2> HIDE DEF r
  <2>4. s \in Reference /\ s.kind = r.kind /\ s.law = r.law
    BY <2>3 DEF A, Allowed, Reference
  <2>5. s \in A
    <3> HIDE DEF s
    <3> QED
      BY <2>3, <2>4 DEF A, Allowed
  <2> HIDE DEF s
  <2>6. <<s>> \in Seq(A)
    BY <2>5
  <2> QED
    BY <2>2, <2>6 DEF A
<1>15. CASE m.kind = "relative"
  <2>1. m.kind \notin NameKinds /\ m.rel \in Word /\ (m.rel.unit = "article" => m.rel.dir # "all")
    BY <1>1, <1>15 DEF NameKinds, IsMatch
  <2> DEFINE a == IF c.article = NoArticle THEN NaN ELSE c.article
             r == resolve(m.rel, [lawId |-> c.law, paragraph |-> 1, article |-> a])
  <2>2. ByPattern(m, refs, c) = <<RelativeRef(m, c)>>
    BY <1>15, <2>1 DEF ByPattern
  <2>3. RelativeRef(m, c) = IF r = Unresolved THEN Ref(m, c.law, NoArticle) ELSE Ref(m, r.lawId, r.article)
    BY DEF RelativeRef
  <2>4. a \in Nat \cup {NaN}
    BY <1>2
  <2>5. r # Unresolved => r.lawId = c.law /\ r.article \in Nat \cup {NaN}
    <3> HIDE DEF a
    <3> QED
      BY <1>1, <2>1, <2>4, ResolvedInLaw
  <2> HIDE DEF r
  <2>6. r # Unresolved => r.article \in Articled
    BY <2>5 DEF Articled
  <2> QED
    BY <1>2, <1>5, <1>8, <2>2, <2>3, <2>5, <2>6 DEF A
<1>16. CASE m.kind = "range"
  <2>1. m.kind \notin NameKinds /\ m.num \in Nat /\ m.to \in Nat /\ m.articleLen \in Nat
    BY <1>1, <1>16 DEF NameKinds, IsMatch
  <2> DEFINE part(i) == [Ref(m, c.law, m.num + i - 1) EXCEPT !.len = m.articleLen, !.kind = "article"]
             parts == [i \in 1..(m.to - m.num + 1) |-> part(i)]
  <2>2. ByPattern(m, refs, c) = <<Ref(m, c.law, m.num)>> \o When(m.expanded, parts)
    BY <1>16, <2>1 DEF ByPattern, RangeRefs
  <2>3. <<Ref(m, c.law, m.num)>> \in Seq(A)
    <3>1. m.num \in Articled
      BY <2>1 DEF Articled
    <3> QED
      BY <1>2, <1>5, <1>8, <3>1 DEF A
  <2>4. ASSUME NEW i \in 1..(m.to - m.num + 1) PROVE part(i) \in A
    <3> DEFINE r == Ref(m, c.law, m.num + i - 1)
    <3>1. m.num + i - 1 \in Nat
      BY <2>1
    <3>2. m.num + i - 1 \in Articled
      BY <3>1 DEF Articled
    <3>3. r \in A
      BY <1>2, <1>5, <1>8, <3>2 DEF A
    <3>4. r.law = c.law
      BY DEF Ref
    <3> HIDE DEF r
    <3> DEFINE s == [r EXCEPT !.len = m.articleLen, !.kind = "article"]
    <3>5. "article" \in Range(PatternOrder)
      BY KindNames
    <3>6. s \in Reference /\ s.kind = "article" /\ s.law = c.law
      BY <2>1, <3>3, <3>4, <3>5 DEF A, Allowed, Reference
    <3>7. s \in A
      <4> HIDE DEF s
      <4> QED
        BY <3>6 DEF A, Allowed
    <3> QED
      BY <3>7 DEF r
  <2>5. parts \in Seq(A)
    <3>1. CASE m.to - m.num + 1 \in Nat
      <4> HIDE DEF part
      <4> QED
        BY <2>4, <3>1
    <3>2. CASE m.to - m.num + 1 \notin Nat
      <4>1. 1..(m.to - m.num + 1) = 1..0
        BY <2>1, <3>2
      <4>2. parts \in [1..0 -> A]
        <5> HIDE DEF part
        <5> QED
          BY <2>4, <4>1
      <4> HIDE DEF parts
      <4> QED
        BY <4>2
    <3> QED
      BY <3>1, <3>2
  <2> HIDE DEF parts
  <2>6. When(m.expanded, parts) \in Seq(A)
    BY <1>6, <2>5
  <2> QED
    BY <2>2, <2>3, <2>6 DEF A
<1>17. CASE m.kind = "term"
  <2>1. m.kind \notin NameKinds /\ m.term \in Terms
    BY <1>1, <1>17 DEF NameKinds, IsMatch, TermKinds
  <2> DEFINE l == DefinedLaw(c.defs[m.term], c)
             k == IF Known(c.law) THEN c.law ELSE DefaultLaw
  <2>2. ByPattern(m, refs, c) = IF c.defs[m.term] # NoDefinition THEN <<Ref(m, l, NoArticle)>>
                                ELSE When(m.term \in NewOldTerms, <<Ref(m, k, NoArticle)>>)
    BY <1>17, <2>1 DEF ByPattern
  <2>3. /\ c.defs[m.term] # NoDefinition => l \in Laws \cup {NoLaw} /\ (l = c.law \/ l \in hd)
        /\ k \in Laws \cup {NoLaw} /\ (k = c.law \/ k = DefaultLaw)
    BY <1>1, <1>2, <2>1 DEF DefinedLaw, Definitions
  <2> HIDE DEF l, k
  <2>4. /\ c.defs[m.term] # NoDefinition => <<Ref(m, l, NoArticle)>> \in Seq(A)
        /\ <<Ref(m, k, NoArticle)>> \in Seq(A)
    BY <1>5, <1>8, <1>17, <2>3
  <2> QED
    BY <1>6, <2>2, <2>4 DEF A
<1>18. CASE m.kind = "pairArticle"
  <2>1. m.kind \in LawKinds /\ m.kind \notin NameKinds /\ m.kind \notin Unnumbered
    BY <1>18 DEF LawKinds, NameKinds, Unnumbered
  <2>2. ByPattern(m, refs, c) = When(Known(law), <<Ref(m, law, m.num)>>)
    BY <1>18, <2>1 DEF ByPattern, law
  <2> QED
    BY <1>3, <1>5, <1>6, <1>7, <2>1, <2>2 DEF A
<1>19. CASE m.kind = "local"
  <2>1. m.kind \notin NameKinds /\ m.kind \notin Unnumbered
    BY <1>19 DEF NameKinds, Unnumbered
  <2>2. ByPattern(m, refs, c) = <<Ref(m, NoLaw, m.num)>>
    BY <1>19, <2>1 DEF ByPattern
  <2> QED
    BY <1>5, <1>7, <1>8, <2>1, <2>2 DEF A
<1>20. CASE m.kind = "abbreviation"
  <2>1. m.kind \notin NameKinds /\ m.kind \notin Unnumbered /\ m.term \in Terms
    BY <1>1, <1>20 DEF NameKinds, Unnumbered, IsMatch, TermKinds
  <2> DEFINE d == c.defs[m.term]
             l == d.law
  <2>2. ByPattern(m, refs, c) = When(d # NoDefinition, <<Ref(m, l, m.num)>>)
    BY <1>20, <2>1 DEF ByPattern
  <2>3. d # NoDefinition => l \in Laws \cup {NoLaw} /\ l \in hd
    BY <1>2, <2>1 DEF Definitions
  <2> HIDE DEF d, l
  <2> QED
    BY <1>5, <1>6, <1>7, <1>20, <2>1, <2>2, <2>3 DEF A
<1> QED
  BY <1>9, <1>10, <1>11, <1>12, <1>13, <1>14, <1>15, <1>16, <1>17, <1>18, <1>19, <1>20,
     KindNames DEF A, NameKinds

(* Phase 2 says of a match only what is allowed, as one of its kind.       *)
LEMMA ByContextAllowed ==
  ASSUME NEW t \in Texts, NEW m \in Range(Found[t]), m.kind \in Range(ContextOrder),
         NEW hd, NEW c, CallContext(c, t, hd)
  PROVE  ByContext(m, c) \in Seq({r \in Allowed(t, c.law, hd) : r.kind = m.kind /\ r.at = m.at})
<1> DEFINE A == {r \in Allowed(t, c.law, hd) : r.kind = m.kind /\ r.at = m.at}
           Articled == Nat \cup {NaN, NoArticle}
<1>1. IsMatch(m)
  BY MatchesOfText
<1>2. /\ c.law \in Laws \cup {NoLaw} /\ c.article \in Nat \cup {NoArticle}
      /\ c.recent \in Seq([law : Laws \cap hd, at : Nat])
  BY DEF CallContext
<1>3. ASSUME NEW l \in Laws \cup {NoLaw}, NEW a \in Articled,
             l \in {NoLaw, c.law} \/ (m.kind = "sameLaw" /\ l \in hd)
      PROVE  <<Ref(m, l, a)>> \in Seq(A)
  <2>1. /\ Ref(m, l, a) \in Reference /\ Ref(m, l, a).law = l
        /\ Ref(m, l, a).kind = m.kind /\ Ref(m, l, a).at = m.at
    <3>1. a \in Nat \cup {NaN, NoArticle} /\ m.kind \in Range(PatternOrder) \cup Range(ContextOrder)
      OBVIOUS
    <3> HIDE DEF A, Articled
    <3> QED
      BY <1>1, <3>1 DEF Ref, Reference, IsMatch
  <2>2. Ref(m, l, a) \in A
    BY <1>3, <2>1 DEF Allowed
  <2> HIDE DEF A
  <2> QED
    BY <2>2
<1>4. <<>> \in Seq(A)
  OBVIOUS
<1>5. m.kind \notin Unnumbered => m.num \in Articled
  BY <1>1 DEF IsMatch
<1>6. NoArticle \in Articled /\ c.article \in Articled /\ c.law \in {NoLaw, c.law} /\ NoLaw \in {NoLaw, c.law}
  BY <1>2
<1> HIDE DEF A, Articled
<1>7. CASE m.kind = "sameLaw"
  <2> DEFINE before == {i \in DOMAIN c.recent : c.recent[i].at < m.at}
             l == c.recent[Min(before)].law
  <2>1. ByContext(m, c) = IF before # {} THEN <<Ref(m, l, m.num)>> ELSE <<>>
    BY <1>7 DEF ByContext, When
  <2>2. m.kind \notin Unnumbered
    BY <1>7 DEF Unnumbered
  <2>3. ASSUME before # {} PROVE l \in Laws \cup {NoLaw} /\ l \in hd
    <3>1. Len(c.recent) \in Nat /\ before \in SUBSET (1..Len(c.recent))
      BY <1>2
    <3>2. Min(before) \in before
      <4> HIDE DEF before
      <4> QED
        BY <2>3, <3>1, MinOfPositions
    <3>3. Min(before) \in DOMAIN c.recent
      BY <3>2
    <3> HIDE DEF before
    <3> DEFINE X == [law : Laws \cap hd, at : Nat]
               s == c.recent
    <3>4. s \in Seq(X)
      BY <1>2
    <3>5. s[Min(before)] \in X
      <4> HIDE DEF s, X
      <4> QED
        BY <3>3, <3>4 DEF s
    <3> QED
      BY <3>5
  <2> HIDE DEF before, l
  <2> QED
    BY <1>3, <1>4, <1>5, <1>7, <2>1, <2>2, <2>3 DEF A
<1>8. CASE m.kind = "thisLaw"
  <2>1. ByContext(m, c) = <<Ref(m, c.law, NoArticle)>>
    BY <1>8 DEF ByContext
  <2> QED
    BY <1>2, <1>3, <1>6, <2>1 DEF A
<1>9. CASE m.kind = "sameArticle"
  <2>1. ByContext(m, c) = <<Ref(m, c.law, c.article)>>
    BY <1>9 DEF ByContext
  <2> QED
    BY <1>2, <1>3, <1>6, <2>1 DEF A
<1>10. CASE m.kind = "appendix"
  <2>1. ByContext(m, c) = <<Ref(m, c.law, m.num)>> /\ m.kind \notin Unnumbered
    BY <1>10 DEF ByContext, Unnumbered
  <2> QED
    BY <1>2, <1>3, <1>5, <1>6, <2>1 DEF A
<1>11. CASE m.kind = "thatRule"
  <2>1. ByContext(m, c) = <<Ref(m, NoLaw, NoArticle)>>
    BY <1>11 DEF ByContext
  <2> QED
    BY <1>3, <1>6, <2>1 DEF A
<1> QED
  BY <1>7, <1>8, <1>9, <1>10, <1>11, KindNames DEF A

-----------------------------------------------------------------------------
(* The phases.                                                             *)

(* The matches in the order of each phase.                                 *)
LEMMA MatchOrders ==
  ASSUME NEW t \in Texts
  PROVE  /\ PatternMatches[t] \in Seq({m \in Range(Found[t]) : m.kind \in Range(PatternOrder)})
         /\ ContextMatches[t] \in Seq({m \in Range(Found[t]) : m.kind \in Range(ContextOrder)})
         /\ \A m \in Range(Found[t]) : m.kind \in Range(ContextOrder) =>
              \E k \in DOMAIN ContextMatches[t] : ContextMatches[t][k] = m
         /\ LlmMatches[t] \in Seq({m \in Range(Found[t]) : m.kind \in Range(LlmOrder)})
<1>1. PatternOrder \in Seq({"lawName", "lawNumbered", "lawArticle", "lawArticleKanji", "termArticle",
                            "article", "thisLaw", "relative", "range", "term", "pairArticle", "local",
                            "abbreviation"})
  BY DEF PatternOrder
<1>2. ContextOrder \in Seq({"sameLaw", "thisLaw", "sameArticle", "appendix", "thatRule"})
  BY DEF ContextOrder
<1>3. LlmOrder \in Seq({"sameLaw", "thatRule", "vague", "application"})
  BY DEF LlmOrder
<1> QED
  BY <1>1, <1>2, <1>3, OrderedMatches DEF PatternMatches, ContextMatches, LlmMatches

(* Phase 1 finds what is allowed, and no 同法.                             *)
LEMMA PatternPhase ==
  ASSUME NEW t \in Texts, NEW hd, NEW c, CallContext(c, t, hd)
  PROVE  detectByPattern(t, c) \in Seq({r \in Allowed(t, c.law, hd) : r.kind # "sameLaw"})
<1> DEFINE M == {m \in Range(Found[t]) : m.kind \in Range(PatternOrder)}
           A == {r \in Allowed(t, c.law, hd) : r.kind # "sameLaw"}
           S == Seq(A)
           matches == PatternMatches[t]
           L == Len(matches)
           R == CHOOSE R : R = [i \in 0..L |-> IF i = 0 THEN <<>> ELSE WithMatch(R[i - 1], matches[i], c)]
           step == [i \in 1..L |-> [refs \in S |-> WithMatch(refs, matches[i], c)]]
           init == <<>>
<1>1. detectByPattern(t, c) = R[L]
  BY DEF detectByPattern
<1> HIDE DEF R
<1>2. matches \in Seq(M)
  BY MatchOrders
<1> HIDE DEF matches
<1>3. L \in Nat /\ \A i \in 1..L : matches[i] \in M
  <2> HIDE DEF M
  <2> QED
    BY <1>2
<1>4. ASSUME NEW refs \in S, NEW m \in M PROVE WithMatch(refs, m, c) \in S
  <2>1. ByPattern(m, refs, c) \in Seq(A)
    BY ByPatternAllowed
  <2> HIDE DEF A
  <2> QED
    BY <2>1 DEF WithMatch
<1> HIDE DEF L, M
<1>5. step \in [1..L -> [S -> S]] /\ init \in S
  <2>1. init \in S
    OBVIOUS
  <2> HIDE DEF S
  <2> QED
    BY <1>3, <1>4, <2>1
<1>6. PICK g : IsLoop(g, L, S, init, step)
  <2> HIDE DEF step, init, S
  <2> QED
    BY <1>3, <1>5, LoopExists
<1>7. /\ g \in [0..L -> S] /\ g[0] = <<>>
      /\ \A i \in 1..L : g[i] = WithMatch(g[i - 1], matches[i], c)
  <2>1. g \in [0..L -> S] /\ g[0] = init /\ \A i \in 1..L : g[i] = step[i][g[i - 1]]
    <3> HIDE DEF step, init, S
    <3> QED
      BY <1>6 DEF IsLoop
  <2>2. \A i \in 1..L : i - 1 \in 0..L
    BY <1>3
  <2> HIDE DEF S
  <2> QED
    BY <2>1, <2>2
<1>8. g = [i \in 0..L |-> IF i = 0 THEN <<>> ELSE WithMatch(g[i - 1], matches[i], c)]
  <2>1. \A i \in 0..L : i = 0 \/ i \in 1..L
    BY <1>3
  <2> HIDE DEF S
  <2> QED
    BY <1>7, <2>1
<1>9. R = [i \in 0..L |-> IF i = 0 THEN <<>> ELSE WithMatch(R[i - 1], matches[i], c)]
  BY <1>8 DEF R
<1>10. \A i \in 0..L : R[i] \in S
  <2> DEFINE good == {i \in 0..L : R[i] \in S}
  <2>1. 0 \in good
    BY <1>3, <1>5, <1>9
  <2>2. ASSUME NEW i \in 1..L, i - 1 \in good PROVE i \in good
    <3>1. i \in 0..L /\ i # 0 /\ R[i - 1] \in S /\ matches[i] \in M
      BY <1>3, <2>2
    <3>2. R[i] = WithMatch(R[i - 1], matches[i], c)
      BY <1>9, <3>1
    <3> HIDE DEF S
    <3> QED
      BY <1>4, <3>1, <3>2
  <2> HIDE DEF good
  <2>3. \A i \in 0..L : i \in good
    BY <1>3, <2>1, <2>2, PositionInduction
  <2> QED
    BY <2>3 DEF good
<1>11. L \in 0..L
  BY <1>3
<1> QED
  BY <1>1, <1>10, <1>11

(* Phase 2: what every match gives, and nothing else.                      *)
LEMMA ContextPhase ==
  ASSUME NEW t \in Texts, NEW hd, NEW c, CallContext(c, t, hd)
  PROVE  /\ detectByContext(t, c) \in Seq(Allowed(t, c.law, hd))
         /\ \A m \in Range(Found[t]) : m.kind \in Range(ContextOrder) =>
              \A n \in DOMAIN ByContext(m, c) :
                \E k \in DOMAIN detectByContext(t, c) : detectByContext(t, c)[k] = ByContext(m, c)[n]
         /\ \A k \in DOMAIN detectByContext(t, c) :
              \E m \in Range(Found[t]) : /\ m.kind \in Range(ContextOrder)
                                         /\ \E n \in DOMAIN ByContext(m, c) : detectByContext(t, c)[k] = ByContext(m, c)[n]
<1> DEFINE M == {m \in Range(Found[t]) : m.kind \in Range(ContextOrder)}
           A == Allowed(t, c.law, hd)
           matches == ContextMatches[t]
           seqs == [i \in DOMAIN matches |-> ByContext(matches[i], c)]
           flat == FlattenSeq(seqs)
<1>1. detectByContext(t, c) = flat
  BY DEF detectByContext
<1>2. matches \in Seq(M) /\ \A m \in M : \E k \in DOMAIN matches : matches[k] = m
  BY MatchOrders
<1>3. \A m \in M : ByContext(m, c) \in Seq(A)
  <2> SUFFICES ASSUME NEW m \in M PROVE ByContext(m, c) \in Seq(A)
    OBVIOUS
  <2> DEFINE B == {r \in A : r.kind = m.kind /\ r.at = m.at}
             s == ByContext(m, c)
  <2>1. s \in Seq(B)
    BY ByContextAllowed
  <2>2. \A r \in B : r \in A
    OBVIOUS
  <2> HIDE DEF B, A, s
  <2>3. Len(s) \in Nat /\ s \in [1..Len(s) -> A]
    BY <2>1, <2>2
  <2>4. s \in Seq(A)
    BY <2>3
  <2> QED
    BY <2>4 DEF s
<1> HIDE DEF M, A, matches
<1>4. Len(matches) \in Nat /\ DOMAIN matches = 1..Len(matches) /\ \A i \in DOMAIN matches : matches[i] \in M
  BY <1>2
<1>5. seqs \in Seq(Seq(A))
  BY <1>3, <1>4
<1>6. DOMAIN seqs = DOMAIN matches /\ \A i \in DOMAIN matches : seqs[i] = ByContext(matches[i], c)
  OBVIOUS
<1> HIDE DEF seqs
<1>7. /\ flat \in Seq(A)
      /\ \A i \in DOMAIN seqs : \A n \in DOMAIN seqs[i] : \E k \in DOMAIN flat : flat[k] = seqs[i][n]
      /\ \A k \in DOMAIN flat : \E i \in DOMAIN seqs : \E n \in DOMAIN seqs[i] : flat[k] = seqs[i][n]
  BY <1>5, FlattenProperties
<1> HIDE DEF flat
<1>8. \A m \in M : \A n \in DOMAIN ByContext(m, c) : \E k \in DOMAIN flat : flat[k] = ByContext(m, c)[n]
  BY <1>2, <1>6, <1>7
<1>9. \A k \in DOMAIN flat : \E m \in M : \E n \in DOMAIN ByContext(m, c) : flat[k] = ByContext(m, c)[n]
  <2> SUFFICES ASSUME NEW k \in DOMAIN flat
               PROVE  \E m \in M : \E n \in DOMAIN ByContext(m, c) : flat[k] = ByContext(m, c)[n]
    OBVIOUS
  <2>1. PICK i \in DOMAIN seqs : \E n \in DOMAIN seqs[i] : flat[k] = seqs[i][n]
    BY <1>7
  <2> QED
    BY <1>4, <1>6, <2>1
<1>10. /\ \A m \in Range(Found[t]) : m.kind \in Range(ContextOrder) => m \in M
       /\ \A m \in M : m \in Range(Found[t]) /\ m.kind \in Range(ContextOrder)
  BY DEF M
<1> QED
  BY <1>1, <1>7, <1>8, <1>9, <1>10 DEF A

(* Phase 3: what the language model answered.                              *)
LEMMA LlmPhase ==
  ASSUME NEW t \in Texts, NEW law, NEW hd, NEW asked \in Seq(Range(Found[t])),
         NEW answer \in [Range(asked) -> AnsweredLaws \cup {NoAnswer}]
  PROVE  LlmRefs(asked, answer) \in Seq({r \in Allowed(t, law, hd) : r.kind # "sameLaw"})
<1> DEFINE A == {r \in Allowed(t, law, hd) : r.kind # "sameLaw"}
           at == {i \in DOMAIN asked : answer[asked[i]] # NoAnswer}
           answered == AtPositions(asked, at)
           ref(m) == [Ref(m, answer[m], NoArticle) EXCEPT !.kind = "llm"]
           M == Range(Found[t])
<1>1. LlmRefs(asked, answer) = [i \in DOMAIN answered |-> ref(answered[i])]
  BY DEF LlmRefs
<1>2. /\ answered \in Seq(M)
      /\ \A n \in DOMAIN answered : \E i \in at : answered[n] = asked[i]
  <2>1. at \in SUBSET DOMAIN asked
    OBVIOUS
  <2> HIDE DEF at, M
  <2>2. asked \in Seq(M)
    BY DEF M
  <2> QED
    BY <2>1, <2>2, AtPositionsProperties
<1>3. ASSUME NEW n \in DOMAIN answered PROVE ref(answered[n]) \in A
  <2> HIDE DEF answered
  <2>1. PICK i \in at : answered[n] = asked[i]
    BY <1>2
  <2> DEFINE m == asked[i]
  <2>2. m \in Range(asked) /\ answer[m] # NoAnswer /\ m \in M
    BY DEF Range
  <2>3. answer[m] \in Laws \cup {NoLaw} /\ IsMatch(m)
    BY <2>2, MatchesOfText, ContextAssumption
  <2> HIDE DEF m
  <2>4. ref(m) \in Reference /\ ref(m).kind = "llm"
    BY <2>3 DEF Ref, Reference, IsMatch
  <2> HIDE DEF ref
  <2>5. ref(m) \in A
    BY <2>4 DEF Allowed
  <2> QED
    BY <2>1, <2>5 DEF m
<1> HIDE DEF answered, ref, A, M
<1>4. Len(answered) \in Nat /\ DOMAIN answered = 1..Len(answered)
  BY <1>2
<1>5. [i \in DOMAIN answered |-> ref(answered[i])] \in [1..Len(answered) -> A]
  BY <1>3, <1>4
<1> QED
  BY <1>1, <1>4, <1>5 DEF A

(* The matches the model is asked about are matches of the text.           *)
LEMMA AskedMatches ==
  ASSUME NEW t \in Texts, NEW refs
  PROVE  Asked(t, refs) \in Seq(Range(Found[t]))
<1> DEFINE matches == LlmMatches[t]
           covered(m) == \E r \in Range(refs) : r.word = m.word \/ (r.placed /\ r.at = m.at)
           at == {i \in DOMAIN matches : matches[i].kind = "application" \/ ~covered(matches[i])}
           K == {m \in Range(Found[t]) : m.kind \in Range(LlmOrder)}
           s == AtPositions(matches, at)
<1>1. Asked(t, refs) = s
  BY DEF Asked
<1>2. s \in Seq(K)
  <2>1. at \in SUBSET DOMAIN matches /\ matches \in Seq(K)
    BY MatchOrders
  <2> HIDE DEF at, matches, K
  <2> QED
    BY <2>1, AtPositionsProperties
<1>3. \A m \in K : m \in Range(Found[t])
  OBVIOUS
<1> HIDE DEF s, K
<1>4. Len(s) \in Nat /\ s \in [1..Len(s) -> Range(Found[t])]
  BY <1>2, <1>3
<1> QED
  BY <1>1, <1>4

-----------------------------------------------------------------------------
(* The context of a call.                                                  *)

(* Terms mean laws that texts given to this detector define.               *)
LEMMA DefinitionsKept ==
  ASSUME NEW t \in Texts, NEW law, NEW hd,
         NEW defs \in [Terms -> Definitions((Laws \cup {NoLaw}) \cap hd)]
  PROVE  detectDefinitions(t, defs)
           \in [Terms -> Definitions((Laws \cup {NoLaw}) \cap (hd \cup LawsIn(t, law)))]
<1> DEFINE D == Defines[t]
           given(x) == {i \in DOMAIN D : D[i].term = x}
<1>1. Len(D) \in Nat /\ DOMAIN D = 1..Len(D) /\ \A i \in DOMAIN D : D[i].law \in Laws \cup {NoLaw} /\ D[i].revised \in BOOLEAN
  <2> DEFINE X == [term : Terms, law : Laws \cup {NoLaw}, revised : BOOLEAN]
  <2>1. D \in Seq(X)
    BY ContextAssumption
  <2>2. Len(D) \in Nat /\ DOMAIN D = 1..Len(D) /\ \A i \in DOMAIN D : D[i] \in X
    <3> HIDE DEF D, X
    <3> QED
      BY <2>1
  <2> QED
    BY <2>2
<1>2. \A i \in DOMAIN D : D[i].law \in LawsIn(t, law)
  BY DEF LawsIn, Range
<1>3. ASSUME NEW x \in Terms, given(x) # {} PROVE Min(given(x)) \in DOMAIN D
  <2> DEFINE g == given(x)
  <2>1. g \in SUBSET (1..Len(D))
    BY <1>1
  <2>2. Min(g) \in g
    <3> HIDE DEF g, D
    <3> QED
      BY <1>1, <1>3, <2>1, MinOfPositions DEF g
  <2> QED
    BY <2>2
<1>4. detectDefinitions(t, defs) =
        [x \in Terms |-> IF defs[x] # NoDefinition \/ given(x) = {} THEN defs[x] ELSE [law |-> D[Min(given(x))].law, revised |-> D[Min(given(x))].revised]]
  BY DEF detectDefinitions
<1> HIDE DEF D, given
<1>5. ASSUME NEW x \in Terms
      PROVE  (IF defs[x] # NoDefinition \/ given(x) = {} THEN defs[x] ELSE [law |-> D[Min(given(x))].law, revised |-> D[Min(given(x))].revised])
               \in Definitions((Laws \cup {NoLaw}) \cap (hd \cup LawsIn(t, law)))
  <2>1. CASE defs[x] # NoDefinition \/ given(x) = {}
    BY <2>1 DEF Definitions
  <2>2. CASE ~ (defs[x] # NoDefinition \/ given(x) = {})
    <3> DEFINE i == Min(given(x))
    <3>1. i \in DOMAIN D
      BY <1>3, <2>2
    <3> HIDE DEF i
    <3>2. D[i].law \in (Laws \cup {NoLaw}) \cap (hd \cup LawsIn(t, law)) /\ D[i].revised \in BOOLEAN
      BY <1>1, <1>2, <3>1
    <3> QED
      BY <2>2, <3>2 DEF Definitions, i
  <2> QED
    BY <2>1, <2>2
<1> QED
  BY <1>4, <1>5

(* recentLaws: at most so many laws that texts of this detector name.      *)
Recents(hd) == {s \in Seq([law : Laws \cap hd, at : Nat]) : Len(s) <= MaxRecent}

(* An element before a sequence.                                           *)
LEMMA PrependElements ==
  ASSUME NEW X, NEW e \in X, NEW r \in Seq(X)
  PROVE  /\ <<e>> \o r \in Seq(X) /\ Len(<<e>> \o r) = Len(r) + 1 /\ (<<e>> \o r)[1] = e
         /\ \A n \in 2..(Len(r) + 1) : (<<e>> \o r)[n] = r[n - 1]
<1> DEFINE s == <<e>>
<1>1. s \in Seq(X) /\ Len(s) = 1 /\ s[1] = e
  OBVIOUS
<1> HIDE DEF s
<1>2. /\ Len(r) \in Nat /\ s \o r \in Seq(X) /\ Len(s \o r) = Len(s) + Len(r)
      /\ \A n \in 1..(Len(s) + Len(r)) : (s \o r)[n] = IF n <= Len(s) THEN s[n] ELSE r[n - Len(s)]
  <2>1. s \in Seq(X)
    BY <1>1
  <2>2. s \o r \in Seq(X)
    BY <2>1, ConcatProperties
  <2>3. Len(r) \in Nat /\ Len(s \o r) = Len(s) + Len(r)
    BY <2>1
  <2>4. \A n \in 1..(Len(s) + Len(r)) : (s \o r)[n] = IF n <= Len(s) THEN s[n] ELSE r[n - Len(s)]
    BY <2>1
  <2> QED
    BY <2>2, <2>3, <2>4
<1> DEFINE all == s \o r
<1> HIDE DEF all
<1>3. /\ all \in Seq(X) /\ Len(all) = Len(r) + 1 /\ all[1] = e
      /\ \A n \in 2..(Len(r) + 1) : all[n] = r[n - 1]
  <2>1. \A n \in 1..(1 + Len(r)) : all[n] = IF n <= 1 THEN s[n] ELSE r[n - 1]
    BY <1>1, <1>2 DEF all
  <2>2. 1 \in 1..(1 + Len(r)) /\ \A n \in 2..(Len(r) + 1) : n \in 1..(1 + Len(r)) /\ ~(n <= 1)
    BY <1>2
  <2>3. all \in Seq(X) /\ Len(all) = Len(r) + 1
    BY <1>1, <1>2 DEF all
  <2> QED
    BY <1>1, <2>1, <2>2, <2>3
<1> QED
  BY <1>3 DEF s, all

(* The law mentioned last comes first, and the others move back.           *)
LEMMA ContextUpdated ==
  ASSUME NEW hd, NEW recent \in Recents(hd), NEW law \in Laws \cap hd, NEW at \in Nat
  PROVE  LET u == updateContext(recent, law, at)
         IN  /\ u \in Recents(hd)
             /\ Len(u) = IF Len(recent) + 1 > MaxRecent THEN MaxRecent ELSE Len(recent) + 1
             /\ 1 <= Len(u) /\ u[1] = [law |-> law, at |-> at]
             /\ \A n \in 2..Len(u) : u[n] = recent[n - 1]
<1> DEFINE X == [law : Laws \cap hd, at : Nat]
           e == [law |-> law, at |-> at]
           all == <<e>> \o recent
           k == IF Len(all) > MaxRecent THEN MaxRecent ELSE Len(all)
           u == SubSeq(all, 1, k)
<1>1. updateContext(recent, law, at) = u
  BY DEF updateContext
<1>2. e \in X /\ recent \in Seq(X) /\ Len(recent) \in Nat /\ Len(recent) <= MaxRecent /\ MaxRecent \in Nat \ {0}
  BY ContextAssumption DEF Recents
<1> HIDE DEF X, e
<1>3. /\ all \in Seq(X) /\ Len(all) = Len(recent) + 1 /\ all[1] = e
      /\ \A n \in 2..Len(all) : all[n] = recent[n - 1]
  BY <1>2, PrependElements
<1> HIDE DEF all
<1>4. k \in 1..Len(all) /\ k <= MaxRecent /\ Len(all) \in Nat
      /\ k = IF Len(recent) + 1 > MaxRecent THEN MaxRecent ELSE Len(recent) + 1
  BY <1>2, <1>3
<1> HIDE DEF k
<1>5. u \in Seq(X) /\ Len(u) = k /\ \A n \in 1..k : u[n] = all[n]
  BY <1>3, <1>4
<1> HIDE DEF u
<1>6. u[1] = e /\ \A n \in 2..Len(u) : u[n] = recent[n - 1]
  <2>1. 1 \in 1..k /\ \A n \in 2..k : n \in 1..k /\ n \in 2..Len(all)
    BY <1>4
  <2> QED
    BY <1>3, <1>5, <2>1
<1>7. u \in Recents(hd)
  BY <1>4, <1>5 DEF Recents, X
<1> QED
  BY <1>1, <1>4, <1>5, <1>6, <1>7 DEF e

(* recentLaws after each of the matches.                                   *)
RecentRun(g, t, law, given, hd) ==
  /\ g \in [0..Len(Found[t]) -> Recents(hd)]
  /\ g[0] = given
  /\ \A i \in 1..Len(Found[t]) :
       g[i] = IF IsName(Found[t][i], law)
              THEN updateContext(g[i - 1], findLawId(Found[t][i], law), Found[t][i].at)
              ELSE g[i - 1]
  /\ RecentAfter(t, law, given) = g[Len(Found[t])]

(* A name the dictionary knows is a law the text names.                    *)
LEMMA NamedLaws ==
  ASSUME NEW t \in Texts, NEW law \in Laws \cup {NoLaw}, NEW m \in Range(Found[t])
  PROVE  /\ m.at \in Nat
         /\ IsName(m, law) => findLawId(m, law) \in Laws /\ findLawId(m, law) \in LawsIn(t, law)
<1>1. IsMatch(m)
  BY MatchesOfText
<1> QED
  BY <1>1 DEF IsMatch, IsName, Known, findLawId, LawsIn, LawKinds

LEMMA RecentRunExists ==
  ASSUME NEW t \in Texts, NEW law \in Laws \cup {NoLaw}, NEW hd, LawsIn(t, law) \subseteq hd,
         NEW given \in Recents(hd)
  PROVE  \E g : RecentRun(g, t, law, given, hd)
<1> DEFINE matches == Found[t]
           L == Len(matches)
           S == Recents(hd)
           next(i, s) == IF IsName(matches[i], law)
                         THEN updateContext(s, findLawId(matches[i], law), matches[i].at) ELSE s
           R == CHOOSE R : R = [i \in 0..L |-> IF i = 0 THEN given ELSE next(i, R[i - 1])]
           step == [i \in 1..L |-> [s \in S |-> next(i, s)]]
<1>1. RecentAfter(t, law, given) = R[L]
  BY DEF RecentAfter
<1> HIDE DEF R
<1>2. L \in Nat /\ \A i \in 1..L : matches[i] \in Range(Found[t])
  BY MatchesOfText
<1>3. ASSUME NEW i \in 1..L, NEW s \in S PROVE next(i, s) \in S
  <2>1. /\ matches[i].at \in Nat
        /\ IsName(matches[i], law) => findLawId(matches[i], law) \in Laws \cap hd
    BY <1>2, NamedLaws
  <2> HIDE DEF S, matches
  <2>2. IsName(matches[i], law) => updateContext(s, findLawId(matches[i], law), matches[i].at) \in S
    BY <2>1, ContextUpdated DEF S
  <2> QED
    BY <2>2
<1> HIDE DEF L, next, S
<1>4. step \in [1..L -> [S -> S]] /\ given \in S
  BY <1>3 DEF S
<1>5. PICK g : IsLoop(g, L, S, given, step)
  <2> HIDE DEF step
  <2> QED
    BY <1>2, <1>4, LoopExists
<1>6. g \in [0..L -> S] /\ g[0] = given /\ \A i \in 1..L : g[i] = next(i, g[i - 1])
  <2>1. g \in [0..L -> S] /\ g[0] = given /\ \A i \in 1..L : g[i] = step[i][g[i - 1]]
    <3> HIDE DEF step
    <3> QED
      BY <1>5 DEF IsLoop
  <2>2. \A i \in 1..L : i - 1 \in 0..L
    BY <1>2
  <2> QED
    BY <2>1, <2>2
<1>7. g = [i \in 0..L |-> IF i = 0 THEN given ELSE next(i, g[i - 1])]
  <2>1. \A i \in 0..L : i = 0 \/ i \in 1..L
    BY <1>2
  <2> QED
    BY <1>6, <2>1
<1>8. R = [i \in 0..L |-> IF i = 0 THEN given ELSE next(i, R[i - 1])]
  BY <1>7 DEF R
<1>9. \A i \in 0..L : R[i] \in S
  <2> DEFINE good == {i \in 0..L : R[i] \in S}
  <2>1. 0 \in good
    BY <1>2, <1>4, <1>8
  <2>2. ASSUME NEW i \in 1..L, i - 1 \in good PROVE i \in good
    <3>1. i \in 0..L /\ i # 0 /\ R[i - 1] \in S
      BY <1>2, <2>2
    <3>2. R[i] = next(i, R[i - 1])
      BY <1>8, <3>1
    <3> QED
      BY <1>3, <3>1, <3>2
  <2> HIDE DEF good
  <2>3. \A i \in 0..L : i \in good
    BY <1>2, <2>1, <2>2, PositionInduction
  <2> QED
    BY <2>3 DEF good
<1>10. R \in [0..L -> S] /\ R[0] = given /\ \A i \in 1..L : R[i] = next(i, R[i - 1])
  <2>1. 0 \in 0..L /\ \A i \in 1..L : i \in 0..L /\ i # 0
    BY <1>2
  <2> QED
    BY <1>8, <1>9, <2>1
<1>11. RecentRun(R, t, law, given, hd)
  BY <1>1, <1>10 DEF RecentRun, next, L, S
<1> QED
  BY <1>11

-----------------------------------------------------------------------------
(* 同法.                                                                   *)

(* The names among the first i matches, after and before position p.       *)
IndexAfter(t, law, p, i)  == {j \in 1..i : IsName(Found[t][j], law) /\ Found[t][j].at > p}
IndexBefore(t, law, p, i) == {j \in 1..i : IsName(Found[t][j], law) /\ Found[t][j].at < p}
NamesAfter(t, law, p, i)  == {Found[t][j] : j \in IndexAfter(t, law, p, i)}

(* The list s of recent laws after i matches: the laws named after p come  *)
(* first, and then the one named last before p.                            *)
Near(t, law, p, i, s) ==
  LET a == Cardinality(NamesAfter(t, law, p, i))
  IN  /\ IsFiniteSet(NamesAfter(t, law, p, i)) /\ a \in Nat
      /\ \A n \in Nat : 1 <= n /\ n <= a /\ n <= MaxRecent => n <= Len(s) /\ s[n].at > p
      /\ IndexBefore(t, law, p, i) # {} /\ a < MaxRecent =>
           /\ a + 1 <= Len(s)
           /\ \E j \in IndexBefore(t, law, p, i) :
                /\ \A o \in IndexBefore(t, law, p, i) : o <= j
                /\ s[a + 1] = [law |-> findLawId(Found[t][j], law), at |-> Found[t][j].at]

(* What one match does to the names after and before p.                    *)
LEMMA OneMoreMatch ==
  ASSUME NEW t, NEW law, NEW p, NEW i \in Nat \ {0}
  PROVE  /\ IndexAfter(t, law, p, i) = IF IsName(Found[t][i], law) /\ Found[t][i].at > p
                                   THEN IndexAfter(t, law, p, i - 1) \cup {i} ELSE IndexAfter(t, law, p, i - 1)
         /\ IndexBefore(t, law, p, i) = IF IsName(Found[t][i], law) /\ Found[t][i].at < p
                                    THEN IndexBefore(t, law, p, i - 1) \cup {i} ELSE IndexBefore(t, law, p, i - 1)
         /\ NamesAfter(t, law, p, i) = IF IsName(Found[t][i], law) /\ Found[t][i].at > p
                                       THEN NamesAfter(t, law, p, i - 1) \cup {Found[t][i]}
                                       ELSE NamesAfter(t, law, p, i - 1)
<1>1. 1..i = (1..(i - 1)) \cup {i} /\ i \notin 1..(i - 1)
  OBVIOUS
<1>2. IndexAfter(t, law, p, i) = IF IsName(Found[t][i], law) /\ Found[t][i].at > p
                             THEN IndexAfter(t, law, p, i - 1) \cup {i} ELSE IndexAfter(t, law, p, i - 1)
  BY <1>1 DEF IndexAfter
<1>3. IndexBefore(t, law, p, i) = IF IsName(Found[t][i], law) /\ Found[t][i].at < p
                              THEN IndexBefore(t, law, p, i - 1) \cup {i} ELSE IndexBefore(t, law, p, i - 1)
  BY <1>1 DEF IndexBefore
<1>4. CASE IsName(Found[t][i], law) /\ Found[t][i].at > p
  <2>1. IndexAfter(t, law, p, i) = IndexAfter(t, law, p, i - 1) \cup {i}
    BY <1>2, <1>4
  <2> QED
    BY <1>2, <1>3, <1>4, <2>1 DEF NamesAfter
<1>5. CASE ~(IsName(Found[t][i], law) /\ Found[t][i].at > p)
  BY <1>2, <1>3, <1>5 DEF NamesAfter
<1> QED
  BY <1>4, <1>5

(* Names come in the order of the text.                                    *)
LEMMA NamesOrdered ==
  ASSUME NEW t \in Texts, NEW law, NEW i \in 1..Len(Found[t]), NEW j \in 1..Len(Found[t]),
         IsName(Found[t][i], law), IsName(Found[t][j], law)
  PROVE  /\ i < j => Found[t][i].at < Found[t][j].at
         /\ Found[t][i].at \in Nat
<1>1. DOMAIN Found[t] = 1..Len(Found[t]) /\ IsMatch(Found[t][i])
  BY MatchesOfText
<1>2. NamesInOrder(Found[t])
  BY ContextAssumption
<1> QED
  BY <1>1, <1>2 DEF NamesInOrder, IsName, IsMatch

LEMMA NearStep ==
  ASSUME NEW t \in Texts, NEW law \in Laws \cup {NoLaw}, NEW hd, LawsIn(t, law) \subseteq hd,
         NEW p \in Nat, NEW i \in 1..Len(Found[t]), IsName(Found[t][i], law), Found[t][i].at # p,
         NEW s \in Recents(hd), Near(t, law, p, i - 1, s)
  PROVE  Near(t, law, p, i, updateContext(s, findLawId(Found[t][i], law), Found[t][i].at))
<1> DEFINE m == Found[t][i]
           u == updateContext(s, findLawId(m, law), m.at)
           A == NamesAfter(t, law, p, i - 1)
           a == Cardinality(A)
           B == IndexBefore(t, law, p, i - 1)
<1>1. /\ m \in Range(Found[t]) /\ i \in Nat \ {0} /\ i - 1 \in Nat /\ MaxRecent \in Nat \ {0}
      /\ Len(Found[t]) \in Nat
  BY MatchesOfText, ContextAssumption
<1>2. m.at \in Nat /\ findLawId(m, law) \in Laws \cap hd
  BY <1>1, NamedLaws
<1>3. /\ u \in Recents(hd)
      /\ Len(u) = IF Len(s) + 1 > MaxRecent THEN MaxRecent ELSE Len(s) + 1
      /\ 1 <= Len(u) /\ u[1] = [law |-> findLawId(m, law), at |-> m.at]
      /\ \A n \in 2..Len(u) : u[n] = s[n - 1]
  BY <1>2, ContextUpdated
<1>4. Len(s) \in Nat /\ Len(s) <= MaxRecent /\ Len(u) \in Nat
  <2>1. Len(s) \in Nat /\ Len(s) <= MaxRecent
    BY DEF Recents
  <2> HIDE DEF u
  <2> QED
    BY <1>1, <1>3, <2>1
<1>5. /\ IsFiniteSet(A) /\ a \in Nat
      /\ \A n \in Nat : 1 <= n /\ n <= a /\ n <= MaxRecent => n <= Len(s) /\ s[n].at > p
      /\ B # {} /\ a < MaxRecent =>
           /\ a + 1 <= Len(s)
           /\ \E j \in B : /\ \A o \in B : o <= j
                           /\ s[a + 1] = [law |-> findLawId(Found[t][j], law), at |-> Found[t][j].at]
  BY DEF Near
<1>6. \A j \in 1..(i - 1) : IsName(Found[t][j], law) => Found[t][j].at < m.at /\ Found[t][j].at \in Nat
  <2> SUFFICES ASSUME NEW j \in 1..(i - 1), IsName(Found[t][j], law)
               PROVE  Found[t][j].at < m.at /\ Found[t][j].at \in Nat
    OBVIOUS
  <2>1. j \in 1..Len(Found[t]) /\ j < i
    BY <1>1
  <2> QED
    BY <2>1, NamesOrdered
<1>7. CASE m.at > p
  <2>1. NamesAfter(t, law, p, i) = A \cup {m} /\ IndexBefore(t, law, p, i) = B
    <3>1. ~(m.at < p)
      BY <1>2, <1>7
    <3> QED
      BY <1>1, <1>7, <3>1, OneMoreMatch
  <2>2. m \notin A
    <3> SUFFICES ASSUME m \in A PROVE FALSE
      OBVIOUS
    <3>1. PICK j \in IndexAfter(t, law, p, i - 1) : m = Found[t][j]
      BY DEF NamesAfter
    <3>2. j \in 1..(i - 1) /\ IsName(Found[t][j], law)
      BY DEF IndexAfter
    <3> QED
      BY <1>2, <1>6, <3>1, <3>2
  <2>3. IsFiniteSet(A \cup {m}) /\ Cardinality(A \cup {m}) = a + 1
    <3> HIDE DEF A, m
    <3> QED
      BY <1>5, <2>2, FS_AddElement
  <2> HIDE DEF A, u, B, m, a
  <2>4. ASSUME NEW n \in Nat, 1 <= n, n <= a + 1, n <= MaxRecent PROVE n <= Len(u) /\ u[n].at > p
    <3>1. CASE n = 1
      BY <1>2, <1>3, <1>7, <3>1
    <3>2. CASE n # 1
      <4>1. n - 1 \in Nat /\ 1 <= n - 1 /\ n - 1 <= a /\ n - 1 <= MaxRecent
        BY <1>1, <1>5, <2>4, <3>2
      <4>2. n - 1 <= Len(s) /\ s[n - 1].at > p
        BY <1>5, <4>1
      <4>3. n \in 2..Len(u)
        BY <1>1, <1>3, <1>4, <2>4, <3>2, <4>2
      <4> QED
        BY <1>3, <1>4, <4>2, <4>3
    <3> QED
      BY <3>1, <3>2
  <2>5. ASSUME B # {}, a + 1 < MaxRecent
        PROVE  /\ (a + 1) + 1 <= Len(u)
               /\ \E j \in B : /\ \A o \in B : o <= j
                               /\ u[(a + 1) + 1] = [law |-> findLawId(Found[t][j], law), at |-> Found[t][j].at]
    <3>1. a < MaxRecent
      BY <1>1, <1>5, <2>5
    <3>2. a + 1 <= Len(s)
      BY <1>5, <2>5, <3>1
    <3>3. (a + 1) + 1 \in 2..Len(u) /\ ((a + 1) + 1) - 1 = a + 1
      BY <1>1, <1>3, <1>4, <1>5, <2>5, <3>2
    <3>4. u[(a + 1) + 1] = s[a + 1] /\ (a + 1) + 1 <= Len(u)
      BY <1>3, <1>4, <3>3
    <3> QED
      BY <1>5, <2>5, <3>1, <3>4
  <2>6. /\ Cardinality(NamesAfter(t, law, p, i)) = a + 1 /\ IsFiniteSet(NamesAfter(t, law, p, i))
        /\ a + 1 \in Nat
    BY <1>5, <2>1, <2>3
  <2>7. Near(t, law, p, i, u)
    BY <2>1, <2>4, <2>5, <2>6 DEF Near
  <2> QED
    BY <2>7 DEF u, m
<1>8. CASE m.at < p
  <2>1. NamesAfter(t, law, p, i) = A /\ IndexBefore(t, law, p, i) = B \cup {i}
    <3>1. ~(m.at > p)
      BY <1>2, <1>8
    <3> QED
      BY <1>1, <1>8, <3>1, OneMoreMatch
  <2>2. A = {}
    <3>1. ASSUME NEW j \in IndexAfter(t, law, p, i - 1) PROVE FALSE
      <4>1. j \in 1..(i - 1) /\ IsName(Found[t][j], law) /\ Found[t][j].at > p
        BY DEF IndexAfter
      <4> QED
        BY <1>2, <1>6, <1>8, <4>1
    <3> QED
      BY <3>1 DEF NamesAfter
  <2>3. Cardinality(A) = 0 /\ IsFiniteSet(A)
    BY <2>2, FS_EmptySet
  <2>4. \A o \in B \cup {i} : o <= i
    BY <1>1 DEF IndexBefore
  <2>5. i \in B \cup {i} /\ u[0 + 1] = [law |-> findLawId(Found[t][i], law), at |-> Found[t][i].at]
    BY <1>3
  <2>6. \A n \in Nat : ~(1 <= n /\ n <= 0)
    OBVIOUS
  <2>7. 0 + 1 <= Len(u) /\ 0 \in Nat
    BY <1>3
  <2> HIDE DEF A, u, B, m, a
  <2> QED
    BY <2>1, <2>3, <2>4, <2>5, <2>6, <2>7 DEF Near, u, m
<1> QED
  BY <1>2, <1>7, <1>8

LEMMA NearAfterAll ==
  ASSUME NEW t \in Texts, NEW law \in Laws \cup {NoLaw}, NEW hd, LawsIn(t, law) \subseteq hd,
         NEW given \in Recents(hd), NEW p \in Nat,
         \A i \in 1..Len(Found[t]) : IsName(Found[t][i], law) => Found[t][i].at # p
  PROVE  /\ RecentAfter(t, law, given) \in Recents(hd)
         /\ Near(t, law, p, Len(Found[t]), RecentAfter(t, law, given))
<1> DEFINE L == Len(Found[t])
<1>1. L \in Nat
  BY MatchesOfText
<1>2. PICK g : RecentRun(g, t, law, given, hd)
  BY RecentRunExists
<1>3. /\ g \in [0..L -> Recents(hd)] /\ g[0] = given /\ RecentAfter(t, law, given) = g[L]
      /\ \A i \in 1..L : g[i] = IF IsName(Found[t][i], law)
                                THEN updateContext(g[i - 1], findLawId(Found[t][i], law), Found[t][i].at)
                                ELSE g[i - 1]
  BY <1>2 DEF RecentRun
<1> DEFINE good == {i \in 0..L : Near(t, law, p, i, g[i])}
<1>4. 0 \in good
  <2>1. 1..0 = {}
    OBVIOUS
  <2>2. NamesAfter(t, law, p, 0) = {} /\ IndexBefore(t, law, p, 0) = {}
    BY <2>1 DEF NamesAfter, IndexAfter, IndexBefore
  <2>3. Cardinality(NamesAfter(t, law, p, 0)) = 0 /\ IsFiniteSet(NamesAfter(t, law, p, 0))
    BY <2>2, FS_EmptySet
  <2>4. 0 \in 0..L /\ \A n \in Nat : ~(1 <= n /\ n <= 0)
    BY <1>1
  <2>5. Near(t, law, p, 0, g[0])
    BY <2>2, <2>3, <2>4 DEF Near
  <2> QED
    BY <2>4, <2>5
<1>5. ASSUME NEW i \in 1..L, i - 1 \in good PROVE i \in good
  <2>1. i \in 0..L /\ i - 1 \in 0..L /\ i \in Nat \ {0} /\ Near(t, law, p, i - 1, g[i - 1])
    BY <1>1, <1>5
  <2>2. g[i - 1] \in Recents(hd)
    BY <1>3, <2>1
  <2>3. CASE IsName(Found[t][i], law)
    <3> DEFINE u == updateContext(g[i - 1], findLawId(Found[t][i], law), Found[t][i].at)
    <3>1. i \in 1..Len(Found[t]) /\ Found[t][i].at # p
      BY <2>3
    <3>2. Near(t, law, p, i, u)
      <4> HIDE DEF good
      <4> QED
        BY <2>1, <2>2, <2>3, <3>1, NearStep
    <3>3. g[i] = u
      BY <1>3, <2>3
    <3> QED
      BY <2>1, <3>2, <3>3
  <2>4. CASE ~IsName(Found[t][i], law)
    <3>1. /\ NamesAfter(t, law, p, i) = NamesAfter(t, law, p, i - 1)
          /\ IndexBefore(t, law, p, i) = IndexBefore(t, law, p, i - 1)
      BY <2>1, <2>4, OneMoreMatch
    <3>2. g[i] = g[i - 1]
      BY <1>3, <2>4
    <3> QED
      BY <2>1, <3>1, <3>2 DEF Near
  <2> QED
    BY <2>3, <2>4
<1> HIDE DEF good, L
<1>6. \A i \in 0..L : i \in good
  BY <1>1, <1>4, <1>5, PositionInduction
<1>7. L \in good /\ L \in 0..L
  BY <1>1, <1>6
<1> QED
  BY <1>3, <1>7 DEF good, L

(* Phase 2 gives 同法 the law named last before it, or nothing once the    *)
(* list is full of laws named after it.                                    *)
LEMMA SameLawNearest ==
  ASSUME NEW t \in Texts, NEW law \in Laws \cup {NoLaw}, NEW hd, LawsIn(t, law) \subseteq hd,
         NEW given \in Recents(hd), NEW c, c.recent = RecentAfter(t, law, given),
         NEW m \in Range(Found[t]), m.kind = "sameLaw"
  PROVE  LET before == {l \in LawNames(t, law) : l.at < m.at}
             after  == {l \in LawNames(t, law) : l.at > m.at}
             near   == CHOOSE l \in before : \A o \in before : o.at <= l.at
         IN  /\ Cardinality(after) >= MaxRecent => ByContext(m, c) = <<>>
             /\ ~(Cardinality(after) >= MaxRecent) /\ before # {} =>
                  ByContext(m, c) = <<Ref(m, findLawId(near, law), m.num)>>
<1> DEFINE F == Found[t]
           L == Len(F)
           p == m.at
           s == c.recent
           before == {l \in LawNames(t, law) : l.at < m.at}
           after  == {l \in LawNames(t, law) : l.at > m.at}
           near   == CHOOSE l \in before : \A o \in before : o.at <= l.at
           B == IndexBefore(t, law, p, L)
           a == Cardinality(after)
           earlier == {i \in DOMAIN s : s[i].at < p}
<1>1. /\ DOMAIN F = 1..L /\ L \in Nat /\ p \in Nat /\ MaxRecent \in Nat \ {0}
      /\ \A i \in 1..L : F[i] \in Range(F) /\ F[i].at \in Nat
      /\ \A x \in Range(F) : \E i \in 1..L : x = F[i]
  <2>1. /\ DOMAIN F = 1..L /\ L \in Nat /\ \A i \in 1..L : F[i] \in Range(F)
        /\ \A x \in Range(F) : IsMatch(x) /\ \E i \in 1..L : x = F[i]
    BY MatchesOfText
  <2> QED
    BY <2>1, ContextAssumption DEF IsMatch
<1>2. \A i \in 1..L : IsName(F[i], law) => F[i].at # p
  <2>1. NamesInOrder(F)
    BY ContextAssumption
  <2>2. PICK k \in 1..L : m = F[k]
    BY <1>1
  <2>3. \A i \in 1..L : IsName(F[i], law) => F[i].kind \in NameKinds /\ F[i].law # NoLaw
    BY ContextAssumption DEF IsName, Known, findLawId
  <2> HIDE DEF F
  <2> QED
    BY <1>1, <2>1, <2>2, <2>3 DEF NamesInOrder
<1>3. s \in Recents(hd) /\ Near(t, law, p, L, s)
  <2> HIDE DEF p
  <2>1. p \in Nat /\ \A i \in 1..Len(Found[t]) : IsName(Found[t][i], law) => Found[t][i].at # p
    BY <1>1, <1>2
  <2>2. /\ RecentAfter(t, law, given) \in Recents(hd)
        /\ Near(t, law, p, Len(Found[t]), RecentAfter(t, law, given))
    <3> HIDE DEF F, L, s, before, after, near, B, a, earlier
    <3> QED
      BY <2>1, NearAfterAll
  <2> QED
    BY <2>2
<1>4. NamesAfter(t, law, p, L) = after
  <2>1. \A x \in after : x \in NamesAfter(t, law, p, L)
    BY <1>1 DEF NamesAfter, IndexAfter, LawNames
  <2>2. \A x \in NamesAfter(t, law, p, L) : x \in after
    BY <1>1 DEF NamesAfter, IndexAfter, LawNames
  <2> QED
    BY <2>1, <2>2
<1>5. before = {F[j] : j \in B}
  <2>1. \A x \in before : \E j \in B : x = F[j]
    BY <1>1 DEF IndexBefore, LawNames
  <2>2. \A j \in B : F[j] \in before
    BY <1>1 DEF IndexBefore, LawNames
  <2> QED
    BY <2>1, <2>2
<1>6. Len(s) \in Nat /\ DOMAIN s = 1..Len(s) /\ Len(s) <= MaxRecent
  BY <1>3 DEF Recents
<1>7. \A i \in 1..Len(s) : s[i].at \in Nat
  <2> DEFINE X == [law : Laws \cap hd, at : Nat]
  <2>1. s \in Seq(X)
    BY <1>3 DEF Recents
  <2>2. \A i \in 1..Len(s) : s[i] \in X
    <3> HIDE DEF s, X
    <3> QED
      BY <2>1
  <2> QED
    BY <2>2
<1>8. ByContext(m, c) = IF earlier # {} THEN <<Ref(m, s[Min(earlier)].law, m.num)>> ELSE <<>>
  BY DEF ByContext, When
<1>9. /\ a \in Nat
      /\ \A n \in Nat : 1 <= n /\ n <= a /\ n <= MaxRecent => n <= Len(s) /\ s[n].at > p
      /\ B # {} /\ a < MaxRecent =>
           /\ a + 1 <= Len(s)
           /\ \E j \in B : /\ \A o \in B : o <= j
                           /\ s[a + 1] = [law |-> findLawId(F[j], law), at |-> F[j].at]
  BY <1>3, <1>4 DEF Near
<1>10. ASSUME a >= MaxRecent PROVE ByContext(m, c) = <<>>
  <2>1. ASSUME NEW i \in DOMAIN s PROVE ~(s[i].at < p)
    <3>1. i \in Nat /\ 1 <= i /\ i <= a /\ i <= MaxRecent
      <4> HIDE DEF a, s
      <4> QED
        BY <1>1, <1>6, <1>9, <1>10, <2>1
    <3>2. s[i].at > p
      BY <1>9, <3>1
    <3>3. s[i].at \in Nat
      BY <1>6, <1>7, <2>1
    <3> QED
      BY <1>1, <3>2, <3>3
  <2> QED
    BY <1>8, <2>1
<1>11. ASSUME ~(a >= MaxRecent), before # {} PROVE ByContext(m, c) = <<Ref(m, findLawId(near, law), m.num)>>
  <2>1. a < MaxRecent
    <3> HIDE DEF a
    <3> QED
      BY <1>1, <1>9, <1>11
  <2>2. B # {}
    BY <1>5, <1>11
  <2>3. PICK j \in B : /\ \A o \in B : o <= j
                       /\ s[a + 1] = [law |-> findLawId(F[j], law), at |-> F[j].at]
    BY <1>9, <2>1, <2>2
  <2>4. a + 1 <= Len(s)
    BY <1>9, <2>1, <2>2
  <2>5. j \in 1..L /\ IsName(F[j], law) /\ F[j].at < p /\ F[j] \in before
    BY <1>5 DEF IndexBefore
  <2>6. ASSUME NEW o \in B PROVE F[o].at <= F[j].at /\ (F[j].at <= F[o].at => o = j)
    <3>1. o \in 1..L /\ IsName(F[o], law) /\ o <= j
      BY <2>3 DEF IndexBefore
    <3>2. F[o].at \in Nat /\ F[j].at \in Nat /\ (o < j => F[o].at < F[j].at)
      BY <1>1, <2>5, <3>1, NamesOrdered
    <3>3. o = j \/ o < j
      BY <2>5, <3>1
    <3> HIDE DEF F
    <3> QED
      BY <3>2, <3>3
  <2>7. near = F[j]
    <3>1. \A o \in before : o.at <= F[j].at
      BY <1>5, <2>6
    <3>2. near \in before /\ \A o \in before : o.at <= near.at
      BY <2>5, <3>1
    <3> HIDE DEF near, F, B
    <3>3. PICK o \in B : near = F[o]
      BY <1>5, <3>2
    <3> QED
      BY <2>5, <2>6, <3>2, <3>3
  <2>8. earlier # {} /\ Min(earlier) = a + 1
    <3>1. a + 1 \in earlier
      <4>1. a + 1 \in 1..Len(s)
        <5> HIDE DEF a, s
        <5> QED
          BY <1>6, <1>9, <2>4
      <4> HIDE DEF a
      <4> QED
        BY <1>6, <2>3, <2>5, <4>1
    <3>2. earlier \in SUBSET (1..Len(s))
      BY <1>6
    <3>3. Min(earlier) \in earlier /\ \A i \in earlier : Min(earlier) <= i
      <4> HIDE DEF earlier
      <4> QED
        BY <1>6, <3>1, <3>2, MinOfPositions
    <3> DEFINE k == Min(earlier)
    <3>4. k \in 1..Len(s) /\ s[k].at < p /\ k <= a + 1
      BY <3>1, <3>2, <3>3
    <3> HIDE DEF k, a
    <3>5. ~(k <= a)
      <4> SUFFICES ASSUME k <= a PROVE FALSE
        OBVIOUS
      <4>1. k \in Nat /\ 1 <= k /\ k <= MaxRecent
        BY <1>1, <1>6, <3>4
      <4>2. s[k].at > p /\ s[k].at \in Nat
        BY <1>7, <1>9, <3>4, <4>1
      <4> QED
        BY <1>1, <3>4, <4>2
    <3>6. k = a + 1
      BY <1>6, <1>9, <3>4, <3>5
    <3> QED
      BY <3>1, <3>6 DEF k
  <2>9. s[Min(earlier)].law = findLawId(F[j], law)
    BY <2>3, <2>8
  <2> HIDE DEF earlier, near, F, s
  <2> QED
    BY <1>8, <2>7, <2>8, <2>9
<1> QED
  BY <1>10, <1>11

-----------------------------------------------------------------------------
(* Overlap removal.                                                        *)

(* Sorting rearranges: each place takes one position, each position once.  *)
LEMMA ByPositionRearranges ==
  ASSUME NEW S, NEW refs \in Seq(S), \A r \in S : r.at \in Nat
  PROVE  LET sorted == ByPosition(refs)
         IN  /\ sorted \in Seq(S) /\ Len(sorted) = Len(refs)
             /\ \A i \in DOMAIN refs : \E n \in DOMAIN sorted : sorted[n] = refs[i]
             /\ \A n \in DOMAIN sorted : \E i \in DOMAIN refs : sorted[n] = refs[i]
             /\ \A m, n \in DOMAIN sorted :
                  m # n => \E i, j \in DOMAIN refs : i # j /\ sorted[m] = refs[i] /\ sorted[n] = refs[j]
<1> DEFINE L == Len(refs)
           D == 1..L
           P(i) == {j \in DOMAIN refs : \/ refs[j].at < refs[i].at
                                        \/ refs[j].at = refs[i].at /\ j <= i}
           place == [i \in DOMAIN refs |-> Cardinality(P(i))]
           source == [n \in D |-> CHOOSE i \in D : place[i] = n]
           sorted == ByPosition(refs)
<1>1. L \in Nat /\ DOMAIN refs = D /\ \A i \in D : refs[i] \in S /\ refs[i].at \in Nat
  OBVIOUS
<1>2. IsFiniteSet(D) /\ Cardinality(D) = L
  BY <1>1, FS_Interval
<1>3. ASSUME NEW i \in D
      PROVE  P(i) \in SUBSET D /\ IsFiniteSet(P(i)) /\ Cardinality(P(i)) \in D
  <2>1. P(i) \in SUBSET D /\ i \in P(i)
    BY <1>1
  <2> HIDE DEF P
  <2>2. IsFiniteSet(P(i)) /\ Cardinality(P(i)) \in Nat /\ Cardinality(P(i)) <= L
    BY <1>1, <1>2, <2>1, PositionsFinite
  <2>3. Cardinality(P(i)) # 0
    BY <2>1, <2>2, FS_EmptySet
  <2> QED
    BY <1>1, <2>1, <2>2, <2>3
<1>4. ASSUME NEW i \in D, NEW k \in D, refs[i].at < refs[k].at \/ (refs[i].at = refs[k].at /\ i < k)
      PROVE  Cardinality(P(i)) < Cardinality(P(k))
  <2>1. P(i) \in SUBSET P(k)
    <3>1. ASSUME NEW j \in P(i) PROVE j \in P(k)
      <4>1. j \in D /\ (refs[j].at < refs[i].at \/ (refs[j].at = refs[i].at /\ j <= i))
        BY <1>1
      <4>2. refs[j].at \in Nat /\ refs[i].at \in Nat /\ refs[k].at \in Nat /\ j \in Int /\ i \in Int /\ k \in Int
        BY <1>1, <4>1
      <4>3. refs[j].at < refs[k].at \/ (refs[j].at = refs[k].at /\ j <= k)
        BY <1>4, <4>1, <4>2
      <4> QED
        BY <1>1, <4>1, <4>3
    <3> QED
      BY <3>1
  <2>2. k \in P(k) /\ k \notin P(i)
    BY <1>1, <1>4
  <2> HIDE DEF P
  <2>3. /\ Cardinality(P(i)) \in Nat /\ Cardinality(P(i)) <= Cardinality(P(k)) /\ Cardinality(P(k)) \in Nat
        /\ (Cardinality(P(k)) = Cardinality(P(i)) => P(k) = P(i))
    BY <1>1, <1>3, <2>1, FS_Subset, FS_CardinalityType
  <2>4. P(k) # P(i)
    BY <2>2
  <2>5. Cardinality(P(k)) # Cardinality(P(i))
    BY <2>3, <2>4
  <2> QED
    BY <2>3, <2>5
<1>5. place \in [D -> D] /\ \A i \in D : place[i] = Cardinality(P(i))
  <2> HIDE DEF P
  <2> QED
    BY <1>1, <1>3
<1>6. \A i, k \in D : place[i] = place[k] => i = k
  <2> SUFFICES ASSUME NEW i \in D, NEW k \in D, place[i] = place[k], i # k PROVE FALSE
    OBVIOUS
  <2>1. \/ refs[i].at < refs[k].at \/ (refs[i].at = refs[k].at /\ i < k)
        \/ refs[k].at < refs[i].at \/ (refs[k].at = refs[i].at /\ k < i)
    BY <1>1
  <2>2. place[i] \in Int /\ place[k] \in Int /\ place[i] = Cardinality(P(i)) /\ place[k] = Cardinality(P(k))
    <3> HIDE DEF place, P
    <3> QED
      BY <1>5
  <2> HIDE DEF place, P
  <2>3. Cardinality(P(i)) < Cardinality(P(k)) \/ Cardinality(P(k)) < Cardinality(P(i))
    BY <1>4, <2>1
  <2>4. place[i] < place[k] \/ place[k] < place[i]
    BY <2>2, <2>3, Zenon
  <2>5. place[i] = place[k] /\ place[i] \in Int
    BY <2>2
  <2> QED
    BY <2>4, <2>5
<1> HIDE DEF place
<1>7. \A n \in D : \E i \in D : place[i] = n
  <2>1. place \in Injection(D, D)
    BY <1>5, <1>6 DEF Injection, IsInjective
  <2>2. place \in Surjection(D, D)
    <3> HIDE DEF D
    <3> QED
      BY <1>2, <2>1, FS_Injection
  <2> QED
    BY <2>2 DEF Surjection
<1>8. \A n \in D : source[n] \in D /\ place[source[n]] = n
  BY <1>7
<1>9. sorted = [n \in D |-> refs[source[n]]]
  <2>1. sorted = [n \in DOMAIN refs |-> refs[CHOOSE i \in DOMAIN refs : place[i] = n]]
    BY DEF ByPosition, place
  <2> QED
    BY <1>1, <2>1
<1> HIDE DEF source, sorted
<1>10. \A i \in D : source[place[i]] = i /\ place[i] \in D
  BY <1>5, <1>6, <1>8
<1>11. sorted \in [D -> S] /\ \A n \in D : sorted[n] = refs[source[n]]
  BY <1>1, <1>8, <1>9
<1>12. sorted \in Seq(S) /\ Len(sorted) = L /\ DOMAIN sorted = D
  BY <1>1, <1>11
<1>13. \A i \in D : \E n \in D : sorted[n] = refs[i]
  BY <1>10, <1>11
<1>14. \A m, n \in D : m # n => source[m] # source[n]
  BY <1>8
<1>15. \A n \in D : \E i \in D : sorted[n] = refs[i]
  BY <1>8, <1>11
<1>16. \A m, n \in D : m # n => \E i, j \in D : i # j /\ sorted[m] = refs[i] /\ sorted[n] = refs[j]
  BY <1>8, <1>11, <1>14
<1> HIDE DEF D
<1> QED
  BY <1>1, <1>12, <1>13, <1>15, <1>16 DEF sorted

(* The loop of the overlap removal after i of the references q.            *)
Spans == [at : Nat, len : Nat]

KeptState(S) == [unique : Seq(S), covered : SUBSET Spans]

KeptAll(k, q, i) ==
  /\ \A j \in 1..i : \E n \in DOMAIN k.unique : Inside(q[j], k.unique[n])
  /\ \A m, n \in DOMAIN k.unique : Inside(k.unique[m], k.unique[n]) => m = n
  /\ \A s \in k.covered : \E n \in DOMAIN k.unique : Inside(s, k.unique[n])
  /\ \A n \in DOMAIN k.unique : [at |-> k.unique[n].at, len |-> k.unique[n].len] \in k.covered
  /\ \A n \in DOMAIN k.unique : \E j \in 1..i : k.unique[n] = q[j]

LEMMA InsideTransitive ==
  ASSUME NEW r, NEW s, NEW u, r.at \in Nat, r.len \in Nat, s.at \in Nat, s.len \in Nat,
         u.at \in Nat, u.len \in Nat, Inside(r, s), Inside(s, u)
  PROVE  Inside(r, u)
  BY DEF Inside, End

LEMMA KeepStep ==
  ASSUME NEW S, \A r \in S : r.at \in Nat /\ r.len \in Nat,
         NEW q \in Seq(S), NEW i \in 1..Len(q), NEW k \in KeptState(S), KeptAll(k, q, i - 1)
  PROVE  KeepUnlessInside(k, q[i]) \in KeptState(S) /\ KeptAll(KeepUnlessInside(k, q[i]), q, i)
<1> DEFINE r == q[i]
           un == k.unique
           cov == k.covered
           span(x) == [at |-> x.at, len |-> x.len]
<1>1. /\ un \in Seq(S) /\ cov \in SUBSET Spans /\ Len(un) \in Nat /\ DOMAIN un = 1..Len(un)
      /\ \A n \in DOMAIN un : un[n] \in S
  <2>1. un \in Seq(S) /\ cov \in SUBSET Spans
    BY DEF KeptState
  <2> QED
    BY <2>1
<1>2. /\ \A j \in 1..(i - 1) : \E n \in DOMAIN un : Inside(q[j], un[n])
      /\ \A m, n \in DOMAIN un : Inside(un[m], un[n]) => m = n
      /\ \A s \in cov : \E n \in DOMAIN un : Inside(s, un[n])
      /\ \A n \in DOMAIN un : span(un[n]) \in cov
      /\ \A n \in DOMAIN un : \E j \in 1..(i - 1) : un[n] = q[j]
  BY DEF KeptAll
<1>3. r \in S /\ \A j \in 1..i : q[j] \in S
  OBVIOUS
<1>4. \A s \in cov : s.at \in Nat /\ s.len \in Nat
  BY <1>1 DEF Spans
<1>5. \A j \in 1..i : j = i \/ j \in 1..(i - 1)
  OBVIOUS
<1>6. \A j \in 1..(i - 1) : j \in 1..i
  OBVIOUS
<1>7. i \in 1..i
  OBVIOUS
<1> HIDE DEF r, un, cov
<1>8. CASE \E s \in cov : Inside(r, s)
  <2>1. KeepUnlessInside(k, q[i]) = k
    BY <1>8 DEF KeepUnlessInside, r, cov
  <2>2. \E n \in DOMAIN un : Inside(r, un[n])
    <3>1. PICK s \in cov : Inside(r, s)
      BY <1>8
    <3>2. PICK n \in DOMAIN un : Inside(s, un[n])
      BY <1>2, <3>1
    <3> QED
      BY <1>1, <1>3, <1>4, <3>1, <3>2, InsideTransitive
  <2>3. \A j \in 1..i : \E n \in DOMAIN un : Inside(q[j], un[n])
    BY <1>2, <1>5, <2>2 DEF r
  <2>4. \A n \in DOMAIN un : \E j \in 1..i : un[n] = q[j]
    BY <1>2, <1>6
  <2> QED
    BY <1>2, <2>1, <2>3, <2>4 DEF KeptAll, un, cov
<1>9. CASE ~\E s \in cov : Inside(r, s)
  <2> DEFINE P == {n \in DOMAIN un : ~Inside(un[n], r)}
             v == AtPositions(un, P)
             w == Append(v, r)
             cov2 == cov \cup {span(r)}
             new == [unique |-> w, covered |-> cov2]
  <2>1. KeepUnlessInside(k, q[i]) = new
    BY <1>9 DEF KeepUnlessInside, r, un, cov
  <2>2. /\ v \in Seq(S)
        /\ \A n \in DOMAIN v : \E a \in P : v[n] = un[a]
        /\ \A a \in P : \E n \in DOMAIN v : v[n] = un[a]
        /\ \A m, n \in DOMAIN v : m < n => \E a, b \in P : a < b /\ un[a] = v[m] /\ un[b] = v[n]
    <3>1. P \in SUBSET DOMAIN un
      OBVIOUS
    <3> HIDE DEF P
    <3>2. /\ v \in Seq(S)
          /\ \A n \in DOMAIN v : \E a \in P : v[n] = un[a]
          /\ \A a \in P : \E n \in DOMAIN v : v[n] = un[a]
      BY <1>1, <3>1, AtPositionsProperties
    <3>3. \A m, n \in DOMAIN v : m < n => \E a, b \in P : a < b /\ un[a] = v[m] /\ un[b] = v[n]
      <4>1. un \in Seq(S)
        BY <1>1
      <4>2. LET t == AtPositions(un, P)
            IN  \A m, n \in DOMAIN t : m < n => \E a, b \in P : a < b /\ un[a] = t[m] /\ un[b] = t[n]
        BY <3>1, <4>1, AtPositionsOrder
      <4> QED
        BY <4>2
    <3> QED
      BY <3>2, <3>3
  <2> HIDE DEF v
  <2>3. Len(v) \in Nat /\ DOMAIN v = 1..Len(v)
    BY <2>2
  <2> DEFINE N == Len(v) + 1
  <2>4. /\ w \in Seq(S) /\ Len(w) = N /\ DOMAIN w = 1..N /\ w[N] = r
        /\ \A n \in 1..Len(v) : w[n] = v[n]
    BY <1>3, <2>2, <2>3
  <2>5. /\ N \in DOMAIN w /\ \A n \in DOMAIN w : n = N \/ n \in DOMAIN v
        /\ \A n \in DOMAIN v : n \in DOMAIN w /\ w[n] = v[n]
    BY <2>3, <2>4
  <2> HIDE DEF w, N
  <2>6. span(r) \in Spans
    BY <1>3 DEF Spans
  <2>7. new \in KeptState(S)
    <3>1. cov2 \in SUBSET Spans
      BY <1>1, <2>6
    <3> HIDE DEF cov2
    <3> QED
      BY <2>4, <3>1 DEF KeptState
  <2>8. Inside(r, r) /\ Inside(span(r), r)
    BY <1>3 DEF Inside, End
  <2>9. ASSUME NEW x, x.at \in Nat, x.len \in Nat, \E n \in DOMAIN un : Inside(x, un[n])
        PROVE  \E n \in DOMAIN w : Inside(x, w[n])
    <3>1. PICK n \in DOMAIN un : Inside(x, un[n])
      BY <2>9
    <3>2. CASE n \in P
      <4>1. PICK b \in DOMAIN v : v[b] = un[n]
        BY <2>2, <3>2
      <4> QED
        BY <2>5, <3>1, <4>1
    <3>3. CASE n \notin P
      <4>1. Inside(un[n], r) /\ un[n] \in S
        BY <1>1, <3>1, <3>3
      <4>2. Inside(x, r)
        BY <1>3, <2>9, <3>1, <4>1, InsideTransitive
      <4> QED
        BY <2>4, <2>5, <4>2
    <3> QED
      BY <3>2, <3>3
  <2>10. \A j \in 1..i : \E n \in DOMAIN w : Inside(q[j], w[n])
    <3> SUFFICES ASSUME NEW j \in 1..i PROVE \E n \in DOMAIN w : Inside(q[j], w[n])
      OBVIOUS
    <3>1. CASE j = i
      BY <2>4, <2>5, <2>8, <3>1 DEF r
    <3>2. CASE j \in 1..(i - 1)
      BY <1>2, <1>3, <2>9, <3>2
    <3> QED
      BY <1>5, <3>1, <3>2
  <2>11. \A s \in cov2 : \E n \in DOMAIN w : Inside(s, w[n])
    <3>1. \A s \in cov : \E n \in DOMAIN w : Inside(s, w[n])
      BY <1>2, <1>4, <2>9
    <3>2. \E n \in DOMAIN w : Inside(span(r), w[n])
      BY <2>4, <2>5, <2>8
    <3> HIDE DEF span
    <3> QED
      BY <3>1, <3>2
  <2>12. \A n \in DOMAIN w : span(w[n]) \in cov2
    <3>1. ASSUME NEW n \in DOMAIN v PROVE span(v[n]) \in cov
      <4>1. PICK a \in P : v[n] = un[a]
        BY <2>2
      <4>2. a \in DOMAIN un
        OBVIOUS
      <4>3. span(un[a]) \in cov
        BY <1>2, <4>2
      <4> QED
        BY <4>1, <4>3
    <3> HIDE DEF span
    <3> QED
      BY <2>4, <2>5, <3>1
  <2>13. \A n \in DOMAIN w : \E j \in 1..i : w[n] = q[j]
    <3>1. ASSUME NEW n \in DOMAIN v PROVE \E j \in 1..i : v[n] = q[j]
      <4>1. PICK a \in P : v[n] = un[a]
        BY <2>2
      <4>2. a \in DOMAIN un
        OBVIOUS
      <4>3. PICK j \in 1..(i - 1) : un[a] = q[j]
        BY <1>2, <4>2
      <4> QED
        BY <1>6, <4>1, <4>3
    <3> QED
      BY <1>7, <2>4, <2>5, <3>1 DEF r
  <2>14. ASSUME NEW m \in DOMAIN w, NEW n \in DOMAIN w, Inside(w[m], w[n]) PROVE m = n
    <3>1. CASE m \in DOMAIN v /\ n \in DOMAIN v
      <4>1. w[m] = v[m] /\ w[n] = v[n] /\ m \in Int /\ n \in Int
        BY <2>3, <2>5, <3>1
      <4>2. ~(m < n)
        <5> SUFFICES ASSUME m < n PROVE FALSE
          OBVIOUS
        <5>1. PICK a, b \in P : a < b /\ un[a] = v[m] /\ un[b] = v[n]
          BY <2>2, <3>1
        <5>2. a \in DOMAIN un /\ b \in DOMAIN un /\ a \in Int
          BY <1>1
        <5>3. Inside(un[a], un[b])
          BY <2>14, <4>1, <5>1
        <5>4. a = b
          BY <1>2, <5>2, <5>3
        <5> QED
          BY <5>1, <5>2, <5>4
      <4>3. ~(n < m)
        <5> SUFFICES ASSUME n < m PROVE FALSE
          OBVIOUS
        <5>1. PICK a, b \in P : a < b /\ un[a] = v[n] /\ un[b] = v[m]
          BY <2>2, <3>1
        <5>2. a \in DOMAIN un /\ b \in DOMAIN un /\ a \in Int
          BY <1>1
        <5>3. Inside(un[b], un[a])
          BY <2>14, <4>1, <5>1
        <5>4. a = b
          BY <1>2, <5>2, <5>3
        <5> QED
          BY <5>1, <5>2, <5>4
      <4> QED
        BY <4>1, <4>2, <4>3
    <3>2. CASE m \in DOMAIN v /\ n = N
      <4>1. PICK a \in P : v[m] = un[a]
        BY <2>2, <3>2
      <4>2. Inside(un[a], r)
        BY <2>4, <2>5, <2>14, <3>2, <4>1
      <4> QED
        BY <4>2
    <3>3. CASE m = N /\ n \in DOMAIN v
      <4>1. PICK a \in P : v[n] = un[a]
        BY <2>2, <3>3
      <4>2. Inside(r, un[a]) /\ span(un[a]) \in cov
        BY <1>2, <2>4, <2>5, <2>14, <3>3, <4>1
      <4>3. Inside(r, span(un[a]))
        BY <4>2 DEF Inside, End
      <4> QED
        BY <1>9, <4>2, <4>3
    <3> QED
      BY <2>5, <3>1, <3>2, <3>3
  <2>15. KeptAll(new, q, i)
    <3>1. new.unique = w /\ new.covered = cov2
      OBVIOUS
    <3> HIDE DEF new, cov2
    <3> QED
      BY <2>10, <2>11, <2>12, <2>13, <2>14, <3>1 DEF KeptAll
  <2> QED
    BY <2>1, <2>7, <2>15
<1> QED
  BY <1>8, <1>9

(* Overlap removal keeps of the references found enough to cover all, and  *)
(* none that is inside another.                                            *)
LEMMA Deduplicated ==
  ASSUME NEW S, \A r \in S : r.at \in Nat /\ r.len \in Nat, NEW refs \in Seq(S)
  PROVE  LET d == deduplicateAndSort(refs)
         IN  /\ d \in Seq(S)
             /\ \A i \in DOMAIN refs : \E n \in DOMAIN d : Inside(refs[i], d[n])
             /\ \A n \in DOMAIN d : \E i \in DOMAIN refs : d[n] = refs[i]
             /\ \A m, n \in DOMAIN d : Inside(d[m], d[n]) => m = n
<1> DEFINE q == ByPosition(refs)
           L == Len(q)
           K == KeptState(S)
           init == [unique |-> <<>>, covered |-> {}]
           R == CHOOSE R : R = [i \in 0..L |-> IF i = 0 THEN init ELSE KeepUnlessInside(R[i - 1], q[i])]
<1>1. deduplicateAndSort(refs) = ByPosition(R[L].unique)
  BY DEF deduplicateAndSort
<1> HIDE DEF R
<1>2. /\ q \in Seq(S) /\ Len(q) = Len(refs)
      /\ \A i \in DOMAIN refs : \E n \in DOMAIN q : q[n] = refs[i]
      /\ \A n \in DOMAIN q : \E i \in DOMAIN refs : q[n] = refs[i]
  BY ByPositionRearranges
<1> HIDE DEF q
<1>3. L \in Nat /\ DOMAIN q = 1..L /\ \A i \in 1..L : q[i] \in S
  BY <1>2
<1>4. init \in K /\ KeptAll(init, q, 0)
  <2>1. init.unique = <<>> /\ init.covered = {} /\ DOMAIN init.unique = {} /\ 1..0 = {}
    OBVIOUS
  <2>2. init \in K
    BY DEF KeptState
  <2> HIDE DEF init
  <2> QED
    BY <2>1, <2>2 DEF KeptAll
<1> HIDE DEF init
<1>5. ASSUME NEW k \in K, NEW i \in 1..L PROVE KeepUnlessInside(k, q[i]) \in K
  <2> DEFINE r == q[i]
             P == {n \in DOMAIN k.unique : ~Inside(k.unique[n], r)}
             v == AtPositions(k.unique, P)
  <2>1. r \in S /\ k.unique \in Seq(S) /\ k.covered \in SUBSET Spans
    BY <1>3 DEF KeptState
  <2>2. v \in Seq(S)
    <3>1. P \in SUBSET DOMAIN k.unique
      OBVIOUS
    <3> HIDE DEF P
    <3> QED
      BY <2>1, <3>1, AtPositionsProperties
  <2> HIDE DEF v, r
  <2>3. Append(v, r) \in Seq(S) /\ [at |-> r.at, len |-> r.len] \in Spans
    BY <2>1, <2>2 DEF Spans
  <2>4. [unique |-> Append(v, r), covered |-> k.covered \cup {[at |-> r.at, len |-> r.len]}] \in K
    BY <2>1, <2>3 DEF KeptState
  <2> QED
    BY <2>4 DEF KeepUnlessInside, v, r
<1> DEFINE step == [i \in 1..L |-> [k \in K |-> KeepUnlessInside(k, q[i])]]
<1> HIDE DEF K, L
<1>6. step \in [1..L -> [K -> K]]
  BY <1>5
<1>7. PICK g : IsLoop(g, L, K, init, step)
  <2> HIDE DEF step
  <2> QED
    BY <1>3, <1>4, <1>6, LoopExists
<1>8. g \in [0..L -> K] /\ g[0] = init /\ \A i \in 1..L : g[i] = KeepUnlessInside(g[i - 1], q[i])
  <2>1. g \in [0..L -> K] /\ g[0] = init /\ \A i \in 1..L : g[i] = step[i][g[i - 1]]
    <3> HIDE DEF step
    <3> QED
      BY <1>7 DEF IsLoop
  <2>2. \A i \in 1..L : i - 1 \in 0..L
    BY <1>3
  <2> QED
    BY <2>1, <2>2
<1>9. g = [i \in 0..L |-> IF i = 0 THEN init ELSE KeepUnlessInside(g[i - 1], q[i])]
  <2>1. \A i \in 0..L : i = 0 \/ i \in 1..L
    BY <1>3
  <2> QED
    BY <1>8, <2>1
<1>10. R = [i \in 0..L |-> IF i = 0 THEN init ELSE KeepUnlessInside(R[i - 1], q[i])]
  BY <1>9 DEF R
<1>11. R[L] \in K /\ KeptAll(R[L], q, L)
  <2> DEFINE good == {i \in 0..L : R[i] \in K /\ KeptAll(R[i], q, i)}
  <2>1. 0 \in good
    <3>1. 0 \in 0..L
      BY <1>3
    <3>2. R[0] = init
      BY <1>10, <3>1
    <3> QED
      BY <1>4, <3>1, <3>2
  <2>2. ASSUME NEW i \in 1..L, i - 1 \in good PROVE i \in good
    <3>1. i \in 0..L /\ i # 0 /\ R[i - 1] \in K /\ KeptAll(R[i - 1], q, i - 1)
      BY <1>3, <2>2
    <3>2. R[i] = KeepUnlessInside(R[i - 1], q[i])
      BY <1>10, <3>1
    <3>3. i \in 1..Len(q) /\ R[i - 1] \in KeptState(S)
      BY <3>1 DEF L, K
    <3>4. KeepUnlessInside(R[i - 1], q[i]) \in K /\ KeptAll(KeepUnlessInside(R[i - 1], q[i]), q, i)
      <4> HIDE DEF good
      <4> QED
        BY <1>2, <3>1, <3>3, KeepStep DEF K
    <3> QED
      BY <3>1, <3>2, <3>4
  <2> HIDE DEF good
  <2>3. \A i \in 0..L : i \in good
    BY <1>3, <2>1, <2>2, PositionInduction
  <2>4. L \in good
    BY <1>3, <2>3
  <2> QED
    BY <2>4 DEF good
<1> DEFINE un == R[L].unique
           d == ByPosition(un)
<1>12. /\ un \in Seq(S)
       /\ \A j \in 1..L : \E n \in DOMAIN un : Inside(q[j], un[n])
       /\ \A m, n \in DOMAIN un : Inside(un[m], un[n]) => m = n
       /\ \A n \in DOMAIN un : \E j \in 1..L : un[n] = q[j]
  BY <1>11 DEF KeptAll, K, KeptState
<1> HIDE DEF un
<1>13. /\ d \in Seq(S)
       /\ \A i \in DOMAIN un : \E n \in DOMAIN d : d[n] = un[i]
       /\ \A n \in DOMAIN d : \E i \in DOMAIN un : d[n] = un[i]
  BY <1>12, ByPositionRearranges
<1>14. \A m, n \in DOMAIN d :
         m # n => \E i, j \in DOMAIN un : i # j /\ d[m] = un[i] /\ d[n] = un[j]
  BY <1>12, ByPositionRearranges
<1> HIDE DEF d
<1>15. ASSUME NEW i \in DOMAIN refs PROVE \E n \in DOMAIN d : Inside(refs[i], d[n])
  <2>1. PICK j \in 1..L : q[j] = refs[i]
    BY <1>2, <1>3
  <2>2. PICK a \in DOMAIN un : Inside(q[j], un[a])
    BY <1>12
  <2>3. PICK n \in DOMAIN d : d[n] = un[a]
    BY <1>13
  <2> QED
    BY <2>1, <2>2, <2>3
<1>16. ASSUME NEW n \in DOMAIN d PROVE \E i \in DOMAIN refs : d[n] = refs[i]
  <2>1. PICK a \in DOMAIN un : d[n] = un[a]
    BY <1>13
  <2>2. PICK j \in 1..L : un[a] = q[j]
    BY <1>12
  <2>3. PICK i \in DOMAIN refs : q[j] = refs[i]
    BY <1>2, <1>3
  <2> QED
    BY <2>1, <2>2, <2>3
<1>17. ASSUME NEW m \in DOMAIN d, NEW n \in DOMAIN d, Inside(d[m], d[n]), m # n PROVE FALSE
  <2>1. PICK a, b \in DOMAIN un : a # b /\ d[m] = un[a] /\ d[n] = un[b]
    BY <1>14, <1>17
  <2> QED
    BY <1>12, <1>17, <2>1
<1>18. deduplicateAndSort(refs) = d
  BY <1>1 DEF d, un
<1> QED
  BY <1>13, <1>15, <1>16, <1>17, <1>18

-----------------------------------------------------------------------------
(* The negative filter.                                                    *)

(* The spans in a window lie between its ends.                             *)
LEMMA SpansInWindow ==
  ASSUME NEW t \in Texts, NEW p \in DOMAIN NegativeIn[t], NEW r, r.at \in Nat, r.len \in Nat
  PROVE  \A s \in InWindow(t, p, r) : /\ s.from \in Nat /\ s.to \in Nat
                                      /\ s.from <= End(r) + Margin
<1> DEFINE w == Window(r)
           X == {s \in [from : Nat, to : Nat] : s.from <= s.to}
           N == NegativeIn[t]
<1>1. w.from \in Nat /\ w.to = End(r) + Margin /\ End(r) \in Nat /\ Margin \in Nat
  BY ContextAssumption DEF Window, End
<1>2. N[p] \in SUBSET X
  <2>1. N \in Seq(SUBSET X)
    BY ContextAssumption
  <2> HIDE DEF N, X
  <2> QED
    BY <2>1 DEF N
<1> SUFFICES ASSUME NEW s \in InWindow(t, p, r)
             PROVE  s.from \in Nat /\ s.to \in Nat /\ s.from <= End(r) + Margin
  OBVIOUS
<1>3. PICK x \in N[p] : /\ x.from >= w.from /\ x.to <= w.to
                        /\ s = [from |-> x.from - w.from, to |-> x.to - w.from]
  BY DEF InWindow
<1>4. x.from \in Nat /\ x.to \in Nat /\ x.from <= x.to
  BY <1>2
<1>5. s.from = x.from - w.from /\ s.to = x.to - w.from
  BY <1>3
<1> HIDE DEF w
<1> QED
  BY <1>1, <1>3, <1>4, <1>5

(* A pattern with a match ahead has a first one.                           *)
LEMMA FirstAhead ==
  ASSUME NEW t \in Texts, NEW p \in DOMAIN NegativeIn[t], NEW r, r.at \in Nat, r.len \in Nat, NEW index,
         Ahead(t, p, r, index) # {}
  PROVE  First(Ahead(t, p, r, index)) \in InWindow(t, p, r)
<1> DEFINE A == Ahead(t, p, r, index)
           L == End(r) + Margin + 1
           at == {s.from + 1 : s \in A}
<1>1. A \subseteq InWindow(t, p, r)
  BY DEF Ahead
<1>2. \A s \in A : s.from \in Nat /\ s.from <= End(r) + Margin
  BY <1>1, SpansInWindow
<1>3. L \in Nat /\ End(r) + Margin \in Nat
  BY ContextAssumption DEF End
<1>4. at \in SUBSET (1..L) /\ at # {}
  <2>1. \A s \in A : s.from + 1 \in 1..L
    <3> HIDE DEF A
    <3> QED
      BY <1>2, <1>3
  <2> HIDE DEF A, L
  <2> QED
    BY <2>1 DEF A
<1>5. PICK i \in at : \A j \in at : i <= j
  <2> HIDE DEF at, L
  <2> QED
    BY <1>3, <1>4, LeastPosition
<1> HIDE DEF A
<1>6. PICK s \in A : i = s.from + 1
  OBVIOUS
<1>7. ASSUME NEW o \in A PROVE s.from <= o.from
  <2>1. o.from + 1 \in at /\ i \in at
    OBVIOUS
  <2>2. s.from + 1 <= o.from + 1
    BY <1>5, <1>6, <2>1
  <2>3. s.from \in Nat /\ o.from \in Nat
    BY <1>2
  <2> QED
    BY <2>2, <2>3
<1>8. First(A) \in A
  BY <1>7 DEF First
<1> QED
  BY <1>1, <1>8 DEF A

(* A test leaves positions in the text, and answers yes only when some     *)
(* pattern matches in the window.                                          *)
LEMMA NegativeTest ==
  ASSUME NEW t \in Texts, NEW r, r.at \in Nat, r.len \in Nat, NEW index \in [DOMAIN NegativeIn[t] -> Nat]
  PROVE  /\ isNegative(t, r, index).index \in [DOMAIN NegativeIn[t] -> Nat]
         /\ isNegative(t, r, index).answer \in BOOLEAN
         /\ isNegative(t, r, index).answer => \E p \in DOMAIN NegativeIn[t] : InWindow(t, p, r) # {}
<1> DEFINE D == DOMAIN NegativeIn[t]
           hits == {p \in DOMAIN index : Ahead(t, p, r, index[p]) # {}}
           hit == CHOOSE p \in hits : \A q \in hits : p <= q
           moved == [p \in DOMAIN index |->
                       CASE hits = {} \/ p < hit -> 0
                         [] hits # {} /\ p = hit -> First(Ahead(t, p, r, index[p])).to
                         [] OTHER                -> index[p]]
<1>1. isNegative(t, r, index).index = moved /\ isNegative(t, r, index).answer = (hits # {})
  BY DEF isNegative
<1>2. Len(NegativeIn[t]) \in Nat /\ D = 1..Len(NegativeIn[t]) /\ DOMAIN index = D
  <2> DEFINE X == SUBSET {s \in [from : Nat, to : Nat] : s.from <= s.to}
             N == NegativeIn[t]
  <2>1. N \in Seq(X)
    BY ContextAssumption
  <2> HIDE DEF X, N
  <2>2. Len(N) \in Nat /\ DOMAIN N = 1..Len(N)
    BY <2>1
  <2> QED
    BY <2>2 DEF N
<1>3. hits \in SUBSET D
  BY <1>2
<1>4. \A p \in hits : Ahead(t, p, r, index[p]) # {} /\ InWindow(t, p, r) # {}
  BY DEF Ahead
<1>5. ASSUME hits # {} PROVE hit \in hits /\ \A q \in hits : hit <= q
  <2>1. \E p \in hits : \A q \in hits : p <= q
    <3> HIDE DEF hits
    <3> QED
      BY <1>2, <1>3, <1>5, LeastPosition
  <2> HIDE DEF hits
  <2> QED
    BY <2>1
<1>6. ASSUME NEW p \in D PROVE moved[p] \in Nat
  <2>1. index[p] \in Nat /\ p \in Int
    BY <1>2
  <2>2. p \in hits => First(Ahead(t, p, r, index[p])).to \in Nat
    <3> SUFFICES ASSUME p \in hits PROVE First(Ahead(t, p, r, index[p])).to \in Nat
      OBVIOUS
    <3>1. First(Ahead(t, p, r, index[p])) \in InWindow(t, p, r)
      BY <1>4, FirstAhead
    <3> QED
      BY <3>1, SpansInWindow
  <2>3. moved[p] = CASE hits = {} \/ p < hit -> 0
                     [] hits # {} /\ p = hit -> First(Ahead(t, p, r, index[p])).to
                     [] OTHER                -> index[p]
    BY <1>2
  <2> HIDE DEF moved
  <2>4. CASE hits = {}
    <3> HIDE DEF hits
    <3> QED
      BY <2>3, <2>4
  <2>5. CASE hits # {}
    <3>1. hit \in hits /\ hit \in Int
      <4>1. \A x \in D : x \in Int
        BY <1>2
      <4>2. hit \in hits
        BY <1>5, <2>5
      <4> HIDE DEF hits, hit, D
      <4> QED
        BY <1>3, <4>1, <4>2
    <3> HIDE DEF hits, hit
    <3>2. CASE p < hit
      <4>1. p # hit
        BY <2>1, <3>1, <3>2
      <4> QED
        BY <2>3, <3>2, <4>1
    <3>3. CASE p = hit
      <4>1. ~(p < hit)
        BY <2>1, <3>3
      <4> QED
        BY <2>2, <2>3, <2>5, <3>1, <3>3, <4>1
    <3>4. CASE ~(p < hit) /\ p # hit
      BY <2>1, <2>3, <2>5, <3>4
    <3> QED
      BY <3>2, <3>3, <3>4
  <2> QED
    BY <2>4, <2>5
<1>7. moved \in [D -> Nat]
  <2> DEFINE new(p) == CASE hits = {} \/ p < hit -> 0
                         [] hits # {} /\ p = hit -> First(Ahead(t, p, r, index[p])).to
                         [] OTHER                -> index[p]
  <2>1. moved = [p \in D |-> new(p)]
    BY <1>2
  <2> HIDE DEF moved, new
  <2>2. \A p \in D : new(p) \in Nat
    BY <1>6, <2>1
  <2> QED
    BY <2>1, <2>2
<1>8. hits # {} => \E p \in D : InWindow(t, p, r) # {}
  BY <1>3, <1>4
<1>9. (hits # {}) \in BOOLEAN
  OBVIOUS
<1> HIDE DEF hits, moved
<1> QED
  BY <1>1, <1>7, <1>8, <1>9

(* The loop of the filter after i of the references q.                     *)
FilterState(t, S) == [index : [DOMAIN NegativeIn[t] -> Nat], refs : Seq(S)]

FilteredUpTo(t, st, q, i) ==
  /\ \A j \in 1..i : \/ \E n \in DOMAIN st.refs : st.refs[n] = q[j]
                     \/ \E p \in DOMAIN NegativeIn[t] : InWindow(t, p, q[j]) # {}
  /\ \A n \in DOMAIN st.refs : \E j \in 1..i : st.refs[n] = q[j]
  /\ \A m, n \in DOMAIN st.refs :
       m # n => \E a, b \in 1..i : a # b /\ st.refs[m] = q[a] /\ st.refs[n] = q[b]

LEMMA FilterStep ==
  ASSUME NEW t \in Texts, NEW S, \A r \in S : r.at \in Nat /\ r.len \in Nat,
         NEW q \in Seq(S), NEW i \in 1..Len(q), NEW st \in FilterState(t, S)
  PROVE  /\ FilterOne(t, st, q[i]) \in FilterState(t, S)
         /\ FilteredUpTo(t, st, q, i - 1) => FilteredUpTo(t, FilterOne(t, st, q[i]), q, i)
<1> DEFINE r == q[i]
           D == DOMAIN NegativeIn[t]
           test == isNegative(t, r, st.index)
           refs == st.refs
           new == FilterOne(t, st, r)
<1>1. r \in S /\ r.at \in Nat /\ r.len \in Nat
  OBVIOUS
<1>2. st.index \in [D -> Nat] /\ refs \in Seq(S)
  BY DEF FilterState
<1> HIDE DEF r, D, refs
<1>3. test.index \in [D -> Nat] /\ test.answer \in BOOLEAN /\ (test.answer => \E p \in D : InWindow(t, p, r) # {})
  BY <1>1, <1>2, NegativeTest DEF D
<1> HIDE DEF test
<1>4. /\ \A j \in 1..i : j = i \/ j \in 1..(i - 1)
      /\ \A j \in 1..(i - 1) : j \in 1..i /\ j # i
      /\ i \in 1..i
  OBVIOUS
<1>5. CASE test.answer
  <2>1. new = [index |-> test.index, refs |-> refs]
    BY <1>5 DEF FilterOne, test, refs
  <2>2. new \in FilterState(t, S)
    BY <1>2, <1>3, <2>1 DEF FilterState, D
  <2>3. new.refs = refs
    BY <2>1
  <2> HIDE DEF new
  <2>4. ASSUME FilteredUpTo(t, st, q, i - 1) PROVE FilteredUpTo(t, new, q, i)
    <3>1. /\ \A j \in 1..(i - 1) : \/ \E n \in DOMAIN refs : refs[n] = q[j]
                                   \/ \E p \in D : InWindow(t, p, q[j]) # {}
          /\ \A n \in DOMAIN refs : \E j \in 1..(i - 1) : refs[n] = q[j]
          /\ \A m, n \in DOMAIN refs : m # n => \E a, b \in 1..(i - 1) : a # b /\ refs[m] = q[a] /\ refs[n] = q[b]
      BY <2>4 DEF FilteredUpTo, refs, D
    <3>2. \A j \in 1..i : \/ \E n \in DOMAIN refs : refs[n] = q[j]
                          \/ \E p \in D : InWindow(t, p, q[j]) # {}
      BY <1>3, <1>4, <1>5, <3>1 DEF r
    <3>3. \A n \in DOMAIN refs : \E j \in 1..i : refs[n] = q[j]
      BY <1>4, <3>1
    <3>4. ASSUME NEW m \in DOMAIN refs, NEW n \in DOMAIN refs, m # n
          PROVE  \E a, b \in 1..i : a # b /\ refs[m] = q[a] /\ refs[n] = q[b]
      <4>1. PICK a, b \in 1..(i - 1) : a # b /\ refs[m] = q[a] /\ refs[n] = q[b]
        BY <3>1, <3>4
      <4>2. a \in 1..i /\ b \in 1..i
        BY <1>4
      <4> QED
        BY <4>1, <4>2
    <3>5. /\ \A j \in 1..i : \/ \E n \in DOMAIN new.refs : new.refs[n] = q[j]
                             \/ \E p \in DOMAIN NegativeIn[t] : InWindow(t, p, q[j]) # {}
          /\ \A n \in DOMAIN new.refs : \E j \in 1..i : new.refs[n] = q[j]
      BY <2>3, <3>2, <3>3 DEF D
    <3>6. \A m, n \in DOMAIN new.refs :
            m # n => \E a, b \in 1..i : a # b /\ new.refs[m] = q[a] /\ new.refs[n] = q[b]
      BY <2>3, <3>4
    <3> QED
      BY <3>5, <3>6 DEF FilteredUpTo
  <2> QED
    BY <2>2, <2>4 DEF new, r
<1>6. CASE ~test.answer
  <2> DEFINE w == Append(refs, r)
             N == Len(refs) + 1
  <2>1. new = [index |-> test.index, refs |-> w]
    BY <1>3, <1>6 DEF FilterOne, test, refs
  <2>2. /\ w \in Seq(S) /\ Len(refs) \in Nat /\ DOMAIN refs = 1..Len(refs) /\ DOMAIN w = 1..N /\ w[N] = r
        /\ \A n \in 1..Len(refs) : w[n] = refs[n]
    BY <1>1, <1>2
  <2>3. /\ N \in DOMAIN w /\ \A n \in DOMAIN w : n = N \/ n \in DOMAIN refs
        /\ \A n \in DOMAIN refs : n \in DOMAIN w /\ w[n] = refs[n]
    BY <2>2
  <2> HIDE DEF w, N
  <2>4. new \in FilterState(t, S)
    BY <1>3, <2>1, <2>2 DEF FilterState, D
  <2>5. new.refs = w
    BY <2>1
  <2> HIDE DEF new
  <2>6. ASSUME FilteredUpTo(t, st, q, i - 1) PROVE FilteredUpTo(t, new, q, i)
    <3>1. /\ \A j \in 1..(i - 1) : \/ \E n \in DOMAIN refs : refs[n] = q[j]
                                   \/ \E p \in D : InWindow(t, p, q[j]) # {}
          /\ \A n \in DOMAIN refs : \E j \in 1..(i - 1) : refs[n] = q[j]
          /\ \A m, n \in DOMAIN refs : m # n => \E a, b \in 1..(i - 1) : a # b /\ refs[m] = q[a] /\ refs[n] = q[b]
      BY <2>6 DEF FilteredUpTo, refs, D
    <3>2. ASSUME NEW j \in 1..i PROVE \/ \E n \in DOMAIN w : w[n] = q[j]
                                      \/ \E p \in D : InWindow(t, p, q[j]) # {}
      <4>1. CASE j = i
        BY <2>2, <2>3, <4>1 DEF r
      <4>2. CASE j \in 1..(i - 1)
        BY <2>3, <3>1, <4>2
      <4> QED
        BY <1>4, <4>1, <4>2
    <3>3. ASSUME NEW n \in DOMAIN w PROVE \E j \in 1..i : w[n] = q[j]
      <4>1. CASE n = N
        BY <1>4, <2>2, <4>1 DEF r
      <4>2. CASE n \in DOMAIN refs
        BY <1>4, <2>3, <3>1, <4>2
      <4> QED
        BY <2>3, <4>1, <4>2
    <3>4. ASSUME NEW m \in DOMAIN w, NEW n \in DOMAIN w, m # n
          PROVE  \E a, b \in 1..i : a # b /\ w[m] = q[a] /\ w[n] = q[b]
      <4>1. CASE m \in DOMAIN refs /\ n \in DOMAIN refs
        <5>1. PICK a, b \in 1..(i - 1) : a # b /\ refs[m] = q[a] /\ refs[n] = q[b]
          BY <3>1, <3>4, <4>1
        <5> QED
          BY <1>4, <2>3, <4>1, <5>1
      <4>2. CASE m = N /\ n \in DOMAIN refs
        <5>1. PICK b \in 1..(i - 1) : refs[n] = q[b]
          BY <3>1, <4>2
        <5> QED
          BY <1>4, <2>2, <2>3, <4>2, <5>1 DEF r
      <4>3. CASE m \in DOMAIN refs /\ n = N
        <5>1. PICK a \in 1..(i - 1) : refs[m] = q[a]
          BY <3>1, <4>3
        <5> QED
          BY <1>4, <2>2, <2>3, <4>3, <5>1 DEF r
      <4> QED
        BY <2>3, <3>4, <4>1, <4>2, <4>3
    <3> QED
      BY <2>5, <3>2, <3>3, <3>4 DEF FilteredUpTo, D
  <2> QED
    BY <2>4, <2>6 DEF new, r
<1> QED
  BY <1>3, <1>5, <1>6

(* The filter loses only references with a negative pattern around them.   *)
LEMMA Filtered ==
  ASSUME NEW t \in Texts, NEW S, \A r \in S : r.at \in Nat /\ r.len \in Nat,
         NEW q \in Seq(S), NEW index \in [DOMAIN NegativeIn[t] -> Nat]
  PROVE  /\ filterNegativePatterns(t, q, index) \in FilterState(t, S)
         /\ FilteredUpTo(t, filterNegativePatterns(t, q, index), q, Len(q))
<1> DEFINE L == Len(q)
           K == FilterState(t, S)
           init == [index |-> index, refs |-> <<>>]
           R == CHOOSE R : R = [i \in 0..L |-> IF i = 0 THEN init ELSE FilterOne(t, R[i - 1], q[i])]
<1>1. filterNegativePatterns(t, q, index) = R[L]
  BY DEF filterNegativePatterns
<1> HIDE DEF R
<1>2. L \in Nat
  OBVIOUS
<1>3. init \in K /\ FilteredUpTo(t, init, q, 0)
  <2>1. init.refs = <<>> /\ DOMAIN init.refs = {} /\ 1..0 = {}
    OBVIOUS
  <2>2. init \in K
    <3>1. <<>> \in Seq(S)
      OBVIOUS
    <3> QED
      BY <3>1 DEF FilterState
  <2> HIDE DEF init
  <2> QED
    BY <2>1, <2>2 DEF FilteredUpTo
<1>4. ASSUME NEW k \in K, NEW i \in 1..L
      PROVE  FilterOne(t, k, q[i]) \in K /\ (FilteredUpTo(t, k, q, i - 1) => FilteredUpTo(t, FilterOne(t, k, q[i]), q, i))
  BY FilterStep
<1> DEFINE step == [i \in 1..L |-> [k \in K |-> FilterOne(t, k, q[i])]]
<1> HIDE DEF init, K, L
<1>5. step \in [1..L -> [K -> K]]
  BY <1>4
<1>6. PICK g : IsLoop(g, L, K, init, step)
  <2> HIDE DEF step
  <2> QED
    BY <1>2, <1>3, <1>5, LoopExists
<1>7. g \in [0..L -> K] /\ g[0] = init /\ \A i \in 1..L : g[i] = FilterOne(t, g[i - 1], q[i])
  <2>1. g \in [0..L -> K] /\ g[0] = init /\ \A i \in 1..L : g[i] = step[i][g[i - 1]]
    <3> HIDE DEF step
    <3> QED
      BY <1>6 DEF IsLoop
  <2>2. \A i \in 1..L : i - 1 \in 0..L
    BY <1>2
  <2> QED
    BY <2>1, <2>2
<1>8. g = [i \in 0..L |-> IF i = 0 THEN init ELSE FilterOne(t, g[i - 1], q[i])]
  <2>1. \A i \in 0..L : i = 0 \/ i \in 1..L
    BY <1>2
  <2> QED
    BY <1>7, <2>1
<1>9. R = [i \in 0..L |-> IF i = 0 THEN init ELSE FilterOne(t, R[i - 1], q[i])]
  BY <1>8 DEF R
<1>10. R[L] \in K /\ FilteredUpTo(t, R[L], q, L)
  <2> DEFINE good == {i \in 0..L : R[i] \in K /\ FilteredUpTo(t, R[i], q, i)}
  <2>1. 0 \in good
    <3>1. 0 \in 0..L
      BY <1>2
    <3>2. R[0] = init
      BY <1>9, <3>1
    <3> QED
      BY <1>3, <3>1, <3>2
  <2>2. ASSUME NEW i \in 1..L, i - 1 \in good PROVE i \in good
    <3>1. i \in 0..L /\ i # 0 /\ R[i - 1] \in K /\ FilteredUpTo(t, R[i - 1], q, i - 1)
      BY <1>2, <2>2
    <3>2. R[i] = FilterOne(t, R[i - 1], q[i])
      BY <1>9, <3>1
    <3> QED
      BY <1>4, <3>1, <3>2
  <2> HIDE DEF good
  <2>3. \A i \in 0..L : i \in good
    BY <1>2, <2>1, <2>2, PositionInduction
  <2>4. L \in good
    BY <1>2, <2>3
  <2> QED
    BY <2>4 DEF good
<1> QED
  BY <1>1, <1>10 DEF K, L

-----------------------------------------------------------------------------
(* A call.                                                                 *)

(* The text of FoundIsCovered and of SameLawIsNearest, for any call.       *)
CoveredBy(t, found, result) ==
  /\ \A r \in Range(found) :
       \/ \E s \in Range(result) : Inside(r, s)
       \/ \E s \in Range(found) : Inside(r, s) /\ \E p \in DOMAIN NegativeIn[t] : InWindow(t, p, s) # {}
  /\ \A i, j \in DOMAIN result : Inside(result[i], result[j]) => i = j

NearestIn(t, law, found) ==
  \A m \in {x \in Range(Found[t]) : x.kind = "sameLaw"} :
    LET before == {l \in LawNames(t, law) : l.at < m.at}
        after  == {l \in LawNames(t, law) : l.at > m.at}
        mine   == {r \in Range(found) : r.kind = "sameLaw" /\ r.at = m.at}
        near   == CHOOSE l \in before : \A o \in before : o.at <= l.at
    IN  IF Cardinality(after) >= MaxRecent THEN mine = {}
        ELSE before # {} => \E r \in mine : r.law = findLawId(near, law)

(* Overlap removal and filter, one after the other.                        *)
LEMMA ResultCovers ==
  ASSUME NEW t \in Texts, NEW S, \A r \in S : r.at \in Nat /\ r.len \in Nat,
         NEW found \in Seq(S), NEW index \in [DOMAIN NegativeIn[t] -> Nat]
  PROVE  LET filtered == filterNegativePatterns(t, deduplicateAndSort(found), index)
         IN  /\ filtered.index \in [DOMAIN NegativeIn[t] -> Nat]
             /\ filtered.refs \in Seq(S)
             /\ CoveredBy(t, found, filtered.refs)
<1> DEFINE d == deduplicateAndSort(found)
           f == filterNegativePatterns(t, d, index)
           res == f.refs
<1>1. /\ d \in Seq(S)
      /\ \A i \in DOMAIN found : \E n \in DOMAIN d : Inside(found[i], d[n])
      /\ \A n \in DOMAIN d : \E i \in DOMAIN found : d[n] = found[i]
      /\ \A m, n \in DOMAIN d : Inside(d[m], d[n]) => m = n
  BY Deduplicated
<1> HIDE DEF d
<1>2. f \in FilterState(t, S) /\ FilteredUpTo(t, f, d, Len(d))
  BY <1>1, Filtered
<1> HIDE DEF f
<1>3. f.index \in [DOMAIN NegativeIn[t] -> Nat] /\ res \in Seq(S)
  BY <1>2 DEF FilterState
<1>4. DOMAIN d = 1..Len(d)
  BY <1>1
<1>5. /\ \A j \in 1..Len(d) : \/ \E n \in DOMAIN res : res[n] = d[j]
                              \/ \E p \in DOMAIN NegativeIn[t] : InWindow(t, p, d[j]) # {}
      /\ \A m, n \in DOMAIN res : m # n => \E a, b \in 1..Len(d) : a # b /\ res[m] = d[a] /\ res[n] = d[b]
  BY <1>2 DEF FilteredUpTo
<1> HIDE DEF res
<1>6. ASSUME NEW r \in Range(found)
      PROVE  \/ \E s \in Range(res) : Inside(r, s)
             \/ \E s \in Range(found) : Inside(r, s) /\ \E p \in DOMAIN NegativeIn[t] : InWindow(t, p, s) # {}
  <2>1. PICK i \in DOMAIN found : r = found[i]
    BY DEF Range
  <2>2. PICK n \in DOMAIN d : Inside(r, d[n])
    BY <1>1, <2>1
  <2>3. d[n] \in Range(found)
    BY <1>1 DEF Range
  <2>4. \A k \in DOMAIN res : res[k] \in Range(res)
    BY DEF Range
  <2> QED
    BY <1>4, <1>5, <2>2, <2>3, <2>4
<1>7. ASSUME NEW m \in DOMAIN res, NEW n \in DOMAIN res, Inside(res[m], res[n]), m # n PROVE FALSE
  <2>1. PICK a, b \in 1..Len(d) : a # b /\ res[m] = d[a] /\ res[n] = d[b]
    BY <1>5, <1>7
  <2> QED
    BY <1>1, <1>4, <1>7, <2>1
<1>8. CoveredBy(t, found, res)
  BY <1>6, <1>7 DEF CoveredBy
<1> QED
  BY <1>3, <1>8 DEF f, d, res

(* What the phases find together.                                          *)
LEMMA PhasesFind ==
  ASSUME NEW t \in Texts, NEW hd, NEW c, CallContext(c, t, hd), LawsIn(t, c.law) \subseteq hd,
         NEW given \in Recents(hd), c.recent = RecentAfter(t, c.law, given),
         NEW asked \in Seq(Range(Found[t])), NEW answer \in [Range(asked) -> AnsweredLaws \cup {NoAnswer}]
  PROVE  LET all == (detectByPattern(t, c) \o detectByContext(t, c)) \o LlmRefs(asked, answer)
         IN  all \in Seq(Allowed(t, c.law, hd)) /\ NearestIn(t, c.law, all)
<1> DEFINE A == Allowed(t, c.law, hd)
           other == {r \in A : r.kind # "sameLaw"}
           one == detectByPattern(t, c)
           two == detectByContext(t, c)
           three == LlmRefs(asked, answer)
           all == (one \o two) \o three
<1>1. one \in Seq(other) /\ three \in Seq(other)
  <2>1. one \in Seq(other)
    BY PatternPhase
  <2>2. three \in Seq(other)
    BY LlmPhase
  <2> QED
    BY <2>1, <2>2
<1>2. /\ two \in Seq(A)
      /\ \A m \in Range(Found[t]) : m.kind \in Range(ContextOrder) =>
           \A n \in DOMAIN ByContext(m, c) : \E k \in DOMAIN two : two[k] = ByContext(m, c)[n]
      /\ \A k \in DOMAIN two :
           \E m \in Range(Found[t]) : /\ m.kind \in Range(ContextOrder)
                                      /\ \E n \in DOMAIN ByContext(m, c) : two[k] = ByContext(m, c)[n]
  BY ContextPhase
<1> HIDE DEF one, two, three
<1>3. \A r \in other : r \in A /\ r.kind # "sameLaw"
  OBVIOUS
<1> HIDE DEF other, A
<1>4. /\ one \in Seq(A) /\ three \in Seq(A)
      /\ \A n \in DOMAIN one : one[n].kind # "sameLaw"
      /\ \A n \in DOMAIN three : three[n].kind # "sameLaw"
  <2>1. \A s \in Seq(other) : s \in Seq(A) /\ \A n \in DOMAIN s : s[n].kind # "sameLaw"
    <3> SUFFICES ASSUME NEW s \in Seq(other) PROVE s \in Seq(A) /\ \A n \in DOMAIN s : s[n].kind # "sameLaw"
      OBVIOUS
    <3>1. Len(s) \in Nat /\ s \in [1..Len(s) -> A]
      BY <1>3
    <3> QED
      BY <1>3, <3>1
  <2> QED
    BY <1>1, <2>1
<1>5. /\ all \in Seq(A)
      /\ \A k \in DOMAIN two : \E n \in DOMAIN all : all[n] = two[k]
      /\ \A n \in DOMAIN all : all[n].kind = "sameLaw" => \E k \in DOMAIN two : all[n] = two[k]
  <2> DEFINE b == one \o two
  <2>1. /\ Len(one) \in Nat /\ Len(two) \in Nat /\ Len(three) \in Nat
        /\ DOMAIN one = 1..Len(one) /\ DOMAIN two = 1..Len(two) /\ DOMAIN three = 1..Len(three)
    BY <1>2, <1>4
  <2>2. /\ b \in Seq(A) /\ Len(b) = Len(one) + Len(two)
        /\ \A i \in 1..(Len(one) + Len(two)) : b[i] = IF i <= Len(one) THEN one[i] ELSE two[i - Len(one)]
    BY <1>2, <1>4, ConcatProperties
  <2> HIDE DEF b
  <2>3. DOMAIN b = 1..Len(b) /\ Len(b) \in Nat
    BY <2>2
  <2>4. /\ all \in Seq(A) /\ Len(all) = Len(b) + Len(three)
        /\ \A i \in 1..(Len(b) + Len(three)) : all[i] = IF i <= Len(b) THEN b[i] ELSE three[i - Len(b)]
    BY <1>4, <2>2, ConcatProperties DEF b
  <2> HIDE DEF all
  <2>5. DOMAIN all = 1..(Len(b) + Len(three))
    BY <2>4
  <2>6. ASSUME NEW k \in DOMAIN two PROVE \E n \in DOMAIN all : all[n] = two[k]
    <3> DEFINE n == Len(one) + k
    <3>1. /\ n \in 1..(Len(one) + Len(two)) /\ ~(n <= Len(one)) /\ n - Len(one) = k
      BY <2>1
    <3>2. n \in 1..(Len(b) + Len(three)) /\ n <= Len(b)
      BY <2>1, <2>2, <3>1
    <3>3. b[n] = two[k]
      BY <2>2, <3>1
    <3>4. all[n] = b[n]
      BY <2>4, <3>2
    <3> HIDE DEF n
    <3> QED
      BY <2>5, <3>2, <3>3, <3>4
  <2>7. ASSUME NEW n \in DOMAIN all, all[n].kind = "sameLaw" PROVE \E k \in DOMAIN two : all[n] = two[k]
    <3>1. n \in 1..(Len(b) + Len(three))
      BY <2>5
    <3>2. n <= Len(b)
      <4> SUFFICES ASSUME ~(n <= Len(b)) PROVE FALSE
        OBVIOUS
      <4>1. all[n] = three[n - Len(b)]
        BY <2>4, <3>1
      <4>2. n - Len(b) \in DOMAIN three
        BY <2>1, <2>3, <3>1
      <4> QED
        BY <1>4, <2>7, <4>1, <4>2
    <3>3. all[n] = b[n] /\ n \in 1..(Len(one) + Len(two))
      BY <2>1, <2>2, <2>3, <2>4, <3>1, <3>2
    <3>4. ~(n <= Len(one))
      <4> SUFFICES ASSUME n <= Len(one) PROVE FALSE
        OBVIOUS
      <4>1. all[n] = one[n] /\ n \in DOMAIN one
        BY <2>1, <2>2, <3>3
      <4> QED
        BY <1>4, <2>7, <4>1
    <3>5. all[n] = two[n - Len(one)]
      BY <2>2, <3>3, <3>4
    <3>6. n - Len(one) \in DOMAIN two
      BY <2>1, <3>3, <3>4
    <3> QED
      BY <3>5, <3>6
  <2> QED
    BY <2>4, <2>6, <2>7
<1> HIDE DEF all
<1>6. c.law \in Laws \cup {NoLaw} /\ "sameLaw" \in Range(ContextOrder)
  BY KindNames DEF CallContext
<1>7. NearestIn(t, c.law, all)
  <2> SUFFICES ASSUME NEW m \in Range(Found[t]), m.kind = "sameLaw"
               PROVE  LET before == {l \in LawNames(t, c.law) : l.at < m.at}
                          after  == {l \in LawNames(t, c.law) : l.at > m.at}
                          mine   == {r \in Range(all) : r.kind = "sameLaw" /\ r.at = m.at}
                          near   == CHOOSE l \in before : \A o \in before : o.at <= l.at
                      IN  IF Cardinality(after) >= MaxRecent THEN mine = {}
                          ELSE before # {} => \E r \in mine : r.law = findLawId(near, c.law)
    BY DEF NearestIn
  <2> DEFINE before == {l \in LawNames(t, c.law) : l.at < m.at}
             after  == {l \in LawNames(t, c.law) : l.at > m.at}
             mine   == {r \in Range(all) : r.kind = "sameLaw" /\ r.at = m.at}
             near   == CHOOSE l \in before : \A o \in before : o.at <= l.at
  <2>1. ASSUME Cardinality(after) >= MaxRecent PROVE mine = {}
    <3> SUFFICES ASSUME NEW r \in mine PROVE FALSE
      OBVIOUS
    <3>1. PICK n \in DOMAIN all : r = all[n]
      BY DEF Range
    <3>2. r.kind = "sameLaw" /\ r.at = m.at
      OBVIOUS
    <3>3. PICK k \in DOMAIN two : all[n] = two[k]
      BY <1>5, <3>1, <3>2
    <3>4. PICK m2 \in Range(Found[t]) : /\ m2.kind \in Range(ContextOrder)
                                        /\ \E x \in DOMAIN ByContext(m2, c) : two[k] = ByContext(m2, c)[x]
      BY <1>2
    <3>5. PICK x \in DOMAIN ByContext(m2, c) : two[k] = ByContext(m2, c)[x]
      BY <3>4
    <3> DEFINE s == ByContext(m2, c)
               T == {y \in Allowed(t, c.law, hd) : y.kind = m2.kind /\ y.at = m2.at}
    <3>6. s \in Seq(T)
      BY <3>4, ByContextAllowed
    <3>7. s[x] \in T
      <4> HIDE DEF s, T
      <4> QED
        BY <3>5, <3>6 DEF s
    <3>8. m2.kind = "sameLaw" /\ m2.at = m.at
      BY <3>1, <3>2, <3>3, <3>5, <3>7
    <3>9. {l \in LawNames(t, c.law) : l.at > m2.at} = after
      BY <3>8
    <3>10. ByContext(m2, c) = <<>>
      <4>1. Cardinality({l \in LawNames(t, c.law) : l.at > m2.at}) >= MaxRecent
        BY <2>1, <3>9
      <4> HIDE DEF s, T, mine, after, before, near
      <4> QED
        BY <1>6, <3>8, <4>1, SameLawNearest
    <3> QED
      BY <3>5, <3>10
  <2>2. ASSUME ~(Cardinality(after) >= MaxRecent), before # {}
        PROVE  \E r \in mine : r.law = findLawId(near, c.law)
    <3> DEFINE r == Ref(m, findLawId(near, c.law), m.num)
    <3>1. ByContext(m, c) = <<r>>
      BY <1>6, <2>2, SameLawNearest
    <3>2. r.kind = "sameLaw" /\ r.at = m.at /\ r.law = findLawId(near, c.law)
      BY DEF Ref
    <3> HIDE DEF r, near, before, after
    <3>3. 1 \in DOMAIN ByContext(m, c) /\ ByContext(m, c)[1] = r
      BY <3>1
    <3>4. PICK k \in DOMAIN two : two[k] = r
      BY <1>2, <1>6, <3>3
    <3>5. PICK n \in DOMAIN all : all[n] = r
      BY <1>5, <3>4
    <3>6. r \in mine
      BY <3>2, <3>5 DEF Range
    <3> QED
      BY <3>2, <3>6
  <2> QED
    BY <2>1, <2>2
<1> QED
  BY <1>5, <1>7 DEF all, A, one, two, three

-----------------------------------------------------------------------------
(* The inductive invariant: what the context keeps of laws comes from the  *)
(* texts this detector was given, and the positions of the negative        *)
(* patterns are those of every text.                                       *)
ContextInv ==
  /\ ContextTypeOK
  /\ recentLaws \in Recents(heard)
  /\ definitions \in [Terms -> Definitions((Laws \cup {NoLaw}) \cap heard)]
  /\ \A t \in Texts : lastIndex \in [DOMAIN NegativeIn[t] -> Nat]
  /\ KnowsOnlyItsTexts
  /\ SameLawIsNearest
  /\ FoundIsCovered

LEMMA LawsInText ==
  ASSUME NEW t \in Texts, NEW law \in Laws \cup {NoLaw}
  PROVE  LawsIn(t, law) \subseteq Laws \cup {NoLaw}
<1>1. \A m \in Range(Found[t]) : m.kind \in LawKinds => findLawId(m, law) \in Laws \cup {NoLaw}
  BY MatchesOfText DEF IsMatch, findLawId
<1>2. \A d \in Range(Defines[t]) : d.law \in Laws \cup {NoLaw}
  <2> DEFINE X == [term : Terms, law : Laws \cup {NoLaw}, revised : BOOLEAN]
             D == Defines[t]
  <2>1. D \in Seq(X)
    BY ContextAssumption
  <2>2. \A d \in Range(D) : d \in X
    <3> HIDE DEF D, X
    <3> QED
      BY <2>1 DEF Range
  <2> QED
    BY <2>2
<1> QED
  BY <1>1, <1>2 DEF LawsIn

LEMMA MoreHeard ==
  ASSUME NEW hd, NEW more, hd \subseteq more
  PROVE  Recents(hd) \subseteq Recents(more)
<1> SUFFICES ASSUME NEW s \in Recents(hd) PROVE s \in Recents(more)
  OBVIOUS
<1> DEFINE X == [law : Laws \cap hd, at : Nat]
           Y == [law : Laws \cap more, at : Nat]
<1>1. s \in Seq(X) /\ Len(s) <= MaxRecent
  BY DEF Recents
<1>2. \A x \in X : x \in Y
  OBVIOUS
<1> HIDE DEF X, Y
<1>3. Len(s) \in Nat /\ s \in [1..Len(s) -> Y]
  BY <1>1, <1>2
<1>4. s \in Seq(Y)
  BY <1>3
<1> QED
  BY <1>1, <1>4 DEF Recents, Y

(* recentLaws stays short, and knows only laws of the texts.               *)
LEMMA RecentKept ==
  ASSUME NEW t \in Texts, NEW law \in Laws \cup {NoLaw}, NEW hd, LawsIn(t, law) \subseteq hd,
         NEW given \in Recents(hd)
  PROVE  RecentAfter(t, law, given) \in Recents(hd)
<1>1. PICK g : RecentRun(g, t, law, given, hd)
  BY RecentRunExists
<1>2. Len(Found[t]) \in 0..Len(Found[t])
  BY MatchesOfText
<1> QED
  BY <1>1, <1>2 DEF RecentRun

(* A new detector has heard of nothing.                                    *)
LEMMA EmptyContextKnowsNothing ==
  /\ <<>> \in Recents({}) /\ <<>> \in Seq([law : Laws, at : Nat]) /\ Len(<<>>) <= MaxRecent
  /\ [x \in Terms |-> NoDefinition] \in [Terms -> Definitions((Laws \cup {NoLaw}) \cap {})]
<1>1. MaxRecent \in Nat /\ 0 <= MaxRecent
  BY ContextAssumption
<1>2. <<>> \in Seq([law : Laws \cap {}, at : Nat]) /\ <<>> \in Seq([law : Laws, at : Nat]) /\ Len(<<>>) = 0
  OBVIOUS
<1> QED
  BY <1>1, <1>2 DEF Recents, Definitions

LEMMA ContextInitInv ==
  ASSUME ContextInit
  PROVE  ContextInv
<1>1. \A t \in Texts : lastIndex \in [DOMAIN NegativeIn[t] -> Nat]
  <2> DEFINE u == CHOOSE t \in Texts : TRUE
  <2>1. u \in Texts
    BY ContextAssumption
  <2>2. lastIndex = [p \in DOMAIN NegativeIn[u] |-> 0]
    BY DEF ContextInit
  <2> HIDE DEF u
  <2>3. \A t \in Texts : DOMAIN NegativeIn[t] = DOMAIN NegativeIn[u]
    BY <2>1, ContextAssumption
  <2> QED
    BY <2>2, <2>3
<1>2. \A p \in Patterns : lastIndex[p] \in Nat
  BY DEF ContextInit, Patterns
<1>3. last = NoCall /\ heard = {} /\ recentLaws = <<>> /\ definitions = [x \in Terms |-> NoDefinition]
  BY DEF ContextInit
<1>4. KnowsOnlyItsTexts /\ SameLawIsNearest /\ FoundIsCovered
  BY <1>3 DEF KnowsOnlyItsTexts, SameLawIsNearest, FoundIsCovered
<1>5. ContextTypeOK
  <2>1. currentLaw \in Laws \cup {NoLaw} /\ currentArticle \in Articles \cup {NoArticle}
    BY DEF ContextInit
  <2>2. definitions \in [Terms -> Definitions(Laws \cup {NoLaw})]
    BY <1>3 DEF Definitions
  <2>3. llmAvailable \in BOOLEAN /\ heard \subseteq Laws \cup {NoLaw} /\ calls \in 0..MaxCalls
    BY ContextAssumption DEF ContextInit
  <2> QED
    BY <1>2, <1>3, <2>1, <2>2, <2>3, EmptyContextKnowsNothing DEF ContextTypeOK
<1> QED
  BY <1>1, <1>3, <1>4, <1>5, EmptyContextKnowsNothing DEF ContextInv

LEMMA NewDetectorKeeps ==
  ASSUME ContextInv, NEW available \in BOOLEAN, NewDetector(available)
  PROVE  ContextInv'
<1>1. /\ last' = NoCall /\ heard' = {} /\ recentLaws' = <<>> /\ definitions' = [x \in Terms |-> NoDefinition]
      /\ lastIndex' = lastIndex /\ calls' = calls /\ currentLaw' = NoLaw /\ currentArticle' = NoArticle
      /\ llmAvailable' = available
  BY DEF NewDetector, EmptyContext
<1>2. /\ \A t \in Texts : lastIndex \in [DOMAIN NegativeIn[t] -> Nat]
      /\ \A p \in DOMAIN lastIndex : lastIndex[p] \in Nat /\ calls \in 0..MaxCalls
  BY DEF ContextInv, ContextTypeOK, Patterns
<1>3. (KnowsOnlyItsTexts /\ SameLawIsNearest /\ FoundIsCovered)'
  BY <1>1 DEF KnowsOnlyItsTexts, SameLawIsNearest, FoundIsCovered
<1>4. definitions' \in [Terms -> Definitions(Laws \cup {NoLaw})]
  BY <1>1 DEF Definitions
<1>5. calls' \in 0..MaxCalls
  BY <1>1 DEF ContextInv, ContextTypeOK
<1>6. ContextTypeOK'
  BY <1>1, <1>2, <1>4, <1>5, EmptyContextKnowsNothing DEF ContextTypeOK, Patterns
<1> QED
  BY <1>1, <1>2, <1>3, <1>6, EmptyContextKnowsNothing DEF ContextInv

LEMMA CallKeeps ==
  ASSUME ContextInv, NEW t \in Texts, NEW law \in GivenLaws \cup {NoLaw}, NEW article \in Articles \cup {NoArticle},
         detectReferences(t, law, article)
  PROVE  ContextInv'
<1> DEFINE current == IF law = NoLaw THEN currentLaw ELSE law
           c == [law     |-> current,
                 article |-> IF article = NoArticle THEN currentArticle ELSE article,
                 recent  |-> RecentAfter(t, current, recentLaws),
                 defs    |-> detectDefinitions(t, definitions)]
           found == detectByPattern(t, c) \o detectByContext(t, c)
           asked == IF llmAvailable /\ t \notin LongTexts THEN Asked(t, found) ELSE <<>>
           hd == heard \cup LawsIn(t, current)
           S == Allowed(t, current, hd)
<1>1. /\ currentLaw' = c.law /\ currentArticle' = c.article
      /\ recentLaws' = c.recent /\ definitions' = c.defs
      /\ heard' = heard \cup LawsIn(t, c.law) /\ calls' = calls + 1 /\ calls < MaxCalls
      /\ llmAvailable' = llmAvailable
  BY DEF detectReferences
<1>2. PICK answer \in [Range(asked) -> AnsweredLaws \cup {NoAnswer}] :
        /\ lastIndex' = filterNegativePatterns(t, deduplicateAndSort(found \o LlmRefs(asked, answer)), lastIndex).index
        /\ last' = [text |-> t, law |-> c.law, found |-> found \o LlmRefs(asked, answer),
                    result |-> filterNegativePatterns(t, deduplicateAndSort(found \o LlmRefs(asked, answer)), lastIndex).refs]
  BY DEF detectReferences
<1>3. /\ c.law = current /\ c.recent = RecentAfter(t, current, recentLaws)
      /\ c.defs = detectDefinitions(t, definitions)
      /\ c.article = IF article = NoArticle THEN currentArticle ELSE article
  OBVIOUS
<1>4. /\ currentLaw \in Laws \cup {NoLaw} /\ currentArticle \in Articles \cup {NoArticle}
      /\ heard \subseteq Laws \cup {NoLaw} /\ calls \in 0..MaxCalls /\ llmAvailable \in BOOLEAN
      /\ recentLaws \in Recents(heard)
      /\ definitions \in [Terms -> Definitions((Laws \cup {NoLaw}) \cap heard)]
      /\ \A u \in Texts : lastIndex \in [DOMAIN NegativeIn[u] -> Nat]
  BY DEF ContextInv, ContextTypeOK
<1>5. GivenLaws \subseteq Laws /\ Articles \subseteq Nat /\ MaxCalls \in Nat
  BY ContextAssumption
<1>6. current \in Laws \cup {NoLaw} /\ c.article \in Articles \cup {NoArticle}
  BY <1>3, <1>4, <1>5
<1>7. heard \subseteq hd /\ LawsIn(t, current) \subseteq hd /\ hd \subseteq Laws \cup {NoLaw} /\ heard' = hd
  BY <1>1, <1>3, <1>4, <1>6, LawsInText
<1> HIDE DEF hd, current
<1>8. recentLaws \in Recents(hd) /\ c.recent \in Recents(hd)
  <2>1. recentLaws \in Recents(hd)
    BY <1>4, <1>7, MoreHeard
  <2> QED
    BY <1>3, <1>6, <1>7, <2>1, RecentKept
<1>9. c.defs \in [Terms -> Definitions((Laws \cup {NoLaw}) \cap hd)]
  BY <1>3, <1>4, DefinitionsKept DEF hd
<1> HIDE DEF c
<1>10. CallContext(c, t, hd)
  BY <1>3, <1>5, <1>6, <1>8, <1>9 DEF CallContext, Recents
<1> HIDE DEF found
<1>11. asked \in Seq(Range(Found[t]))
  <2>1. <<>> \in Seq(Range(Found[t]))
    OBVIOUS
  <2> QED
    BY <2>1, AskedMatches
<1> HIDE DEF asked
<1> DEFINE all == found \o LlmRefs(asked, answer)
           filtered == filterNegativePatterns(t, deduplicateAndSort(all), lastIndex)
<1>12. all \in Seq(S) /\ NearestIn(t, current, all)
  <2>1. LawsIn(t, c.law) \subseteq hd /\ c.recent = RecentAfter(t, c.law, recentLaws)
    BY <1>3, <1>7
  <2> QED
    BY <1>3, <1>8, <1>10, <1>11, <2>1, PhasesFind DEF found
<1>13. lastIndex' = filtered.index /\ last' = [text |-> t, law |-> current, found |-> all, result |-> filtered.refs]
  BY <1>2, <1>3
<1> HIDE DEF all
<1>14. \A r \in S : /\ r.at \in Nat /\ r.len \in Nat /\ r \in Reference
                    /\ \/ r.kind = "llm"
                       \/ r.law \in {NoLaw, current} \cup LawsIn(t, current)
                       \/ r.kind \in {"sameLaw", "term", "termArticle", "abbreviation"} /\ r.law \in hd \cup {DefaultLaw}
  BY DEF Allowed, Reference
<1> HIDE DEF S
<1>15. /\ filtered.index \in [DOMAIN NegativeIn[t] -> Nat] /\ filtered.refs \in Seq(S)
       /\ CoveredBy(t, all, filtered.refs)
  BY <1>4, <1>12, <1>14, ResultCovers
<1> HIDE DEF filtered
<1>16. last'.text = t /\ last'.law = current /\ last'.found = all /\ last'.result = filtered.refs
  BY <1>13
<1>17. \A u \in Texts : lastIndex' \in [DOMAIN NegativeIn[u] -> Nat]
  <2>1. \A u \in Texts : DOMAIN NegativeIn[u] = DOMAIN NegativeIn[t]
    BY ContextAssumption
  <2> QED
    BY <1>13, <1>15, <2>1
<1>18. DOMAIN lastIndex' = DOMAIN NegativeIn[t] /\ \A p \in DOMAIN lastIndex' : lastIndex'[p] \in Nat
  BY <1>13, <1>15
<1>19. \A s \in Seq(S) : s \in Seq(Reference)
  <2> SUFFICES ASSUME NEW s \in Seq(S) PROVE s \in Seq(Reference)
    OBVIOUS
  <2> HIDE DEF Reference
  <2>1. Len(s) \in Nat /\ s \in [1..Len(s) -> Reference]
    BY <1>14
  <2> QED
    BY <2>1
<1>20. KnowsOnlyItsTexts'
  <2>1. \A r \in Range(filtered.refs) : r \in S
    BY <1>15 DEF Range
  <2>2. \A r \in Range(last'.result) :
          \/ r.kind = "llm"
          \/ r.law \in {NoLaw, last'.law} \cup LawsIn(last'.text, last'.law)
          \/ r.kind \in {"sameLaw", "term", "termArticle", "abbreviation"} /\ r.law \in heard' \cup {DefaultLaw}
    BY <1>7, <1>14, <1>16, <2>1
  <2> QED
    BY <2>2 DEF KnowsOnlyItsTexts
<1>21. SameLawIsNearest'
  BY <1>12, <1>16 DEF SameLawIsNearest, NearestIn
<1>22. FoundIsCovered'
  BY <1>15, <1>16, <1>18 DEF FoundIsCovered, CoveredBy, Patterns
<1>23. ContextTypeOK'
  <2>1. currentLaw' \in Laws \cup {NoLaw} /\ currentArticle' \in Articles \cup {NoArticle}
    BY <1>1, <1>3, <1>6
  <2>2. recentLaws' \in Seq([law : Laws, at : Nat]) /\ Len(recentLaws') <= MaxRecent
    <3> DEFINE X == [law : Laws \cap hd, at : Nat]
               Y == [law : Laws, at : Nat]
               s == recentLaws'
    <3>1. s \in Seq(X) /\ Len(s) <= MaxRecent
      BY <1>1, <1>8 DEF Recents
    <3>2. \A x \in X : x \in Y
      OBVIOUS
    <3> HIDE DEF X, Y, s
    <3>3. Len(s) \in Nat /\ s \in [1..Len(s) -> Y]
      BY <3>1, <3>2
    <3>4. s \in Seq(Y)
      BY <3>3
    <3> QED
      BY <3>1, <3>4 DEF s, Y
  <2>3. definitions' \in [Terms -> Definitions(Laws \cup {NoLaw})]
    BY <1>1, <1>9 DEF Definitions
  <2>4. llmAvailable' \in BOOLEAN /\ heard' \subseteq Laws \cup {NoLaw} /\ calls' \in 0..MaxCalls
    BY <1>1, <1>4, <1>5, <1>7
  <2>5. last'.found \in Seq(Reference) /\ last'.result \in Seq(Reference)
    BY <1>12, <1>15, <1>16, <1>19
  <2> QED
    BY <1>18, <2>1, <2>2, <2>3, <2>4, <2>5 DEF ContextTypeOK, Patterns
<1> QED
  BY <1>1, <1>7, <1>8, <1>9, <1>17, <1>20, <1>21, <1>22, <1>23 DEF ContextInv

LEMMA ContextStutter ==
  ASSUME ContextInv, UNCHANGED contextVars
  PROVE  ContextInv'
<1>1. /\ currentLaw' = currentLaw /\ currentArticle' = currentArticle /\ recentLaws' = recentLaws
      /\ definitions' = definitions /\ llmAvailable' = llmAvailable /\ lastIndex' = lastIndex
      /\ heard' = heard /\ last' = last /\ calls' = calls
  BY DEF contextVars
<1>2. ContextTypeOK'
  BY <1>1 DEF ContextInv, ContextTypeOK, Patterns
<1>3. KnowsOnlyItsTexts'
  BY <1>1 DEF ContextInv, KnowsOnlyItsTexts
<1>4. SameLawIsNearest'
  BY <1>1, Zenon DEF ContextInv, SameLawIsNearest
<1>5. FoundIsCovered'
  BY <1>1 DEF ContextInv, FoundIsCovered, Patterns
<1> QED
  BY <1>1, <1>2, <1>3, <1>4, <1>5 DEF ContextInv

(* The invariant of the detector's context.                                *)
THEOREM ContextInvariant == ContextSpec => []ContextInv
<1>1. ContextInit => ContextInv
  BY ContextInitInv
<1>2. ContextInv /\ [ContextNext]_contextVars => ContextInv'
  <2> SUFFICES ASSUME ContextInv, [ContextNext]_contextVars PROVE ContextInv'
    OBVIOUS
  <2>1. CASE ContextNext
    BY <2>1, NewDetectorKeeps, CallKeeps DEF ContextNext
  <2>2. CASE UNCHANGED contextVars
    BY <2>2, ContextStutter
  <2> QED
    BY <2>1, <2>2
<1> QED
  BY <1>1, <1>2, PTL DEF ContextSpec

(* Every state is typed: recentLaws never grows past its limit, and the    *)
(* positions of the negative patterns are natural numbers.                 *)
THEOREM ContextTypeCorrect == ContextSpec => []ContextTypeOK
<1>1. ContextInv => ContextTypeOK
  BY DEF ContextInv
<1> QED
  BY <1>1, ContextInvariant, PTL

(* detectReferences, whatever texts it was given before: its references    *)
(* name laws of this text, of this detector's texts, or of the model.      *)
THEOREM DetectorKnowsItsTexts == ContextSpec => []KnowsOnlyItsTexts
<1>1. ContextInv => KnowsOnlyItsTexts
  BY DEF ContextInv
<1> QED
  BY <1>1, ContextInvariant, PTL

(* 同法 is the law named last before it, for every text, every list that   *)
(* earlier texts left, and every limit of the list.                        *)
THEOREM SameLawResolved == ContextSpec => []SameLawIsNearest
<1>1. ContextInv => SameLawIsNearest
  BY DEF ContextInv
<1> QED
  BY <1>1, ContextInvariant, PTL

(* deduplicateAndSort and filterNegativePatterns together cover what the   *)
(* phases found, for every number and overlap of references.               *)
THEOREM ResultsCoverFound == ContextSpec => []FoundIsCovered
<1>1. ContextInv => FoundIsCovered
  BY DEF ContextInv
<1> QED
  BY <1>1, ContextInvariant, PTL

-----------------------------------------------------------------------------
(* The two detectors beside each other: every variable keeps its type, for *)
(* any calls of UltimateReferenceDetector and of the hybrid detector.      *)
THEOREM DetectorsTypeCorrect == DetectorsSpec => []DetectorsTypeOK
<1>1. DetectorsInit => ContextInit /\ HybridInit
  BY DEF DetectorsInit
<1>2. [DetectorsNext]_<<contextVars, hybridVars>> => [ContextNext]_contextVars /\ [HybridNext]_hybridVars
  BY DEF DetectorsNext
<1>3. DetectorsSpec => ContextSpec /\ HybridSpec
  BY <1>1, <1>2, PTL DEF DetectorsSpec, ContextSpec, HybridSpec
<1>4. ContextTypeOK /\ HybridTypeOK => DetectorsTypeOK
  BY DEF DetectorsTypeOK
<1> QED
  BY <1>3, <1>4, ContextTypeCorrect, HybridTypeCorrect, PTL
=============================================================================
