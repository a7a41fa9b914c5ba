---------------------------- MODULE HybridDetection ----------------------------
(***************************************************************************)
(* src/lib/hybrid-reference-detector.ts with src/lib/llm-validator.ts: one *)
(* detector object, whose cache and configuration all its calls share; a   *)
(* call waits for the language model up to three times, and other calls,   *)
(* updateConfig and clearCache happen meanwhile.                           *)
(*                                                                         *)
(* Whether the algorithm finds anything in a text, and what the language   *)
(* model may, is given by constants.  A reference is the key under which   *)
(* detectReferences files it (source text and position) and what it refers *)
(* to; a reference of the model always has a position, one of the          *)
(* algorithm never.  Counts and times of the report are left out,          *)
(* llmCallsMade and algorithmDetected too.                                 *)
(***************************************************************************)
EXTENDS Integers, Sequences, SequencesExt, FiniteSets, Subsequences

CONSTANTS
  Calls,           \* calls of detectReferences that may be under way at once
  HybridTexts,
  prefix50,        \* the first 50 characters of a text
  AlgorithmTexts,  \* texts in which EnhancedReferenceDetectorV37 finds a reference
  TextsWith,       \* TextsWith[step]: texts with abbreviations, with indirect references
  SparseTexts,     \* texts of over 100 characters with fewer than two references
  Parsed,          \* Parsed[step][t]: what the parsed answers of the model may be
  Configs,         \* configurations
  MaxValidated,    \* references handed to validation (10)
  MaxStarts,       \* bound of the calls in a behaviour
  NoText, NoAnswered

Prompts == {"abbreviations", "indirect"}   \* cache keys abbr_ and indirect_

RefsIn(s) == {[key |-> s[i].key, target |-> s[i].target] : i \in DOMAIN s}

HybridRef == UNION {RefsIn(a) : a \in UNION {Parsed[p][t] : p \in Prompts, t \in HybridTexts}}

(* confidences in tenths; 5 stands for a validation that failed.           *)
ASSUME HybridAssumption ==
  /\ MaxValidated \in Nat /\ MaxStarts \in Nat
  /\ \A c \in Configs : c \in [use : SUBSET (Prompts \cup {"validation"}), confidenceThreshold : 0..10,
                               cacheEnabled : BOOLEAN, maxLLMCallsPerText : Nat]
  /\ \A p \in Prompts, t \in HybridTexts : <<>> \in Parsed[p][t] /\ Parsed[p][t] \subseteq Seq(HybridRef)

VARIABLES
  config,
  hcache,    \* hcache[prompt][prefix]: the cached references
  pc,        \* "idle", a step about to start, a prompt being waited for, "validating", "returned", "threw"
  textOf,    \* the text of the call
  refMap,    \* referenceMap: references with distinct keys, in order of insertion
  late,      \* prompts the call no longer waits for
  starts,    \* history: number of calls
  timely     \* history: references the model gave in time, with prompt and prefix

hybridVars == <<config, hcache, pc, textOf, refMap, late, starts, timely>>

Prefix50s == {prefix50[t] : t \in HybridTexts}
Waiting(p) == IF p = "abbreviations" THEN "waits for expansion" ELSE "waits for indirect"

HybridInit ==
  /\ config \in Configs
  /\ hcache = [p \in Prompts |-> [x \in Prefix50s |-> NoAnswered]]
  /\ pc = [c \in Calls |-> "idle"]
  /\ textOf = [c \in Calls |-> NoText]
  /\ refMap = [c \in Calls |-> <<>>]
  /\ late = {}
  /\ starts = 0 /\ timely = {}

-----------------------------------------------------------------------------
Filed(map) == {map[i].key : i \in DOMAIN map}

AddRef(map, ref) == IF ref.key \in Filed(map) THEN map ELSE Append(map, ref)

(* What the loops over refs leave, AddRef by AddRef (checked in            *)
(* MCDetectors): a key stands where it is met first, with that reference.  *)
FirstMet(map, refs) == {i \in DOMAIN refs : /\ refs[i].key \notin Filed(map)
                                            /\ \A j \in 1..(i - 1) : refs[j].key # refs[i].key}

AddAll(map, refs) == map \o AtPositions(refs, FirstMet(map, refs))

shouldUseLLM(t) == t \in TextsWith["abbreviations"] \cup TextsWith["indirect"] \cup SparseTexts

(* detectReferences up to the first call of the model.  A reference of the *)
(* algorithm has no position, whose start line 74 reads: the call rejects  *)
(* with a TypeError.  The limit of calls is looked at here and never again.*)
StartHybrid(c, t) ==
  /\ pc[c] \in {"idle", "returned", "threw"} /\ starts < MaxStarts
  /\ starts' = starts + 1
  /\ textOf' = [textOf EXCEPT ![c] = t]
  /\ refMap' = [refMap EXCEPT ![c] = <<>>]
  /\ pc' = [pc EXCEPT ![c] = IF t \in AlgorithmTexts THEN "threw"
                             ELSE IF shouldUseLLM(t) /\ config.maxLLMCallsPerText > 0 THEN "abbreviations"
                             ELSE "returned"]
  /\ UNCHANGED <<config, hcache, late, timely>>

After(step) == CASE step = "abbreviations" -> "indirect" [] step = "indirect" -> "validation"

(* The step is switched off, or the text gives no reason for it.           *)
SkipPrompt(c, p) ==
  /\ pc[c] = p
  /\ p \notin config.use \/ textOf[c] \notin TextsWith[p]
  /\ pc' = [pc EXCEPT ![c] = After(p)]
  /\ UNCHANGED <<config, hcache, textOf, refMap, late, starts, timely>>

Cached(p, t) == config.cacheEnabled /\ hcache[p][prefix50[t]] # NoAnswered

(* expandAbbreviations, detectIndirectReferences: the answer to a text     *)
(* with the same beginning is taken from the cache.                        *)
FromCache(c, p) ==
  /\ pc[c] = p /\ p \in config.use /\ textOf[c] \in TextsWith[p]
  /\ Cached(p, textOf[c])
  /\ refMap' = [refMap EXCEPT ![c] = AddAll(@, hcache[p][prefix50[textOf[c]]])]
  /\ pc' = [pc EXCEPT ![c] = After(p)]
  /\ UNCHANGED <<config, hcache, textOf, late, starts, timely>>

AskModel(c, p) ==
  /\ pc[c] = p /\ p \in config.use /\ textOf[c] \in TextsWith[p]
  /\ ~Cached(p, textOf[c])
  /\ pc' = [pc EXCEPT ![c] = Waiting(p)]
  /\ UNCHANGED <<config, hcache, textOf, refMap, late, starts, timely>>

Answered(p, t, a) == {[prompt |-> p, prefix |-> prefix50[t], ref |-> r] : r \in RefsIn(a)}

(* The answer comes in time.  One that cannot be parsed has no references, *)
(* and is cached like any other.                                           *)
Answer(c, p, a) ==
  /\ pc[c] = Waiting(p)
  /\ a \in Parsed[p][textOf[c]]
  /\ hcache' = IF config.cacheEnabled THEN [hcache EXCEPT ![p][prefix50[textOf[c]]] = a] ELSE hcache
  /\ timely' = timely \cup Answered(p, textOf[c], a)
  /\ refMap' = [refMap EXCEPT ![c] = AddAll(@, a)]
  /\ pc' = [pc EXCEPT ![c] = After(p)]
  /\ UNCHANGED <<config, textOf, late, starts>>

(* Mutant: without the race of the two promises the call waits on.         *)
TimeoutIgnored(c, p) ==
  /\ pc[c] = Waiting(p)
  /\ late' = late \cup {[prompt |-> p, text |-> textOf[c]]}
  /\ UNCHANGED <<config, hcache, pc, textOf, refMap, starts, timely>>

(* Two seconds have passed, or the request failed: the call goes on        *)
(* without references of this step, and the answer may still come.         *)
Timeout(c, p) ==
  /\ pc[c] = Waiting(p)
  /\ late' = late \cup {[prompt |-> p, text |-> textOf[c]]}
  /\ pc' = [pc EXCEPT ![c] = After(p)]
  /\ UNCHANGED <<config, hcache, textOf, refMap, starts, timely>>

(* Mutant: a late answer is cached.                                        *)
LateAnswerCached(q, a) ==
  /\ q \in late /\ a \in Parsed[q.prompt][q.text]
  /\ late' = late \ {q}
  /\ hcache' = [hcache EXCEPT ![q.prompt][prefix50[q.text]] = a]
  /\ UNCHANGED <<config, pc, textOf, refMap, starts, timely>>

LateAnswer(q, a) ==
  /\ q \in late /\ a \in Parsed[q.prompt][q.text]
  /\ late' = late \ {q}
  /\ UNCHANGED <<config, hcache, pc, textOf, refMap, starts, timely>>

-----------------------------------------------------------------------------
SkipValidation(c) ==
  /\ pc[c] = "validation"
  /\ "validation" \notin config.use \/ refMap[c] = <<>>
  /\ pc' = [pc EXCEPT ![c] = "returned"]
  /\ UNCHANGED <<config, hcache, textOf, refMap, late, starts, timely>>

(* validateWithLLM waits without a limit.                                  *)
AskValidation(c) ==
  /\ pc[c] = "validation" /\ "validation" \in config.use /\ refMap[c] # <<>>
  /\ pc' = [pc EXCEPT ![c] = "validating"]
  /\ UNCHANGED <<config, hcache, textOf, refMap, late, starts, timely>>

(* The first references, which validation looks at.                        *)
Validated(map) == 1..(IF Len(map) > MaxValidated THEN MaxValidated ELSE Len(map))

(* parseValidationResult: no confidence, or 0, counts as 0.5.              *)
Confidence(v) == IF v.confidence = 0 THEN 5 ELSE v.confidence

Accepts(v) == v.valid /\ Confidence(v) >= config.confidenceThreshold

(* The references of a Map whose key was not deleted.                      *)
Kept(map, bad) == AtPositions(map, {i \in DOMAIN map : map[i].key \notin bad})

RemoveRejected(c, verdicts) ==
  LET map == refMap[c]
      bad == {map[i].key : i \in {j \in Validated(map) : ~Accepts(verdicts[j])}}
  IN  refMap' = [refMap EXCEPT ![c] = Kept(map, bad)]

Verdicts == [valid : BOOLEAN, confidence : {0, 9}]

(* The verdicts arrive; a reference without one counts as valid.           *)
ValidationAnswered(c) ==
  /\ pc[c] = "validating"
  /\ \E verdicts \in [Validated(refMap[c]) -> Verdicts] : RemoveRejected(c, verdicts)
  /\ pc' = [pc EXCEPT ![c] = "returned"]
  /\ UNCHANGED <<config, hcache, textOf, late, starts, timely>>

(* The request fails or its answer cannot be parsed: every reference is    *)
(* valid with confidence 0.5.                                              *)
ValidationFailed(c) ==
  /\ pc[c] = "validating"
  /\ RemoveRejected(c, [i \in Validated(refMap[c]) |-> [valid |-> TRUE, confidence |-> 0]])
  /\ pc' = [pc EXCEPT ![c] = "returned"]
  /\ UNCHANGED <<config, hcache, textOf, late, starts, timely>>

-----------------------------------------------------------------------------
clearCache ==
  /\ hcache' = [p \in Prompts |-> [x \in Prefix50s |-> NoAnswered]]
  /\ UNCHANGED <<config, pc, textOf, refMap, late, starts, timely>>

updateConfig(new) ==
  /\ config' = new
  /\ UNCHANGED <<hcache, pc, textOf, refMap, late, starts, timely>>

(* The steps of a call that need no answer of the model.                   *)
OwnStep(c) ==
  \/ \E p \in Prompts : SkipPrompt(c, p) \/ FromCache(c, p) \/ AskModel(c, p) \/ Timeout(c, p)
  \/ SkipValidation(c) \/ AskValidation(c)

HybridNext ==
  \/ \E c \in Calls :
       \/ \E t \in HybridTexts : StartHybrid(c, t)
       \/ OwnStep(c)
       \/ \E p \in Prompts : textOf[c] # NoText /\ \E a \in Parsed[p][textOf[c]] : Answer(c, p, a)
       \/ ValidationAnswered(c) \/ ValidationFailed(c)
  \/ \E q \in late : \E a \in Parsed[q.prompt][q.text] : LateAnswer(q, a)
  \/ clearCache
  \/ \E new \in Configs : updateConfig(new)

HybridSpec == HybridInit /\ [][HybridNext]_hybridVars

HybridFairness == \A c \in Calls : WF_hybridVars(OwnStep(c))

-----------------------------------------------------------------------------
HybridTypeOK ==
  /\ config \in Configs
  /\ hcache \in [Prompts -> [Prefix50s -> Seq(HybridRef) \cup {NoAnswered}]]
  /\ pc \in [Calls -> {"idle", "validation", "validating", "returned", "threw"}
                      \cup Prompts \cup {Waiting(p) : p \in Prompts}]
  /\ textOf \in [Calls -> HybridTexts \cup {NoText}]
  /\ refMap \in [Calls -> Seq(HybridRef)]
  /\ late \subseteq [prompt : Prompts, text : HybridTexts]
  /\ starts \in 0..MaxStarts
  /\ timely \subseteq [prompt : Prompts, prefix : Prefix50s, ref : HybridRef]

(* Whatever a call holds or returns was an answer that came in time, to a  *)
(* question this call's text gives reason to ask and about a text with the *)
(* same first 50 characters: an answer that comes after the timeout        *)
(* reaches no call, not even through the cache, and an answer to one       *)
(* question is never taken for one to the other.                           *)
OnlyTimelyAnswers ==
  \A c \in Calls : \A r \in RefsIn(refMap[c]) :
    \E a \in timely : /\ a.ref = r /\ a.prefix = prefix50[textOf[c]]
                      /\ textOf[c] \in TextsWith[a.prompt]

(* A call that comes as far as the language model returns although the     *)
(* model never answers, or is asked to validate, which has no timeout.     *)
CallsReturn ==
  \A c \in Calls : pc[c] \notin {"idle", "returned", "threw"} ~> pc[c] \in {"returned", "validating"}
================================================================================
