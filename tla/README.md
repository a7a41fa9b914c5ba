# LawFinder: TLA+ models, checks and proofs

LawFinder takes the XML texts of Japanese laws, stores them in PostgreSQL,
detects the references between their articles, and keeps the references as a
graph in Neo4j for search and impact analysis. This directory models the part
of it that changes shared state, with TLC for small instances and TLAPS for the
theorems. Paths below are relative to the repository root.

## 1. Inventory

| Component | State | Operations | Hard about it |
|---|---|---|---|
| Law store (`prisma/schema.prisma`) | LawMaster, LawVersion, Article, Paragraph, Item, Reference rows; unique and foreign keys | single SQL statements | the scripts use no transaction; only the keys order them |
| Init and import (`scripts/init-law-data.ts`, `scripts/import-law-data.ts`) | position in the list of laws, the XML in memory, the article being created | upserts, `deleteMany`, nested `create` loops | concurrent imports, calls that reject, a process that dies between delete and create |
| Detection (`scripts/detect-references.ts`) | the articles read, the array of references, the batch position | `findFirst`, lookup of law names, `deleteMany`, `createMany` in batches | overlapping detections, articles replaced while being read |
| Graph synchronisation (`scripts/sync-references-to-neo4j.ts`) | the rows read, the reference in work, error count; Law and Article nodes, edges | five Cypher statements per reference | `MATCH` that matches nothing succeeds; one of five statements fails; two syncs at once |
| Reference cache (`src/lib/reference-cache.ts`) | Map, access order, limits, totals; its saved form | get, set, has, delete, clear, prune, serialize, deserialize | two structures that must not drift apart; restored with other limits |
| Article number normaliser (`scripts/normalize-article-numbers.ts`, `src/utils/article-normalizer.ts`) | rows and nodes read, backup files | backup, one update per row and per node | repeated after a crash, beside detections that delete and insert rows |
| Enhanced sync (`scripts/sync-enhanced-to-neo4j.ts`) | the rows read | `MERGE` of nodes, `CREATE` of edges | repeated and overlapping syncs, nodes that nothing makes unique, half-done rows, numbers that do not match |
| API routes (`app/api/**`), `src/lib/hybrid-db.ts` | none of their own; both databases | queries | not modelled, see section 7 |
| Hybrid detection and LLM validation (`src/lib/hybrid-reference-detector.ts`, `llm-validator.ts`) | cache and configuration shared by all calls; a Map of references per call | three requests to a language model per call | late answers, failures, a cache keyed by a prefix, a configuration that changes under a call |
| Reference manager (`scripts/manager.ts`, `scripts/cli.ts`) | algorithm versions; checkpoint files; Law nodes and edges | register, activate, sync (detect and validate never write, section 7) | two updates that are not one transaction, `MERGE` without a constraint, clean-up in batches |
| Main detector (`scripts/detector.ts`, `scripts/negative-patterns.ts`) | current law and article, recent laws, definitions; `lastIndex` of the patterns | phases of pattern, context and LLM detection, overlap removal, filter | state of one text or law is used for the next |
| Relative references (`src/services/relative-reference-resolver.ts`) | none | pure functions | boundaries: the first article, no article |
| Impact analysis (`src/domain/services/ImpactAnalysisService.ts`) | queue, visited set | breadth-first search | has no caller |
| Retry, timeout, monitoring, logging (`src/shared/utils`, `src/lib/logger.ts`) | attempts, buffers | retry, flush | no other module imports the helpers |
| XML parser, user interface, domain value objects, generated client and dictionaries, `scripts/legacy` | - | - | nothing shared, or archived; not modelled |

The scripts interact only through the two databases. Every one may be started
at any time, twice, and next to the others: nothing in the code locks. The API
and the user interface read what they leave.

Correct means, per component: an import leaves exactly the articles of its
edition, or fails visibly; a detection stores one row per reference it found
and no others; a sync that reports no error has put every row it read into the
graph; the cache stays within its limit, evicts the entry used longest ago and is to
its user a store of results; the normaliser can be repeated and undone; a
detector takes nothing from a law it is not in unless the text says so, and
loses no reference but to a longer one or to the filter; a call of the hybrid
detector that gets as far as the language model returns, with nothing but
answers that came in time; one algorithm version is active; a sync that creates
edges adds each once.

The hazards, each at its line, are in `PROJECT.json`.

## 2. Modules

    LawStore            tables and files           <- schema.prisma
      LawImport         init and import scripts    (several processes)
      ReferenceDetection  detection script         (beside whole imports)
        GraphSync       synchronisation            (beside detection)
    LawPipeline         LawImport + GraphSync: all scripts, step by step
    XmlExtract          extractArticlesFromXML as an operator
    Subsequences        what splice, filter and Map.delete leave of a list
    ResultStore         what a cache of results promises (abstract)
      ReferenceCache    the cache, which implements it
    ArticleNormalizer   the normaliser, beside detections
    RelativeReference   the resolver as operators
      DetectorContext   UltimateReferenceDetector and the negative filter
    HybridDetection     the hybrid detector with the LLM validator
    Detectors           DetectorContext + HybridDetection
    ReferenceManager    register and activate of manager.ts
    ReferenceEdges      sync of manager.ts, sync-enhanced-to-neo4j.ts
    Management          ReferenceManager + ReferenceEdges
    MC*.tla, *.cfg      instances for TLC

    LawImportProofs, ReferenceDetectionProofs, ReferenceCacheProofs,
    ArticleNormalizerProofs
                        the theorems about the module of that name
    PipelineProofs      GraphSync and LawPipeline, from the proofs of the parts
    DetectorProofs      DetectorContext, HybridDetection and Detectors
    ManagementProofs    ReferenceManager, ReferenceEdges and Management
    SubsequenceTheorems what the operators of Subsequences return, loops over
                        lists, numbers of occurrences

**One awaited call is one step.** A script is a program counter per process;
between any two awaited calls another process may act. A call may reject
(`Reject`, `DetectionFails`, `StatementFails`) and a process may die (`Crash`,
`SyncAborts`, `NormCrash`) at every step; where the code does the same on both,
one action stands for both.

**LawStore.** `file` is the newest directory of a law under `laws_data/`
(`NewEdition`, external). `lawMaster` says whether the row exists and whether
`currentVersionId` is set; `xmlContent` belongs to the single version
(`<lawId>_v1`) that `init-law-data.ts` creates; `ForeignKeys` has the key of
`currentVersionId` and that of `LawVersion.lawId`; `article[l][n]` is the row with
`articleNumber` n. A row records which process created it (this stands for its
database id), which text and position it was created from (its contents) and
how many Paragraph and Item rows it has. The unique key of (versionId,
articleNumber) is the shape of the function. `Extract` is a constant of the
specification; the instances compute it with `XmlExtract` from XML elements.
There, the items of a paragraph are those with a `Num`, assumed distinct within
the paragraph as they are in published laws.

**LawImport.** Actions are named after the calls: `UpsertLawMaster`,
`UpsertLawVersion`, `UpdateCurrentVersionId`; `FindLatestVersion`, `LoadXml`,
`DeleteArticles`, `CreateArticle`, `CreateChild`, `ImportDone`. `CreateChild`
is rejected by the foreign key when the article has been deleted by another
process, `CreateArticle` by the unique key; the catch block gives the law up
and goes on to the next. `editions` and `broken` are history: what was being
written since the last `deleteMany`, and whether a writer was cut short.

**ReferenceDetection.** What the regular expressions of
`ImprovedReferenceDetector` find in an article is the constant `Mentions`; the
resolution of a mention (`Resolutions`, `findLawIdByName`,
`resolveRelativeReference`) is the code's. Reference rows carry the detector
that wrote them and the place of the mention, which stand for the row id:
`skipDuplicates` skips nothing, since there is no unique key but the id.
`owner`, `expected`, `basis`, `overlap` and `cut` are history about the last
`deleteMany` of a law.

**GraphSync.** Nodes and edges are sets: `MERGE` puts a member into one, and
`MATCH` of a missing node makes the statement do nothing. Article nodes have an
index and no uniqueness constraint, so two syncs may really make two nodes; a
member stands for one or more, and the properties say what is in the graph, not
how often. (How often is the question of `ReferenceEdges`, whose scripts
`CREATE`.) The script deletes nothing. Edges are identified by what the `MERGE`
of the relationship names.

**ReferenceCache.** `Map` order and access order are sequences of keys.
`generateKey` is a constant function that need not be injective. A restore
replaces the cache of the process by the saved one, with the default limits.
Bounds: `MaxTime`, `MaxUses`, `MaxMisses`.

**ResultStore** is the abstract specification of the cache: a partial map that
may forget anything at any time, but a `Put` of a new key into a full store
costs exactly one entry and a `Put` of a known key none, and a restored store
is the saved one or empty. The refinement mapping (`Abstract` in
`ReferenceCache`) forgets order of use, time, versions and statistics.

**ArticleNormalizer.** A number is a format, a base and a branch;
`toNumericFormat` keeps the base. Rows are deleted and stored by detections
while the script runs. The set of nodes is fixed; nothing makes their numbers
unique, so `SET` never fails for that and nodes may end with the same number;
`backup` is the union of the
backup files, which have a time stamp in their name. The loop over
`REFERENCES` edges changes edge properties that nothing else reads or writes
and is left out.

**RelativeReference, DetectorContext.** One call of `detectReferences` is one
action: the class is used by one caller that awaits it. The regular expressions
are the constant `Found`: the matches in a text, each with its kind, place and
contents (`IsMatch`); the law names among them are in the order of the text
(`NamesInOrder`). A name stands for the law that the dictionary gives it, 新法
and 旧法 for the current law (`findLawId`). What a match of a kind becomes (`ByPattern`, `ByContext`, `LlmRefs`),
in which order the patterns are tried (`PatternOrder`), which matches are
skipped because of earlier ones, what is remembered (`updateContext`,
`detectDefinitions`), the stable sort and overlap removal
(`deduplicateAndSort`) and the filter with the `lastIndex` of its `g` patterns
(`filterNegativePatterns`) are the code's. `NewDetector` is a driver that makes
an object for the next law; `lastIndex` belongs to the module and survives it.
Relative words are resolved with the context the detector really passes:
paragraph 1, and no article unless the caller gave one. The loops of the code
are recursive functions of the number of elements they have gone through.
`heard` is history: the laws that the texts given to this object mean.

**HybridDetection.** A call is a program counter; the object's cache and
configuration are shared. A request is answered in time (`Answer`), overtaken
by the timer (`Timeout`) and then answered late (`LateAnswer`), which the code
discards. `updateConfig` and `clearCache` may happen while calls wait. The
constants are in which texts the algorithm finds a reference and what the model
finds in each. A reference of the algorithm has no `position`, which
`hybrid-reference-detector.ts:74` reads, so that such a call throws
(`AlgorithmTexts`, the program counter "threw") and the Map of every other call
begins empty. The loops that fill and thin out `referenceMap` are closed forms
(`AddAll`, `Kept`) about which one can prove something; `MapsAreFolds` in
`MCDetectors` compares them with the loops, `Map.set` by `Map.set`, on all short
lists.

**ReferenceManager.** `register` and `activate`; one SQL statement is one step,
each command a process. `alone` and `settled` are history: which activation has
had no other beside it, and what it left.

**ReferenceEdges.** `edges` counts the `REFERENCES` edges per source law (the
sync of `manager.ts`, which draws the targets at random) or per row (the
enhanced sync). `copies` counts the nodes of a key. Only `setupSchema` may make
a uniqueness constraint, on the ids of laws, and only if there is no index yet
and no law has two nodes (`lawKey`); Article and Paragraph nodes have none. A
`MERGE` is therefore two steps: it looks for its nodes (`Look`) and creates the
ones it did not find (`Merged`), also when another writer has created them in
between. `MATCH ... MATCH ... CREATE` then makes an edge for every pair of
copies (`Created`, `Pairs`). Laws are `MERGE`d in batches, one step each. The
batched `DELETE ... LIMIT` deletes any edges (`LeftAfter`). `--fix-duplicates`
rewrites the checkpoint files that the sync then reads. The graph may begin with
nodes of other scripts (`InitialNodes`). `base`, `undisturbed`, `unfailed` are
history.

## 3. Runs

All runs finish within five minutes with two workers.

| Run | Instance | Shows |
|---|---|---|
| `import` | 2 processes, 1 law, 2 editions, 4 article numbers (131217 states) | `ImportTypeOK`, `ImportedComplete`, `NoTornArticle`, the inductive invariant `ImportInv`, and `ScriptsEnd` |
| `import_amended` | 1 process, a law amended twice | **violation** of `AllArticlesImported` (section 6) |
| `detection` | 3 detectors, 1 law, 2 editions, 3 mentions in batches of 2 (92028 states) | `LastDetectionStored`, `EveryMentionOnce` |
| `sync` | 1 detector, 2 laws; 1 sync and 2 editions, or 2 syncs and 1 edition (598389 states) | `EditionInGraph`, `EdgesFromText`, `SyncComplete`, `ArticlesReachable` |
| `pipeline` | 1 process of each script, 1 edition (264704 states) | `EditionInGraph` with imports step by step, `TitlesKnown`, and `SyncEnds`, `DetectionEnds` |
| `reference_cache` | 3 keys, 2 results, limit 2, restored with limit 1, 2 versions (167696 states) | `OrderMatchesCache`, `SizeBounded`, `OneVersion`, `OnlyLruEvicted`, and the refinement `ImplementsResultStore` |
| `normalizer` | 2 rows, 2 nodes, 3 numbers of one article (480334 states) | `NormalizedOnce`, `CleanRunNormalizes`, `OriginalsBackedUp`, `NoResurrection` |
| `normalizer_dry_run` | 2 rows, 2 nodes | **violation** of `DryRunChangesNothing` (section 6) |
| `detectors` | 6 texts in any order, up to 3 calls, 2 laws; or 2 calls of the hybrid detector on 4 texts, 2 of which begin alike (74876 states) | `KnowsOnlyItsTexts`, `SameLawIsNearest`, `FoundIsCovered`; `OnlyTimelyAnswers`, and `CallsReturn` |
| `negative_filter` | the same, 2 calls | **violation** of `NegativesRemoved` (section 6) |
| `management` | 3 managers with 5 commands; or 2 writers with 3 syncs (1189907 states) | `OneActiveVersion`, `AloneSyncExact` |
| `enhanced_sync` | as `management` | **violation** of `SyncedRowsHaveEdges` (section 6) |

Why the bounds are enough. Two imports are what it takes for one to delete
under the other; the editions differ in their articles and have an article with
a paragraph and an item, so that a writer is interrupted between all kinds of
rows. Three detectors give a deleter that overlaps two writers; three mentions
in batches of two give a full and a partial batch. Two laws are needed in the
graph for a target whose Law node does not exist yet; a behaviour of `sync` has
one sync and both editions, or two syncs and one edition (`theme`). Cache keys
exceed the limit by one before and by two after a restore. The normaliser's
numbers all become the same number, so that nodes come to have one number. The
texts of the detector contain every kind of match, more law names than
`recentLaws` holds, an unknown law, a term defined twice, and overlapping
matches; three calls let a context pass through a text into another. Two hybrid
calls on texts with the same beginning share a cache entry while one of them
waits; a third text makes the call throw and a fourth gives no reason to ask.
Three managers give two activations that overlap, one that dies, and a lone one
after them. Two writers double nodes, and a third sync meets what they left:
the last sync of a behaviour starts when no other is running (`MCNext`), since
beside another it would not be alone and no later one would follow. The
checkpoint files name a law twice in one file and again in the next, and hold
more edges than fit in one batch or one `DELETE`. `detectors` and `management`
put two specifications that share no variable side by side; a behaviour uses
one of them, so that the state spaces add up and do not multiply. Symmetry is
used for detectors, syncs, cache keys, results and versions, rows and nodes,
managers and writers, never in a run with a liveness property. The cache keeps
counts of its uses only up to `MaxUses`; `CHECK_DEADLOCK FALSE` stands where a
bounded number of commands or calls ends the behaviour.

**Fairness.** `FairImportSpec` and `FairPipelineSpec` assume weak fairness of a
started process's own steps: a Node process that is running gets to its next
call, and a call returns or rejects. Nobody is obliged to start a script or to
publish an edition, and failures are never obliged to happen or to stop. Each
script then ends because its loops run over lists fixed when they were read.
`HybridFairness` assumes the same of a call's own steps (`OwnStep`), the two
second timer among them; it does not assume that the language model answers.
Validation has no timer, which is why `CallsReturn` promises that a call
returns *or* waits for validation, and no more.

**Conditions.** `ImportedComplete` speaks of laws on which only one edition was
being written since the last `deleteMany`, with distinct numbers and no writer
cut short. `EditionInGraph` speaks of laws whose articles are complete, whose
detection overlapped no other and read the present articles, and of a sync that
met no error and read the rows. All of these are reached in the runs: each
property has a mutant of the code (`PROJECT.json`) under which TLC finds it
violated. Without the conditions the code promises nothing: two editions
imported at once can leave a mixture, overlapping detections leave both sets of
rows, and stale edges stay in the graph.

## 4. Proofs

Everything below holds for every number of processes, laws, editions, articles,
references, keys and texts, and for every value of the limits.

| Module | Theorems (the property they state) |
|---|---|
| `LawImportProofs` | `ImportTypeCorrect`, `ConcurrentImportsComplete` (`ImportedComplete`), `NoTornArticles` |
| `ReferenceDetectionProofs` | `DetectTypeCorrect`, `LastDetectionWins` (`LastDetectionStored`), `MentionsDetectedOnce` (`EveryMentionOnce`) |
| `PipelineProofs`, of `SyncSpec` | `SyncTypeCorrect`, `CleanSyncsComplete` (`SyncComplete`), `ArticlesHangTogether` (`ArticlesReachable`), `EdgesAreFromText`, `SyncedEditionInGraph` (`EditionInGraph`) |
| `PipelineProofs`, of `PipelineSpec` | `ImportedEditionInGraph` (`EditionInGraph`), `TitlesAlwaysKnown` (`TitlesKnown`), `PipelineKeepsParts` (the properties of import, detection and sync, of the composition) |
| `ReferenceCacheProofs` | `CacheTypeCorrect`, `OrdersMatchCache`, `CacheSizeBounded`, `CacheOfOneVersion`, `LeastRecentlyUsedEvicted` (the action property `OnlyLruEvicted`), `CacheImplementsStore` (the refinement `ImplementsResultStore`) |
| `ArticleNormalizerProofs` | `NormTypeCorrect`, `RepeatedRunsNormalizeOnce`, `CleanRunsNormalize`, `OverwrittenIsBackedUp`, `DeletedRowsStayDeleted` (the action property `NoResurrection`) |
| `ManagementProofs` | `ManagerTypeCorrect`, `LoneActivationLeavesOne` (`OneActiveVersion`); `EdgesTypeCorrect`, `LoneSyncIsExact` (`AloneSyncExact`); `ManagementTypeCorrect` (`ManagementTypeOK`, of the composition) |
| `DetectorProofs` | `HybridTypeCorrect`, `LateAnswersReachNoCall` (`OnlyTimelyAnswers`); `ContextTypeCorrect`, `DetectorKnowsItsTexts` (`KnowsOnlyItsTexts`), `SameLawResolved` (`SameLawIsNearest`), `ResultsCoverFound` (`FoundIsCovered`); `DetectorsTypeCorrect` (`DetectorsTypeOK`, of the composition) |

Each specification has one inductive invariant and a theorem that says so
(`ImportInvariant`, `DetectionInvariant`, `GraphInvariant`,
`PipelineInvariant`, `CacheInvariant`, `NormInvariant`, `ManagerInvariant`,
`EdgesInvariant`, `HybridInvariant`, `ContextInvariant`); the others follow
from it. With them every invariant, every action property and the refinement
that a passing run of section 3 checks is also a theorem. TLC checked these
properties on the instances before they were proved.

The theorems about single specifications say `ManagerSpec`, `EdgesSpec`,
`HybridSpec`, `ContextSpec`. In the compositions `ManagementSpec` and
`DetectorsSpec` every step is a step of one half that leaves the other alone.

**Assumptions.** Only the named assumptions on constants, which TLC evaluates in
the runs: lists are sequences of what they should contain, limits and batch
sizes are positive, the values that stand for "nothing" are not values, and in
the normaliser the set of numbers is closed under `toNumericFormat`. Of the
main detector's matches (`ContextAssumption`): each has the fields of its kind;
law names are the matches of one expression and hence in the order of the text,
no two at one place; no name in the dictionary begins with 同法; a negative
pattern matches a span that does not end before it begins, and the patterns are
the same for all texts.

**Imports.** `ImportedComplete` is far from inductive: when a process loses a
race at an article it gives up all later ones, so one must know that somebody
else will write them. `CoverageInv` says so in two parts. Every article is
written or ahead of some process; and behind a written article every later one
is written or ahead of a process that is *already past the written one*. The
second part is what makes the loser dispensable: it loses at a written article,
so the processes it is needed for are covered by others. A `deleteMany` makes
the part true again because the deleter is at article 1 and nothing is written.
`CreateChild` loses when its row was deleted; then it is not counted as
covering anything (`Owns` in `Reaches`). `CreatorInv`, `WriterInv` and `RowInv`
tie rows to the text and position of their creators; `InitOrderInv`, the order
of the three calls of `init-law-data.ts`, is why none of them meets one of the
`ForeignKeys` and the invariant keeps them.

**Detection.** What the detection that deleted last expects is stored or still
in its array (`RowsInv`, `Pending`), and whoever else is writing was writing
when it deleted (`WritersInv`); a later `deleteMany` changes the owner and
starts the account anew. `LoopInv` is the loop over articles and mentions: the
mentions before the place have one row each and there are no other rows. Its
steps are proved apart from those of the imports, from `ArticlesInv` alone
(an Article row is that of an article of an edition), so that the same lemmas
serve beside completed and beside stepwise imports.

**Synchronisation.** `SyncerInv` says per program counter which nodes the
statements before have left. It survives all other processes because this
script deletes nothing from the graph (`Grows`). `EditionInGraph` then joins three parts:
complete articles, the rows of an undisturbed detection, the edges of a sync
without error.

**The whole path.** `PipelineInv` is the conjunction of the invariants of the
parts and `TitlesInv`. Import steps keep that of detection because `ImportInv`
implies `ArticlesInv`; detection and sync write nothing the imports read. The
order that `TitlesKnown` rests on is traced in `TitlesInv`: master before
articles, articles before rows, rows read before masters are read.

**Cache.** `OrderMatchesCache` is needed for everything else: only because the
head of the access order is a cached key does an eviction make room. `UseInv`
(the access order is the order of the last uses) gives `OnlyLruEvicted`,
`SavedInv` carries both through a restore. For the refinement every call is
shown to be a step of `ResultStore` or a stutter.

**Normaliser.** Rows that were read are as they were read or gone (`RowsInv`),
which is why an update by id neither overwrites a newer number nor brings a row
back; `ProgressInv` says that what is not yet normal is still in the list, and
`BackupInv` that a run past its backup has everything in some file. That nodes
may get the same number makes no difference: nodes are addressed by id.

**Manager.** `ActiveInv`: while an activation is alone, nobody else is between
the two updates and, its first update done, no version is active, whatever
overlapping and dead activations had left; after its end nobody is between the
two updates until the next one starts.

**Edges.** `AloneSyncExact` is about the end of a sync; `ExactSoFar` is the
account at each step. For a writer that was alone and met no error, the edges
are those it found at its start plus those of what it is through with: the
files before `fileNo`, less the edges still in `pending`, or the rows before
the one in work, each times the number of pairs of nodes of its ends. That this
number is final when the row's edge is created, although later rows `MERGE`
more nodes, is `NodesSoFar`: the nodes of normalised numbers exist by then
(`NodesMade`), a lone writer makes no second one, and no `MERGE` of an article
makes a node with a number that is not normal. `MetSoFar` says that `processed`
is the set of laws in those files, so that only the first entry of a law counts;
`LawsMade` that the listed laws, which the targets are drawn from, have nodes.
A batch takes the first elements off `pending`, and the number of occurrences
of a law in a list is the sum of those in its two parts. The counts of the
manager's sync are claimed while no law has two nodes (`LawsUnique`): the random
target decides how many edges a doubled law gets.

**Hybrid detector.** `CachedInTime` makes `OnlyTimelyAnswers` inductive: what
the cache holds for a question and a beginning was an answer in time to that
question about a text with that beginning. `CallInv` adds that a call waits
only for an answer to a question its text gives reason to ask. Of the operators
it needs that `AddAll` and `Kept` invent nothing.

**Detector context.** The invariant itself is short (`ContextInv`): the recent
laws and the definitions hold only laws in `heard`, and `lastIndex` has a place
for every pattern, whatever the text. The work is in the loops inside one call,
each with a loop invariant:

* `RecentRun`, `Near`: after i matches the list of recent laws begins with the
  laws named behind a given 同法, and then comes the one named last before it.
  The number of names behind it is therefore where the code must look, and when
  that number reaches `MaxRecent` the name has been dropped, which is the other
  case of `SameLawIsNearest`.
* `KeptAll`: in overlap removal every reference so far lies inside one that was
  kept, no kept one lies inside another, the spans of kept ones are covered, and
  every covered span lies inside a kept one. A kept reference that a longer one replaces hands on what lies
  inside it, because lying inside is transitive.
* `FilteredUpTo`: a reference is passed on or has a negative pattern in its
  window, whatever `lastIndex` was.
* The stable sort is a rearrangement: the place of an element is the number of
  elements that come before it.

**Loops.** The theorems on induction in the library cannot be used (their
parameter is an operator), but for positions in a list it is enough that a
set of positions that is not empty has a least one. `PositionInduction` and
`LoopExists` in `SubsequenceTheorems` follow from that: a recursive function
over 0..n that applies a step to the element at each position exists and is
what its definition says, and what its steps keep holds at its end.

**Only model-checked.**

* Liveness (`ScriptsEnd`, `DetectionEnds`, `SyncEnds`, `CallsReturn`): the
  prover does not do fairness and `ENABLED`.
* That the closed forms of the loops of `HybridDetection` are the loops
  (`MapsAreFolds`), which is a statement about all lists and evaluated on short
  ones.

## 5. State of the work

What the code allows to be modelled faithfully is modelled (section 7 gives the
rest and the reasons). The safety properties of all specifications are proved;
liveness is out of the prover's reach and stays with TLC. The next thing to
prove would be `MapsAreFolds`, with the loop theorems that the main detector's
context uses. When the code changes, the mutants in `PROJECT.json` say which
property should notice which change.

## 6. Findings

* **Supplementary provisions collide** (`import_amended`).
  `import-law-data.ts:182` numbers the articles of every supplementary
  provision `附則<n>`, although a law has one provision per amending law, each
  starting at article 1. The second one violates the unique key, and the
  colliding article and all that follow are never stored.
* **The dry run writes** (`normalizer_dry_run`). `--dry-run` of
  `normalize-article-numbers.ts` is documented as making no update; it only
  skips the backup.
* **The negative filter has a memory** (`negative_filter`).
  `negative-patterns.ts:208` uses `RegExp.test` with patterns that carry the
  flag `g`. The search in one context starts where the match in the context
  before ended, so that a reference with a negative pattern near the beginning
  of its context passes the filter.
* **Rows without an edge count as synchronised** (`enhanced_sync`).
  `sync-enhanced-to-neo4j.ts` makes article nodes with normalised numbers (line
  148) and looks for the numbers as they are in the row (line 284). For `3_2`
  nothing is found, no edge is created, and the row is one of the successes that
  line 381 prints. Only a node that another script left with that number gets
  the edge.

Seen while modelling, and in the models as the code has it, without a run:

* When validation by the language model fails, `llm-validator.ts:65` and
  `hybrid-reference-detector.ts:312` say that all references count as valid.
  They get the confidence 0.5, which is below the default threshold 0.7, and
  those that were looked at are deleted (`ValidationFailed`).
* A call of the hybrid detector throws on every text in which the algorithm
  finds a reference (`hybrid-reference-detector.ts:74`).
* `detect` and `validate` of `manager.ts` cannot write (section 7).
* `activate` of a version that is not registered deactivates the active one,
  finds no row for the new one (`manager.ts:150`), and prints that it has become
  active.
* `maxLLMCallsPerText` is compared once, with zero calls made.
* An answer that cannot be parsed is cached as "no references".
* No driver of the main detector passes the current article, so that 前条
  becomes article `NaN`; この法律 is recorded without a position; the second
  article of 「民法第90条及び第91条」 is attributed to the current law.
* `activate` changes the table and a field of a process that ends: every command
  starts with version 2.0.0 whatever is active.
* The edges of `manager.ts sync` are drawn at random from the counts in the
  checkpoint files. Of a law listed twice, `sync` takes the first entry and
  `--fix-duplicates` keeps the last. A second sync without `--clean` doubles
  all edges.
* Syncs that overlap may double Article nodes, and Law nodes before there is a
  constraint. Every later sync then creates an edge per pair of copies, and the
  constraint on law ids can no longer be made.
* The normaliser gives the nodes of articles 3 and 3_2 the same number.

## 7. Not modelled

* The regular expressions of the detectors: constants (`Mentions`, `Found`,
  `AlgorithmTexts`) stand for their results. The other detector classes are
  lists of patterns over the same kinds of match and keep no state.
* API routes and `hybrid-db.ts`: they only read. The fallback of
  `laws/[id]/references`, which would write to the graph, asks `prisma.law` for
  columns that no schema has and throws before it writes.
* Of `manager.ts`: `detect` (`prisma.law`, in `manager.ts:190` and in
  `hybrid-db.ts:69`, is no model of the schema, so it throws before it writes),
  `validate` (`reference_detections` has no other writer and stays empty, so the
  foreign key refuses every row), `ambiguous --resolve` (throws, its `create`
  lacks a required column), `syncToProduction` (no caller); `metrics`,
  `compare`, `visualize` (read only). That the driver passes the text of
  `register` to the JSONB column is taken for granted.
* Callers of the hybrid detector: the repository has none. The module models
  what the class promises to one.
* `ImpactAnalysisService`, retry and timeout helpers: nothing calls them. The
  logger: nothing depends on it.
* XML syntax beyond the elements the importer matches, texts, titles, dates,
  the user interface, immutable value objects.
* Generated code and data, and archived scripts. They are most of the
  repository's lines: the generated dictionaries alone have 82000 of 123000,
  which is why the share of lines the models stand for is small although the
  code that changes state is covered.

`PROJECT.json` lists every component with its status.
