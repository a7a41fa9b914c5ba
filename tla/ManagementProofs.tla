-------------------------- MODULE ManagementProofs --------------------------
(***************************************************************************)
(* Proofs about the management commands.  The algorithm versions, for any  *)
(* number of processes and versions: an activation that was alone leaves   *)
(* no other version active.  The edges, for any number of writers, any     *)
(* files, rows and earlier nodes: a sync that was alone has added exactly  *)
(* the edges of what it read and found.                                    *)
(***************************************************************************)
EXTENDS Management, SubsequenceTheorems

(* An activation that is alone finds no version active; after it nothing   *)
(* but its version is, and no activation is under way.                     *)
ActiveInv ==
  /\ \A p \in alone :
       /\ Activating = {p}
       /\ \A v \in Versions : algorithm[v] # "active"
  /\ settled # NoVersion =>
       /\ Activating = {}
       /\ \A v \in Versions : algorithm[v] = "active" => v = settled

ManagerInv == ManagerTypeOK /\ ActiveInv

-----------------------------------------------------------------------------
(* Each command keeps the invariant.                                       *)
LEMMA ManagerStep == ManagerInv /\ [ManagerNext]_managerVars => ManagerInv'
<1> SUFFICES ASSUME ManagerInv, [ManagerNext]_managerVars PROVE ManagerInv'
  OBVIOUS
<1> USE ManagerAssumption DEF ManagerInv
<1>1. ASSUME NEW p \in Managers, NEW v \in Versions, registerAlgorithm(p, v)
      PROVE  ManagerInv'
  <2>1. ManagerTypeOK'
    BY <1>1 DEF registerAlgorithm, StartCommand, ManagerTypeOK
  <2>2. \A w \in Versions : algorithm'[w] = "active" => algorithm[w] = "active"
    BY <1>1 DEF registerAlgorithm, ManagerTypeOK
  <2>3. UNCHANGED <<alone, settled>> /\ Activating' = Activating
    BY <1>1 DEF registerAlgorithm, Activating
  <2> QED
    BY <2>1, <2>2, <2>3 DEF ActiveInv
<1>2. ASSUME NEW p \in Managers, NEW v \in Versions, Deactivate(p, v)
      PROVE  ManagerInv'
  <2>1. ManagerTypeOK'
    <3>1. algorithm' \in [Versions -> {"absent", "inactive", "active"}]
      BY <1>2 DEF Deactivate, ManagerTypeOK
    <3>2. /\ activating' \in [Managers -> Versions \cup {NoVersion}]
          /\ alone' \subseteq Managers /\ settled' = NoVersion
      BY <1>2 DEF Deactivate, ManagerTypeOK
    <3>3. commands' \in 0..MaxCommands
      BY <1>2 DEF Deactivate, StartCommand, ManagerTypeOK
    <3> QED
      BY <3>1, <3>2, <3>3 DEF ManagerTypeOK
  <2>2. \A w \in Versions : algorithm'[w] # "active"
    BY <1>2 DEF Deactivate
  <2>3. Activating' = Activating \cup {p}
    BY <1>2 DEF Deactivate, Activating, ManagerTypeOK
  <2>4. alone' \subseteq {p} /\ (alone' # {} => Activating = {}) /\ settled' = NoVersion
    BY <1>2 DEF Deactivate
  <2> QED
    BY <2>1, <2>2, <2>3, <2>4 DEF ActiveInv
<1>3. ASSUME NEW p \in Managers, Activate(p)
      PROVE  ManagerInv'
  <2>1. activating[p] \in Versions
    BY <1>3 DEF Activate, Activating, ManagerTypeOK
  <2>2. ManagerTypeOK'
    BY <1>3, <2>1 DEF Activate, ManagerTypeOK
  <2>3. Activating' = Activating \ {p}
    BY <1>3 DEF Activate, Activating, ManagerTypeOK
  <2>4. alone' = {}
    <3>1. p \in Activating /\ alone' = alone \ {p}
      BY <1>3 DEF Activate
    <3> QED
      BY <3>1 DEF ActiveInv
  <2>5. CASE p \in alone
    <3>1. \A w \in Versions : algorithm'[w] = "active" => w = activating[p]
      BY <1>3, <2>1, <2>5 DEF Activate, ActiveInv, ManagerTypeOK
    <3>2. settled' = activating[p] /\ Activating' = {}
      BY <1>3, <2>3, <2>5 DEF Activate, ActiveInv
    <3> QED
      BY <2>2, <2>4, <3>1, <3>2 DEF ActiveInv
  <2>6. CASE p \notin alone
    <3>1. settled' = NoVersion
      BY <1>3, <2>6 DEF Activate
    <3> QED
      BY <2>2, <2>4, <3>1 DEF ActiveInv
  <2> QED
    BY <2>5, <2>6
<1>4. ASSUME NEW p \in Managers, ManagerAborts(p)
      PROVE  ManagerInv'
  <2>1. ManagerTypeOK'
    BY <1>4 DEF ManagerAborts, ManagerTypeOK
  <2>2. Activating' = Activating \ {p}
    BY <1>4 DEF ManagerAborts, Activating, ManagerTypeOK
  <2>3. p \in Activating /\ alone' = alone \ {p} /\ UNCHANGED <<algorithm, settled>>
    BY <1>4 DEF ManagerAborts
  <2>4. alone' = {} /\ settled = NoVersion
    BY <2>3 DEF ActiveInv
  <2> QED
    BY <2>1, <2>3, <2>4 DEF ActiveInv
<1>5. CASE UNCHANGED managerVars
  <2>1. Activating' = Activating
    BY <1>5 DEF managerVars, Activating
  <2> QED
    BY <1>5, <2>1 DEF managerVars, ManagerTypeOK, ActiveInv
<1> QED
  BY <1>1, <1>2, <1>3, <1>4, <1>5 DEF ManagerNext

(* Any number of registrations and activations keep the invariant.         *)
THEOREM ManagerInvariant == ManagerSpec => []ManagerInv
<1>1. ManagerInit => ManagerInv
  BY ManagerAssumption DEF ManagerInit, ManagerInv, ManagerTypeOK, ActiveInv
<1> QED
  BY <1>1, ManagerStep, PTL DEF ManagerSpec

(* The table of versions and the memory of the processes stay well typed.  *)
THEOREM ManagerTypeCorrect == ManagerSpec => []ManagerTypeOK
<1>1. ManagerInv => ManagerTypeOK
  BY DEF ManagerInv
<1> QED
  BY <1>1, ManagerInvariant, PTL

(* Whatever overlapping and dying activations have left, after one that    *)
(* was alone no version but its own is active until the next one begins.   *)
THEOREM LoneActivationLeavesOne == ManagerSpec => []OneActiveVersion
<1>1. ManagerInv => OneActiveVersion
  BY DEF ManagerInv, ActiveInv, OneActiveVersion
<1> QED
  BY <1>1, ManagerInvariant, PTL

-----------------------------------------------------------------------------
(* The edges.                                                              *)

Steps == {"idle", "done", "schema"} \cup Range(UpsertSteps) \cup ManagerSteps

(* The types of the variables, without what depends on the step.           *)
VarsOK ==
  /\ files \in Seq(Seq(Entry))
  /\ copies \in [NodeKeys -> Nat]
  /\ lawKey \in {"none", "index", "unique"}
  /\ lawKey = "unique" => LawsUnique
  /\ edges \in [EdgeKeys -> Nat]
  /\ wpc \in [Writers -> Steps]
  /\ rowsLeft \in [Writers -> Seq(AllRows)]
  /\ fileNo \in [Writers -> Nat \ {0}]
  /\ processed \in [Writers -> SUBSET GraphLaws]
  /\ pending \in [Writers -> Seq(GraphLaws)]
  /\ missing \in [Writers -> SUBSET NodeKeys]
  /\ args \in [Writers -> Arguments]
  /\ syncs \in 0..MaxSyncs
  /\ undisturbed \in [Writers -> BOOLEAN] /\ unfailed \in [Writers -> BOOLEAN]
  /\ base \in [Writers -> [EdgeKeys -> Nat]]

(* left is what remains of rows.                                           *)
RestOf(left, rows) ==
  /\ Len(left) <= Len(rows)
  /\ \A i \in DOMAIN left : left[i] = rows[Len(rows) - Len(left) + i]

(* What the steps for a row have put into the graph when they are over.    *)
NodesMade(step, r) ==
  /\ step \notin {"sourceLaw", "targetLaw"} => r.tlaw # NoTarget
  /\ step \in {"targetArticle", "sourceParagraph", "targetParagraph", "create"} =>
       copies[ArticleNode(r.slaw, numericFormat[r.sart])] > 0
  /\ step \in {"sourceParagraph", "targetParagraph", "create"} =>
       copies[ArticleNode(r.tlaw, numericFormat[r.tart])] > 0
  /\ step \in {"sourceParagraph", "targetParagraph"} => r.paragraphs
  /\ step = "targetParagraph" \/ (step = "create" /\ r.paragraphs) =>
       copies[ParagraphNode(r.slaw, r.sart)] > 0
  /\ step = "create" /\ r.paragraphs => copies[ParagraphNode(r.tlaw, r.tart)] > 0

(* The listed laws have nodes when the MERGEs for them are over.           *)
LawsMade(p) ==
  /\ wpc[p] \in {"fix", "clean"} => pending[p] = ListedLaws
  /\ wpc[p] \in {"laws", "file", "batch"} =>
       \A l \in Range(ListedLaws) :
         copies[LawNode(l)] > 0 \/ (wpc[p] = "laws" /\ l \in Range(pending[p]))

(* What a MERGE did not miss is there.                                     *)
MergeOK(p) ==
  missing[p] # {} =>
    /\ wpc[p] \in MergeSteps
    /\ wpc[p] = "targetLaw" => Head(rowsLeft[p]).tlaw # NoTarget
    /\ missing[p] \subseteq Sought(p)
    /\ \A k \in Sought(p) \ missing[p] : copies[k] > 0

(* What a writer remembers at each step.                                   *)
WriterOK(p) ==
  /\ wpc[p] \in Range(UpsertSteps) =>
       /\ rowsLeft[p] # <<>>
       /\ args[p].script = "enhanced"
       /\ RestOf(rowsLeft[p], args[p].rows)
       /\ NodesMade(wpc[p], Head(rowsLeft[p]))
  /\ wpc[p] = "schema" => args[p].script = "enhanced" /\ rowsLeft[p] = args[p].rows
  /\ wpc[p] \in ManagerSteps => args[p].script = "manager"
  /\ wpc[p] \in {"fix", "batch"} => fileNo[p] \in DOMAIN files
  /\ wpc[p] = "batch" => pending[p] # <<>>
  /\ wpc[p] \notin {"fix", "file", "batch"} => fileNo[p] = 1
  /\ wpc[p] \notin {"file", "batch"} => processed[p] = {}
  /\ LawsMade(p)
  /\ MergeOK(p)

LoneInv == \A p, q \in Writers : undisturbed[p] /\ q \in Working => q = p

LawsUpTo(n) == UNION {LawsIn(files[f]) : f \in 1..n}

(* The edges the first n files give law k.                                 *)
Matched(k) == k \in GraphLaws /\ copies[LawNode(k)] > 0
Added(k, n) ==
  IF Matched(k) /\ \E f \in FilesWith(k) : f <= n THEN FirstCount(k) ELSE 0

Pending(p, k) == IF Matched(k) THEN Count(pending[p], k) ELSE 0

(* The edges the first n rows give row k.                                  *)
Occurrences(rows, n, k) == Cardinality({i \in 1..n : rows[i] = k})
RowsAdded(rows, n, k) ==
  IF k \in GraphLaws THEN 0 ELSE Occurrences(rows, n, k) * Pairs(k)

(* Key k is counted exactly: law keys only while no law has two nodes.     *)
Counted(k) == k \notin GraphLaws \/ LawsUnique

RowNo(p) == Len(args[p].rows) - Len(rowsLeft[p])

(* The edges of a writer that is alone, step after step.                   *)
ExactSoFar(p) ==
  \A k \in EdgeKeys :
    /\ wpc[p] = "fix" => base[p][k] = IF "clean" \in args[p].options THEN 0 ELSE edges[k]
    /\ wpc[p] = "clean" => base[p][k] = 0
    /\ wpc[p] \in {"laws", "schema"} => base[p][k] = edges[k]
    /\ wpc[p] = "file" /\ Counted(k) => edges[k] = base[p][k] + Added(k, fileNo[p] - 1)
    /\ wpc[p] = "batch" /\ Counted(k) =>
         edges[k] + Pending(p, k) = base[p][k] + Added(k, fileNo[p])
    /\ wpc[p] \in Range(UpsertSteps) => edges[k] = base[p][k] + RowsAdded(args[p].rows, RowNo(p), k)
    /\ wpc[p] = "done" /\ Counted(k) => edges[k] = base[p][k] + Expected(p)[k]

MetSoFar(p) ==
  /\ wpc[p] = "file" => fileNo[p] <= Len(files) + 1 /\ processed[p] = LawsUpTo(fileNo[p] - 1)
  /\ wpc[p] = "batch" => processed[p] = LawsUpTo(fileNo[p])

(* A writer that is alone will not change how many nodes there are for a   *)
(* key: there is one, or the number is none that it makes nodes with.      *)
Final(k) == copies[k] > 0 \/ (k[1] = "Article" /\ numericFormat[k[3]] # k[3])
FinalEnds(r) == r.tlaw # NoTarget => Final(Source(r)) /\ Final(Target(r))

(* What it has not found is not there; the ends of the rows that are done  *)
(* are final.                                                              *)
NodesSoFar(p) ==
  /\ \A k \in missing[p] : copies[k] = 0
  /\ wpc[p] \in Range(UpsertSteps) => \A i \in 1..RowNo(p) : FinalEnds(args[p].rows[i])

Alone(p) == undisturbed[p] /\ unfailed[p]
AloneInv(p) == ExactSoFar(p) /\ MetSoFar(p) /\ NodesSoFar(p)

EdgesInv ==
  /\ VarsOK
  /\ \A p \in Writers : WriterOK(p)
  /\ LoneInv
  /\ \A p \in Writers : Alone(p) => AloneInv(p)

-----------------------------------------------------------------------------
(* The seven steps for a row.                                              *)
LEMMA UpsertStepNames ==
  /\ Range(UpsertSteps) = {"sourceLaw", "targetLaw", "sourceArticle", "targetArticle",
                           "sourceParagraph", "targetParagraph", "create"}
  /\ \A r \in RowType :
       /\ StepAfter("sourceLaw", r) = "targetLaw"
       /\ StepAfter("targetLaw", r) = "sourceArticle"
       /\ StepAfter("sourceArticle", r) = "targetArticle"
       /\ StepAfter("targetArticle", r) = IF r.paragraphs THEN "sourceParagraph" ELSE "create"
       /\ StepAfter("sourceParagraph", r) = "targetParagraph"
       /\ StepAfter("targetParagraph", r) = "create"
<1>1. /\ DOMAIN UpsertSteps = 1..7
      /\ UpsertSteps[1] = "sourceLaw" /\ UpsertSteps[2] = "targetLaw"
      /\ UpsertSteps[3] = "sourceArticle" /\ UpsertSteps[4] = "targetArticle"
      /\ UpsertSteps[5] = "sourceParagraph" /\ UpsertSteps[6] = "targetParagraph"
      /\ UpsertSteps[7] = "create"
  BY DEF UpsertSteps
<1>2. \A i \in 1..7 : i = 1 \/ i = 2 \/ i = 3 \/ i = 4 \/ i = 5 \/ i = 6 \/ i = 7
  OBVIOUS
<1>3. Range(UpsertSteps) = {"sourceLaw", "targetLaw", "sourceArticle", "targetArticle",
                            "sourceParagraph", "targetParagraph", "create"}
  <2>1. ASSUME NEW x \in Range(UpsertSteps)
        PROVE  x \in {"sourceLaw", "targetLaw", "sourceArticle", "targetArticle",
                      "sourceParagraph", "targetParagraph", "create"}
    BY <1>1, <1>2 DEF Range
  <2>2. \A i \in 1..7 : UpsertSteps[i] \in Range(UpsertSteps)
    BY <1>1 DEF Range
  <2>3. 1 \in 1..7 /\ 2 \in 1..7 /\ 3 \in 1..7 /\ 4 \in 1..7 /\ 5 \in 1..7 /\ 6 \in 1..7 /\ 7 \in 1..7
    OBVIOUS
  <2> QED
    BY <1>1, <2>1, <2>2, <2>3
<1> DEFINE at(step) == CHOOSE i \in DOMAIN UpsertSteps : UpsertSteps[i] = step
<1>4. /\ at("sourceLaw") = 1 /\ at("targetLaw") = 2 /\ at("sourceArticle") = 3
      /\ at("targetArticle") = 4 /\ at("sourceParagraph") = 5 /\ at("targetParagraph") = 6
  <2>1. ASSUME NEW step, NEW n \in 1..7, UpsertSteps[n] = step,
               \A i \in 1..7 : UpsertSteps[i] = step => i = n
        PROVE  at(step) = n
    BY <1>1, <2>1
  <2>2. \A i \in 1..7 : /\ UpsertSteps[i] = "sourceLaw" => i = 1
                        /\ UpsertSteps[i] = "targetLaw" => i = 2
                        /\ UpsertSteps[i] = "sourceArticle" => i = 3
                        /\ UpsertSteps[i] = "targetArticle" => i = 4
                        /\ UpsertSteps[i] = "sourceParagraph" => i = 5
                        /\ UpsertSteps[i] = "targetParagraph" => i = 6
    BY <1>1, <1>2
  <2>3. 1 \in 1..7 /\ 2 \in 1..7 /\ 3 \in 1..7 /\ 4 \in 1..7 /\ 5 \in 1..7 /\ 6 \in 1..7
    OBVIOUS
  <2> HIDE DEF at
  <2>4. at("sourceLaw") = 1 BY <1>1, <2>1, <2>2, <2>3
  <2>5. at("targetLaw") = 2 BY <1>1, <2>1, <2>2, <2>3
  <2>6. at("sourceArticle") = 3 BY <1>1, <2>1, <2>2, <2>3
  <2>7. at("targetArticle") = 4 BY <1>1, <2>1, <2>2, <2>3
  <2>8. at("sourceParagraph") = 5 BY <1>1, <2>1, <2>2, <2>3
  <2>9. at("targetParagraph") = 6 BY <1>1, <2>1, <2>2, <2>3
  <2> QED
    BY <2>4, <2>5, <2>6, <2>7, <2>8, <2>9
<1>5. \A step, r : StepAfter(step, r) = IF step = "targetArticle" /\ ~r.paragraphs THEN "create"
                                        ELSE UpsertSteps[1 + at(step)]
  BY DEF StepAfter
<1> HIDE DEF at
<1>6. /\ UpsertSteps[1 + at("sourceLaw")] = "targetLaw"
      /\ UpsertSteps[1 + at("targetLaw")] = "sourceArticle"
      /\ UpsertSteps[1 + at("sourceArticle")] = "targetArticle"
      /\ UpsertSteps[1 + at("targetArticle")] = "sourceParagraph"
      /\ UpsertSteps[1 + at("sourceParagraph")] = "targetParagraph"
      /\ UpsertSteps[1 + at("targetParagraph")] = "create"
  <2>1. 1 + 1 = 2 /\ 1 + 2 = 3 /\ 1 + 3 = 4 /\ 1 + 4 = 5 /\ 1 + 5 = 6 /\ 1 + 6 = 7
    OBVIOUS
  <2> QED
    BY <1>1, <1>4, <2>1
<1> QED
  BY <1>3, <1>5, <1>6

(* The keys of the edges: laws and rows, which are not laws.               *)
LEMMA KeyFacts ==
  /\ AllRows \subseteq RowType /\ GraphLaws \cap AllRows = {} /\ IsFiniteSet(EdgeKeys)
  /\ \A rows \in {EnhancedRows, <<TestRow>>} : rows \in Seq(AllRows)
<1>1. EnhancedRows \in Seq(RowType) /\ TestRow \in RowType /\ GraphLaws \cap RowType = {}
      /\ IsFiniteSet(GraphLaws)
  BY EdgesAssumption
<1>2. Range(EnhancedRows) \subseteq RowType /\ EnhancedRows \in Seq(Range(EnhancedRows))
  BY <1>1, RangeOfSeq, SeqOfRange
<1>3. IsFiniteSet(Range(EnhancedRows))
  <2>1. DOMAIN EnhancedRows = 1..Len(EnhancedRows) /\ Len(EnhancedRows) \in Nat
    BY <1>1
  <2>2. IsFiniteSet(DOMAIN EnhancedRows)
    BY <2>1, FS_Interval
  <2>3. EnhancedRows \in Surjection(DOMAIN EnhancedRows, Range(EnhancedRows))
    <3>1. EnhancedRows \in [DOMAIN EnhancedRows -> Range(EnhancedRows)]
      BY <1>2, <2>1
    <3>2. \A y \in Range(EnhancedRows) : \E i \in DOMAIN EnhancedRows : EnhancedRows[i] = y
      BY DEF Range
    <3> QED
      BY <3>1, <3>2 DEF Surjection
  <2> QED
    BY <2>2, <2>3, FS_Surjection
<1>4. IsFiniteSet(AllRows)
  BY <1>3, FS_Singleton, FS_Union DEF AllRows
<1>5. IsFiniteSet(EdgeKeys)
  BY <1>1, <1>4, FS_Union DEF EdgeKeys
<1>6. EnhancedRows \in Seq(AllRows) /\ <<TestRow>> \in Seq(AllRows)
  <2>1. EnhancedRows \in Seq(AllRows)
    BY <1>2, SeqMonotonic DEF AllRows
  <2>2. TestRow \in AllRows
    BY DEF AllRows
  <2>3. <<TestRow>> \in Seq(AllRows)
    BY <2>2
  <2> QED
    BY <2>1, <2>3
<1> QED
  BY <1>1, <1>2, <1>5, <1>6 DEF AllRows

(* No edge is left when none is counted.                                   *)
LEMMA TotalCounts ==
  ASSUME NEW e \in [EdgeKeys -> Nat]
  PROVE  Total(e) \in Nat /\ (Total(e) = 0 => \A k \in EdgeKeys : e[k] = 0)
<1> DEFINE of == [k \in EdgeKeys |-> {k} \X (1..e[k])]
           all == {{k} \X (1..e[k]) : k \in EdgeKeys}
<1>1. \A k \in EdgeKeys : IsFiniteSet({k} \X (1..e[k]))
  <2> SUFFICES ASSUME NEW k \in EdgeKeys PROVE IsFiniteSet({k} \X (1..e[k]))
    OBVIOUS
  <2>0. e[k] \in Int /\ 1 \in Int
    OBVIOUS
  <2>1. IsFiniteSet({k}) /\ IsFiniteSet(1..e[k])
    BY <2>0, FS_Singleton, FS_Interval
  <2> QED
    BY <2>1, FS_Product
<1>2. of \in Surjection(EdgeKeys, all)
  BY DEF Surjection
<1>3. IsFiniteSet(all)
  <2> HIDE DEF of, all
  <2> QED
    BY <1>2, KeyFacts, FS_Surjection
<1>4. IsFiniteSet(UNION all)
  <2>1. \A T \in all : IsFiniteSet(T)
    BY <1>1
  <2> HIDE DEF all
  <2> QED
    BY <1>3, <2>1, FS_UNION
<1>5. Total(e) = Cardinality(UNION all)
  BY DEF Total
<1>6. ASSUME UNION all = {}, NEW k \in EdgeKeys PROVE e[k] = 0
  <2> SUFFICES ASSUME e[k] # 0 PROVE FALSE
    OBVIOUS
  <2>1. 1 \in 1..e[k]
    OBVIOUS
  <2>2. <<k, 1>> \in {k} \X (1..e[k]) /\ {k} \X (1..e[k]) \in all
    BY <2>1
  <2> QED
    BY <1>6, <2>2
<1> HIDE DEF all
<1> QED
  BY <1>4, <1>5, <1>6, FS_EmptySet, FS_CardinalityType

(* The smaller of two numbers, and the least of a set of positions.        *)
LEMMA MinOfTwo ==
  ASSUME NEW a \in Nat, NEW b \in Nat
  PROVE  /\ Min({a, b}) \in {a, b} /\ Min({a, b}) <= a /\ Min({a, b}) <= b
<1>1. \E x \in {a, b} : \A y \in {a, b} : x <= y
  <2>1. CASE a <= b
    BY <2>1
  <2>2. CASE ~(a <= b)
    BY <2>2
  <2> QED
    BY <2>1, <2>2
<1>2. Min({a, b}) \in {a, b} /\ \A y \in {a, b} : Min({a, b}) <= y
  BY <1>1 DEF Min
<1> QED
  BY <1>2

(* The references made of a file: of every law the file is the first to    *)
(* name, those of its first entry.                                         *)
LEMMA GeneratedCounts ==
  ASSUME NEW entries \in Seq(Entry), NEW met \in SUBSET GraphLaws
  PROVE  /\ Generated(entries, met) \in Seq(GraphLaws)
         /\ \A l \in GraphLaws :
              Count(Generated(entries, met), l) =
                IF l \in LawsIn(entries) \ met THEN entries[Min(EntriesOf(entries, l))].references ELSE 0
<1> DEFINE L == Len(entries)
           new(i) == i \in Firsts(entries) /\ entries[i].law \notin met
           piece(i) == IF new(i) THEN [n \in 1..entries[i].references |-> entries[i].law] ELSE <<>>
           R == CHOOSE R : R = [i \in 0..L |-> IF i = 0 THEN <<>> ELSE R[i - 1] \o piece(i)]
           S == Seq(GraphLaws)
<1>1. Generated(entries, met) = R[L]
  BY DEF Generated
<1> HIDE DEF new, R
<1>2. L \in Nat /\ DOMAIN entries = 1..L /\ \A i \in 1..L : entries[i].law \in GraphLaws /\ entries[i].references \in Nat
  <2> HIDE DEF piece, S
  <2>1. L \in Nat /\ DOMAIN entries = 1..L /\ \A i \in 1..L : entries[i] \in Entry
    OBVIOUS
  <2> QED
    BY <2>1 DEF Entry
<1> HIDE DEF L
<1>3. \A i \in 1..L : piece(i) \in S
  <2> SUFFICES ASSUME NEW i \in 1..L PROVE piece(i) \in S
    OBVIOUS
  <2>1. [n \in 1..entries[i].references |-> entries[i].law] \in S
    BY <1>2
  <2> QED
    BY <2>1
<1> HIDE DEF piece
<1>4. R = [i \in 0..L |-> IF i = 0 THEN <<>> ELSE R[i - 1] \o piece(i)]
  <2> DEFINE step == [i \in 1..L |-> [s \in S |-> s \o piece(i)]]
  <2>1. step \in [1..L -> [S -> S]]
    BY <1>3
  <2>2. <<>> \in S
    OBVIOUS
  <2>3. PICK g \in [0..L -> S] : g[0] = <<>> /\ \A i \in 1..L : g[i] = step[i][g[i - 1]]
    <3> DEFINE init == <<>>
    <3>1. init \in S
      BY <2>2
    <3> HIDE DEF step, S, init
    <3>2. PICK g : IsLoop(g, L, S, init, step)
      BY <1>2, <2>1, <3>1, LoopExists
    <3> QED
      BY <3>2 DEF init, IsLoop
  <2>4. ASSUME NEW i \in 1..L PROVE g[i] = g[i - 1] \o piece(i)
    <3>1. g[i - 1] \in S
      <4>1. i - 1 \in 0..L
        BY <1>2
      <4> QED
        BY <4>1
    <3>2. step[i][g[i - 1]] = g[i - 1] \o piece(i)
      BY <3>1
    <3> QED
      BY <2>3, <3>2
  <2>5. g = [i \in 0..L |-> IF i = 0 THEN <<>> ELSE g[i - 1] \o piece(i)]
    <3>1. \A i \in 0..L : i = 0 \/ i \in 1..L
      BY <1>2
    <3> QED
      BY <2>3, <2>4, <3>1
  <2> QED
    BY <2>5 DEF R
<1>5. R[0] = <<>> /\ \A i \in 1..L : R[i] = R[i - 1] \o piece(i)
  <2>1. 0 \in 0..L /\ \A i \in 1..L : i \in 0..L /\ i # 0
    BY <1>2
  <2> QED
    BY <1>4, <2>1
<1>6. \A i \in 0..L : R[i] \in S
  <2> DEFINE good == {i \in 0..L : R[i] \in S}
  <2>1. 0 \in good
    <3>1. 0 \in 0..L /\ <<>> \in S
      BY <1>2
    <3> QED
      BY <1>5, <3>1
  <2>2. ASSUME NEW i \in 1..L, i - 1 \in good PROVE i \in good
    <3>1. R[i - 1] \in S /\ i \in 0..L
      BY <1>2, <2>2
    <3>2. R[i - 1] \o piece(i) \in S
      BY <1>3, <3>1
    <3> QED
      BY <1>5, <3>1, <3>2
  <2> HIDE DEF good
  <2>3. \A i \in 0..L : i \in good
    BY <1>2, <2>1, <2>2, PositionInduction
  <2> QED
    BY <2>3 DEF good
<1>7. ASSUME NEW l \in GraphLaws
      PROVE  Count(R[L], l) = IF l \in LawsIn(entries) \ met THEN entries[Min(EntriesOf(entries, l))].references ELSE 0
  <2> DEFINE at == EntriesOf(entries, l)
             m  == Min(at)
             val(i) == IF l \notin met /\ at # {} /\ m <= i THEN entries[m].references ELSE 0
  <2>1. at \in SUBSET (1..L)
    BY <1>2 DEF EntriesOf
  <2>2. at # {} => m \in 1..L /\ entries[m].law = l /\ \A j \in at : m <= j
    <3>1. at # {} => m \in at /\ \A j \in at : m <= j
      <4> HIDE DEF at
      <4> QED
        BY <1>2, <2>1, MinOfPositions
    <3> QED
      BY <2>1, <3>1 DEF EntriesOf
  <2>3. ASSUME NEW i \in 1..L PROVE Count(piece(i), l) = IF l \notin met /\ at # {} /\ i = m THEN entries[m].references ELSE 0
    <3>1. CASE entries[i].law # l
      <4>1. Count(piece(i), l) = 0
        <5>1. Count([n \in 1..entries[i].references |-> entries[i].law], l) = 0
          <6> DEFINE s == [n \in 1..entries[i].references |-> entries[i].law]
          <6>1. entries[i].references \in Nat
            BY <1>2
          <6>2. DOMAIN s = 1..entries[i].references /\ \A n \in 1..entries[i].references : s[n] = entries[i].law
            OBVIOUS
          <6> HIDE DEF s
          <6>3. Count(s, l) = 0
            BY <3>1, <6>1, <6>2, CountRepeated
          <6> QED
            BY <6>3 DEF s
        <5>2. Count(<<>>, l) = 0
          BY FS_EmptySet DEF Count
        <5> QED
          BY <5>1, <5>2 DEF piece
      <4> QED
        BY <2>2, <3>1, <4>1
    <3>2. CASE entries[i].law = l
      <4>1. i \in at
        BY <1>2, <3>2 DEF EntriesOf
      <4>2. i \in Firsts(entries) <=> i = m
        <5>1. ASSUME i = m, NEW j \in 1..(i - 1) PROVE entries[j].law # entries[i].law
          <6>1. j \in 1..L /\ ~(m <= j)
            BY <1>2, <5>1
          <6>2. j \notin at
            BY <2>2, <4>1, <6>1
          <6> QED
            BY <1>2, <3>2, <6>1, <6>2 DEF EntriesOf
        <5>2. ASSUME i # m PROVE ~ \A j \in 1..(i - 1) : entries[j].law # entries[i].law
          <6>1. m <= i /\ m \in 1..L /\ entries[m].law = l
            BY <2>2, <4>1
          <6>2. m \in 1..(i - 1)
            BY <1>2, <5>2, <6>1
          <6> QED
            BY <3>2, <6>1, <6>2
        <5> QED
          BY <1>2, <5>1, <5>2 DEF Firsts
      <4>3. new(i) <=> l \notin met /\ i = m
        BY <3>2, <4>2 DEF new
      <4>4. Count([n \in 1..entries[i].references |-> entries[i].law], l) = entries[i].references
        <5> DEFINE s == [n \in 1..entries[i].references |-> entries[i].law]
        <5>1. entries[i].references \in Nat
          BY <1>2
        <5>2. DOMAIN s = 1..entries[i].references /\ \A n \in 1..entries[i].references : s[n] = entries[i].law
          OBVIOUS
        <5> HIDE DEF s
        <5>3. Count(s, l) = entries[i].references
          BY <3>2, <5>1, <5>2, CountRepeated
        <5> QED
          BY <5>3 DEF s
      <4>5. Count(<<>>, l) = 0
        BY FS_EmptySet DEF Count
      <4> QED
        BY <4>1, <4>3, <4>4, <4>5 DEF piece
    <3> QED
      BY <3>1, <3>2
  <2> DEFINE good == {i \in 0..L : Count(R[i], l) = val(i)}
  <2>4. 0 \in good
    <3>1. Count(R[0], l) = 0
      BY <1>5, FS_EmptySet DEF Count
    <3>2. val(0) = 0
      BY <2>2
    <3> QED
      BY <1>2, <3>1, <3>2
  <2>5. ASSUME NEW i \in 1..L, i - 1 \in good PROVE i \in good
    <3>1. Count(R[i], l) = Count(R[i - 1], l) + Count(piece(i), l)
      <4>1. i - 1 \in 0..L
        BY <1>2
      <4> QED
        <5>1. R[i - 1] \in Seq(GraphLaws) /\ piece(i) \in Seq(GraphLaws) /\ R[i] = R[i - 1] \o piece(i)
          BY <1>3, <1>5, <1>6, <4>1
        <5>2. Count(R[i - 1] \o piece(i), l) = Count(R[i - 1], l) + Count(piece(i), l)
          BY <5>1, CountConcat
        <5> QED
          BY <5>1, <5>2
    <3>2. Count(R[i - 1], l) = val(i - 1)
      BY <2>5
    <3>3. at # {} => m \in Int /\ entries[m].references \in Nat
      BY <1>2, <2>2
    <3>4. val(i) = val(i - 1) + Count(piece(i), l)
      <4> HIDE DEF at, m
      <4>1. CASE l \notin met /\ at # {}
        <5>1. m <= i <=> (m <= i - 1 \/ i = m)
          BY <1>2, <3>3, <4>1
        <5>2. i = m => ~(m <= i - 1)
          BY <1>2
        <5> QED
          BY <2>3, <3>3, <4>1, <5>1, <5>2
      <4>2. CASE ~(l \notin met /\ at # {})
        BY <2>3, <4>2
      <4> QED
        BY <4>1, <4>2
    <3> HIDE DEF val
    <3> QED
      BY <1>2, <3>1, <3>2, <3>4
  <2>6. Count(R[L], l) = val(L)
    <3> HIDE DEF good
    <3>1. \A i \in 0..L : i \in good
      BY <1>2, <2>4, <2>5, PositionInduction
    <3>2. L \in good
      BY <1>2, <3>1
    <3> QED
      BY <3>2 DEF good
  <2>7. at # {} <=> l \in LawsIn(entries)
    BY <1>2 DEF EntriesOf, LawsIn
  <2>8. at # {} => m <= L
    BY <1>2, <2>2
  <2> HIDE DEF at
  <2> QED
    BY <2>6, <2>7, <2>8 DEF at
<1>8. R[L] \in S
  BY <1>2, <1>6
<1> QED
  BY <1>1, <1>7, <1>8

(* fixDuplicateEntries leaves entries of the file.                         *)
LEMMA DeduplicatedType ==
  ASSUME NEW entries \in Seq(Entry)
  PROVE  Deduplicated(entries) \in Seq(Entry)
<1> DEFINE L == Len(entries)
           firsts == Firsts(entries)
           same(i, j) == j \in DOMAIN entries /\ entries[j].law = entries[i].law
           last(i) == CHOOSE j \in DOMAIN entries :
                        /\ entries[j].law = entries[i].law
                        /\ \A k \in DOMAIN entries : entries[k].law = entries[i].law => k <= j
<1>1. L \in Nat /\ DOMAIN entries = 1..L /\ \A i \in 1..L : entries[i] \in Entry
  OBVIOUS
<1>2. firsts \in SUBSET (1..L)
  BY <1>1 DEF Firsts
<1>3. ASSUME NEW i \in 1..L PROVE last(i) \in 1..L
  <2> DEFINE at == {j \in 1..L : entries[j].law = entries[i].law}
  <2>1. i \in at /\ at \in SUBSET (1..L)
    OBVIOUS
  <2>2. \E j \in at : \A k \in at : k <= j
    <3> HIDE DEF at
    <3> QED
      BY <1>1, <2>1, GreatestPosition
  <2>3. \E j \in DOMAIN entries :
          /\ entries[j].law = entries[i].law
          /\ \A k \in DOMAIN entries : entries[k].law = entries[i].law => k <= j
    BY <1>1, <2>2
  <2> QED
    BY <1>1, <2>3
<1> HIDE DEF last
<1>4. /\ Cardinality(firsts) \in Nat
      /\ \A n \in 1..Cardinality(firsts) : Nth(firsts, n) \in firsts
  BY <1>1, <1>2, PositionsFinite, NthPosition
<1>5. \A n \in 1..Cardinality(firsts) : entries[last(Nth(firsts, n))] \in Entry
  <2> HIDE DEF firsts
  <2> QED
    BY <1>1, <1>2, <1>3, <1>4
<1>6. Deduplicated(entries) = [n \in 1..Cardinality(firsts) |-> entries[last(Nth(firsts, n))]]
  BY DEF Deduplicated, last
<1> HIDE DEF firsts
<1> QED
  BY <1>4, <1>5, <1>6

-----------------------------------------------------------------------------
(* The nodes of laws, articles and paragraphs.                             *)
LEMMA NodeFacts ==
  ASSUME NEW l \in GraphLaws
  PROVE  /\ LawNode(l) \in NodeKeys /\ LawNode(l)[1] = "Law"
         /\ \A n \in ArticleNumbers :
              /\ ArticleNode(l, n) \in NodeKeys /\ ArticleNode(l, n)[1] = "Article"
              /\ ArticleNode(l, n)[3] = n
              /\ ParagraphNode(l, n) \in NodeKeys /\ ParagraphNode(l, n)[1] = "Paragraph"
BY DEF LawNode, ArticleNode, ParagraphNode, NodeKeys

(* A batch takes its laws off those that are pending.                      *)
LEMMA BatchMoved ==
  ASSUME VarsOK, NEW p \in Writers, NEW k
  PROVE  /\ FirstBatch(p) \in Seq(GraphLaws) /\ LaterBatches(p) \in Seq(GraphLaws)
         /\ Count(pending[p], k) = Count(FirstBatch(p), k) + Count(LaterBatches(p), k)
         /\ Count(FirstBatch(p), k) \in Nat /\ Count(LaterBatches(p), k) \in Nat
         /\ IF Len(pending[p]) > BatchSize THEN LaterBatches(p) # <<>> ELSE LaterBatches(p) = <<>>
         /\ LaterBatches(p) = <<>> => Count(LaterBatches(p), k) = 0
         /\ Range(pending[p]) \subseteq Range(FirstBatch(p)) \cup Range(LaterBatches(p))
<1> DEFINE s == pending[p]
           m == Min({BatchSize, Len(s)})
           batch == SubSeq(s, 1, m)
           rest == SubSeq(s, BatchSize + 1, Len(s))
<1>0. batch = FirstBatch(p) /\ rest = LaterBatches(p) /\ Count(<<>>, k) = 0
  BY FS_EmptySet DEF FirstBatch, LaterBatches, Count
<1>1. s \in Seq(GraphLaws) /\ Len(s) \in Nat /\ BatchSize \in Nat \ {0}
  BY EdgesAssumption DEF VarsOK
<1> HIDE DEF s
<1>2. m \in {BatchSize, Len(s)} /\ m <= BatchSize /\ m <= Len(s)
  BY <1>1, MinOfTwo
<1> HIDE DEF m
<1>3. m \in 0..Len(s) /\ m \in Nat
  BY <1>1, <1>2
<1>4. /\ batch \in Seq(GraphLaws) /\ SubSeq(s, m + 1, Len(s)) \in Seq(GraphLaws)
      /\ Count(s, k) = Count(batch, k) + Count(SubSeq(s, m + 1, Len(s)), k)
  BY <1>1, <1>3, CountSplit
<1>5. ASSUME NEW x \in Range(s), \A i \in (m + 1)..Len(s) : s[i] # x PROVE x \in Range(batch)
  <2>1. PICK i \in DOMAIN s : s[i] = x
    BY DEF Range
  <2>2. i \in 1..Len(s) /\ i \notin (m + 1)..Len(s)
    BY <1>1, <1>5, <2>1
  <2>3. i \in 1..m
    BY <1>1, <1>3, <2>2
  <2>4. DOMAIN batch = 1..m /\ batch[i] = s[i]
    BY <1>1, <1>3, <2>3
  <2> HIDE DEF batch
  <2> QED
    BY <2>1, <2>3, <2>4 DEF Range
<1>6. CASE Len(s) > BatchSize
  <2>1. m = BatchSize
    BY <1>1, <1>2, <1>6
  <2>2. rest \in Seq(GraphLaws) /\ Len(rest) = Len(s) - BatchSize
        /\ \A i \in (BatchSize + 1)..Len(s) : i - BatchSize \in 1..Len(rest) /\ rest[i - BatchSize] = s[i]
    BY <1>1, <1>6
  <2>3. ASSUME NEW x \in Range(s) PROVE x \in Range(batch) \cup Range(rest)
    <3> HIDE DEF batch, rest
    <3>1. ASSUME NEW i \in (m + 1)..Len(s), s[i] = x PROVE x \in Range(rest)
      <4>1. i - BatchSize \in DOMAIN rest /\ rest[i - BatchSize] = x
        BY <2>1, <2>2, <3>1
      <4> QED
        BY <4>1 DEF Range
    <3> QED
      BY <1>5, <3>1
  <2> HIDE DEF batch, rest
  <2>4. rest # <<>>
    <3>1. Len(rest) # 0 /\ Len(<<>>) = 0
      BY <1>1, <1>6, <2>2
    <3> QED
      BY <3>1
  <2>5. Count(batch, k) \in Nat /\ Count(rest, k) \in Nat
    BY <1>4, <2>2, CountType
  <2>6. Count(s, k) = Count(batch, k) + Count(rest, k)
    BY <1>4, <2>1 DEF rest
  <2> QED
    BY <1>0, <1>4, <1>6, <2>2, <2>3, <2>4, <2>5, <2>6 DEF s
<1>7. CASE ~(Len(s) > BatchSize)
  <2>1. rest = <<>> /\ SubSeq(s, m + 1, Len(s)) = <<>>
    <3>1. Len(s) < BatchSize + 1 /\ Len(s) < m + 1
      BY <1>1, <1>2, <1>7
    <3>2. BatchSize + 1 \in Int /\ m + 1 \in Int /\ Len(s) \in Int
      BY <1>1, <1>3
    <3> QED
      BY <3>1, <3>2, SubSeqEmpty
  <2>2. ASSUME NEW x \in Range(s) PROVE x \in Range(batch)
    <3>1. \A i \in (m + 1)..Len(s) : FALSE
      BY <1>1, <1>2, <1>7
    <3> QED
      BY <1>5, <3>1
  <2> HIDE DEF batch, rest
  <2>3. Count(batch, k) \in Nat
    BY <1>4, CountType
  <2>4. rest \in Seq(GraphLaws) /\ Count(rest, k) = 0
    BY <1>0, <2>1
  <2>5. Count(s, k) = Count(batch, k) + 0
    BY <1>0, <1>4, <2>1
  <2> QED
    BY <1>0, <1>4, <1>7, <2>1, <2>2, <2>3, <2>4, <2>5 DEF s
<1> QED
  BY <1>6, <1>7

(* What a step of p leaves alone: the other writers, and the nodes.        *)
OthersSame(p) ==
  /\ \A q \in Writers \ {p} :
       /\ wpc'[q] = wpc[q] /\ rowsLeft'[q] = rowsLeft[q] /\ fileNo'[q] = fileNo[q]
       /\ processed'[q] = processed[q] /\ pending'[q] = pending[q] /\ args'[q] = args[q]
       /\ missing'[q] = missing[q]
  /\ DOMAIN files' = DOMAIN files
  /\ \A k \in NodeKeys : copies'[k] >= copies[k]

(* A writer that goes on disturbs nobody who was alone; one that starts is *)
(* the only one that can be.                                               *)
Disturbs(p) ==
  \/ p \in Working /\ \A q \in Writers : undisturbed'[q] => undisturbed[q]
  \/ undisturbed' = [q \in Writers |-> q = p /\ Working = {}]

(* The steps of a MERGE, and the nodes it names.                           *)
LEMMA SoughtNodes ==
  ASSUME EdgesInv, NEW p \in Writers, wpc[p] \in MergeSteps,
         wpc[p] = "targetLaw" => Head(rowsLeft[p]).tlaw # NoTarget
  PROVE  Sought(p) \subseteq NodeKeys
<1>1. CASE wpc[p] = "laws"
  <2>3. FirstBatch(p) \in Seq(GraphLaws)
    BY BatchMoved DEF EdgesInv
  <2>4. Range(FirstBatch(p)) \subseteq GraphLaws
    BY <2>3, RangeOfSeq
  <2>5. \A l \in GraphLaws : LawNode(l) \in NodeKeys
    BY NodeFacts
  <2>6. Sought(p) = {LawNode(l) : l \in Range(FirstBatch(p))}
    BY <1>1 DEF Sought
  <2> QED
    BY <2>4, <2>5, <2>6
<1>2. CASE wpc[p] # "laws"
  <2> DEFINE r == Head(rowsLeft[p])
  <2>1. wpc[p] \in Range(UpsertSteps) /\ wpc[p] # "create"
    BY <1>2 DEF MergeSteps
  <2>2. rowsLeft[p] \in Seq(AllRows) /\ rowsLeft[p] # <<>>
    BY <2>1 DEF EdgesInv, VarsOK, WriterOK
  <2>3. r \in RowType
    BY <2>2, KeyFacts
  <2>4. NodesMade(wpc[p], r)
    BY <2>1 DEF EdgesInv, WriterOK
  <2> HIDE DEF r
  <2>5. /\ r.slaw \in GraphLaws /\ r.tlaw \in GraphLaws \cup {NoTarget} /\ r.sart \in ArticleNumbers
        /\ r.tart \in ArticleNumbers
    BY <2>3 DEF RowType
  <2>6. numericFormat[r.sart] \in ArticleNumbers /\ numericFormat[r.tart] \in ArticleNumbers
    BY <2>5, EdgesAssumption
  <2>7. wpc[p] # "sourceLaw" => r.tlaw \in GraphLaws
    BY <2>4, <2>5 DEF NodesMade, r
  <2>8. NodeOf(wpc[p], r) \in NodeKeys
    BY <2>1, <2>5, <2>6, <2>7, UpsertStepNames
       DEF NodeOf, NodeKeys, LawNode, ArticleNode, ParagraphNode
  <2> QED
    BY <1>2, <2>8 DEF Sought, r
<1> QED
  BY <1>1, <1>2

(* What is to be shown of a step of writer p is about p alone.             *)
LEMMA OwnStep ==
  ASSUME EdgesInv, NEW p \in Writers, VarsOK', OthersSame(p), Disturbs(p), WriterOK(p)',
         Alone(p)' => AloneInv(p)'
  PROVE  EdgesInv'
<1>1. \A q \in Writers : q # p => ~undisturbed'[q]
  BY DEF Disturbs, EdgesInv, LoneInv
<1>2. LoneInv'
  <2> SUFFICES ASSUME NEW a \in Writers, NEW b \in Writers, undisturbed'[a], b \in Working'
               PROVE  b = a
    BY DEF LoneInv
  <2>1. a = p
    BY <1>1
  <2>2. CASE b = p
    BY <2>1, <2>2
  <2>3. CASE b # p
    <3>1. b \in Working
      BY <2>3 DEF Working, OthersSame
    <3> QED
      BY <2>1, <2>3, <3>1 DEF Disturbs, EdgesInv, LoneInv
  <2> QED
    BY <2>2, <2>3
<1>3. ASSUME NEW q \in Writers PROVE WriterOK(q)'
  <2>1. CASE q = p
    BY <2>1
  <2>2. CASE q # p
    <3>1. /\ wpc'[q] = wpc[q] /\ rowsLeft'[q] = rowsLeft[q] /\ fileNo'[q] = fileNo[q]
          /\ processed'[q] = processed[q] /\ pending'[q] = pending[q] /\ args'[q] = args[q]
          /\ missing'[q] = missing[q] /\ DOMAIN files' = DOMAIN files
      BY <2>2 DEF OthersSame
    <3>2. WriterOK(q)
      BY DEF EdgesInv
    <3>3. \A k \in NodeKeys : copies[k] > 0 => copies'[k] > 0
      BY DEF OthersSame, EdgesInv, VarsOK
    <3>4. wpc[q] \in Range(UpsertSteps) => NodesMade(wpc[q], Head(rowsLeft[q]))'
      <4> SUFFICES ASSUME wpc[q] \in Range(UpsertSteps) PROVE NodesMade(wpc[q], Head(rowsLeft[q]))'
        OBVIOUS
      <4> DEFINE r == Head(rowsLeft[q])
      <4>1. rowsLeft[q] \in Seq(AllRows) /\ rowsLeft[q] # <<>> /\ NodesMade(wpc[q], r)
        BY <3>2 DEF EdgesInv, VarsOK, WriterOK
      <4>2. r \in RowType
        BY <4>1, KeyFacts
      <4> HIDE DEF r
      <4>3. /\ r.slaw \in GraphLaws /\ r.tlaw \in GraphLaws \cup {NoTarget} /\ r.sart \in ArticleNumbers
            /\ r.tart \in ArticleNumbers
            /\ numericFormat[r.sart] \in ArticleNumbers /\ numericFormat[r.tart] \in ArticleNumbers
        BY <4>2, EdgesAssumption DEF RowType
      <4>4. wpc[q] \notin {"sourceLaw", "targetLaw"} => r.tlaw \in GraphLaws
        BY <4>1, <4>3 DEF NodesMade
      <4>5. /\ ArticleNode(r.slaw, numericFormat[r.sart]) \in NodeKeys
            /\ ParagraphNode(r.slaw, r.sart) \in NodeKeys
            /\ r.tlaw \in GraphLaws => /\ ArticleNode(r.tlaw, numericFormat[r.tart]) \in NodeKeys
                                       /\ ParagraphNode(r.tlaw, r.tart) \in NodeKeys
        BY <4>3 DEF NodeKeys, ArticleNode, ParagraphNode
      <4>6. rowsLeft'[q] = rowsLeft[q] /\ wpc'[q] = wpc[q]
        BY <3>1
      <4> QED
        BY <3>3, <4>1, <4>4, <4>5, <4>6 DEF NodesMade, r
    <3>5. LawsMade(q)'
      <4>1. LawsMade(q)
        BY <3>2 DEF WriterOK
      <4>2. \A l \in Range(ListedLaws) : LawNode(l) \in NodeKeys
        BY RangeOfSeq, EdgesAssumption DEF LawNode, NodeKeys
      <4> QED
        BY <3>1, <3>3, <4>1, <4>2 DEF LawsMade, LawNode
    <3>6. MergeOK(q)'
      <4>1. MergeOK(q)
        BY <3>2 DEF WriterOK
      <4>2. Sought(q)' = Sought(q)
        BY <3>1 DEF Sought, FirstBatch, NodeOf, LawNode, ArticleNode, ParagraphNode
      <4> SUFFICES ASSUME missing'[q] # {}
                   PROVE  /\ wpc'[q] \in MergeSteps
                          /\ wpc'[q] = "targetLaw" => Head(rowsLeft'[q]).tlaw # NoTarget
                          /\ missing'[q] \subseteq Sought(q)
                          /\ \A k \in Sought(q) \ missing'[q] : copies'[k] > 0
        BY <4>2 DEF MergeOK
      <4>3. Sought(q) \subseteq NodeKeys
        BY <3>1, <4>1, SoughtNodes DEF MergeOK
      <4> QED
        BY <3>1, <3>3, <4>1, <4>3 DEF MergeOK
    <3> QED
      BY <3>1, <3>2, <3>4, <3>5, <3>6 DEF WriterOK
  <2> QED
    BY <2>1, <2>2
<1>4. ASSUME NEW q \in Writers PROVE (Alone(q) => AloneInv(q))'
  <2>1. CASE q = p
    BY <2>1
  <2>2. CASE q # p
    BY <1>1, <2>2 DEF Alone
  <2> QED
    BY <2>1, <2>2
<1> QED
  BY <1>2, <1>3, <1>4 DEF EdgesInv

(* Between MERGEs nothing is missing.                                      *)
LEMMA NoneMissing ==
  ASSUME EdgesInv, NEW p \in Writers, wpc[p] \notin MergeSteps \/ p \notin Working
  PROVE  missing[p] = {}
<1>1. wpc[p] \notin MergeSteps
  BY UpsertStepNames DEF Working, MergeSteps
<1> QED
  BY <1>1 DEF EdgesInv, WriterOK, MergeOK

(* A writer at rest.                                                       *)
LEMMA RestOK ==
  ASSUME NEW p \in Writers, wpc'[p] \in {"idle", "done"}, fileNo'[p] = 1, processed'[p] = {},
         missing'[p] = {}
  PROVE  WriterOK(p)'
BY UpsertStepNames DEF WriterOK, ManagerSteps, LawsMade, MergeOK

(* A sync that ends early is no longer held to anything.                   *)
LEMMA AbortsStep ==
  ASSUME EdgesInv, NEW p \in Writers, WriterAborts(p)
  PROVE  EdgesInv'
<1> USE DEF EdgesInv
<1>1. VarsOK'
  BY DEF VarsOK, WriterAborts, Forgotten, Goto, neoVars, Steps, LawsUnique
<1>2. OthersSame(p) /\ Disturbs(p)
  BY DEF VarsOK, WriterAborts, Forgotten, Goto, neoVars, OthersSame, Disturbs
<1>3. wpc'[p] = "idle" /\ fileNo'[p] = 1 /\ processed'[p] = {} /\ missing'[p] = {} /\ ~undisturbed'[p]
  BY DEF VarsOK, WriterAborts, Forgotten, Goto
<1>4. WriterOK(p)'
  BY <1>3, RestOK
<1> QED
  BY <1>1, <1>2, <1>3, <1>4, OwnStep DEF Alone

(* A sync begins with the edges that are there, or will delete them.       *)
LEMMA StartManagerStep ==
  ASSUME EdgesInv, NEW p \in Writers, NEW opts \in SUBSET {"fixDuplicates", "clean"},
         StartManagerSync(p, opts)
  PROVE  EdgesInv'
<1> USE DEF EdgesInv
<1> DEFINE step == IF "fixDuplicates" \in opts /\ files # <<>> THEN "fix"
                   ELSE IF "clean" \in opts THEN "clean" ELSE "laws"
           a == [script |-> "manager", options |-> opts, rows |-> <<>>]
           b == IF "clean" \in opts THEN NoEdges ELSE edges
<1>0. step \in Steps /\ a \in Arguments /\ b \in [EdgeKeys -> Nat] /\ ListedLaws \in Seq(GraphLaws)
  BY EdgesAssumption DEF Steps, ManagerSteps, Arguments, VarsOK, NoEdges
<1>1. /\ wpc' = [wpc EXCEPT ![p] = step] /\ args' = [args EXCEPT ![p] = a]
      /\ base' = [base EXCEPT ![p] = b] /\ pending' = [pending EXCEPT ![p] = ListedLaws]
      /\ syncs' = syncs + 1 /\ syncs < MaxSyncs
      /\ undisturbed' = [q \in Writers |-> q = p /\ Working = {}]
      /\ unfailed' = [unfailed EXCEPT ![p] = TRUE]
      /\ p \notin Working
      /\ UNCHANGED <<files, copies, lawKey, edges, rowsLeft, fileNo, processed, missing>>
  BY DEF StartManagerSync, Started, Goto, neoVars
<1>2. VarsOK'
  <2> HIDE DEF step, a, b
  <2>1. syncs' \in 0..MaxSyncs
    BY <1>1, EdgesAssumption DEF VarsOK
  <2> QED
    BY <1>0, <1>1, <2>1 DEF VarsOK, LawsUnique
<1>3. OthersSame(p) /\ Disturbs(p)
  <2> HIDE DEF step, a, b
  <2> QED
    BY <1>1 DEF VarsOK, OthersSame, Disturbs
<1>4. wpc'[p] = step /\ args'[p] = a /\ base'[p] = b /\ fileNo'[p] = 1 /\ processed'[p] = {}
      /\ edges' = edges /\ files' = files /\ pending'[p] = ListedLaws /\ missing'[p] = {}
  <2>1. wpc[p] \in {"idle", "done"}
    BY <1>1 DEF Working
  <2>2. fileNo[p] = 1 /\ processed[p] = {}
    BY <2>1 DEF WriterOK
  <2>3. missing[p] = {}
    BY <1>1, NoneMissing
  <2> HIDE DEF step, a, b
  <2> QED
    BY <1>1, <2>2, <2>3 DEF VarsOK
<1>5. files # <<>> => 1 \in DOMAIN files
  BY DEF VarsOK
<1>6. step \in {"fix", "clean", "laws"} /\ (step = "fix" => files # <<>>)
      /\ (step = "clean" => "clean" \in opts) /\ (step = "laws" => "clean" \notin opts)
  OBVIOUS
<1>7. a.script = "manager" /\ a.options = opts
  OBVIOUS
<1> HIDE DEF step, a
<1>8. WriterOK(p)'
  BY <1>4, <1>5, <1>6, <1>7, UpsertStepNames DEF WriterOK, ManagerSteps, LawsMade, MergeOK
<1>9. AloneInv(p)'
  <2>1. ASSUME NEW k \in EdgeKeys
        PROVE  /\ step = "fix" => b[k] = IF "clean" \in opts THEN 0 ELSE edges[k]
               /\ step = "clean" => b[k] = 0
               /\ step = "laws" => b[k] = edges[k]
    BY <1>6 DEF NoEdges
  <2>2. wpc'[p] \in {"fix", "clean", "laws"} /\ wpc'[p] \notin Range(UpsertSteps)
    BY <1>4, <1>6, UpsertStepNames
  <2> HIDE DEF EdgesInv, b
  <2> QED
    BY <1>4, <1>7, <2>1, <2>2 DEF AloneInv, ExactSoFar, MetSoFar, NodesSoFar
<1> QED
  BY <1>2, <1>3, <1>8, <1>9, OwnStep

(* Rewriting the files leaves the edges alone.                             *)
LEMMA FixFileStep ==
  ASSUME EdgesInv, NEW p \in Writers, FixFile(p)
  PROVE  EdgesInv'
<1> USE DEF EdgesInv
<1> DEFINE f == fileNo[p]
           fixed == Deduplicated(files[f])
           more == f < Len(files)
           next == IF "clean" \in args[p].options THEN "clean" ELSE "laws"
<1>1. wpc[p] = "fix" /\ f \in DOMAIN files /\ p \in Working
  BY DEF FixFile, WriterOK, Working
<1>2. files \in Seq(Seq(Entry)) /\ f \in 1..Len(files) /\ Len(files) \in Nat /\ f \in Nat
  BY <1>1 DEF VarsOK
<1>3. fixed \in Seq(Entry)
  BY <1>2, DeduplicatedType
<1>4. /\ files' = [files EXCEPT ![f] = fixed]
      /\ more => fileNo' = [fileNo EXCEPT ![p] = f + 1] /\ wpc' = wpc
      /\ ~more => fileNo' = [fileNo EXCEPT ![p] = 1] /\ wpc' = [wpc EXCEPT ![p] = next]
      /\ UNCHANGED <<copies, lawKey, edges, rowsLeft, processed, pending, missing, args,
                     syncs, undisturbed, unfailed, base>>
  BY DEF FixFile, Goto, neoVars, historyVars, VarsOK
<1> HIDE DEF fixed
<1>5. files' \in Seq(Seq(Entry)) /\ DOMAIN files' = DOMAIN files
  BY <1>2, <1>3, <1>4
<1>6. next \in Steps /\ f + 1 \in Nat \ {0} /\ next \in {"clean", "laws"}
  BY <1>2 DEF Steps, ManagerSteps
<1>7. VarsOK'
  <2> HIDE DEF next, more, f
  <2>1. wpc' \in [Writers -> Steps] /\ fileNo' \in [Writers -> Nat \ {0}]
    <3>1. wpc \in [Writers -> Steps] /\ fileNo \in [Writers -> Nat \ {0}]
      BY DEF VarsOK
    <3> QED
      BY <1>4, <1>6, <3>1
  <2> QED
    BY <1>4, <1>5, <2>1 DEF VarsOK, LawsUnique
<1>8. OthersSame(p) /\ Disturbs(p)
  <2> HIDE DEF next, more, f
  <2> QED
    BY <1>1, <1>4, <1>5 DEF VarsOK, OthersSame, Disturbs
<1>9. /\ more => wpc'[p] = "fix" /\ fileNo'[p] = f + 1
      /\ ~more => wpc'[p] = next /\ fileNo'[p] = 1
      /\ processed'[p] = {} /\ missing'[p] = {} /\ pending'[p] = ListedLaws
      /\ args'[p].script = "manager" /\ args' = args /\ base' = base /\ edges' = edges
      /\ undisturbed' = undisturbed /\ unfailed' = unfailed
  <2>1. missing[p] = {}
    BY <1>1, NoneMissing, UpsertStepNames DEF MergeSteps
  <2>2. pending[p] = ListedLaws /\ processed[p] = {} /\ args[p].script = "manager"
    BY <1>1 DEF WriterOK, LawsMade, ManagerSteps
  <2> QED
    BY <1>1, <1>4, <2>1, <2>2 DEF VarsOK
<1>10. more => f + 1 \in DOMAIN files'
  BY <1>2, <1>5
<1> HIDE DEF next, more, f
<1>11. WriterOK(p)'
  BY <1>6, <1>9, <1>10, UpsertStepNames DEF WriterOK, ManagerSteps, LawsMade, MergeOK
<1>12. ASSUME Alone(p)' PROVE AloneInv(p)'
  <2>1. ASSUME NEW k \in EdgeKeys PROVE base[p][k] = IF "clean" \in args[p].options THEN 0 ELSE edges[k]
    BY <1>1, <1>9, <1>12 DEF Alone, AloneInv, ExactSoFar
  <2>2. wpc'[p] \in {"fix", "clean", "laws"} /\ wpc'[p] \notin Range(UpsertSteps)
    BY <1>6, <1>9, UpsertStepNames
  <2>3. /\ wpc'[p] = "clean" => "clean" \in args[p].options
        /\ wpc'[p] = "laws" => "clean" \notin args[p].options
    BY <1>9 DEF next
  <2> HIDE DEF EdgesInv
  <2> QED
    BY <1>9, <2>1, <2>2, <2>3 DEF AloneInv, ExactSoFar, MetSoFar, NodesSoFar
<1> QED
  BY <1>7, <1>8, <1>11, <1>12, OwnStep

(* Deleting less than the limit has deleted everything.                    *)
LEMMA CleanBatchStep ==
  ASSUME EdgesInv, NEW p \in Writers, CleanBatch(p)
  PROVE  EdgesInv'
<1> USE DEF EdgesInv
<1> DEFINE count == Min({DeleteLimit, Total(edges)})
           next == IF count < DeleteLimit THEN "laws" ELSE "clean"
<1>1. /\ wpc[p] = "clean" /\ p \in Working
      /\ edges' \in LeftAfter(count)
      /\ wpc' = [wpc EXCEPT ![p] = next]
      /\ UNCHANGED <<files, copies, lawKey, rowsLeft, fileNo, processed, pending, missing,
                     args, syncs, undisturbed, unfailed, base>>
  <2>1. CleanBatch(p) => wpc[p] = "clean" /\ edges' \in LeftAfter(count)
          /\ (IF count < DeleteLimit THEN Goto(p, "laws") ELSE UNCHANGED wpc)
          /\ UNCHANGED <<files, copies, lawKey, rowsLeft, fileNo, processed, pending, missing,
                         args, syncs, undisturbed, unfailed, base>>
    BY DEF CleanBatch, historyVars
  <2> HIDE DEF count
  <2> QED
    BY <2>1 DEF Goto, VarsOK, Working
<1>2. edges \in [EdgeKeys -> Nat] /\ Total(edges) \in Nat /\ DeleteLimit \in Nat
  BY TotalCounts, EdgesAssumption DEF VarsOK
<1>3. count \in {DeleteLimit, Total(edges)} /\ count <= Total(edges)
  BY <1>2, MinOfTwo
<1> HIDE DEF count
<1>4. edges' \in [EdgeKeys -> Nat] /\ Total(edges') = Total(edges) - count
  <2>1. /\ edges' \in {[k \in EdgeKeys |-> edges[k] - d[k]] : d \in [EdgeKeys -> 0..count]}
        /\ \A k \in EdgeKeys : edges'[k] >= 0
        /\ Total(edges') = Total(edges) - count
    BY <1>1 DEF LeftAfter
  <2>2. PICK d \in [EdgeKeys -> 0..count] : edges' = [k \in EdgeKeys |-> edges[k] - d[k]]
    BY <2>1
  <2>3. ASSUME NEW k \in EdgeKeys PROVE edges[k] - d[k] \in Nat
    <3>1. edges[k] \in Nat /\ d[k] \in Int /\ edges'[k] = edges[k] - d[k] /\ edges'[k] >= 0
      BY <1>2, <1>3, <2>1, <2>2
    <3> QED
      BY <3>1
  <2> QED
    BY <2>1, <2>2, <2>3
<1>5. ASSUME count < DeleteLimit, NEW k \in EdgeKeys PROVE edges'[k] = 0
  <2>1. Total(edges') = 0
    BY <1>2, <1>3, <1>4, <1>5
  <2> QED
    BY <1>4, <2>1, TotalCounts
<1>6. next \in Steps
  BY DEF Steps, ManagerSteps
<1>7. VarsOK'
  <2> HIDE DEF next
  <2> QED
    BY <1>1, <1>4, <1>6 DEF VarsOK, LawsUnique
<1>8. OthersSame(p) /\ Disturbs(p)
  <2> HIDE DEF next
  <2> QED
    BY <1>1 DEF VarsOK, OthersSame, Disturbs
<1>9. wpc'[p] = next /\ fileNo'[p] = 1 /\ processed'[p] = {} /\ args'[p].script = "manager" /\ base' = base
      /\ missing'[p] = {} /\ pending'[p] = ListedLaws
      /\ undisturbed' = undisturbed /\ unfailed' = unfailed
  <2>1. missing[p] = {}
    BY <1>1, NoneMissing, UpsertStepNames DEF MergeSteps
  <2>2. pending[p] = ListedLaws /\ fileNo[p] = 1 /\ processed[p] = {} /\ args[p].script = "manager"
    BY <1>1 DEF WriterOK, LawsMade, ManagerSteps
  <2> HIDE DEF next
  <2> QED
    BY <1>1, <2>1, <2>2 DEF VarsOK
<1>10. next \in {"clean", "laws"} /\ (next = "laws" => count < DeleteLimit)
  OBVIOUS
<1> HIDE DEF next
<1>11. WriterOK(p)'
  BY <1>9, <1>10, UpsertStepNames DEF WriterOK, ManagerSteps, LawsMade, MergeOK
<1>12. ASSUME Alone(p)' PROVE AloneInv(p)'
  <2>1. ASSUME NEW k \in EdgeKeys PROVE base[p][k] = 0
    BY <1>1, <1>9, <1>12 DEF Alone, AloneInv, ExactSoFar
  <2>2. wpc'[p] \in {"clean", "laws"} /\ wpc'[p] \notin Range(UpsertSteps)
    BY <1>9, <1>10, UpsertStepNames
  <2> HIDE DEF EdgesInv
  <2> QED
    BY <1>5, <1>9, <1>10, <2>1, <2>2 DEF AloneInv, ExactSoFar, MetSoFar, NodesSoFar
<1> QED
  BY <1>7, <1>8, <1>11, <1>12, OwnStep

(* A MERGE leaves a node for every key it names.  That of a writer that is *)
(* alone leaves one where there was none, and the others as they were.     *)
LEMMA MergedFacts ==
  ASSUME EdgesInv, NEW p \in Writers, Merging(p), Merged(p)
  PROVE  /\ copies' \in [NodeKeys -> Nat] /\ missing' \in [Writers -> SUBSET NodeKeys]
         /\ missing'[p] = {} /\ \A q \in Writers \ {p} : missing'[q] = missing[q]
         /\ \A k \in NodeKeys : copies'[k] >= copies[k]
         /\ \A k \in Sought(p) : copies'[k] > 0
         /\ lawKey = "unique" => LawsUnique'
         /\ Alone(p) => \A k \in NodeKeys : copies[k] > 0 \/ k \notin Sought(p) => copies'[k] = copies[k]
<1>1. /\ copies' = [k \in NodeKeys |-> IF k \in missing[p] /\ ~Refused(k) THEN copies[k] + 1 ELSE copies[k]]
      /\ missing' = [missing EXCEPT ![p] = {}]
      /\ missing[p] # {} \/ Unfound(p) = {}
  BY DEF Merged
<1>2. VarsOK /\ copies \in [NodeKeys -> Nat] /\ missing \in [Writers -> SUBSET NodeKeys]
  BY DEF EdgesInv, VarsOK
<1>3. copies' \in [NodeKeys -> Nat] /\ \A k \in NodeKeys : copies'[k] >= copies[k]
  BY <1>1, <1>2
<1>4. Sought(p) \subseteq NodeKeys
  BY SoughtNodes DEF Merging
<1>5. MergeOK(p)
  BY DEF EdgesInv, WriterOK
<1>6. ASSUME NEW k \in Sought(p) PROVE copies'[k] > 0
  <2>1. k \in NodeKeys /\ copies[k] \in Nat
    BY <1>2, <1>4
  <2>2. CASE k \in missing[p] /\ ~Refused(k)
    BY <1>1, <2>1, <2>2
  <2>3. CASE k \in missing[p] /\ Refused(k)
    BY <1>1, <2>1, <2>3 DEF Refused
  <2>4. CASE k \notin missing[p]
    <3>1. copies[k] > 0
      <4>1. CASE missing[p] # {}
        BY <1>5, <2>4, <4>1 DEF MergeOK
      <4>2. CASE Unfound(p) = {}
        BY <2>1, <4>2 DEF Unfound
      <4> QED
        BY <1>1, <4>1, <4>2
    <3> QED
      BY <1>1, <2>1, <2>4, <3>1
  <2> QED
    BY <2>2, <2>3, <2>4
<1>7. ASSUME lawKey = "unique" PROVE LawsUnique'
  <2>1. ASSUME NEW l \in GraphLaws PROVE copies'[LawNode(l)] <= 1
    <3> DEFINE k == LawNode(l)
    <3>1. k \in NodeKeys /\ k[1] = "Law"
      BY NodeFacts
    <3>2. copies[k] <= 1 /\ copies[k] \in Nat
      BY <1>2, <1>7, <3>1 DEF VarsOK, LawsUnique
    <3> HIDE DEF k
    <3>3. CASE copies[k] > 0
      <4>1. Refused(k)
        BY <1>7, <3>1, <3>3 DEF Refused
      <4> QED
        BY <1>1, <3>1, <3>2, <4>1 DEF k
    <3>4. CASE ~(copies[k] > 0)
      <4>1. copies[k] = 0
        BY <3>2, <3>4
      <4> QED
        BY <1>1, <3>1, <4>1 DEF k
    <3> QED
      BY <3>3, <3>4
  <2> QED
    BY <2>1 DEF LawsUnique, LawNode
<1>8. ASSUME Alone(p), NEW k \in NodeKeys, copies[k] > 0 \/ k \notin Sought(p) PROVE copies'[k] = copies[k]
  <2>1. \A x \in missing[p] : copies[x] = 0
    BY <1>8 DEF EdgesInv, AloneInv, NodesSoFar
  <2>2. missing[p] \subseteq Sought(p)
    BY <1>5 DEF MergeOK
  <2>3. k \notin missing[p]
    BY <1>8, <2>1, <2>2
  <2> QED
    BY <1>1, <2>3
<1>9. missing' \in [Writers -> SUBSET NodeKeys] /\ missing'[p] = {}
      /\ \A q \in Writers \ {p} : missing'[q] = missing[q]
  BY <1>1, <1>2
<1> QED
  BY <1>3, <1>6, <1>7, <1>8, <1>9

(* What a MERGE does not find.                                             *)
LEMMA LookStep ==
  ASSUME EdgesInv, NEW p \in Writers, Look(p)
  PROVE  EdgesInv'
<1>1. /\ Merging(p) /\ wpc[p] \in MergeSteps /\ missing' = [missing EXCEPT ![p] = Unfound(p)]
      /\ UNCHANGED <<files, copies, lawKey, edges, wpc, rowsLeft, fileNo, processed, pending, args,
                     syncs, undisturbed, unfailed, base>>
  BY DEF Look, Merging, neoVars, historyVars
<1>2. Sought(p) \subseteq NodeKeys
  BY <1>1, SoughtNodes DEF Merging
<1>3. VarsOK /\ WriterOK(p)
  BY DEF EdgesInv
<1>4. Unfound(p) \subseteq NodeKeys /\ Unfound(p) \subseteq Sought(p)
      /\ \A k \in Sought(p) \ Unfound(p) : copies[k] > 0
  BY <1>2, <1>3 DEF Unfound, VarsOK
<1>5. missing'[p] = Unfound(p)
  BY <1>1, <1>3 DEF VarsOK
<1>6. VarsOK'
  BY <1>1, <1>3, <1>4 DEF VarsOK, LawsUnique
<1>7. OthersSame(p) /\ Disturbs(p)
  <2>1. p \in Working
    BY <1>1, UpsertStepNames DEF Working, MergeSteps
  <2> QED
    BY <1>1, <1>3, <2>1 DEF VarsOK, OthersSame, Disturbs
<1>8. MergeOK(p)'
  <2>1. Sought(p)' = Sought(p)
    BY <1>1 DEF Sought, FirstBatch, NodeOf, LawNode, ArticleNode, ParagraphNode
  <2>2. wpc[p] = "targetLaw" => Head(rowsLeft[p]).tlaw # NoTarget
    BY <1>1 DEF Merging
  <2>3. /\ wpc'[p] \in MergeSteps /\ (wpc'[p] = "targetLaw" => Head(rowsLeft'[p]).tlaw # NoTarget)
        /\ missing'[p] \subseteq Sought(p)
        /\ \A k \in Sought(p) \ missing'[p] : copies'[k] > 0
    BY <1>1, <1>4, <1>5, <2>2
  <2> QED
    BY <2>1, <2>3 DEF MergeOK
<1>9. WriterOK(p)'
  BY <1>1, <1>3, <1>8 DEF WriterOK, NodesMade, LawsMade
<1>10. ASSUME Alone(p)' PROVE AloneInv(p)'
  <2>1. AloneInv(p)
    BY <1>1, <1>10 DEF Alone, EdgesInv
  <2>2. ExactSoFar(p)' /\ MetSoFar(p)'
    <3>1. /\ \A k, n : Added(k, n)' = Added(k, n)
          /\ \A k : Pending(p, k)' = Pending(p, k)
          /\ \A k : Counted(k)' = Counted(k)
          /\ \A k : RowsAdded(args[p].rows, RowNo(p), k)' = RowsAdded(args[p].rows, RowNo(p), k)
          /\ Expected(p)' = Expected(p)
      BY <1>1 DEF Added, Matched, FilesWith, FirstCount, Pending, Counted, LawsUnique, RowsAdded, RowNo,
                  Occurrences, Pairs, Expected
    <3> QED
      BY <1>1, <2>1, <3>1 DEF AloneInv, ExactSoFar, MetSoFar, LawsUpTo
  <2>3. \A k \in missing'[p] : copies'[k] = 0
    BY <1>1, <1>5 DEF Unfound
  <2>4. NodesSoFar(p)'
    <3>1. \A i : FinalEnds(args[p].rows[i])' <=> FinalEnds(args[p].rows[i])
      BY <1>1 DEF FinalEnds, Final
    <3>2. RowNo(p)' = RowNo(p)
      BY <1>1 DEF RowNo
    <3> QED
      BY <1>1, <2>1, <2>3, <3>1, <3>2 DEF AloneInv, NodesSoFar
  <2> QED
    BY <2>2, <2>4 DEF AloneInv
<1> QED
  BY <1>6, <1>7, <1>9, <1>10, OwnStep

(* The listed laws have nodes before the first file is read.               *)
LEMMA MergeLawsStep ==
  ASSUME EdgesInv, NEW p \in Writers, MergeLaws(p)
  PROVE  EdgesInv'
<1> DEFINE more == Len(pending[p]) > BatchSize
           next == IF more THEN "laws" ELSE "file"
           rest == LaterBatches(p)
<1>0. VarsOK /\ WriterOK(p)
  BY DEF EdgesInv
<1>1. /\ wpc[p] = "laws" /\ p \in Working /\ Merged(p) /\ Merging(p)
      /\ wpc' = [wpc EXCEPT ![p] = next] /\ pending' = [pending EXCEPT ![p] = rest]
      /\ UNCHANGED <<files, lawKey, edges, rowsLeft, fileNo, processed, args, syncs,
                     undisturbed, unfailed, base>>
  BY <1>0 DEF MergeLaws, Goto, Working, Merging, MergeSteps, VarsOK, historyVars
<1>2. /\ copies' \in [NodeKeys -> Nat] /\ missing' \in [Writers -> SUBSET NodeKeys]
      /\ missing'[p] = {} /\ \A q \in Writers \ {p} : missing'[q] = missing[q]
      /\ \A k \in NodeKeys : copies'[k] >= copies[k]
      /\ \A k \in Sought(p) : copies'[k] > 0
      /\ lawKey = "unique" => LawsUnique'
  BY <1>1, MergedFacts
<1>3. /\ rest \in Seq(GraphLaws) /\ (~more => rest = <<>>)
      /\ Range(pending[p]) \subseteq Range(FirstBatch(p)) \cup Range(rest)
  BY <1>0, BatchMoved
<1>4. next \in {"laws", "file"} /\ next \in Steps /\ (next = "file" <=> ~more)
  BY DEF Steps, ManagerSteps
<1> HIDE DEF more, next, rest
<1>5. VarsOK'
  <2>1. pending' \in [Writers -> Seq(GraphLaws)] /\ wpc' \in [Writers -> Steps]
    BY <1>0, <1>1, <1>3, <1>4 DEF VarsOK
  <2> QED
    BY <1>0, <1>1, <1>2, <2>1 DEF VarsOK
<1>6. OthersSame(p) /\ Disturbs(p)
  BY <1>0, <1>1, <1>2 DEF VarsOK, OthersSame, Disturbs
<1>7. wpc'[p] = next /\ pending'[p] = rest /\ fileNo'[p] = 1 /\ processed'[p] = {}
      /\ args'[p].script = "manager" /\ base' = base /\ edges' = edges
      /\ undisturbed' = undisturbed /\ unfailed' = unfailed /\ files' = files
  BY <1>0, <1>1 DEF VarsOK, WriterOK, ManagerSteps
<1>8. LawsMade(p)'
  <2>1. ASSUME NEW l \in Range(ListedLaws)
        PROVE  copies'[LawNode(l)] > 0 \/ (next = "laws" /\ l \in Range(rest))
    <3>1. l \in GraphLaws
      BY RangeOfSeq, EdgesAssumption
    <3>2. LawNode(l) \in NodeKeys
      BY <3>1, NodeFacts
    <3>3. copies[LawNode(l)] \in Nat /\ copies'[LawNode(l)] \in Nat /\ copies'[LawNode(l)] >= copies[LawNode(l)]
      BY <1>0, <1>2, <3>2 DEF VarsOK
    <3>4. copies[LawNode(l)] > 0 \/ l \in Range(pending[p])
      BY <1>0, <1>1 DEF WriterOK, LawsMade
    <3>5. CASE copies[LawNode(l)] > 0
      BY <3>3, <3>5
    <3>6. CASE l \in Range(FirstBatch(p))
      <4>1. LawNode(l) \in Sought(p)
        BY <1>1, <3>6 DEF Sought
      <4> QED
        BY <1>2, <4>1
    <3>7. CASE l \in Range(rest)
      <4>1. Range(<<>>) = {}
        BY DEF Range
      <4> QED
        BY <1>3, <1>4, <3>7, <4>1
    <3> QED
      BY <1>3, <3>4, <3>5, <3>6, <3>7
  <2>2. wpc'[p] \notin {"fix", "clean"}
    BY <1>4, <1>7
  <2> QED
    BY <1>7, <2>1, <2>2 DEF LawsMade, LawNode
<1>9. WriterOK(p)'
  <2>1. MergeOK(p)'
    BY <1>2 DEF MergeOK
  <2> QED
    BY <1>4, <1>7, <1>8, <2>1, UpsertStepNames DEF WriterOK, ManagerSteps
<1>10. ASSUME Alone(p)' PROVE AloneInv(p)'
  <2>1. ASSUME NEW k \in EdgeKeys PROVE base[p][k] = edges[k] /\ edges[k] \in Nat
    BY <1>0, <1>1, <1>7, <1>10 DEF Alone, EdgesInv, AloneInv, ExactSoFar, VarsOK
  <2>2. ASSUME NEW k PROVE Added(k, 1 - 1)' = 0
    BY <1>5 DEF Added, FilesWith, VarsOK
  <2>3. LawsUpTo(1 - 1)' = {} /\ 1 <= Len(files') + 1
    BY <1>5 DEF LawsUpTo, VarsOK
  <2>4. wpc'[p] \notin Range(UpsertSteps) /\ wpc'[p] \in {"laws", "file"}
    BY <1>4, <1>7, UpsertStepNames
  <2>5. MetSoFar(p)'
    BY <1>7, <2>3, <2>4 DEF MetSoFar
  <2>6. ASSUME NEW k \in EdgeKeys
        PROVE  edges'[k] = base'[p][k] + Added(k, fileNo[p] - 1)' /\ base'[p][k] = edges'[k]
    <3>1. Added(k, fileNo[p] - 1)' = 0
      BY <1>7, <2>2 DEF Added
    <3> QED
      BY <1>7, <2>1, <3>1
  <2>7. ExactSoFar(p)'
    BY <2>4, <2>6 DEF ExactSoFar
  <2>8. NodesSoFar(p)'
    BY <1>2, <2>4 DEF NodesSoFar
  <2> QED
    BY <2>5, <2>7, <2>8 DEF AloneInv
<1> QED
  BY <1>5, <1>6, <1>9, <1>10, OwnStep

(* The files that name a law, and the entry that counts.                   *)
LEMMA FilesWithFacts ==
  ASSUME files \in Seq(Seq(Entry)), NEW k \in GraphLaws
  PROVE  /\ FilesWith(k) \in SUBSET (1..Len(files)) /\ Len(files) \in Nat
         /\ FilesWith(k) # {} => /\ Min(FilesWith(k)) \in FilesWith(k)
                                 /\ \A f \in FilesWith(k) : Min(FilesWith(k)) <= f
         /\ FirstCount(k) \in Nat
<1> DEFINE with == FilesWith(k)
           first == files[Min(with)]
           of == EntriesOf(first, k)
<1>1. with \in SUBSET (1..Len(files)) /\ Len(files) \in Nat
  BY DEF FilesWith
<1>2. with # {} => Min(with) \in with /\ \A f \in with : Min(with) <= f
  <2> HIDE DEF with
  <2> QED
    BY <1>1, MinOfPositions
<1>3. ASSUME with # {} PROVE first[Min(of)].references \in Nat
  <2>1. first \in Seq(Entry) /\ k \in LawsIn(first)
    BY <1>1, <1>2, <1>3 DEF FilesWith
  <2> HIDE DEF first
  <2>2. Len(first) \in Nat /\ DOMAIN first = 1..Len(first) /\ \A i \in 1..Len(first) : first[i] \in Entry
    BY <2>1
  <2>3. of \in SUBSET (1..Len(first)) /\ of # {}
    BY <2>1, <2>2 DEF EntriesOf, LawsIn
  <2>4. Min(of) \in of
    <3> HIDE DEF of
    <3> QED
      BY <2>2, <2>3, MinOfPositions
  <2> QED
    BY <2>2, <2>3, <2>4 DEF Entry
<1>4. FirstCount(k) = IF with = {} THEN 0 ELSE first[Min(of)].references
  BY DEF FirstCount
<1> HIDE DEF with, first, of
<1> QED
  BY <1>1, <1>2, <1>3, <1>4 DEF with

(* The laws of a file are laws.                                            *)
LEMMA LawsInType ==
  ASSUME NEW entries \in Seq(Entry)
  PROVE  LawsIn(entries) \subseteq GraphLaws
<1>1. \A i \in DOMAIN entries : entries[i] \in Entry
  OBVIOUS
<1> QED
  BY <1>1 DEF LawsIn, Entry

(* Reading file n adds what is generated from it.                          *)
LEMMA AddedNext ==
  ASSUME VarsOK, NEW n \in 1..Len(files), NEW k \in EdgeKeys
  PROVE  LET refs == Generated(files[n], LawsUpTo(n - 1))
         IN  Added(k, n) = Added(k, n - 1) + IF Matched(k) THEN Count(refs, k) ELSE 0
<1> DEFINE met  == LawsUpTo(n - 1)
           refs == Generated(files[n], met)
           with == FilesWith(k)
           c    == files[n][Min(EntriesOf(files[n], k))].references
<1>1. CASE ~Matched(k)
  BY <1>1 DEF Added
<1>2. CASE Matched(k)
  <2>1. k \in GraphLaws /\ files \in Seq(Seq(Entry)) /\ files[n] \in Seq(Entry) /\ Len(files) \in Nat
        /\ DOMAIN files = 1..Len(files)
    BY <1>2 DEF VarsOK, Matched
  <2>2. /\ with \in SUBSET (1..Len(files))
        /\ with # {} => Min(with) \in with /\ \A f \in with : Min(with) <= f
        /\ FirstCount(k) \in Nat
    BY <2>1, FilesWithFacts
  <2>3. met \in SUBSET GraphLaws
    <3>1. ASSUME NEW f \in 1..(n - 1) PROVE LawsIn(files[f]) \subseteq GraphLaws
      <4>1. files[f] \in Seq(Entry)
        BY <2>1
      <4> QED
        BY <4>1, LawsInType
    <3> QED
      BY <3>1 DEF LawsUpTo
  <2>4. Count(refs, k) = IF k \in LawsIn(files[n]) \ met THEN c ELSE 0
    <3> HIDE DEF met
    <3> QED
      BY <2>1, <2>3, GeneratedCounts
  <2>5. k \in met <=> \E f \in with : f <= n - 1
    BY <2>1 DEF LawsUpTo, FilesWith
  <2>6. k \in LawsIn(files[n]) <=> n \in with
    BY <2>1 DEF FilesWith
  <2>7. (\E f \in with : f <= n) <=> (k \in met \/ k \in LawsIn(files[n]))
    <3>1. \A f \in with : f <= n <=> (f <= n - 1 \/ f = n)
      BY <2>2
    <3> HIDE DEF met, with
    <3> QED
      BY <2>5, <2>6, <3>1
  <2>8. ASSUME k \notin met, k \in LawsIn(files[n]) PROVE FirstCount(k) = c
    <3>1. with # {} /\ Min(with) = n
      <4>1. n \in with /\ \A f \in with : ~(f <= n - 1)
        BY <2>5, <2>6, <2>8
      <4>2. Min(with) \in with /\ Min(with) <= n
        BY <2>2, <4>1
      <4>3. Min(with) \in Int /\ ~(Min(with) <= n - 1)
        BY <2>2, <4>1, <4>2
      <4> QED
        BY <4>1, <4>2, <4>3
    <3> QED
      BY <3>1 DEF FirstCount
  <2> HIDE DEF refs, with, c, met
  <2>9. Added(k, n) = (IF k \in met \/ k \in LawsIn(files[n]) THEN FirstCount(k) ELSE 0)
        /\ Added(k, n - 1) = (IF k \in met THEN FirstCount(k) ELSE 0)
    BY <1>2, <2>5, <2>7 DEF Added, with
  <2>10. Added(k, n) = Added(k, n - 1) + Count(refs, k)
    BY <2>2, <2>4, <2>8, <2>9
  <2> QED
    BY <1>2, <2>10 DEF refs, met
<1> QED
  BY <1>1, <1>2

(* Added is a number, and none before the first file.                      *)
LEMMA AddedType ==
  ASSUME VarsOK, NEW n \in Nat, NEW k \in EdgeKeys
  PROVE  Added(k, n) \in Nat /\ (~Matched(k) => Added(k, n) = 0)
<1>1. CASE Matched(k)
  <2>1. FirstCount(k) \in Nat
    BY <1>1, FilesWithFacts DEF VarsOK, Matched
  <2> QED
    BY <1>1, <2>1 DEF Added
<1>2. CASE ~Matched(k)
  BY <1>2 DEF Added
<1> QED
  BY <1>1, <1>2

(* The references of one file: the edges still to be created.              *)
LEMMA ReadFileStep ==
  ASSUME EdgesInv, NEW p \in Writers, ReadFile(p)
  PROVE  EdgesInv'
<1> USE DEF EdgesInv
<1> DEFINE n == fileNo[p]
           entries == files[n]
           refs == Generated(entries, processed[p])
           met == processed[p] \cup LawsIn(entries)
<1>1. /\ wpc[p] = "file" /\ p \in Working /\ n <= Len(files)
      /\ processed' = [processed EXCEPT ![p] = met]
      /\ pending' = [pending EXCEPT ![p] = refs]
      /\ refs = <<>> => fileNo' = [fileNo EXCEPT ![p] = n + 1] /\ wpc' = wpc
      /\ refs # <<>> => fileNo' = fileNo /\ wpc' = [wpc EXCEPT ![p] = "batch"]
      /\ UNCHANGED <<files, copies, lawKey, edges, rowsLeft, missing, args, syncs,
                     undisturbed, unfailed, base>>
  BY DEF ReadFile, Goto, Working, VarsOK, neoVars, historyVars
<1>2. files \in Seq(Seq(Entry)) /\ Len(files) \in Nat /\ n \in 1..Len(files) /\ entries \in Seq(Entry)
      /\ n \in Nat /\ DOMAIN files = 1..Len(files)
  <2>1. files \in Seq(Seq(Entry)) /\ n \in Nat \ {0}
    BY DEF VarsOK
  <2> QED
    BY <1>1, <2>1
<1>3. refs \in Seq(GraphLaws)
  <2>1. processed[p] \in SUBSET GraphLaws
    BY DEF VarsOK
  <2> QED
    BY <1>2, <2>1, GeneratedCounts
<1>4. met \subseteq GraphLaws
  <2>1. processed[p] \in SUBSET GraphLaws
    BY DEF VarsOK
  <2> HIDE DEF entries
  <2> QED
    BY <1>2, <2>1, LawsInType
<1> HIDE DEF refs, met
<1>5. VarsOK'
  <2>1. wpc' \in [Writers -> Steps] /\ fileNo' \in [Writers -> Nat \ {0}]
    <3>1. wpc \in [Writers -> Steps] /\ fileNo \in [Writers -> Nat \ {0}]
      BY DEF VarsOK
    <3>2. "batch" \in Steps /\ n + 1 \in Nat \ {0}
      BY <1>2 DEF Steps, ManagerSteps
    <3> HIDE DEF n
    <3> QED
      BY <1>1, <3>1, <3>2
  <2> HIDE DEF n, entries
  <2> QED
    <3>1. processed' \in [Writers -> SUBSET GraphLaws] /\ pending' \in [Writers -> Seq(GraphLaws)]
      BY <1>1, <1>3, <1>4 DEF VarsOK
    <3> QED
      BY <1>1, <2>1, <3>1 DEF VarsOK, LawsUnique
<1>6. OthersSame(p) /\ Disturbs(p)
  <2> HIDE DEF n
  <2> QED
    BY <1>1 DEF VarsOK, OthersSame, Disturbs
<1>7. /\ refs = <<>> => wpc'[p] = "file" /\ fileNo'[p] = n + 1
      /\ refs # <<>> => wpc'[p] = "batch" /\ fileNo'[p] = n
      /\ processed'[p] = met /\ pending'[p] = refs
      /\ args'[p].script = "manager" /\ base' = base /\ edges' = edges /\ files' = files
      /\ copies' = copies /\ missing'[p] = {} /\ undisturbed' = undisturbed /\ unfailed' = unfailed
  <2>1. missing[p] = {}
    BY <1>1, NoneMissing, UpsertStepNames DEF MergeSteps
  <2> QED
    BY <1>1, <2>1 DEF VarsOK, WriterOK, ManagerSteps
<1>8. WriterOK(p)'
  <2>1. LawsMade(p)' /\ MergeOK(p)'
    <3>1. LawsMade(p)
      BY DEF WriterOK
    <3> HIDE DEF n
    <3> QED
      BY <1>1, <1>7, <3>1 DEF LawsMade, MergeOK, LawNode
  <2> HIDE DEF n
  <2> QED
    BY <1>2, <1>7, <2>1, UpsertStepNames DEF WriterOK, ManagerSteps
<1>9. ASSUME Alone(p)' PROVE AloneInv(p)'
  <2>1. processed[p] = LawsUpTo(n - 1)
    BY <1>1, <1>7, <1>9 DEF Alone, AloneInv, MetSoFar
  <2>2. met = LawsUpTo(n)
    <3>1. \A f \in 1..n : f = n \/ f \in 1..(n - 1)
      BY <1>2
    <3>2. \A f \in 1..(n - 1) : f \in 1..n
      BY <1>2
    <3>3. n \in 1..n
      BY <1>2
    <3> HIDE DEF n
    <3> QED
      BY <2>1, <3>1, <3>2, <3>3 DEF met, LawsUpTo
  <2>3. \A m : LawsUpTo(m)' = LawsUpTo(m)
    BY <1>7 DEF LawsUpTo
  <2>4. MetSoFar(p)'
    <3>1. n + 1 <= Len(files) + 1 /\ (n + 1) - 1 = n
      BY <1>2
    <3> HIDE DEF n, EdgesInv
    <3>2. CASE refs = <<>>
      <4>1. LawsUpTo(fileNo[p] - 1)' = LawsUpTo(n)
        BY <1>7, <3>1, <3>2 DEF LawsUpTo
      <4> QED
        BY <1>7, <2>2, <3>1, <3>2, <4>1 DEF MetSoFar
    <3>3. CASE refs # <<>>
      <4>1. LawsUpTo(fileNo[p])' = LawsUpTo(n)
        BY <1>7, <3>3 DEF LawsUpTo
      <4> QED
        BY <1>7, <2>2, <3>3, <4>1 DEF MetSoFar
    <3> QED
      BY <3>2, <3>3
  <2>5. ASSUME NEW k \in EdgeKeys
        PROVE  /\ Counted(k) => edges[k] = base[p][k] + Added(k, n - 1)
               /\ edges[k] \in Nat /\ base[p][k] \in Nat
               /\ Added(k, n) = Added(k, n - 1) + (IF Matched(k) THEN Count(refs, k) ELSE 0)
               /\ Added(k, n) \in Nat /\ Added(k, n - 1) \in Nat
               /\ Count(refs, k) \in Nat /\ (refs = <<>> => Count(refs, k) = 0)
    <3>1. (Counted(k) => edges[k] = base[p][k] + Added(k, n - 1)) /\ edges[k] \in Nat /\ base[p][k] \in Nat
      BY <1>1, <1>7, <1>9 DEF Alone, AloneInv, ExactSoFar, VarsOK
    <3>2. Added(k, n) = Added(k, n - 1) + (IF Matched(k) THEN Count(refs, k) ELSE 0)
      <4> HIDE DEF n
      <4> QED
        BY <1>2, <2>1, AddedNext DEF refs
    <3>3. Added(k, n) \in Nat /\ Added(k, n - 1) \in Nat
      <4>1. n \in Nat /\ n - 1 \in Nat
        BY <1>2
      <4> HIDE DEF n
      <4> QED
        BY <4>1, AddedType
    <3>4. Count(refs, k) \in Nat
      BY <1>3, CountType
    <3>5. refs = <<>> => Count(refs, k) = 0
      BY FS_EmptySet DEF Count
    <3> QED
      BY <3>1, <3>2, <3>3, <3>4, <3>5
  <2>6. wpc'[p] \in {"file", "batch"} /\ wpc'[p] \notin Range(UpsertSteps)
    BY <1>7, UpsertStepNames
  <2>7. ASSUME NEW k \in EdgeKeys, Counted(k)'
        PROVE  /\ refs = <<>> => edges'[k] = base'[p][k] + Added(k, fileNo[p] - 1)'
               /\ refs # <<>> => edges'[k] + Pending(p, k)' = base'[p][k] + Added(k, fileNo[p])'
    <3>1. (n + 1) - 1 = n
      BY <1>2
    <3> HIDE DEF n
    <3>2. refs = <<>> => Added(k, fileNo[p] - 1)' = Added(k, n)
      BY <1>7, <3>1 DEF Added, Matched, FilesWith, FirstCount, LawNode
    <3>3. refs # <<>> => Added(k, fileNo[p])' = Added(k, n)
      BY <1>7 DEF Added, Matched, FilesWith, FirstCount, LawNode
    <3>4. Pending(p, k)' = IF Matched(k) THEN Count(refs, k) ELSE 0
      BY <1>7 DEF Pending, Matched, Count, LawNode
    <3>5. Counted(k)
      BY <1>7, <2>7 DEF Counted, LawsUnique, LawNode
    <3> HIDE DEF EdgesInv
    <3> QED
      BY <1>7, <2>5, <3>2, <3>3, <3>4, <3>5
  <2> HIDE DEF EdgesInv, n
  <2>8. ExactSoFar(p)'
    BY <1>7, <2>6, <2>7 DEF ExactSoFar
  <2>9. NodesSoFar(p)'
    BY <1>7, <2>6 DEF NodesSoFar
  <2> QED
    BY <2>4, <2>8, <2>9 DEF AloneInv
<1> QED
  BY <1>5, <1>6, <1>8, <1>9, OwnStep

(* A batch makes finitely many edges; where no law has two nodes, one for  *)
(* every reference whose ends have nodes.                                  *)
LEMMA CreatedCounts ==
  ASSUME VarsOK, NEW batch \in Seq(GraphLaws), NEW to \in [DOMAIN batch -> GraphLaws], NEW l \in GraphLaws
  PROVE  /\ Cardinality(Created(batch, to, l)) \in Nat
         /\ /\ LawsUnique
            /\ \A i \in DOMAIN batch : batch[i] = l => to[i] = l \/ copies[LawNode(to[i])] > 0
            => Cardinality(Created(batch, to, l)) = IF Matched(l) THEN Count(batch, l) ELSE 0
<1> DEFINE at == {j \in DOMAIN batch : batch[j] = l}
           m == copies[LawNode(l)]
           of(i) == {i} \X (1..m) \X (1..copies[LawNode(to[i])])
           all == {of(i) : i \in at}
           f == [i \in at |-> of(i)]
<1>0. Created(batch, to, l) = UNION all
  BY DEF Created
<1>1. \A x \in GraphLaws : copies[LawNode(x)] \in Nat
  BY NodeFacts DEF VarsOK
<1>2. at \in SUBSET (1..Len(batch)) /\ Len(batch) \in Nat
  OBVIOUS
<1>3. IsFiniteSet(at) /\ Cardinality(at) = Count(batch, l)
  <2>1. IsFiniteSet(at)
    <3> HIDE DEF at
    <3> QED
      BY <1>2, PositionsFinite
  <2> QED
    BY <2>1 DEF Count
<1>4. \A i \in at : to[i] \in GraphLaws
  OBVIOUS
<1>5. ASSUME NEW i \in at PROVE IsFiniteSet(of(i))
  <2>1. m \in Int /\ copies[LawNode(to[i])] \in Int /\ 1 \in Int
    BY <1>1, <1>4
  <2> DEFINE a == 1..m
             b == 1..copies[LawNode(to[i])]
             pairs == (1..m) \X b
  <2>2. IsFiniteSet(a) /\ IsFiniteSet(b) /\ IsFiniteSet({i})
    BY <2>1, FS_Interval, FS_Singleton
  <2>3. IsFiniteSet(a \X b)
    <3> HIDE DEF a, b
    <3> QED
      BY <2>2, FS_Product
  <2>4. IsFiniteSet({i} \X (a \X b))
    <3> HIDE DEF a, b
    <3> QED
      BY <2>2, <2>3, FS_Product
  <2> DEFINE g == [x \in {i} \X (a \X b) |-> <<x[1], x[2][1], x[2][2]>>]
  <2>5. g \in Surjection({i} \X (a \X b), of(i))
    <3>1. \A x \in {i} \X (a \X b) : <<x[1], x[2][1], x[2][2]>> \in of(i)
      <4> HIDE DEF m
      <4> QED
        OBVIOUS
    <3>2. ASSUME NEW y \in of(i) PROVE \E x \in {i} \X (a \X b) : g[x] = y
      <4> HIDE DEF m
      <4>1. y = <<y[1], y[2], y[3]>> /\ y[1] \in {i} /\ y[2] \in a /\ y[3] \in b
        OBVIOUS
      <4> DEFINE x == <<y[1], <<y[2], y[3]>>>>
      <4>2. x \in {i} \X (a \X b)
        BY <4>1
      <4>3. g[x] = <<y[1], y[2], y[3]>>
        BY <4>2
      <4> QED
        BY <4>1, <4>2, <4>3
    <3> HIDE DEF of, a, b
    <3> QED
      BY <3>1, <3>2 DEF Surjection
  <2> HIDE DEF g, of, a, b
  <2> QED
    BY <2>4, <2>5, FS_Surjection
<1>6. IsFiniteSet(UNION all)
  <2>1. f \in Surjection(at, all)
    BY DEF Surjection
  <2>2. \A T \in all : IsFiniteSet(T)
    BY <1>5
  <2> HIDE DEF f, all, at, of
  <2>3. IsFiniteSet(all)
    BY <1>3, <2>1, FS_Surjection
  <2> QED
    BY <2>2, <2>3, FS_UNION
<1>7. Cardinality(Created(batch, to, l)) \in Nat
  BY <1>0, <1>6, FS_CardinalityType
<1>8. ASSUME LawsUnique, \A i \in DOMAIN batch : batch[i] = l => to[i] = l \/ copies[LawNode(to[i])] > 0
      PROVE  Cardinality(Created(batch, to, l)) = IF Matched(l) THEN Count(batch, l) ELSE 0
  <2>1. \A x \in GraphLaws : copies[LawNode(x)] \in {0, 1}
    BY <1>1, <1>8 DEF LawsUnique
  <2>2. CASE ~Matched(l)
    <3>1. m = 0
      BY <1>1, <2>2 DEF Matched
    <3>2. UNION all = {}
      <4>1. 1..m = {}
        BY <3>1
      <4> HIDE DEF m
      <4>2. \A i \in at : of(i) = {}
        BY <4>1
      <4> HIDE DEF of, at
      <4> QED
        BY <4>2
    <3> QED
      BY <1>0, <2>2, <3>2, FS_EmptySet
  <2>3. CASE Matched(l)
    <3>1. m = 1 /\ \A i \in at : copies[LawNode(to[i])] = 1
      <4>1. m = 1
        BY <2>1, <2>3 DEF Matched
      <4>2. ASSUME NEW i \in at PROVE copies[LawNode(to[i])] = 1
        <5>1. to[i] = l \/ copies[LawNode(to[i])] > 0
          BY <1>8
        <5>2. copies[LawNode(to[i])] \in {0, 1}
          BY <1>4, <2>1
        <5> QED
          BY <4>1, <5>1, <5>2
      <4> QED
        BY <4>1, <4>2
    <3>2. 1..1 = {1}
      OBVIOUS
    <3>3. \A i \in at : of(i) = {<<i, 1, 1>>}
      <4> SUFFICES ASSUME NEW i \in at PROVE of(i) = {<<i, 1, 1>>}
        OBVIOUS
      <4>1. of(i) = {i} \X {1} \X {1}
        BY <3>1, <3>2
      <4> HIDE DEF of, m, at
      <4> QED
        BY <4>1
    <3>4. UNION all = {<<i, 1, 1>> : i \in at}
      <4> HIDE DEF of, m, at
      <4> QED
        BY <3>3
    <3> DEFINE h == [i \in at |-> <<i, 1, 1>>]
               T == {<<i, 1, 1>> : i \in at}
    <3>5. h \in Bijection(at, T)
      <4>1. h \in Surjection(at, T)
        BY DEF Surjection
      <4>2. h \in Injection(at, T)
        <5> HIDE DEF at
        <5>1. \A i, j \in at : h[i] = h[j] => i = j
          OBVIOUS
        <5>2. h \in [at -> T]
          OBVIOUS
        <5> HIDE DEF h, T
        <5> QED
          BY <5>1, <5>2 DEF Injection, IsInjective
      <4> QED
        BY <4>1, <4>2 DEF Bijection
    <3> HIDE DEF h, T, at
    <3>6. Cardinality(at) = Cardinality(T)
      <4>1. ExistsBijection(at, T)
        BY <3>5 DEF ExistsBijection
      <4> QED
        BY <1>3, <4>1, FS_Bijection
    <3> QED
      BY <1>0, <1>3, <2>3, <3>4, <3>6 DEF T
  <2> QED
    BY <2>2, <2>3
<1> QED
  BY <1>7, <1>8

(* The ends of a row with a target are nodes.                              *)
LEMMA EndNodes ==
  ASSUME NEW r \in AllRows, r.tlaw # NoTarget
  PROVE  Source(r) \in NodeKeys /\ Target(r) \in NodeKeys
<1>1. r \in RowType
  BY KeyFacts
<1>2. r.slaw \in GraphLaws /\ r.tlaw \in GraphLaws /\ r.sart \in ArticleNumbers /\ r.tart \in ArticleNumbers
  BY <1>1 DEF RowType
<1> QED
  BY <1>2, NodeFacts DEF Source, Target

(* How many edges a row gets is a number.                                  *)
LEMMA PairsType ==
  ASSUME VarsOK, NEW r \in AllRows
  PROVE  Pairs(r) \in Nat
<1>1. CASE r.tlaw = NoTarget
  BY <1>1 DEF Pairs
<1>2. CASE r.tlaw # NoTarget
  <2>1. copies[Source(r)] \in Nat /\ copies[Target(r)] \in Nat
    BY <1>2, EndNodes DEF VarsOK
  <2>2. \A a, b \in Nat : a * b \in Nat
    OBVIOUS
  <2> QED
    BY <1>2, <2>1, <2>2 DEF Pairs
<1> QED
  BY <1>1, <1>2

(* What BatchDone does to the writer.                                      *)
LEMMA BatchDoneFacts ==
  ASSUME EdgesInv, NEW p \in Writers, wpc[p] = "batch", BatchDone(p),
         UNCHANGED <<files, copies, lawKey, rowsLeft, processed, missing, args, syncs, undisturbed, base>>,
         edges' \in [EdgeKeys -> Nat], unfailed' \in [Writers -> BOOLEAN]
  PROVE  /\ VarsOK' /\ OthersSame(p) /\ Disturbs(p) /\ WriterOK(p)'
         /\ pending'[p] = LaterBatches(p) /\ missing'[p] = {}
         /\ IF Len(pending[p]) > BatchSize THEN wpc'[p] = "batch" /\ fileNo'[p] = fileNo[p]
            ELSE wpc'[p] = "file" /\ fileNo'[p] = fileNo[p] + 1
<1> USE DEF EdgesInv
<1> DEFINE n == fileNo[p]
           rest == LaterBatches(p)
           more == Len(pending[p]) > BatchSize
<1>1. /\ pending' = [pending EXCEPT ![p] = rest]
      /\ more => wpc' = wpc /\ fileNo' = fileNo
      /\ ~more => wpc' = [wpc EXCEPT ![p] = "file"] /\ fileNo' = [fileNo EXCEPT ![p] = n + 1]
  BY DEF BatchDone, Goto
<1>2. rest \in Seq(GraphLaws) /\ (more => rest # <<>>)
  BY BatchMoved
<1>3. n \in Nat \ {0} /\ n \in DOMAIN files /\ n + 1 \in Nat \ {0}
  <2>1. n \in Nat \ {0}
    BY DEF VarsOK
  <2> QED
    BY <2>1 DEF WriterOK
<1> HIDE DEF rest, more
<1>4. VarsOK'
  <2>1. wpc' \in [Writers -> Steps] /\ fileNo' \in [Writers -> Nat \ {0}]
    <3>1. wpc \in [Writers -> Steps] /\ fileNo \in [Writers -> Nat \ {0}]
      BY DEF VarsOK
    <3>2. "file" \in Steps
      BY DEF Steps, ManagerSteps
    <3> HIDE DEF n
    <3> QED
      BY <1>1, <1>3, <3>1, <3>2
  <2>2. pending' \in [Writers -> Seq(GraphLaws)]
    BY <1>1, <1>2 DEF VarsOK
  <2> HIDE DEF n
  <2> QED
    BY <2>1, <2>2 DEF VarsOK, LawsUnique
<1>5. OthersSame(p) /\ Disturbs(p)
  <2>1. p \in Working
    BY DEF Working
  <2> HIDE DEF n
  <2> QED
    BY <1>1, <2>1 DEF VarsOK, OthersSame, Disturbs
<1>6. /\ pending'[p] = rest
      /\ IF more THEN wpc'[p] = "batch" /\ fileNo'[p] = n ELSE wpc'[p] = "file" /\ fileNo'[p] = n + 1
  BY <1>1 DEF VarsOK
<1>7. missing'[p] = {}
  BY NoneMissing, UpsertStepNames DEF MergeSteps
<1>8. WriterOK(p)'
  <2>1. args'[p].script = "manager" /\ LawsMade(p)
    BY DEF WriterOK, ManagerSteps
  <2> HIDE DEF n
  <2>2. LawsMade(p)' /\ MergeOK(p)'
    BY <1>6, <1>7, <2>1 DEF LawsMade, MergeOK, LawNode
  <2> QED
    BY <1>2, <1>3, <1>6, <2>1, <2>2, UpsertStepNames DEF WriterOK, ManagerSteps
<1> QED
  BY <1>4, <1>5, <1>6, <1>7, <1>8 DEF rest, more

(* A batch turns references to be created into edges.                      *)
LEMMA CreateBatchStep ==
  ASSUME EdgesInv, NEW p \in Writers, CreateBatch(p)
  PROVE  EdgesInv'
<1> DEFINE n == fileNo[p]
           batch == FirstBatch(p)
           rest == LaterBatches(p)
           more == Len(pending[p]) > BatchSize
<1>0. VarsOK /\ WriterOK(p)
  BY DEF EdgesInv
<1>1. /\ wpc[p] = "batch" /\ BatchDone(p)
      /\ UNCHANGED <<files, copies, lawKey, rowsLeft, processed, missing, args, syncs,
                     undisturbed, unfailed, base>>
  BY DEF CreateBatch, historyVars
<1>2. PICK to \in [DOMAIN batch -> GraphLaws] :
        /\ \A i \in DOMAIN batch : to[i] \in Targets(batch[i])
        /\ edges' = [k \in EdgeKeys |-> edges[k] +
                       IF k \in GraphLaws THEN Cardinality(Created(batch, to, k)) ELSE 0]
  BY DEF CreateBatch
<1>3. batch \in Seq(GraphLaws)
      /\ \A k : /\ Count(pending[p], k) = Count(batch, k) + Count(rest, k)
                /\ Count(batch, k) \in Nat /\ Count(rest, k) \in Nat
                /\ ~more => Count(rest, k) = 0
  BY <1>0, BatchMoved
<1> HIDE DEF batch, rest, more
<1>4. edges \in [EdgeKeys -> Nat] /\ unfailed' \in [Writers -> BOOLEAN] /\ n \in Nat
  BY <1>0, <1>1 DEF VarsOK
<1>5. \A k \in GraphLaws : Cardinality(Created(batch, to, k)) \in Nat
  BY <1>0, <1>2, <1>3, CreatedCounts
<1>6. edges' \in [EdgeKeys -> Nat]
  BY <1>2, <1>4, <1>5
<1>7. /\ VarsOK' /\ OthersSame(p) /\ Disturbs(p) /\ WriterOK(p)' /\ pending'[p] = rest /\ missing'[p] = {}
      /\ IF more THEN wpc'[p] = "batch" /\ fileNo'[p] = n ELSE wpc'[p] = "file" /\ fileNo'[p] = n + 1
  BY <1>1, <1>4, <1>6, BatchDoneFacts DEF rest, more
<1>8. ASSUME NEW k \in EdgeKeys, Counted(k)
      PROVE  edges'[k] = edges[k] + IF Matched(k) THEN Count(batch, k) ELSE 0
  <2>1. CASE k \in GraphLaws
    <3>1. LawsUnique
      BY <1>8, <2>1 DEF Counted
    <3>2. \A l \in Range(ListedLaws) : copies[LawNode(l)] > 0
      BY <1>0, <1>1 DEF WriterOK, LawsMade
    <3>3. \A i \in DOMAIN batch : batch[i] = k => to[i] = k \/ copies[LawNode(to[i])] > 0
      BY <1>2, <3>2 DEF Targets
    <3>4. Cardinality(Created(batch, to, k)) = IF Matched(k) THEN Count(batch, k) ELSE 0
      BY <1>0, <1>2, <1>3, <2>1, <3>1, <3>3, CreatedCounts
    <3> QED
      BY <1>2, <2>1, <3>4
  <2>2. CASE k \notin GraphLaws
    BY <1>2, <1>4, <2>2 DEF Matched
  <2> QED
    BY <2>1, <2>2
<1>9. ASSUME Alone(p)' PROVE AloneInv(p)'
  <2>0. Alone(p) /\ ExactSoFar(p) /\ MetSoFar(p)
    BY <1>1, <1>9 DEF Alone, EdgesInv, AloneInv
  <2>1. MetSoFar(p)'
    <3>1. processed[p] = LawsUpTo(n) /\ n \in DOMAIN files /\ files \in Seq(Seq(Entry)) /\ (n + 1) - 1 = n
      BY <1>0, <1>1, <1>4, <2>0 DEF MetSoFar, WriterOK, VarsOK
    <3>2. n + 1 <= Len(files) + 1
      BY <1>4, <3>1
    <3> HIDE DEF n
    <3>3. CASE more
      <4>1. LawsUpTo(fileNo[p])' = LawsUpTo(n)
        BY <1>1, <1>7, <3>3 DEF LawsUpTo
      <4> QED
        BY <1>1, <1>7, <3>1, <3>3, <4>1 DEF MetSoFar
    <3>4. CASE ~more
      <4>1. LawsUpTo(fileNo[p] - 1)' = LawsUpTo(n)
        BY <1>1, <1>7, <3>1, <3>4 DEF LawsUpTo
      <4> QED
        BY <1>1, <1>7, <3>1, <3>2, <3>4, <4>1 DEF MetSoFar
    <3> QED
      BY <3>3, <3>4
  <2>2. ASSUME NEW k \in EdgeKeys, Counted(k)'
        PROVE  /\ more => edges'[k] + Pending(p, k)' = base'[p][k] + Added(k, fileNo[p])'
               /\ ~more => edges'[k] = base'[p][k] + Added(k, fileNo[p] - 1)'
    <3>0. Counted(k)
      BY <1>1, <2>2 DEF Counted, LawsUnique, LawNode
    <3>1. edges[k] + Pending(p, k) = base[p][k] + Added(k, n)
      BY <1>1, <2>0, <3>0 DEF ExactSoFar
    <3>2. Added(k, n) \in Nat /\ base[p][k] \in Nat /\ edges[k] \in Nat
      BY <1>0, <1>4, AddedType DEF VarsOK
    <3>3. edges'[k] = edges[k] + IF Matched(k) THEN Count(batch, k) ELSE 0
      BY <1>8, <3>0
    <3>4. Pending(p, k)' = IF Matched(k) THEN Count(rest, k) ELSE 0
      BY <1>1, <1>7 DEF Pending, Matched, Count, LawNode
    <3>5. edges'[k] + Pending(p, k)' = base'[p][k] + Added(k, n)
      BY <1>1, <1>3, <3>1, <3>2, <3>3, <3>4 DEF Pending
    <3>6. (n + 1) - 1 = n
      BY <1>4
    <3>7. more => Added(k, fileNo[p])' = Added(k, n)
      BY <1>1, <1>7 DEF Added, Matched, FilesWith, FirstCount, LawNode
    <3>8. ~more => Added(k, fileNo[p] - 1)' = Added(k, n)
      <4> HIDE DEF n
      <4> QED
        BY <1>1, <1>7, <3>6 DEF Added, Matched, FilesWith, FirstCount, LawNode
    <3>9. ~more => Pending(p, k)' = 0
      BY <1>3, <3>4
    <3>10. edges'[k] \in Nat
      BY <1>6
    <3> QED
      BY <3>5, <3>7, <3>8, <3>9, <3>10
  <2>3. wpc'[p] \in {"file", "batch"} /\ wpc'[p] \notin Range(UpsertSteps)
    BY <1>7, UpsertStepNames
  <2> HIDE DEF n
  <2>4. ExactSoFar(p)'
    BY <1>7, <2>2, <2>3 DEF ExactSoFar
  <2>5. NodesSoFar(p)'
    BY <1>7, <2>3 DEF NodesSoFar
  <2> QED
    BY <2>1, <2>4, <2>5 DEF AloneInv
<1> QED
  BY <1>7, <1>9, OwnStep

(* A batch that failed: the sync is no longer held to be exact.            *)
LEMMA BatchFailsStep ==
  ASSUME EdgesInv, NEW p \in Writers, BatchFails(p)
  PROVE  EdgesInv'
<1>1. /\ wpc[p] = "batch" /\ BatchDone(p)
      /\ UNCHANGED <<files, copies, lawKey, edges, rowsLeft, processed, missing, args, syncs,
                     undisturbed, base>>
      /\ unfailed' = [unfailed EXCEPT ![p] = FALSE]
  BY DEF BatchFails, neoVars
<1>2. edges' \in [EdgeKeys -> Nat] /\ unfailed' \in [Writers -> BOOLEAN] /\ ~unfailed'[p]
  BY <1>1 DEF EdgesInv, VarsOK
<1>3. VarsOK' /\ OthersSame(p) /\ Disturbs(p) /\ WriterOK(p)'
  BY <1>1, <1>2, BatchDoneFacts
<1> QED
  BY <1>2, <1>3, OwnStep DEF Alone

(* All files are read: every law has the edges of its first entry.         *)
LEMMA ManagerSyncDoneStep ==
  ASSUME EdgesInv, NEW p \in Writers, ManagerSyncDone(p)
  PROVE  EdgesInv'
<1> USE DEF EdgesInv
<1>1. /\ wpc[p] = "file" /\ fileNo[p] > Len(files) /\ p \in Working
      /\ wpc' = [wpc EXCEPT ![p] = "done"]
      /\ rowsLeft' = [rowsLeft EXCEPT ![p] = <<>>]
      /\ fileNo' = [fileNo EXCEPT ![p] = 1]
      /\ processed' = [processed EXCEPT ![p] = {}]
      /\ pending' = [pending EXCEPT ![p] = <<>>]
      /\ missing' = [missing EXCEPT ![p] = {}]
      /\ lawKey' \in {lawKey, IF lawKey = "none" THEN "index" ELSE lawKey}
      /\ UNCHANGED <<files, copies, edges, args, syncs, undisturbed, unfailed, base>>
  BY DEF ManagerSyncDone, Goto, Forgotten, Working, historyVars
<1>2. VarsOK'
  <2>1. lawKey' \in {"none", "index", "unique"} /\ (lawKey' = "unique" => lawKey = "unique")
    BY <1>1 DEF VarsOK
  <2> QED
    BY <1>1, <2>1 DEF VarsOK, Steps, LawsUnique
<1>3. OthersSame(p) /\ Disturbs(p)
  BY <1>1 DEF VarsOK, OthersSame, Disturbs
<1>4. wpc'[p] = "done" /\ fileNo'[p] = 1 /\ processed'[p] = {} /\ missing'[p] = {}
  BY <1>1 DEF VarsOK
<1>5. WriterOK(p)'
  BY <1>4, RestOK
<1>6. ASSUME Alone(p)' PROVE AloneInv(p)'
  <2>1. ExactSoFar(p) /\ MetSoFar(p)
    BY <1>1, <1>6 DEF Alone, AloneInv
  <2>2. fileNo[p] - 1 = Len(files) /\ files \in Seq(Seq(Entry)) /\ Len(files) \in Nat
    <3>1. fileNo[p] \in Nat \ {0} /\ files \in Seq(Seq(Entry))
      BY DEF VarsOK
    <3>2. fileNo[p] <= Len(files) + 1
      BY <1>1, <2>1 DEF MetSoFar
    <3> QED
      BY <1>1, <3>1, <3>2
  <2>3. args[p].script = "manager" /\ args[p].rows = <<>>
    BY <1>1 DEF WriterOK, ManagerSteps, VarsOK, Arguments
  <2>4. ASSUME NEW k \in EdgeKeys, Counted(k) PROVE edges[k] = base[p][k] + Expected(p)[k]
    <3>1. edges[k] = base[p][k] + Added(k, Len(files))
      BY <1>1, <2>1, <2>2, <2>4 DEF ExactSoFar
    <3>2. Expected(p)[k] = IF k \in GraphLaws THEN IF Matched(k) THEN FirstCount(k) ELSE 0
                           ELSE Cardinality({i \in DOMAIN <<>> : <<>>[i] = k}) * Pairs(k)
      BY <2>3 DEF Expected, Matched
    <3>3. CASE k \in GraphLaws
      <4>1. FilesWith(k) \in SUBSET (1..Len(files))
        BY <2>2, <3>3, FilesWithFacts
      <4>2. \A f \in FilesWith(k) : f <= Len(files)
        BY <2>2, <4>1
      <4>3. FilesWith(k) = {} => FirstCount(k) = 0
        BY DEF FirstCount
      <4>4. Added(k, Len(files)) = IF Matched(k) THEN FirstCount(k) ELSE 0
        BY <4>2, <4>3 DEF Added
      <4> QED
        BY <3>1, <3>2, <3>3, <4>4
    <3>4. CASE k \notin GraphLaws
      <4>1. Expected(p)[k] = 0
        <5>1. {i \in DOMAIN <<>> : <<>>[i] = k} = {}
          OBVIOUS
        <5>2. k \in AllRows
          BY <3>4 DEF EdgeKeys
        <5>3. Pairs(k) \in Nat
          BY <5>2, PairsType
        <5>4. Cardinality({}) = 0 /\ 0 * Pairs(k) = 0
          BY <5>3, FS_EmptySet
        <5> QED
          BY <3>2, <3>4, <5>1, <5>4
      <4>2. Added(k, Len(files)) = 0
        BY <3>4 DEF Added, Matched
      <4> QED
        BY <3>1, <4>1, <4>2
    <3> QED
      BY <3>3, <3>4
  <2>5. ASSUME NEW k \in EdgeKeys, Counted(k)' PROVE edges'[k] = base'[p][k] + Expected(p)'[k]
    <3>1. Expected(p)' = Expected(p)
      BY <1>1 DEF Expected, FirstCount, FilesWith, Pairs, LawNode
    <3>2. Counted(k)
      BY <1>1, <2>5 DEF Counted, LawsUnique, LawNode
    <3> QED
      BY <1>1, <2>4, <3>1, <3>2
  <2>6. "done" \notin Range(UpsertSteps)
    BY UpsertStepNames
  <2> HIDE DEF EdgesInv
  <2> QED
    BY <1>4, <2>5, <2>6 DEF AloneInv, ExactSoFar, MetSoFar, NodesSoFar
<1> QED
  BY <1>2, <1>3, <1>5, <1>6, OwnStep

-----------------------------------------------------------------------------
(* One more row adds its edges.                                            *)
LEMMA RowsAddedNext ==
  ASSUME VarsOK, NEW rows \in Seq(AllRows), NEW n \in 0..(Len(rows) - 1), NEW k \in EdgeKeys
  PROVE  /\ RowsAdded(rows, n, k) \in Nat
         /\ RowsAdded(rows, n + 1, k) = RowsAdded(rows, n, k) + IF k = rows[n + 1] THEN Pairs(k) ELSE 0
<1> DEFINE in(m) == {i \in 1..m : rows[i] = k}
           c == Cardinality(in(n))
<1>1. Len(rows) \in Nat /\ n \in Nat /\ n + 1 \in 1..Len(rows) /\ n + 1 \in Nat
  OBVIOUS
<1>2. rows[n + 1] \in AllRows
  BY <1>1
<1>3. CASE k \in GraphLaws
  <2>1. k # rows[n + 1]
    BY <1>2, <1>3, KeyFacts
  <2> QED
    BY <1>3, <2>1 DEF RowsAdded
<1>4. CASE k \notin GraphLaws
  <2>0. Pairs(k) \in Nat
    BY <1>4, PairsType DEF EdgeKeys
  <2>1. IsFiniteSet(in(n)) /\ c \in Nat
    <3>1. in(n) \in SUBSET (1..n)
      OBVIOUS
    <3> HIDE DEF in
    <3> QED
      BY <1>1, <3>1, PositionsFinite
  <2>2. RowsAdded(rows, n, k) = c * Pairs(k)
        /\ RowsAdded(rows, n + 1, k) = Cardinality(in(n + 1)) * Pairs(k)
    BY <1>4 DEF RowsAdded, Occurrences
  <2>3. \A a, b \in Nat : a * b \in Nat /\ (a + 1) * b = a * b + b
    OBVIOUS
  <2>4. CASE k = rows[n + 1]
    <3>1. in(n + 1) = in(n) \cup {n + 1} /\ n + 1 \notin in(n)
      <4>1. ASSUME NEW i \in in(n + 1) PROVE i \in in(n) \cup {n + 1}
        BY <1>1
      <4>2. n + 1 \in in(n + 1) /\ n + 1 \notin in(n)
        BY <1>1, <2>4
      <4>3. in(n) \subseteq in(n + 1)
        BY <1>1
      <4> QED
        BY <4>1, <4>2, <4>3
    <3> HIDE DEF in
    <3>2. Cardinality(in(n) \cup {n + 1}) = c + 1
      BY <2>1, <3>1, FS_AddElement
    <3>3. (c + 1) * Pairs(k) = c * Pairs(k) + Pairs(k) /\ c * Pairs(k) \in Nat
      BY <2>0, <2>1, <2>3
    <3> HIDE DEF c
    <3> QED
      BY <2>2, <2>4, <3>1, <3>2, <3>3
  <2>5. CASE k # rows[n + 1]
    <3>1. in(n + 1) = in(n)
      <4>1. ASSUME NEW i \in in(n + 1) PROVE i \in in(n)
        <5>1. i # n + 1
          BY <2>5
        <5> QED
          BY <1>1, <5>1
      <4>2. in(n) \subseteq in(n + 1)
        BY <1>1
      <4> QED
        BY <4>1, <4>2
    <3>2. c * Pairs(k) \in Nat
      <4> HIDE DEF c
      <4> QED
        BY <2>0, <2>1, <2>3
    <3> HIDE DEF in
    <3>3. RowsAdded(rows, n + 1, k) = c * Pairs(k)
      BY <2>2, <3>1
    <3> HIDE DEF c
    <3> QED
      BY <2>2, <2>5, <3>2, <3>3
  <2> QED
    BY <2>4, <2>5
<1> QED
  BY <1>3, <1>4

(* Before the first row nothing is added.                                  *)
LEMMA RowsAddedNone ==
  ASSUME VarsOK, NEW rows, NEW k \in EdgeKeys
  PROVE  RowsAdded(rows, 0, k) = 0
<1>1. CASE k \in GraphLaws
  BY <1>1 DEF RowsAdded
<1>2. CASE k \notin GraphLaws
  <2>1. Pairs(k) \in Nat
    BY <1>2, PairsType DEF EdgeKeys
  <2>2. {i \in 1..0 : rows[i] = k} = {}
    OBVIOUS
  <2>3. Occurrences(rows, 0, k) = 0
    BY <2>2, FS_EmptySet DEF Occurrences
  <2>4. 0 * Pairs(k) = 0
    BY <2>1
  <2> QED
    BY <1>2, <2>3, <2>4 DEF RowsAdded
<1> QED
  BY <1>1, <1>2

(* Where a writer is among its rows.                                       *)
LEMMA RowPlace ==
  ASSUME EdgesInv, NEW p \in Writers, wpc[p] \in Range(UpsertSteps)
  PROVE  LET rows == args[p].rows
             left == rowsLeft[p]
             n    == Len(rows) - Len(left)
         IN  /\ rows \in Seq(AllRows) /\ left \in Seq(AllRows) /\ left # <<>> /\ Len(left) \in Nat \ {0}
             /\ n \in 0..(Len(rows) - 1) /\ rows[n + 1] = Head(left) /\ Head(left) \in AllRows
             /\ Head(left) \in RowType /\ args[p].script = "enhanced" /\ RestOf(left, rows)
             /\ fileNo[p] = 1 /\ processed[p] = {}
<1> DEFINE rows == args[p].rows
           left == rowsLeft[p]
<1>1. left # <<>> /\ args[p].script = "enhanced" /\ RestOf(left, rows)
  BY DEF EdgesInv, WriterOK
<1>2. left \in Seq(AllRows) /\ args[p] \in Arguments
  BY DEF EdgesInv, VarsOK
<1>3. rows \in {EnhancedRows, <<TestRow>>}
  BY <1>1, <1>2 DEF Arguments
<1>4. rows \in Seq(AllRows)
  BY <1>3, KeyFacts
<1>5. fileNo[p] = 1 /\ processed[p] = {}
  BY UpsertStepNames DEF EdgesInv, WriterOK
<1> HIDE DEF rows, left
<1>6. Len(left) \in Nat \ {0} /\ Head(left) = left[1] /\ Head(left) \in AllRows /\ 1 \in DOMAIN left
  BY <1>1, <1>2
<1>7. left[1] = rows[Len(rows) - Len(left) + 1] /\ Len(left) <= Len(rows) /\ Len(rows) \in Nat
  BY <1>1, <1>4, <1>6 DEF RestOf
<1>8. Head(left) \in RowType
  BY <1>6, KeyFacts
<1>9. Len(rows) - Len(left) \in 0..(Len(rows) - 1)
  BY <1>6, <1>7
<1>10. rows[Len(rows) - Len(left) + 1] = Head(left)
  BY <1>6, <1>7
<1> QED
  BY <1>1, <1>2, <1>4, <1>5, <1>6, <1>8, <1>9, <1>10 DEF rows, left

(* What RowDone does to the writer.                                        *)
LEMMA RowDoneFacts ==
  ASSUME EdgesInv, NEW p \in Writers, wpc[p] \in Range(UpsertSteps), RowDone(p),
         UNCHANGED <<files, copies, lawKey, fileNo, processed, pending, args, syncs, undisturbed, base>>,
         missing' = [missing EXCEPT ![p] = {}], edges' \in [EdgeKeys -> Nat], unfailed' \in [Writers -> BOOLEAN]
  PROVE  /\ VarsOK' /\ OthersSame(p) /\ Disturbs(p) /\ WriterOK(p)'
         /\ missing'[p] = {}
         /\ IF Len(rowsLeft[p]) > 1 THEN wpc'[p] = "sourceLaw" /\ Len(rowsLeft'[p]) = Len(rowsLeft[p]) - 1
            ELSE wpc'[p] = "done" /\ Len(rowsLeft[p]) = 1
<1> DEFINE left == rowsLeft[p]
           rows == args[p].rows
           next == IF Len(left) > 1 THEN "sourceLaw" ELSE "done"
           rest == Tail(left)
<1>1. rowsLeft' = [rowsLeft EXCEPT ![p] = rest] /\ wpc' = [wpc EXCEPT ![p] = next]
  BY DEF RowDone, Goto
<1>2. /\ rows \in Seq(AllRows) /\ left \in Seq(AllRows) /\ left # <<>> /\ Len(left) \in Nat \ {0}
      /\ args[p].script = "enhanced" /\ RestOf(left, rows) /\ fileNo[p] = 1 /\ processed[p] = {}
  BY RowPlace
<1> HIDE DEF left, rows
<1>3. rest \in Seq(AllRows) /\ Len(rest) = Len(left) - 1 /\ \A i \in 1..Len(rest) : rest[i] = left[i + 1]
  BY <1>2, HeadTailProperties
<1> HIDE DEF rest
<1>4. next \in Steps /\ next \in {"sourceLaw", "done"}
  BY UpsertStepNames DEF Steps
<1>5. VarsOK'
  <2> HIDE DEF next
  <2>1. rowsLeft' \in [Writers -> Seq(AllRows)] /\ wpc' \in [Writers -> Steps]
    BY <1>1, <1>3, <1>4 DEF EdgesInv, VarsOK
  <2> QED
    BY <2>1 DEF EdgesInv, VarsOK, LawsUnique
<1>6. OthersSame(p) /\ Disturbs(p)
  <2>1. p \in Working
    BY UpsertStepNames DEF Working
  <2> HIDE DEF next
  <2> QED
    BY <1>1, <2>1 DEF EdgesInv, VarsOK, OthersSame, Disturbs
<1>7. wpc'[p] = next /\ rowsLeft'[p] = rest /\ missing'[p] = {}
  BY <1>1 DEF EdgesInv, VarsOK
<1>8. RestOf(rest, rows)
  <2>1. Len(rest) <= Len(rows)
    BY <1>2, <1>3 DEF RestOf
  <2>2. ASSUME NEW i \in DOMAIN rest PROVE rest[i] = rows[Len(rows) - Len(rest) + i]
    <3>1. i \in 1..Len(rest) /\ i + 1 \in DOMAIN left
      BY <1>2, <1>3
    <3>2. rest[i] = left[i + 1] /\ left[i + 1] = rows[Len(rows) - Len(left) + (i + 1)]
      BY <1>2, <1>3, <3>1 DEF RestOf
    <3>3. Len(rows) - Len(left) + (i + 1) = Len(rows) - Len(rest) + i
      BY <1>2, <1>3, <3>1
    <3> QED
      BY <3>2, <3>3
  <2> QED
    BY <2>1, <2>2 DEF RestOf
<1>9. next = "sourceLaw" => rest # <<>>
  <2>0. Len(left) \in Nat \ {0} /\ Len(rest) = Len(left) - 1
    BY <1>2, <1>3
  <2>1. next = "sourceLaw" => Len(rest) # 0
    BY <2>0
  <2>2. Len(<<>>) = 0
    OBVIOUS
  <2> QED
    BY <2>1, <2>2
<1>10. args'[p].script = "enhanced" /\ args'[p].rows = rows /\ fileNo'[p] = 1 /\ processed'[p] = {}
  BY <1>2 DEF rows
<1>11. WriterOK(p)'
  <2>1. CASE next = "sourceLaw"
    <3>1. NodesMade("sourceLaw", Head(rest))'
      BY DEF NodesMade
    <3>2. NodesMade(wpc[p], Head(rowsLeft[p]))'
      BY <1>7, <2>1, <3>1 DEF NodesMade
    <3> QED
      BY <1>7, <1>8, <1>9, <1>10, <2>1, <3>2, UpsertStepNames DEF WriterOK, ManagerSteps, LawsMade, MergeOK
  <2>2. CASE next = "done"
    BY <1>7, <1>10, <2>2, UpsertStepNames DEF WriterOK, ManagerSteps, LawsMade, MergeOK
  <2> QED
    BY <1>4, <2>1, <2>2
<1>12. IF Len(left) > 1 THEN next = "sourceLaw" /\ Len(rest) = Len(left) - 1 ELSE next = "done" /\ Len(left) = 1
  <2>1. Len(left) \in Nat \ {0} /\ Len(rest) = Len(left) - 1
    BY <1>2, <1>3
  <2> QED
    BY <2>1
<1> HIDE DEF next
<1> QED
  BY <1>5, <1>6, <1>7, <1>11, <1>12 DEF left

(* A row that is done has its edges.                                       *)
LEMMA RowDoneExact ==
  ASSUME EdgesInv, NEW p \in Writers, wpc[p] \in Range(UpsertSteps), Alone(p),
         UNCHANGED args, UNCHANGED base, UNCHANGED copies, missing'[p] = {},
         IF Len(rowsLeft[p]) > 1 THEN wpc'[p] = "sourceLaw" /\ Len(rowsLeft'[p]) = Len(rowsLeft[p]) - 1
         ELSE wpc'[p] = "done" /\ Len(rowsLeft[p]) = 1,
         \A k \in EdgeKeys : edges'[k] = edges[k] + IF k = Head(rowsLeft[p]) THEN Pairs(k) ELSE 0,
         FinalEnds(Head(rowsLeft[p]))
  PROVE  AloneInv(p)'
<1> DEFINE rows == args[p].rows
           left == rowsLeft[p]
           n    == Len(rows) - Len(left)
<1>1. /\ rows \in Seq(AllRows) /\ Len(left) \in Nat \ {0} /\ Head(left) \in AllRows
      /\ n \in 0..(Len(rows) - 1) /\ rows[n + 1] = Head(left) /\ args[p].script = "enhanced"
  BY RowPlace
<1>2. ASSUME NEW k \in EdgeKeys PROVE edges'[k] = base[p][k] + RowsAdded(rows, n + 1, k)
  <2>1. edges[k] = base[p][k] + RowsAdded(rows, n, k) /\ base[p][k] \in Nat
    BY DEF EdgesInv, AloneInv, ExactSoFar, VarsOK, RowNo
  <2>3. edges'[k] = edges[k] + IF k = Head(left) THEN Pairs(k) ELSE 0
    OBVIOUS
  <2>6. Head(left) \in AllRows => Pairs(Head(left)) \in Nat
    BY PairsType DEF EdgesInv
  <2> HIDE DEF n, rows, left
  <2>2. RowsAdded(rows, n, k) \in Nat
        /\ RowsAdded(rows, n + 1, k) = RowsAdded(rows, n, k) + IF k = rows[n + 1] THEN Pairs(k) ELSE 0
    BY <1>1, RowsAddedNext DEF EdgesInv
  <2> DEFINE d == IF k = Head(left) THEN Pairs(k) ELSE 0
  <2>4. d \in Nat /\ edges'[k] = edges[k] + d
    BY <1>1, <2>3, <2>6
  <2>5. RowsAdded(rows, n + 1, k) = RowsAdded(rows, n, k) + d
    BY <1>1, <2>2
  <2> HIDE DEF d
  <2> QED
    BY <2>1, <2>2, <2>4, <2>5
<1>3. MetSoFar(p)'
  BY DEF MetSoFar
<1>4. \A k : Pairs(k)' = Pairs(k)
  BY DEF Pairs
<1>5. CASE Len(left) > 1
  <2>1. Len(rows) - (Len(left) - 1) = n + 1
    BY <1>1
  <2>2. RowNo(p)' = n + 1 /\ RowNo(p) = n
    <3> HIDE DEF n
    <3>1. RowNo(p)' = Len(rows) - (Len(left) - 1)
      BY <1>5 DEF RowNo
    <3> QED
      BY <2>1, <3>1 DEF RowNo, n
  <2> HIDE DEF n
  <2>3. ASSUME NEW k \in EdgeKeys PROVE edges'[k] = base'[p][k] + RowsAdded(args[p].rows, RowNo(p), k)'
    <3>1. RowsAdded(args[p].rows, RowNo(p), k)' = RowsAdded(rows, n + 1, k)
      BY <1>4, <2>2 DEF RowsAdded, Occurrences
    <3> QED
      BY <1>2, <3>1
  <2>4. ExactSoFar(p)'
    BY <1>5, <2>3 DEF ExactSoFar
  <2>5. ASSUME NEW i \in 1..(n + 1) PROVE FinalEnds(rows[i])
    <3>1. i \in 1..n \/ i = n + 1
      BY <1>1
    <3>2. i \in 1..n => FinalEnds(rows[i])
      BY <2>2 DEF EdgesInv, AloneInv, NodesSoFar
    <3> QED
      BY <1>1, <3>1, <3>2
  <2>6. NodesSoFar(p)'
    <3>1. \A i : FinalEnds(args[p].rows[i])' <=> FinalEnds(rows[i])
      BY DEF FinalEnds, Final
    <3> QED
      BY <2>2, <2>5, <3>1 DEF NodesSoFar
  <2> QED
    BY <1>3, <2>4, <2>6 DEF AloneInv
<1>6. CASE ~(Len(left) > 1)
  <2>1. n + 1 = Len(rows) /\ Len(rows) \in Nat
    <3>1. Len(left) = 1 /\ Len(rows) \in Nat
      BY <1>1, <1>6
    <3> QED
      BY <3>1
  <2>2. ASSUME NEW k \in EdgeKeys PROVE edges'[k] = base'[p][k] + Expected(p)'[k]
    <3>1. Expected(p)'[k] = RowsAdded(rows, Len(rows), k)
      <4>1. DOMAIN rows = 1..Len(rows)
        BY <1>1
      <4>2. args'[p] = args[p] /\ args[p].script # "manager"
        BY <1>1
      <4> QED
        BY <1>4, <4>1, <4>2 DEF Expected, RowsAdded, Occurrences
    <3> HIDE DEF n
    <3> QED
      BY <1>2, <2>1, <3>1
  <2>3. "done" \notin Range(UpsertSteps)
    BY UpsertStepNames
  <2>4. ExactSoFar(p)'
    BY <1>6, <2>2, <2>3 DEF ExactSoFar
  <2>5. NodesSoFar(p)'
    BY <1>6, <2>3 DEF NodesSoFar
  <2> QED
    BY <1>3, <2>4, <2>5 DEF AloneInv
<1> QED
  BY <1>5, <1>6

(* The rows are all still to be done.                                      *)
LEMMA StartEnhancedStep ==
  ASSUME EdgesInv, NEW p \in Writers, NEW rows \in {EnhancedRows, <<TestRow>>}, StartEnhancedSync(p, rows)
  PROVE  EdgesInv'
<1> DEFINE a == [script |-> "enhanced", options |-> {}, rows |-> rows]
<1>0. "schema" \in Steps /\ a \in Arguments /\ rows \in Seq(AllRows)
  BY KeyFacts DEF Steps, Arguments
<1>1. /\ wpc' = [wpc EXCEPT ![p] = "schema"] /\ args' = [args EXCEPT ![p] = a]
      /\ base' = [base EXCEPT ![p] = edges] /\ rowsLeft' = [rowsLeft EXCEPT ![p] = rows]
      /\ syncs' = syncs + 1 /\ syncs < MaxSyncs
      /\ undisturbed' = [q \in Writers |-> q = p /\ Working = {}]
      /\ unfailed' = [unfailed EXCEPT ![p] = TRUE]
      /\ p \notin Working
      /\ UNCHANGED <<files, copies, lawKey, edges, fileNo, processed, pending, missing>>
  BY DEF StartEnhancedSync, Started, Goto, neoVars
<1>2. a.script = "enhanced" /\ a.rows = rows
  OBVIOUS
<1> HIDE DEF a
<1>3. VarsOK'
  <2>1. syncs' \in 0..MaxSyncs
    BY <1>1, EdgesAssumption DEF EdgesInv, VarsOK
  <2> QED
    BY <1>0, <1>1, <2>1 DEF EdgesInv, VarsOK, LawsUnique
<1>4. OthersSame(p) /\ Disturbs(p)
  BY <1>1 DEF EdgesInv, VarsOK, OthersSame, Disturbs
<1>5. wpc'[p] = "schema" /\ args'[p] = a /\ base'[p] = edges /\ fileNo'[p] = 1 /\ processed'[p] = {}
      /\ edges' = edges /\ rowsLeft'[p] = rows /\ missing'[p] = {}
  <2>1. wpc[p] \in {"idle", "done"}
    BY <1>1 DEF Working
  <2>2. fileNo[p] = 1 /\ processed[p] = {}
    BY <2>1 DEF EdgesInv, WriterOK
  <2>3. missing[p] = {}
    BY <1>1, NoneMissing
  <2> QED
    BY <1>1, <2>2, <2>3 DEF EdgesInv, VarsOK
<1>6. WriterOK(p)'
  BY <1>2, <1>5, UpsertStepNames DEF WriterOK, ManagerSteps, LawsMade, MergeOK
<1>7. AloneInv(p)'
  <2>1. "schema" \notin Range(UpsertSteps)
    BY UpsertStepNames
  <2> QED
    BY <1>5, <2>1 DEF AloneInv, ExactSoFar, MetSoFar, NodesSoFar
<1> QED
  BY <1>3, <1>4, <1>6, <1>7, OwnStep

(* The constraint holds when it is created.                                *)
LEMMA SetupSchemaStep ==
  ASSUME EdgesInv, NEW p \in Writers, setupSchema(p)
  PROVE  EdgesInv'
<1> DEFINE rows == rowsLeft[p]
           step == IF rows = <<>> THEN "done" ELSE "sourceLaw"
<1>0. VarsOK /\ WriterOK(p)
  BY DEF EdgesInv
<1>1. /\ wpc[p] = "schema" /\ p \in Working /\ wpc' = [wpc EXCEPT ![p] = step]
      /\ lawKey' \in {lawKey, IF lawKey = "none" /\ LawsUnique THEN "unique" ELSE lawKey}
      /\ UNCHANGED <<files, copies, edges, rowsLeft, fileNo, processed, pending, missing, args, syncs,
                     undisturbed, unfailed, base>>
  BY DEF setupSchema, Goto, Working, historyVars
<1>2. step \in Steps /\ step \in {"done", "sourceLaw"} /\ (step = "done" <=> rows = <<>>)
  BY UpsertStepNames DEF Steps
<1>3. /\ rows \in Seq(AllRows) /\ args[p].rows = rows /\ args[p].script = "enhanced"
      /\ fileNo[p] = 1 /\ processed[p] = {}
  BY <1>0, <1>1 DEF VarsOK, WriterOK
<1>4. missing[p] = {}
  BY <1>1, NoneMissing, UpsertStepNames DEF MergeSteps
<1> HIDE DEF step
<1>5. VarsOK'
  <2>1. lawKey' \in {"none", "index", "unique"} /\ (lawKey' = "unique" => LawsUnique)
    BY <1>0, <1>1 DEF VarsOK
  <2> QED
    BY <1>0, <1>1, <1>2, <2>1 DEF VarsOK, LawsUnique
<1>6. OthersSame(p) /\ Disturbs(p)
  BY <1>0, <1>1 DEF VarsOK, OthersSame, Disturbs
<1>7. wpc'[p] = step /\ missing'[p] = {} /\ rowsLeft'[p] = rows /\ args'[p] = args[p]
      /\ fileNo'[p] = 1 /\ processed'[p] = {} /\ base' = base /\ edges' = edges
  BY <1>0, <1>1, <1>3, <1>4 DEF VarsOK
<1>8. Len(rows) \in Nat /\ RestOf(rows, rows)
  <2>1. Len(rows) \in Nat /\ DOMAIN rows = 1..Len(rows)
    BY <1>3
  <2>2. \A i \in 1..Len(rows) : Len(rows) - Len(rows) + i = i
    BY <2>1
  <2> QED
    BY <2>1, <2>2 DEF RestOf
<1> HIDE DEF rows
<1>9. WriterOK(p)'
  <2>1. step = "sourceLaw" => NodesMade(wpc[p], Head(rowsLeft[p]))'
    BY <1>7 DEF NodesMade
  <2> QED
    BY <1>2, <1>3, <1>7, <1>8, <2>1, UpsertStepNames DEF WriterOK, ManagerSteps, LawsMade, MergeOK
<1>10. ASSUME Alone(p)' PROVE AloneInv(p)'
  <2>1. ASSUME NEW k \in EdgeKeys PROVE base[p][k] = edges[k] /\ edges[k] \in Nat
    BY <1>0, <1>1, <1>10 DEF Alone, EdgesInv, AloneInv, ExactSoFar, VarsOK
  <2>2. RowNo(p)' = 0
    <3>1. Len(rows) - Len(rows) = 0
      BY <1>8
    <3> QED
      BY <1>3, <1>7, <3>1 DEF RowNo
  <2>3. ASSUME NEW k \in EdgeKeys PROVE RowsAdded(args[p].rows, RowNo(p), k)' = 0
    <3>1. RowsAdded(rows, 0, k) = 0
      BY <1>0, RowsAddedNone
    <3>2. RowsAdded(args[p].rows, RowNo(p), k)' = RowsAdded(rows, 0, k)
      BY <1>1, <1>3, <2>2 DEF RowsAdded, Occurrences, Pairs
    <3> QED
      BY <3>1, <3>2
  <2>4. ASSUME NEW k \in EdgeKeys, rows = <<>> PROVE Expected(p)'[k] = 0
    <3>1. {i \in DOMAIN <<>> : <<>>[i] = k} = {} /\ Cardinality({}) = 0
      BY FS_EmptySet
    <3>2. k \notin GraphLaws => 0 * Pairs(k) = 0
      <4>1. k \notin GraphLaws => Pairs(k) \in Nat
        BY <1>0, PairsType DEF EdgeKeys
      <4> QED
        BY <4>1
    <3>3. Pairs(k)' = Pairs(k)
      BY <1>1 DEF Pairs
    <3>4. args'[p].script # "manager" /\ args'[p].rows = <<>>
      BY <1>3, <1>7, <2>4
    <3> QED
      BY <3>1, <3>2, <3>3, <3>4 DEF Expected
  <2>5. "done" \notin Range(UpsertSteps)
    BY UpsertStepNames
  <2>6. ExactSoFar(p)'
    <3>1. ASSUME NEW k \in EdgeKeys PROVE edges'[k] = base'[p][k] + 0
      BY <1>7, <2>1
    <3>2. CASE step = "done"
      BY <1>2, <1>7, <2>4, <2>5, <3>1, <3>2 DEF ExactSoFar
    <3>3. CASE step = "sourceLaw"
      BY <1>7, <2>3, <3>1, <3>3 DEF ExactSoFar
    <3> QED
      BY <1>2, <3>2, <3>3
  <2>7. MetSoFar(p)' /\ NodesSoFar(p)'
    BY <1>2, <1>7, <2>2 DEF MetSoFar, NodesSoFar
  <2> QED
    BY <2>6, <2>7 DEF AloneInv
<1> QED
  BY <1>5, <1>6, <1>9, <1>10, OwnStep

(* A MERGE of a writer that is alone leaves what is final.                 *)
LEMMA FinalKept ==
  ASSUME EdgesInv, NEW p \in Writers, Merging(p), Merged(p), wpc[p] # "laws", Alone(p),
         NEW k \in NodeKeys, Final(k)
  PROVE  copies'[k] = copies[k]
<1> DEFINE r == Head(rowsLeft[p])
<1>1. copies[k] > 0 \/ k \notin Sought(p) => copies'[k] = copies[k]
  BY MergedFacts
<1>2. CASE copies[k] > 0
  BY <1>1, <1>2
<1>3. CASE k[1] = "Article" /\ numericFormat[k[3]] # k[3]
  <2>1. wpc[p] \in Range(UpsertSteps) /\ wpc[p] # "create" /\ Sought(p) = {NodeOf(wpc[p], r)}
    BY DEF Merging, MergeSteps, Sought
  <2>2. r \in RowType /\ NodesMade(wpc[p], r)
    BY <2>1, RowPlace DEF EdgesInv, WriterOK
  <2>3. wpc[p] = "targetLaw" => r.tlaw # NoTarget
    BY DEF Merging
  <2> HIDE DEF r
  <2>4. /\ r.slaw \in GraphLaws /\ r.tlaw \in GraphLaws \cup {NoTarget} /\ r.sart \in ArticleNumbers
        /\ r.tart \in ArticleNumbers
    BY <2>2 DEF RowType
  <2>5. wpc[p] # "sourceLaw" => r.tlaw \in GraphLaws
    BY <2>2, <2>3, <2>4 DEF NodesMade
  <2>6. /\ numericFormat[r.sart] \in ArticleNumbers /\ numericFormat[r.tart] \in ArticleNumbers
        /\ numericFormat[numericFormat[r.sart]] = numericFormat[r.sart]
        /\ numericFormat[numericFormat[r.tart]] = numericFormat[r.tart]
    BY <2>4, EdgesAssumption
  <2>7. NodeOf(wpc[p], r)[1] = "Article" =>
          numericFormat[NodeOf(wpc[p], r)[3]] = NodeOf(wpc[p], r)[3]
    BY <2>1, <2>4, <2>5, <2>6, NodeFacts, UpsertStepNames DEF NodeOf
  <2>8. k \notin Sought(p)
    BY <1>3, <2>1, <2>7
  <2> QED
    BY <1>1, <2>8
<1> QED
  BY <1>2, <1>3 DEF Final

(* Each statement makes the node that the next ones rely on.               *)
LEMMA UpsertStep ==
  ASSUME EdgesInv, NEW p \in Writers, Upsert(p)
  PROVE  EdgesInv'
<1> DEFINE r == Head(rowsLeft[p])
           step == wpc[p]
           next == StepAfter(step, r)
<1>0. VarsOK /\ WriterOK(p)
  BY DEF EdgesInv
<1>1. /\ Merging(p) /\ Merged(p) /\ step # "laws"
      /\ wpc' = [wpc EXCEPT ![p] = next]
      /\ UNCHANGED <<files, lawKey, edges, rowsLeft, fileNo, processed, pending, args, syncs,
                     undisturbed, unfailed, base>>
  BY DEF Upsert, Goto, historyVars
<1>2. step \in Range(UpsertSteps) \ {"create"} /\ (step = "targetLaw" => r.tlaw # NoTarget)
  BY <1>1 DEF Merging, MergeSteps
<1>3. /\ r \in RowType /\ rowsLeft[p] # <<>> /\ args[p].script = "enhanced"
      /\ RestOf(rowsLeft[p], args[p].rows) /\ fileNo[p] = 1 /\ processed[p] = {}
      /\ args[p].rows \in Seq(AllRows) /\ RowNo(p) \in 0..(Len(args[p].rows) - 1)
  BY <1>2, RowPlace DEF RowNo
<1>4. /\ r.slaw \in GraphLaws /\ r.tlaw \in GraphLaws \cup {NoTarget} /\ r.sart \in ArticleNumbers
      /\ r.tart \in ArticleNumbers /\ r.paragraphs \in BOOLEAN
      /\ numericFormat[r.sart] \in ArticleNumbers /\ numericFormat[r.tart] \in ArticleNumbers
  BY <1>3, EdgesAssumption DEF RowType
<1>5. NodesMade(step, r)
  BY <1>0, <1>2 DEF WriterOK
<1>6. /\ step = "sourceLaw" => next = "targetLaw"
      /\ step = "targetLaw" => next = "sourceArticle"
      /\ step = "sourceArticle" => next = "targetArticle"
      /\ step = "targetArticle" => next = IF r.paragraphs THEN "sourceParagraph" ELSE "create"
      /\ step = "sourceParagraph" => next = "targetParagraph"
      /\ step = "targetParagraph" => next = "create"
      /\ step \in {"sourceLaw", "targetLaw", "sourceArticle", "targetArticle", "sourceParagraph", "targetParagraph"}
  BY <1>2, <1>3, UpsertStepNames
<1> HIDE DEF next
<1>7. next \in Range(UpsertSteps) /\ next \in Steps
  BY <1>6, UpsertStepNames DEF Steps
<1>8. wpc'[p] = next
  BY <1>0, <1>1 DEF VarsOK
<1>9. /\ copies' \in [NodeKeys -> Nat] /\ missing' \in [Writers -> SUBSET NodeKeys]
      /\ missing'[p] = {} /\ \A q \in Writers \ {p} : missing'[q] = missing[q]
      /\ \A k \in NodeKeys : copies'[k] >= copies[k]
      /\ copies'[NodeOf(step, r)] > 0
      /\ lawKey = "unique" => LawsUnique'
  <2>1. NodeOf(step, r) \in Sought(p)
    BY <1>1 DEF Sought
  <2> QED
    BY <1>1, <2>1, MergedFacts
<1>10. VarsOK'
  <2>1. wpc' \in [Writers -> Steps]
    BY <1>0, <1>1, <1>7 DEF VarsOK
  <2> QED
    BY <1>0, <1>1, <1>9, <2>1 DEF VarsOK
<1>11. OthersSame(p) /\ Disturbs(p)
  <2>1. p \in Working
    BY <1>6 DEF Working
  <2> HIDE DEF r, step
  <2> QED
    BY <1>0, <1>1, <1>9, <2>1 DEF VarsOK, OthersSame, Disturbs
<1>12. NodesMade(wpc[p], Head(rowsLeft[p]))'
  <2>1. rowsLeft'[p] = rowsLeft[p]
    BY <1>1
  <2> HIDE DEF r, step
  <2>2. \A k \in NodeKeys : copies[k] > 0 => copies'[k] > 0
    BY <1>0, <1>9 DEF VarsOK
  <2>3. /\ ArticleNode(r.slaw, numericFormat[r.sart]) \in NodeKeys
        /\ ParagraphNode(r.slaw, r.sart) \in NodeKeys
        /\ r.tlaw \in GraphLaws => /\ ArticleNode(r.tlaw, numericFormat[r.tart]) \in NodeKeys
                                   /\ ParagraphNode(r.tlaw, r.tart) \in NodeKeys
    BY <1>4, NodeFacts
  <2>4. /\ step = "sourceArticle" => NodeOf(step, r) = ArticleNode(r.slaw, numericFormat[r.sart])
        /\ step = "targetArticle" => NodeOf(step, r) = ArticleNode(r.tlaw, numericFormat[r.tart])
        /\ step = "sourceParagraph" => NodeOf(step, r) = ParagraphNode(r.slaw, r.sart)
        /\ step = "targetParagraph" => NodeOf(step, r) = ParagraphNode(r.tlaw, r.tart)
    BY DEF NodeOf
  <2>5. next \notin {"sourceLaw", "targetLaw"} => r.tlaw \in GraphLaws /\ r.tlaw # NoTarget
    BY <1>2, <1>4, <1>5, <1>6 DEF NodesMade
  <2>6. /\ next \in {"targetArticle", "sourceParagraph", "targetParagraph", "create"} =>
             copies'[ArticleNode(r.slaw, numericFormat[r.sart])] > 0
        /\ next \in {"sourceParagraph", "targetParagraph", "create"} =>
             copies'[ArticleNode(r.tlaw, numericFormat[r.tart])] > 0
    BY <1>5, <1>6, <1>9, <2>2, <2>3, <2>4, <2>5 DEF NodesMade
  <2>7. /\ next \in {"sourceParagraph", "targetParagraph"} => r.paragraphs
        /\ next = "targetParagraph" \/ (next = "create" /\ r.paragraphs) =>
             copies'[ParagraphNode(r.slaw, r.sart)] > 0
        /\ next = "create" /\ r.paragraphs => copies'[ParagraphNode(r.tlaw, r.tart)] > 0
    BY <1>5, <1>6, <1>9, <2>2, <2>3, <2>4, <2>5 DEF NodesMade
  <2> QED
    BY <1>8, <2>1, <2>5, <2>6, <2>7 DEF NodesMade, r, ArticleNode, ParagraphNode
<1>13. WriterOK(p)'
  <2>1. LawsMade(p)' /\ MergeOK(p)'
    BY <1>7, <1>8, <1>9, UpsertStepNames DEF LawsMade, MergeOK
  <2> QED
    BY <1>1, <1>3, <1>7, <1>8, <1>12, <2>1, UpsertStepNames DEF WriterOK, ManagerSteps
<1>14. ASSUME Alone(p)' PROVE AloneInv(p)'
  <2> DEFINE rows == args[p].rows
             n == RowNo(p)
  <2>1. Alone(p) /\ ExactSoFar(p) /\ NodesSoFar(p)
    BY <1>1, <1>14 DEF EdgesInv, Alone, AloneInv
  <2>2. next \notin {"fix", "clean", "laws", "file", "batch", "done", "schema"}
    BY <1>7, UpsertStepNames
  <2>3. RowNo(p)' = n /\ args' = args
    BY <1>1 DEF RowNo
  <2>4. ASSUME NEW k \in AllRows, FinalEnds(k) PROVE Pairs(k)' = Pairs(k) /\ FinalEnds(k)'
    <3>1. CASE k.tlaw = NoTarget
      BY <3>1 DEF Pairs, FinalEnds
    <3>2. CASE k.tlaw # NoTarget
      <4>1. /\ Source(k) \in NodeKeys /\ Target(k) \in NodeKeys /\ Final(Source(k)) /\ Final(Target(k))
        BY <2>4, <3>2, EndNodes DEF FinalEnds
      <4>2. copies'[Source(k)] = copies[Source(k)] /\ copies'[Target(k)] = copies[Target(k)]
        BY <1>1, <2>1, <4>1, FinalKept
      <4> QED
        BY <3>2, <4>1, <4>2 DEF Pairs, FinalEnds, Final, Source, Target
    <3> QED
      BY <3>1, <3>2
  <2>10. \A i \in 1..n : rows[i] \in AllRows /\ FinalEnds(rows[i])
    BY <1>2, <1>3, <2>1 DEF NodesSoFar
  <2>5. ASSUME NEW k \in EdgeKeys PROVE RowsAdded(rows, n, k)' = RowsAdded(rows, n, k)
    <3>1. CASE k \in GraphLaws
      BY <3>1 DEF RowsAdded
    <3>2. CASE k \notin GraphLaws /\ \E i \in 1..n : rows[i] = k
      <4>1. PICK i \in 1..n : rows[i] = k
        BY <3>2
      <4>2. Pairs(k)' = Pairs(k)
        <5>1. k \in AllRows /\ FinalEnds(k)
          BY <2>10, <4>1
        <5> QED
          BY <2>4, <5>1
      <4> QED
        BY <2>3, <4>2 DEF RowsAdded, Occurrences
    <3>3. CASE k \notin GraphLaws /\ ~ \E i \in 1..n : rows[i] = k
      <4>1. {i \in 1..n : rows[i] = k} = {}
        BY <3>3
      <4>2. Occurrences(rows, n, k) = 0
        BY <4>1, FS_EmptySet DEF Occurrences
      <4>3. Occurrences(rows, n, k)' = 0
        BY <2>3, <4>2 DEF Occurrences
      <4>4. Pairs(k) \in Nat /\ Pairs(k)' \in Nat
        <5>1. k \in AllRows
          BY <3>3 DEF EdgeKeys
        <5>2. k.tlaw # NoTarget => copies'[Source(k)] \in Nat /\ copies'[Target(k)] \in Nat
          BY <1>9, <5>1, EndNodes
        <5>3. \A a, b \in Nat : a * b \in Nat
          OBVIOUS
        <5>4. Pairs(k)' \in Nat
          BY <5>2, <5>3 DEF Pairs, Source, Target
        <5> QED
          BY <1>0, <5>1, <5>4, PairsType
      <4>5. 0 * Pairs(k) = 0 /\ 0 * Pairs(k)' = 0
        BY <4>4
      <4> QED
        BY <3>3, <4>2, <4>3, <4>5 DEF RowsAdded
    <3> QED
      BY <3>1, <3>2, <3>3
  <2>6. ASSUME NEW k \in EdgeKeys PROVE edges'[k] = base'[p][k] + RowsAdded(args[p].rows, RowNo(p), k)'
    BY <1>1, <1>2, <2>1, <2>5 DEF ExactSoFar
  <2>7. ExactSoFar(p)'
    BY <1>8, <2>2, <2>6 DEF ExactSoFar
  <2>8. MetSoFar(p)'
    BY <1>8, <2>2 DEF MetSoFar
  <2>9. NodesSoFar(p)'
    <3>1. ASSUME NEW i \in 1..n PROVE FinalEnds(args[p].rows[i])'
      <4>1. PICK k \in AllRows : k = rows[i] /\ FinalEnds(k)
        BY <2>10
      <4>2. FinalEnds(k)' /\ args'[p].rows[i] = k
        BY <2>3, <2>4, <4>1
      <4> QED
        BY <4>2 DEF FinalEnds, Final
    <3> QED
      BY <1>9, <2>3, <3>1 DEF NodesSoFar
  <2> QED
    BY <2>7, <2>8, <2>9 DEF AloneInv
<1> QED
  BY <1>10, <1>11, <1>13, <1>14, OwnStep

(* The edges of a row, whose ends no later MERGE will change.              *)
LEMMA CreateEnhancedStep ==
  ASSUME EdgesInv, NEW p \in Writers, CreateEnhanced(p)
  PROVE  EdgesInv'
<1> DEFINE r == Head(rowsLeft[p])
<1>1. /\ wpc[p] = "create" /\ RowDone(p)
      /\ edges' = [edges EXCEPT ![r] = @ + Pairs(r)]
      /\ UNCHANGED <<files, copies, lawKey, fileNo, processed, pending, missing, args, syncs,
                     undisturbed, unfailed, base>>
  BY DEF CreateEnhanced, historyVars
<1>2. wpc[p] \in Range(UpsertSteps)
  BY <1>1, UpsertStepNames
<1>3. r \in RowType /\ r \in AllRows
  BY <1>2, RowPlace
<1>4. NodesMade("create", r)
  BY <1>1, <1>2 DEF EdgesInv, WriterOK
<1>5. missing' = [missing EXCEPT ![p] = {}] /\ VarsOK
  <2>1. missing[p] = {} /\ missing \in [Writers -> SUBSET NodeKeys] /\ VarsOK
    BY <1>1, NoneMissing DEF MergeSteps, EdgesInv, VarsOK
  <2> QED
    BY <1>1, <2>1
<1> HIDE DEF r
<1>6. FinalEnds(r)
  <2>1. /\ r.slaw \in GraphLaws /\ r.tlaw \in GraphLaws /\ r.sart \in ArticleNumbers /\ r.tart \in ArticleNumbers
    BY <1>3, <1>4 DEF RowType, NodesMade
  <2>2. CASE r.paragraphs
    BY <1>4, <2>2 DEF NodesMade, FinalEnds, Final, Source, Target
  <2>3. CASE ~r.paragraphs
    <3>1. /\ copies[ArticleNode(r.slaw, numericFormat[r.sart])] > 0
          /\ copies[ArticleNode(r.tlaw, numericFormat[r.tart])] > 0
      BY <1>4 DEF NodesMade
    <3>2. Source(r) = ArticleNode(r.slaw, r.sart) /\ Target(r) = ArticleNode(r.tlaw, r.tart)
      BY <2>3 DEF Source, Target
    <3>3. /\ Source(r)[1] = "Article" /\ Source(r)[3] = r.sart
          /\ Target(r)[1] = "Article" /\ Target(r)[3] = r.tart
      BY <2>1, <3>2, NodeFacts
    <3>4. Final(Source(r))
      BY <3>1, <3>2, <3>3 DEF Final
    <3>5. Final(Target(r))
      BY <3>1, <3>2, <3>3 DEF Final
    <3> QED
      BY <3>4, <3>5 DEF FinalEnds
  <2> QED
    BY <2>2, <2>3
<1>7. edges \in [EdgeKeys -> Nat] /\ r \in EdgeKeys /\ unfailed' \in [Writers -> BOOLEAN] /\ Pairs(r) \in Nat
  BY <1>1, <1>3, <1>5, PairsType DEF VarsOK, EdgeKeys
<1>8. edges' \in [EdgeKeys -> Nat]
      /\ \A k \in EdgeKeys : edges'[k] = edges[k] + IF k = r THEN Pairs(k) ELSE 0
  BY <1>1, <1>7
<1>9. /\ VarsOK' /\ OthersSame(p) /\ Disturbs(p) /\ WriterOK(p)' /\ missing'[p] = {}
      /\ IF Len(rowsLeft[p]) > 1 THEN wpc'[p] = "sourceLaw" /\ Len(rowsLeft'[p]) = Len(rowsLeft[p]) - 1
         ELSE wpc'[p] = "done" /\ Len(rowsLeft[p]) = 1
  BY <1>1, <1>2, <1>5, <1>7, <1>8, RowDoneFacts
<1>10. ASSUME Alone(p)' PROVE AloneInv(p)'
  <2>1. Alone(p)
    BY <1>1, <1>10 DEF Alone
  <2> QED
    BY <1>1, <1>2, <1>6, <1>8, <1>9, <2>1, RowDoneExact DEF r
<1> QED
  BY <1>9, <1>10, OwnStep

(* A row is skipped for an error: without a target it gets no edge.        *)
LEMMA EnhancedFailsStep ==
  ASSUME EdgesInv, NEW p \in Writers, EnhancedFails(p)
  PROVE  EdgesInv'
<1> DEFINE r == Head(rowsLeft[p])
           skipped == wpc[p] = "targetLaw" /\ r.tlaw = NoTarget
<1>1. /\ wpc[p] \in Range(UpsertSteps)
      /\ IF r.paragraphs /\ wpc[p] # "create"
           THEN wpc' = [wpc EXCEPT ![p] = "idle"] /\ rowsLeft' = [rowsLeft EXCEPT ![p] = <<>>]
           ELSE RowDone(p)
      /\ unfailed' = [unfailed EXCEPT ![p] = skipped /\ unfailed[p]]
      /\ missing' = [missing EXCEPT ![p] = {}]
      /\ UNCHANGED <<files, copies, lawKey, edges, fileNo, processed, pending, args, syncs,
                     undisturbed, base>>
  BY DEF EnhancedFails, Goto, neoVars, EdgesInv, VarsOK
<1>2. VarsOK /\ edges \in [EdgeKeys -> Nat] /\ unfailed \in [Writers -> BOOLEAN]
  BY DEF EdgesInv, VarsOK
<1>3. unfailed' \in [Writers -> BOOLEAN] /\ (unfailed'[p] => skipped /\ unfailed[p])
  <2>1. (skipped /\ unfailed[p]) \in BOOLEAN
    OBVIOUS
  <2> HIDE DEF skipped
  <2> QED
    BY <1>1, <1>2, <2>1
<1>4. CASE r.paragraphs /\ wpc[p] # "create"
  <2>1. wpc' = [wpc EXCEPT ![p] = "idle"] /\ rowsLeft' = [rowsLeft EXCEPT ![p] = <<>>]
    BY <1>1, <1>4
  <2> HIDE DEF r, skipped
  <2>2. VarsOK'
    BY <1>1, <1>2, <1>3, <2>1 DEF VarsOK, Steps, LawsUnique
  <2>3. OthersSame(p) /\ Disturbs(p)
    <3>1. p \in Working
      BY <1>1, UpsertStepNames DEF Working
    <3> QED
      BY <1>1, <1>2, <2>1, <3>1 DEF VarsOK, OthersSame, Disturbs
  <2>4. wpc'[p] = "idle" /\ fileNo'[p] = 1 /\ processed'[p] = {} /\ missing'[p] = {}
    <3>1. fileNo[p] = 1 /\ processed[p] = {}
      BY <1>1, RowPlace
    <3> QED
      BY <1>1, <1>2, <2>1, <3>1 DEF VarsOK
  <2>5. WriterOK(p)'
    BY <2>4, RestOK
  <2>6. AloneInv(p)'
    BY <2>4, UpsertStepNames DEF AloneInv, ExactSoFar, MetSoFar, NodesSoFar
  <2> QED
    BY <2>2, <2>3, <2>5, <2>6, OwnStep
<1>5. CASE ~(r.paragraphs /\ wpc[p] # "create")
  <2>1. RowDone(p)
    BY <1>1, <1>5
  <2>2. /\ VarsOK' /\ OthersSame(p) /\ Disturbs(p) /\ WriterOK(p)' /\ missing'[p] = {}
        /\ IF Len(rowsLeft[p]) > 1 THEN wpc'[p] = "sourceLaw" /\ Len(rowsLeft'[p]) = Len(rowsLeft[p]) - 1
           ELSE wpc'[p] = "done" /\ Len(rowsLeft[p]) = 1
    BY <1>1, <1>2, <1>3, <2>1, RowDoneFacts
  <2>3. ASSUME Alone(p)' PROVE AloneInv(p)'
    <3>1. Alone(p) /\ r.tlaw = NoTarget
      BY <1>1, <1>3, <2>3 DEF Alone
    <3>2. \A k \in EdgeKeys : edges'[k] = edges[k] + IF k = r THEN Pairs(k) ELSE 0
      <4> HIDE DEF r
      <4>1. Pairs(r) = 0
        BY <3>1 DEF Pairs
      <4> QED
        BY <1>1, <1>2, <4>1
    <3>3. FinalEnds(r)
      BY <3>1 DEF FinalEnds
    <3> QED
      BY <1>1, <2>2, <3>1, <3>2, <3>3, RowDoneExact
  <2> QED
    BY <2>2, <2>3, OwnStep
<1> QED
  BY <1>4, <1>5

-----------------------------------------------------------------------------
(* Before the first sync.                                                  *)
LEMMA EdgesInitially == EdgesInit => EdgesInv
<1> SUFFICES ASSUME EdgesInit PROVE EdgesInv
  OBVIOUS
<1>1. VarsOK
  <2>1. NoEdges \in [EdgeKeys -> Nat]
    BY DEF NoEdges
  <2>2. [script |-> "manager", options |-> {}, rows |-> <<>>] \in Arguments
    BY DEF Arguments
  <2>3. 0 \in 0..MaxSyncs /\ copies \in [NodeKeys -> Nat]
    BY EdgesAssumption DEF EdgesInit
  <2> QED
    BY <2>1, <2>2, <2>3, EdgesAssumption DEF EdgesInit, VarsOK, Steps
<1>2. \A p \in Writers : /\ wpc[p] = "idle" /\ ~undisturbed[p] /\ fileNo[p] = 1 /\ processed[p] = {}
                         /\ missing[p] = {}
  BY DEF EdgesInit
<1>3. \A p \in Writers : WriterOK(p)
  BY <1>2, UpsertStepNames DEF WriterOK, ManagerSteps, LawsMade, MergeOK
<1> QED
  BY <1>1, <1>2, <1>3 DEF EdgesInv, LoneInv, Alone

(* Nothing happens.                                                        *)
LEMMA EdgesUndisturbed ==
  ASSUME EdgesInv, UNCHANGED edgeVars
  PROVE  EdgesInv'
<1> USE DEF edgeVars, neoVars, historyVars
<1>1. VarsOK'
  BY DEF EdgesInv, VarsOK, LawsUnique
<1>2. ASSUME NEW p \in Writers PROVE WriterOK(p)'
  <2>1. WriterOK(p)
    BY DEF EdgesInv
  <2>2. Sought(p)' = Sought(p)
    BY DEF Sought, FirstBatch, NodeOf, LawNode, ArticleNode, ParagraphNode
  <2>3. MergeOK(p)'
    BY <2>1, <2>2 DEF WriterOK, MergeOK
  <2> QED
    BY <2>1, <2>3 DEF WriterOK, NodesMade, LawsMade
<1>3. LoneInv'
  BY DEF EdgesInv, LoneInv, Working
<1>4. ASSUME NEW p \in Writers, Alone(p)' PROVE AloneInv(p)'
  <2>1. AloneInv(p)
    BY <1>4 DEF EdgesInv, Alone
  <2>2. MetSoFar(p)'
    BY <2>1 DEF AloneInv, MetSoFar, LawsUpTo
  <2>3. /\ \A k, n : Added(k, n)' = Added(k, n)
        /\ \A k : Pending(p, k)' = Pending(p, k)
        /\ \A k : Counted(k)' = Counted(k)
        /\ \A k : RowsAdded(args[p].rows, RowNo(p), k)' = RowsAdded(args[p].rows, RowNo(p), k)
        /\ Expected(p)' = Expected(p)
    BY DEF Added, Matched, FilesWith, FirstCount, Pending, Counted, LawsUnique, RowsAdded, RowNo,
           Occurrences, Pairs, Expected
  <2>4. ExactSoFar(p)'
    BY <2>1, <2>3 DEF AloneInv, ExactSoFar
  <2>5. NodesSoFar(p)'
    <3>1. \A i : FinalEnds(args[p].rows[i])' <=> FinalEnds(args[p].rows[i])
      BY DEF FinalEnds, Final
    <3>2. RowNo(p)' = RowNo(p)
      BY DEF RowNo
    <3> QED
      BY <2>1, <3>1, <3>2 DEF AloneInv, NodesSoFar
  <2> QED
    BY <2>2, <2>4, <2>5 DEF AloneInv
<1> QED
  BY <1>1, <1>2, <1>3, <1>4 DEF EdgesInv

(* Every step of every writer.                                             *)
LEMMA EdgesStep == EdgesInv /\ [EdgesNext]_edgeVars => EdgesInv'
<1> SUFFICES ASSUME EdgesInv, [EdgesNext]_edgeVars PROVE EdgesInv'
  OBVIOUS
<1>1. CASE UNCHANGED edgeVars
  BY <1>1, EdgesUndisturbed
<1>2. CASE EdgesNext
  BY <1>2, StartManagerStep, FixFileStep, CleanBatchStep, LookStep, MergeLawsStep, ReadFileStep,
     CreateBatchStep, BatchFailsStep, ManagerSyncDoneStep, StartEnhancedStep, SetupSchemaStep,
     UpsertStep, CreateEnhancedStep, EnhancedFailsStep, AbortsStep DEF EdgesNext
<1> QED
  BY <1>1, <1>2

(* The invariant of any number of syncs of both scripts.                   *)
THEOREM EdgesInvariant == EdgesSpec => []EdgesInv
<1> QED
  BY EdgesInitially, EdgesStep, PTL DEF EdgesSpec

(* The graph, the files and the memory of the syncs stay well typed: a     *)
(* sync in work has a row, a file or a batch left, and where there is the  *)
(* uniqueness constraint no law has two nodes.                             *)
THEOREM EdgesTypeCorrect == EdgesSpec => []EdgesTypeOK
<1>1. EdgesInv => EdgesTypeOK
  <2>1. Steps = {"idle", "done"} \cup {"schema"} \cup Range(UpsertSteps) \cup ManagerSteps
    BY DEF Steps
  <2> QED
    BY <2>1 DEF EdgesInv, VarsOK, WriterOK, MergeOK, EdgesTypeOK
<1> QED
  BY <1>1, EdgesInvariant, PTL

(* Whatever earlier syncs have left unfinished or twice, a sync of either  *)
(* script that was alone and met no error has added exactly the edges of   *)
(* what it read and found, for any files, rows, nodes, batch size and      *)
(* limit of a DELETE.                                                      *)
THEOREM LoneSyncIsExact == EdgesSpec => []AloneSyncExact
<1>1. EdgesInv => AloneSyncExact
  BY DEF EdgesInv, Alone, AloneInv, ExactSoFar, Counted, AloneSyncExact
<1> QED
  BY <1>1, EdgesInvariant, PTL

-----------------------------------------------------------------------------
(* The commands beside each other.                                         *)
THEOREM ManagementTypeCorrect == ManagementSpec => []ManagementTypeOK
<1>1. ManagementInit => ManagerInit /\ EdgesInit
  BY DEF ManagementInit
<1>2. [ManagementNext]_<<managerVars, edgeVars>> => [ManagerNext]_managerVars /\ [EdgesNext]_edgeVars
  BY DEF ManagementNext
<1>3. ManagementSpec => ManagerSpec /\ EdgesSpec
  BY <1>1, <1>2, PTL DEF ManagementSpec, ManagerSpec, EdgesSpec
<1>4. ManagerTypeOK /\ EdgesTypeOK => ManagementTypeOK
  BY DEF ManagementTypeOK
<1> QED
  BY <1>3, <1>4, ManagerTypeCorrect, EdgesTypeCorrect, PTL
=============================================================================
