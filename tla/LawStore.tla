------------------------------ MODULE LawStore ------------------------------
(***************************************************************************)
(* The PostgreSQL tables the data scripts of LawFinder share, as the       *)
(* current prisma/schema.prisma declares them: LawMaster, LawVersion       *)
(* (init-law-data.ts is the only writer of the current schema and creates  *)
(* one version, `${lawId}_v1`, per law) and Article with its Paragraph and *)
(* Item rows.  One SQL statement is one atomic step.  The XML files under  *)
(* laws_data/ are kept here too.                                           *)
(***************************************************************************)
EXTENDS Integers, Sequences

CONSTANTS
  Laws,        \* law ids
  MajorLaws,   \* the MAJOR_LAWS list the scripts go through without argument
  Docs,        \* editions of a law's XML text
  Numbers,     \* articleNumber values
  Extract,     \* Extract[d]: what extractArticlesFromXML returns for d
  Workers,     \* operating-system processes that run the scripts
  NoFile,      \* no XML file below laws_data/ for the law
  NoVersion,   \* no LawVersion row for the law
  EmptyXml,    \* a LawVersion row whose xmlContent is the empty string
  NoRow        \* no Article row with that number

ASSUME MajorLawsAssumption == MajorLaws \in Seq(Laws)

(* An extracted article: its number and how many Paragraph and Item rows   *)
(* are written below it.                                                   *)
ArticleData == [num : Numbers, kids : Nat]

ASSUME ExtractAssumption == Extract \in [Docs -> Seq(ArticleData)]

ASSUME SentinelAssumption ==
  /\ NoFile \notin Docs
  /\ NoVersion \notin Docs
  /\ EmptyXml \notin Docs
  /\ NoVersion # EmptyXml

(* An Article row.  Its database id is its creator: a worker owns at most  *)
(* one row per number at a time.  doc and the number stand for its text.   *)
ArticleRow == [by : Workers, doc : Docs, pos : Nat, kids : Nat]

ASSUME NoRowAssumption == NoRow \notin ArticleRow

VARIABLES
  file,        \* laws_data/: the newest XML file of each law
  lawMaster,   \* "absent", "created", or "current" (currentVersionId set)
  xmlContent,  \* LawVersion.xmlContent of the law's isLatest version
  article      \* Article rows of that version, @@unique([versionId, articleNumber])

storeVars == <<file, lawMaster, xmlContent, article>>

(* The foreign keys of schema.prisma: currentVersionId of LawMaster names  *)
(* a LawVersion row, lawId of LawVersion a LawMaster row.  The database    *)
(* refuses a statement that would break one.                               *)
ForeignKeys ==
  \A l \in Laws :
    /\ lawMaster[l] = "current" => xmlContent[l] # NoVersion
    /\ xmlContent[l] # NoVersion => lawMaster[l] # "absent"

StoreTypeOK ==
  /\ file \in [Laws -> Docs \cup {NoFile}]
  /\ lawMaster \in [Laws -> {"absent", "created", "current"}]
  /\ xmlContent \in [Laws -> Docs \cup {NoVersion, EmptyXml}]
  /\ article \in [Laws -> [Numbers -> ArticleRow \cup {NoRow}]]
  /\ ForeignKeys

NoArticles == [n \in Numbers |-> NoRow]

(* A database without laws, or one whose versions were created without     *)
(* their XML (the case importLawData reads the file for).                  *)
StoreInit ==
  /\ file \in [Laws -> Docs \cup {NoFile}]
  /\ xmlContent \in [Laws -> {NoVersion, EmptyXml}]
  /\ lawMaster = [l \in Laws |->
                    IF xmlContent[l] = NoVersion THEN "absent" ELSE "current"]
  /\ article = [l \in Laws |-> NoArticles]

(* External: a newer directory of the law appears below laws_data/.        *)
NewEdition(l, d) ==
  /\ file' = [file EXCEPT ![l] = d]
  /\ UNCHANGED <<lawMaster, xmlContent, article>>

(* The rows an import of edition d leaves when nothing interferes.         *)
Complete(rows, d) ==
  /\ \A k \in DOMAIN Extract[d] :
       LET r == rows[Extract[d][k].num]
       IN  r # NoRow /\ r.doc = d /\ r.pos = k /\ r.kids = Extract[d][k].kids
  /\ \A n \in Numbers :
       rows[n] # NoRow => \E k \in DOMAIN Extract[d] : Extract[d][k].num = n

DistinctNumbers(d) ==
  \A j, k \in DOMAIN Extract[d] : Extract[d][j].num = Extract[d][k].num => j = k
=============================================================================
