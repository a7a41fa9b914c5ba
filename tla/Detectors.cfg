CONSTANTS
  A = A
  B = B
  C = C
  n = n
  c1 = c1
  c2 = c2
  x = x
  y = y
  z = z
  w = w
  beginning = beginning
  NoText = NoText
  NoAnswered = NoAnswered
  NaN = NaN
  Unresolved = Unresolved
  NoLaw = NoLaw
  OwnLaw = OwnLaw
  NoArticle = NoArticle
  NoDefinition = NoDefinition
  NoAnswer = NoAnswer
  NoCall = NoCall
  Texts <- MCTexts
  Found <- MCFound
  Words <- MCWords
  Defines <- MCDefines
  NegativeIn <- MCNegativeIn
  LongTexts = {"names"}
  Laws = {A, B, C}
  GivenLaws = {A, B}
  AnsweredLaws = {B}
  Terms = {n}
  NewOldTerms = {n}
  DefaultLaw = A
  Articles = {1}
  maxArticle <- MCMaxArticle
  MaxRecent = 2
  Margin = 2
  MaxCalls = 3
  Calls = {c1, c2}
  HybridTexts = {x, y, z, w}
  prefix50 <- MCPrefix50
  AlgorithmTexts = {z}
  TextsWith <- MCTextsWith
  SparseTexts = {}
  Parsed <- MCParsed
  Configs <- MCConfigs
  MaxValidated = 2
  MaxStarts = 2
SPECIFICATION MCSpec
CHECK_DEADLOCK FALSE
INVARIANTS
  DetectorsTypeOK
  KnowsOnlyItsTexts
  SameLawIsNearest
  FoundIsCovered
  OnlyTimelyAnswers
PROPERTY CallsReturn
