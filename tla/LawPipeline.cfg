CONSTANTS
  NoFile = NoFile
  NoVersion = NoVersion
  EmptyXml = EmptyXml
  NoRow = NoRow
  NoLaw = NoLaw
  NoArticle = NoArticle
  Nobody = Nobody
  l1 = l1
  d1 = d1
  w1 = w1
  p1 = p1
  s1 = s1
  minpo = minpo
  Laws = {l1}
  Workers = {w1}
  Detectors = {p1}
  Syncers = {s1}
  Names = {minpo}
  BatchSize = 1
  MajorLaws <- MCMajorLaws
  Docs <- MCDocs1
  Numbers <- MCNumbers
  Extract <- MCExtract
  Targets <- MCTargets
  Mentions <- MCMentions
  CommonLaw <- MCCommonLaw
  TitleMatches <- MCTitleMatches
SPECIFICATION FairPipelineSpec
INVARIANTS
  EditionInGraph
  TitlesKnown
PROPERTIES
  SyncEnds
  DetectionEnds
