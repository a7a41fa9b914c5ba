CONSTANTS
  NoFile = NoFile
  NoVersion = NoVersion
  EmptyXml = EmptyXml
  NoRow = NoRow
  NoLaw = NoLaw
  NoArticle = NoArticle
  Nobody = Nobody
  l1 = l1
  d1 = d1
  d2 = d2
  w1 = w1
  p1 = p1
  p2 = p2
  p3 = p3
  minpo = minpo
  Laws = {l1}
  Workers = {w1}
  Detectors = {p1, p2, p3}
  Names = {minpo}
  BatchSize = 2
  MajorLaws <- MCMajorLaws
  Docs <- MCDocs
  Numbers <- MCNumbers
  Extract <- MCExtract
  Targets <- MCTargets
  Mentions <- MCMentions
  CommonLaw <- MCCommonLaw
  TitleMatches <- MCTitleMatches
SPECIFICATION DetectSpec
SYMMETRY MCSymmetry
INVARIANTS
  DetectTypeOK
  LastDetectionStored
  EveryMentionOnce
