CONSTANTS
  NoFile = NoFile
  NoVersion = NoVersion
  EmptyXml = EmptyXml
  NoRow = NoRow
  NoLaw = NoLaw
  NoArticle = NoArticle
  Nobody = Nobody
  l1 = l1
  l2 = l2
  d1 = d1
  d2 = d2
  w1 = w1
  p1 = p1
  s1 = s1
  s2 = s2
  minpo = minpo
  Laws = {l1, l2}
  Workers = {w1}
  Detectors = {p1}
  Syncers = {s1, s2}
  Names = {minpo}
  BatchSize = 2
  MajorLaws <- MCMajorLaws
  Docs <- MCDocs
  Numbers <- MCNumbers
  Extract <- MCExtract
  Targets <- MCTargets
  Mentions <- MCMentions
  CommonLaw <- MCCommonLaw
  TitleMatches <- MCTitleMatches
SPECIFICATION MCSpec
SYMMETRY MCSymmetry
INVARIANTS
  SyncTypeOK
  EditionInGraph
  EdgesFromText
  SyncComplete
  ArticlesReachable
