CONSTANTS
  NoFile = NoFile
  NoVersion = NoVersion
  EmptyXml = EmptyXml
  NoRow = NoRow
  NoNum = NoNum
  l1 = l1
  w1 = w1
  w2 = w2
  Laws = {l1}
  Workers = {w1}
  MajorLaws <- MCMajorLaws
  Docs <- MCAmended
  Numbers <- MCNumbers
  Extract <- MCExtract
SPECIFICATION ImportSpec
INVARIANT AllArticlesImported
