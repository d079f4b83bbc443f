SPECIFICATION Spec
CONSTANTS
  use = use
  play = play
  pay = pay
  stray = stray
  member = member
  paid = paid
  noted = noted
  yes = yes
  asset = asset
  library = library
  Action = {use, play, pay, stray}
  NoAction = NoAction
  Vocabularies <- MCVocabularies
  Key = {member, paid, noted}
  Value = {yes}
  Earlier = {}
  SameInstant = {}
  Asset = {asset, library}
  NoTarget = NoTarget
  MaxConsequenceDepth = 1
  Written <- MCWritten
  Ancestors <- MCAncestors
  Configs <- MCConfigs
  Targets = {asset}
  MaxMerges = 2
INVARIANTS
  CoarseMatchesDetailed
  ReportForetells
  ListedWhereReported
  TraceMatchesReport
PROPERTIES
  DischargeKeepsAllow
  BansOnlyRestrict
