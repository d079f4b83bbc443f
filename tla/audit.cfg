SPECIFICATION AuditSpec
CONSTANTS
  Action = {"use", "transfer", "sell", "display", "play", "reproduce", "extract", "anonymize", "notify", "compensate"}
  NoAction = NoAction
  Vocabularies <- MCVocabularies
  Key = {}
  Value = {}
  Earlier <- MCEarlier
  SameInstant <- MCSameInstant
  Asset = {}
  NoTarget = NoTarget
  MaxConsequenceDepth = 4
  PolicyId = {"probe", "parent", "child", "probe-ok", "probe-bad", "policies/p-42"}
  NoParty = NoParty
  NoClaim = NoClaim
  NoKey = NoKey
  Profile = {}
  Scenes <- MCScenes
INVARIANTS
  CountersForetell
  UnheardNeverScores
  EngineKeepsItsWord
  JudgmentsExplained
CHECK_DEADLOCK FALSE
