SPECIFICATION AdapterSpec
CONSTANTS
  Action = {"use", "read", "pay"}
  NoAction = "none"
  Key = {"k"}
  Value = {"u"}
  Earlier = {}
  SameInstant = {}
  Vocabularies <- MCVocabularies
  Asset = {"d1", "d2", "d3"}
  NoTarget = "no target"
  MaxConsequenceDepth = 2
  NoId = "no id"
  MAX_WALK_DEPTH = 8
  MAX_CONSTRAINT_DEPTH = 2
  Envelopes <- MCEnvelopes
  Facts <- MCFacts
  MaxFacts = 4
  Blank = Blank
INVARIANTS
  ReadsWhatIsMeant
  MinimalConfigRecognises
  CollisionsAreReal
  ReportedNeedsSeveralValues
PROPERTY
  EachPassKeepsMeaning
