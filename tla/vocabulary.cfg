SPECIFICATION VocabularySpec
CONSTANTS
  use = use
  distribute = distribute
  play = play
  Action = {use, distribute, play}
  NoAction = NoAction
  MaxDeclarations = 3
  Vocabularies <- MCVocabularies
  IRI <- MCIRI
  LocalName <- MCLocalName
  Literal = Literal
  Startups <- MCStartups
INVARIANTS
  WalkDecidesCoverage
  LoadOrderImmaterial
PROPERTY
  WalkEnds
CHECK_DEADLOCK FALSE
