SPECIFICATION Spec
CONSTANTS
  Word <- MCWord
  Term = {"Message", "Party", "action", "chain", "loop", "ns", "odrl", "odrl:action", "uid"}
  Spelled <- MCSpelled
  KeyOrder <- MCKeyOrder
  Bodies <- MCBodies
  ContextLists <- MCContextLists
  MAX_PREFIX_CHAIN = 2
  MaxNodes = 2
  NoWord = "no word"
INVARIANTS
  LastDefinitionWins
  SpellingsAgree
  FailsOnUnreadable
PROPERTY
  ContextMeansWhatItSays
CHECK_DEADLOCK FALSE
