SPECIFICATION TreeSpec
CONSTANTS
  role = role
  revoked = revoked
  yes = yes
  alice = alice
  bob = bob
  staff = staff
  report = report
  archive = archive
  use = use
  read = read
  sell = sell
  Key = {role, revoked}
  Value = {yes}
  Action = {use, read, sell}
  NoAction = NoAction
  Vocabularies <- MCVocabularies
  Asset = {report, archive}
  NoTarget = NoTarget
  MaxConsequenceDepth = 0
  Party = {alice, bob, staff}
  Sub = Sub
  Fixtures <- MCFixtures
  Earlier = {}
  SameInstant = {}
  MAX_CONSTRAINT_DEPTH = 1
  Atoms <- MCAtoms
  Shapes <- MCShapes
  MaxNodes = 4
INVARIANTS
  CutNeverCredits
  TranslationAgrees
PROPERTIES
  VerdictTurnsOnReportedClaims
