SPECIFICATION Spec
CONSTANTS
  use = use
  play = play
  pay = pay
  stray = stray
  sub = sub
  paid = paid
  alice = alice
  bob = bob
  yes = yes
  asset = asset
  core = core
  other = other
  p = p
  q = q
  r = r
  Action = {use, play, pay, stray}
  NoAction = NoAction
  Vocabularies <- MCVocabularies
  Key = {sub, paid}
  Value = {alice, bob, yes}
  Earlier = {}
  SameInstant = {}
  Asset = {asset}
  NoTarget = NoTarget
  MaxConsequenceDepth = 1
  PolicyId = {p, q, r}
  NoParty = NoParty
  NoClaim = NoClaim
  Profile = {core, other}
  Requests <- MCRequests
  Callers <- MCCallers
INVARIANTS
  AllowIsUnanimous
  RequestForetold
  IntrospectionHolds
PROPERTY
  ImplementsPdp
CHECK_DEADLOCK FALSE
