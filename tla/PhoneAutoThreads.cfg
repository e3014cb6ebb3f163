SPECIFICATION MCSpec
CONSTANTS
  Domains = {d1}
  Programs = {p2}
  Owner <- MCOwner
  Additional = {}
  Functional = {}
  Operational = {}
  Ruled = {}
  Loopers = {loop}
  Posters = {post}
  Mailers = {mail}
  NoDomain = NoDomain
  MaxFailures = 1
  d1 = d1
  p1 = p1
  d2 = d2
  p2 = p2
INVARIANTS
  TypeOK
PROPERTIES
  SettledRuleStands
  RulingStands
  GuardLifts
  VerdictsApplied
