SPECIFICATION MCSpec
CONSTANTS
  d1 = d1
  p1 = p1
  p2 = p2
  Domains = {d1}
  Programs = {p1, p2}
  Owner <- MCOwner
  Additional = {}
  Functional = {}
  Operational = {}
  Ruled = {}
  Loopers = {loop}
  Runners = {}
  Users = {user}
  Sessions = {session}
  Mailers = {}
  NoDomain = NoDomain
  MaxFailures = 1
INVARIANTS
  TypeOK
PROPERTIES
  GuardLifts
