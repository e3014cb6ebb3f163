SPECIFICATION MCSpec
CONSTANTS
  d1 = d1
  p1 = p1
  p2 = p2
  Domains = {d1}
  Programs = {p1, p2}
  Owner <- MCOwner
  Additional = {}
  Functional = {}
  Operational = {}
  Ruled = {}
  Loopers = {loop}
  Runners = {}
  Users = {}
  Sessions = {}
  Mailers = {}
  NoDomain = NoDomain
  MaxFailures = 0
INVARIANTS
  WatchedIsOpen
