SPECIFICATION MCSpec
CONSTANTS
  d1 = d1
  d2 = d2
  p2 = p2
  Domains = {d1, d2}
  Programs = {p2}
  Owner <- MCOwner
  Additional = {d2}
  Functional = {}
  Operational = {}
  Ruled = {}
  Loopers = {loop}
  Runners = {now}
  Users = {user}
  Sessions = {session}
  Mailers = {mail}
  NoDomain = NoDomain
  MaxFailures = 1
INVARIANTS
  DecisionsEnforced
  BlockExplained
PROPERTIES
  ReleasedStaysOpen
  AutoBlockEarned
  SettledDecisionStands
