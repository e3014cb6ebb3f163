SPECIFICATION MCSpec
CONSTANTS
  d1 = d1
  w1 = w1
  w2 = w2
  w3 = w3
  w4 = w4
  Scenes = {"alone", "cycle", "panel", "named", "user"}
  Domains = {d1, d2}
  Gather = 2
  Cycle = cycle
  Panel = panel
  Named = {named}
  Workers = {w1, w2, w3, w4}
  Crew <- MCCrew
  BatchSize = 1
  JudgeBatch = 2
  NoDomain = NoDomain
INVARIANTS
  TypeOK
  InOneHand
  NotesTrue
PROPERTIES
  NoStepBack
  Settles
