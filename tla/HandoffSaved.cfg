SPECIFICATION Spec
CONSTANTS
  Engines = {1, 2}
  MaxDecisions = 1
  Nobody = Nobody
INVARIANTS
  SavedIsTaken
CHECK_DEADLOCK FALSE
