SPECIFICATION MCSpec
CONSTANTS
  Scenes = {"calls", "script", "mail", "errors", "faults", "clicks", "notices", "address", "takeover", "stores"}
  Adapters = {"a", "b"}
  Scripts = {"s1"}
  NoBackup = NoBackup
  Nowhere = Nowhere
  Keys = {"phone", "pc"}
  Callers = {"u1", "u2"}
  t1 = t1
  t2 = t2
  good = good
  Msgs = {good, bad}
  Danger = {bad}
  Threads = {t1, t2}
  CatchUpLimit = 1
  MaxTime = 2
  NoMsg = NoMsg
  Grace = 1
  Lost = 2
  Addresses = {"x", "y"}
  Confirm = 2
  Engines = {1, 2, 3, 4}
  MaxDecisions = 2
  Nobody = Nobody
INVARIANTS
  TypesOK
  WindowsKept
  MailInspected
  Reminded
  TakesOver
PROPERTIES
  SwitchesFollow
CHECK_DEADLOCK FALSE
