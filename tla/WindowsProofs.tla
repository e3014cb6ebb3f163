--------------------------- MODULE WindowsProofs ---------------------------
(***************************************************************************)
(* Proofs about Windows' name resolution under the dashboard, the watchdog *)
(* and the scripts, as MCServices runs them: for any adapters and backups. *)
(* At the end, the types of all that MCServices holds.                     *)
(***************************************************************************)
EXTENDS ServicesProofs, FiniteSetTheorems, TLAPS


-----------------------------------------------------------------------------
(* The switches and Windows' DNS.                                          *)

CallsTyped ==
  /\ call \in [Callers -> Calls] /\ data \in SUBSET Keys /\ saved \in SUBSET Keys
  /\ \A u \in Callers : call[u].at = "script" => call[u].slot \in Scripts
WindowsTyped ==
  /\ dns \in [Adapters -> Servers] /\ plugged \subseteq Adapters /\ here \subseteq Adapters
  /\ policy \in {"own", "ours"} /\ backup \in Backups \cup {NoBackup} /\ task \in BOOLEAN
  /\ script \in [Scripts -> Script] /\ dog \in Dog
  /\ \A s \in Scripts : /\ script[s].at \in {"restore", "undo"} => script[s].had # NoBackup
                        /\ script[s].at = "restore" => script[s].todo \subseteq DOMAIN script[s].had.dns

\* The adapters that were there all the time, and what was theirs before the engine came.
Fixed == here \ plugged
Own   == {"own", "automatic"}

\* Without a backup nothing of Windows is ours; with one it holds what was there, of every such adapter.
BackupTold ==
  /\ backup = NoBackup => policy = "own" /\ ~task /\ \A a \in Fixed : dns[a] \in Own
  /\ backup # NoBackup => /\ backup.policy = "own" /\ Fixed \subseteq DOMAIN backup.dns
                          /\ \A a \in DOMAIN backup.dns \ plugged : backup.dns[a] \in Own

\* A run of the watchdog that found the engine well is one of a task that is still registered.
DogTold == dog.runs /\ dog.healthy => task

\* Before a script has changed anything, and when none runs.
Settled == (task <=> backup # NoBackup) /\ (task => policy = "ours")

\* What each command of a script finds.
Chain(s) ==
  /\ script[s].at \in {"test", "save", "unregister"} => Settled
  /\ script[s].at = "browsers" => backup # NoBackup
  /\ script[s].at \in {"point", "register"} => backup # NoBackup /\ policy = "ours"
  /\ script[s].at = "reset" => backup = NoBackup
  /\ script[s].at \in {"restore", "undo", "forget"} => backup # NoBackup /\ ~task
  /\ script[s].at \in {"restore", "undo"} => script[s].had = backup
  /\ script[s].at = "restore" => \A a \in Fixed \ script[s].todo : dns[a] \in Own
  /\ script[s].at \in {"undo", "forget"} => \A a \in Fixed : dns[a] \in Own
  /\ script[s].at = "forget" => policy = "own"
Chained == (\A s \in Scripts : Chain(s)) /\ ((\A s \in Scripts : ~Running(s)) => Settled)

\* A script that runs has a caller who waits for it, and does what the caller asked.
Inside(u) == call[u].at \notin {"idle", "wait"}
OneInside == \A u, v \in Callers : Inside(u) /\ Inside(v) => u = v
Awaited   == \A s \in Scripts : Running(s) => \E u \in Callers : call[u].at = "script" /\ call[u].slot = s
Enables   == {"test", "save", "browsers", "point", "register"}
Disables  == {"unregister", "reset", "restore", "undo", "forget"}
Does(step, keys) ==
  /\ step \in Enables => "pc" \in keys
  /\ step \in Disables => "pc" \notin keys
  /\ step = "done" => ("pc" \in keys <=> task)
Obedient ==
  \A u \in Callers : call[u].at = "script" =>
    /\ Changes(u, "pc")
    /\ Does(script[call[u].slot].at, call[u].new)

Honest == BackupTold /\ DogTold /\ Chained /\ Awaited /\ Obedient

\* One change at a time: it is the one in memory and in the file, and Windows is where it was, or where it goes.
OneChange ==
  /\ saved = data
  /\ \A u, v \in Callers : call[u].at # "idle" /\ call[v].at # "idle" => u = v
  /\ \A u \in Callers : call[u].at # "idle" => call[u].new = data
Agrees(keys) == "pc" \in keys <=> task
Agreed ==
  /\ Quiet => Agrees(data)
  /\ \A u \in Callers : call[u].at \in {"wait", "bind", "phone", "pc"} => Agrees(call[u].old)
  /\ \A u \in Callers : call[u].at = "services" => Agrees(call[u].new)

WindowsInv ==
  /\ CallsTyped /\ WindowsTyped /\ OneInside
  /\ ~broken => Honest
  /\ ~mixed => OneChange
  /\ ~mixed /\ ~broken /\ agreed => Agreed

LEMMA WindowsInvKeeps ==
  ASSUME WindowsInv
  PROVE  WindowsKept
<1>1. WindowsFollows
  <2> SUFFICES ASSUME Quiet, ~mixed, agreed, ~broken
               PROVE  IF "pc" \in data THEN task /\ backup # NoBackup /\ policy = "ours"
                      ELSE ~task /\ backup = NoBackup /\ policy = "own"
    BY DEF WindowsFollows
  <2>1. Agrees(data) /\ Honest
    BY DEF WindowsInv, Agreed
  <2>2. \A s \in Scripts : ~Running(s)
    BY <2>1 DEF Honest, Awaited, Quiet
  <2>3. Settled
    BY <2>1, <2>2 DEF Honest, Chained
  <2> QED BY <2>1, <2>3 DEF Settled, Agrees, Honest, BackupTold
<1>2. BackupIsOwn
  BY DEF WindowsInv, Honest, BackupTold, BackupIsOwn, Own
<1>3. Watched
  <2> SUFFICES ASSUME ~task, ~broken, \A s \in Scripts : ~Running(s), NEW a \in here \ plugged, dns[a] = "engine"
               PROVE  FALSE
    BY DEF Watched, OnEngine, Guarded
  <2>1. Settled /\ BackupTold
    BY DEF WindowsInv, Honest, Chained
  <2> QED BY <2>1 DEF Settled, BackupTold, Fixed, Own
<1> QED BY <1>1, <1>2, <1>3 DEF WindowsKept

LEMMA WindowsStart ==
  ASSUME Init
  PROVE  WindowsInv
<1>1. /\ \A s \in Scripts : script[s] = NoScript
      /\ \A u \in Callers : call[u] = Idle
  BY DEF Init, SystemInit
<1>2. NoScript \in Script /\ Idle \in Calls /\ Asleep \in Dog
  BY DEF NoScript, Script, Idle, Calls, Places, Asleep, Dog
<1>3. CallsTyped
  BY <1>1, <1>2 DEF Init, CallsTyped, Idle
<1>4. WindowsTyped
  <2>1. script \in [Scripts -> Script]
    BY <1>2 DEF Init, SystemInit
  <2>2. dns \in [Adapters -> Servers]
    BY DEF Init, SystemInit, Servers
  <2>3. task \in BOOLEAN
    BY DEF Init, SystemInit
  <2>4. plugged \subseteq Adapters /\ here \subseteq Adapters /\ policy \in {"own", "ours"} /\ backup \in Backups \cup {NoBackup}
    BY DEF Init, SystemInit
  <2>5. dog \in Dog
    BY <1>2 DEF Init, SystemInit
  <2> QED BY <1>1, <2>1, <2>2, <2>3, <2>4, <2>5 DEF WindowsTyped, NoScript
<1>5. OneInside
  BY <1>1 DEF OneInside, Inside, Idle
<1>6. Honest
  <2>1. BackupTold
    BY DEF Init, SystemInit, BackupTold, Fixed, Own
  <2>2. DogTold
    BY DEF Init, SystemInit, DogTold, Asleep
  <2>3. Chained
    BY <1>1 DEF Init, SystemInit, Chained, Chain, Settled, NoScript
  <2>4. Awaited /\ Obedient
    BY <1>1 DEF Awaited, Obedient, Running, NoScript, Idle
  <2> QED BY <2>1, <2>2, <2>3, <2>4 DEF Honest
<1>7. OneChange
  BY <1>1 DEF Init, OneChange, Idle
<1>8. Agreed
  BY <1>1 DEF Init, SystemInit, Agreed, Agrees, Idle
<1> QED BY <1>3, <1>4, <1>5, <1>6, <1>7, <1>8 DEF WindowsInv

\* Only one script runs while none has come apart from its caller.
LEMMA OneRuns ==
  ASSUME WindowsInv, ~broken, NEW s \in Scripts, NEW t \in Scripts, Running(s), Running(t)
  PROVE  s = t
<1>1. PICK u \in Callers : call[u].at = "script" /\ call[u].slot = s
  BY DEF WindowsInv, Honest, Awaited
<1>2. PICK v \in Callers : call[v].at = "script" /\ call[v].slot = t
  BY DEF WindowsInv, Honest, Awaited
<1>3. Inside(u) /\ Inside(v)
  BY <1>1, <1>2 DEF Inside
<1> QED BY <1>1, <1>2, <1>3 DEF WindowsInv, OneInside

\* A step of a script that leaves what the next command, or its end, goes by.
LEMMA ScriptKeeps ==
  ASSUME WindowsInv, NEW s \in Scripts, NEW step, NEW work, NEW had, Running(s), Has(s, step, work, had),
         UNCHANGED <<engine, here, plugged, dog, last, mixed, agreed>>,
         WindowsTyped', broken => broken',
         ~broken' => /\ BackupTold' /\ DogTold'
                     /\ Chain(s)' /\ (~Running(s)' => Settled')
                     /\ \A keys \in SUBSET Keys : Does(script[s].at, keys) => Does(step, keys)'
  PROVE  WindowsInv'
<1>1. script' = [script EXCEPT ![s] = [at |-> step, todo |-> work, had |-> had]] /\ script \in [Scripts -> Script]
  BY DEF Has, WindowsInv, WindowsTyped
<1>2. script'[s].at = step /\ \A t \in Scripts \ {s} : script'[t] = script[t]
  BY <1>1
<1>3. UNCHANGED <<up, data, saved, call, host, running, firewall, last, mixed, agreed>>
  BY DEF engine
<1>4. CallsTyped' /\ OneInside' /\ (~mixed' => OneChange')
  BY <1>3 DEF WindowsInv, CallsTyped, OneInside, Inside, OneChange
<1>5. ASSUME ~broken'
      PROVE  Honest' /\ (~mixed => ~Agreed \/ Agreed')
  <2>1. ~broken /\ Honest
    BY <1>5 DEF WindowsInv
  <2>2. \A t \in Scripts : t # s => ~Running(t) /\ ~Running(t)'
    BY <2>1, <1>2, OneRuns DEF Running
  <2>3. Chained'
    <3>1. \A t \in Scripts : t # s => Chain(t)'
      BY <2>2 DEF Running, Chain
    <3> QED BY <1>5, <3>1, <2>2 DEF Chained
  <2>4. PICK u \in Callers : call[u].at = "script" /\ call[u].slot = s
    BY <2>1 DEF Honest, Awaited
  <2>5. Awaited'
    BY <2>2, <2>4, <1>3 DEF Awaited
  <2>6. \A v \in Callers : call[v].at = "script" => v = u
    BY <2>4 DEF WindowsInv, OneInside, Inside
  <2>7. Obedient'
    <3>1. SUFFICES Changes(u, "pc") /\ Does(step, call[u].new)'
      BY <1>2, <1>3, <2>4, <2>6 DEF Obedient, Changes
    <3>2. call[u].new \in SUBSET Keys
      BY DEF WindowsInv, CallsTyped, Calls
    <3>3. Changes(u, "pc") /\ Does(script[s].at, call[u].new)
      BY <2>1, <2>4 DEF Honest, Obedient
    <3>4. Does(step, call[u].new)'
      BY <1>3, <1>5, <3>2, <3>3 DEF Does
    <3> QED BY <3>3, <3>4
  <2>8. ASSUME ~mixed
        PROVE  Agreed'
    <3>1. \A v \in Callers : v # u => call[v].at = "idle"
      BY <2>4, <2>8 DEF WindowsInv, OneChange
    <3> QED BY <1>3, <2>4, <3>1 DEF Agreed, Quiet
  <2> QED BY <1>5, <2>3, <2>5, <2>7, <2>8 DEF Honest
<1>6. ~mixed' /\ ~broken' /\ agreed' => Agreed'
  <2>1. SUFFICES ASSUME ~mixed', ~broken', agreed'
                 PROVE  Agreed'
    OBVIOUS
  <2>2. ~mixed /\ ~broken /\ agreed
    BY <1>3, <2>1
  <2> QED BY <1>5, <2>1, <2>2 DEF WindowsInv
<1> QED BY <1>4, <1>5, <1>6 DEF WindowsInv

Ats == {"none", "test", "save", "browsers", "point", "register",
        "unregister", "restore", "reset", "undo", "forget", "done", "failed"}
LEMMA HasOn ==
  ASSUME WindowsTyped, NEW s \in Scripts, NEW step \in Ats, NEW work \in SUBSET Adapters,
         NEW had \in Backups \cup {NoBackup}, Has(s, step, work, had)
  PROVE  /\ script' \in [Scripts -> Script]
         /\ script'[s].at = step /\ script'[s].todo = work /\ script'[s].had = had
         /\ \A t \in Scripts \ {s} : script'[t] = script[t]
<1>1. [at |-> step, todo |-> work, had |-> had] \in Script
  BY DEF Script, Ats
<1> QED BY <1>1 DEF Has, WindowsTyped

LEMMA GoesOn ==
  ASSUME WindowsTyped, NEW s \in Scripts, NEW step \in Ats, NEW work \in SUBSET Adapters, Goes(s, step, work)
  PROVE  /\ script' \in [Scripts -> Script] /\ script'[s].at = step /\ script'[s].todo = work
         /\ \A t \in Scripts \ {s} : script'[t] = script[t]
BY HasOn DEF Goes

LEMMA BackupTyped ==
  ASSUME WindowsTyped
  PROVE  /\ backup # NoBackup => /\ backup = [dns |-> backup.dns, policy |-> backup.policy]
                                 /\ backup.policy \in {"own", "ours"}
                                 /\ DOMAIN backup.dns \subseteq Adapters
                                 /\ \A a \in DOMAIN backup.dns : backup.dns[a] \in Servers
         /\ [dns |-> [a \in here |-> dns[a]], policy |-> policy] \in Backups
<1>1. ASSUME backup # NoBackup
      PROVE  /\ backup = [dns |-> backup.dns, policy |-> backup.policy]
             /\ backup.policy \in {"own", "ours"}
             /\ DOMAIN backup.dns \subseteq Adapters
             /\ \A a \in DOMAIN backup.dns : backup.dns[a] \in Servers
  <2>1. backup \in Backups
    BY <1>1 DEF WindowsTyped
  <2>2. backup.dns \in UNION {[had -> Servers] : had \in SUBSET Adapters}
    BY <2>1 DEF Backups
  <2>3. PICK had \in SUBSET Adapters : backup.dns \in [had -> Servers]
    BY <2>2
  <2> QED BY <2>1, <2>3 DEF Backups
<1>2. [a \in here |-> dns[a]] \in [here -> Servers]
  BY DEF WindowsTyped
<1>3. here \in SUBSET Adapters /\ policy \in {"own", "ours"}
  BY DEF WindowsTyped
<1> QED BY <1>1, <1>2, <1>3 DEF Backups

LEMMA EnablingKeeps ==
  ASSUME WindowsInv, NEW s \in Scripts, UNCHANGED <<engine, last, mixed, agreed>>,
         Test(s) \/ SaveBackup(s) \/ SetPolicy(s) \/ Register(s) \/ \E a \in Adapters : Point(s, a)
  PROVE  WindowsInv'
<1> USE DEF Running, windows
<1>1. WindowsTyped
  BY DEF WindowsInv
<1>2. ASSUME ~broken PROVE Honest /\ Chain(s)
  BY <1>2 DEF WindowsInv, Honest, Chained
<1>3. CASE Test(s)
  <2>1. PICK step : /\ step = (IF Answers THEN "save" ELSE "failed")
                  /\ script[s].at = "test" /\ Goes(s, step, {})
                  /\ UNCHANGED <<here, plugged, dog, broken, dns, policy, backup, task>>
    BY <1>3 DEF Test
  <2>2. step \in Ats /\ step \in {"save", "failed"}
    BY <2>1 DEF Ats
  <2>3. script' \in [Scripts -> Script] /\ script'[s].at = step /\ \A t \in Scripts \ {s} : script'[t] = script[t]
    BY <2>1, <2>2, <1>1, GoesOn
  <2>4. WindowsTyped'
    BY <2>1, <2>2, <2>3, <1>1 DEF WindowsTyped
  <2>5. ~broken' => /\ BackupTold' /\ DogTold'
                    /\ Chain(s)' /\ (~Running(s)' => Settled')
                    /\ \A keys \in SUBSET Keys : Does(script[s].at, keys) => Does(step, keys)'
    BY <1>1, <1>2, <2>1, <2>2, <2>3
       DEF Honest, BackupTold, DogTold, Chain, Settled, Does, Enables, Disables, Fixed, WindowsTyped
  <2> QED BY <2>1, <2>4, <2>5, ScriptKeeps DEF Goes
<1>4. CASE SaveBackup(s)
  <2> DEFINE new == [dns |-> [a \in here |-> dns[a]], policy |-> policy]
  <2>1. /\ script[s].at = "save" /\ Goes(s, "browsers", {}) /\ UNCHANGED <<here, plugged, dog, broken, dns, policy, task>>
        /\ backup' = (IF backup = NoBackup THEN new ELSE backup)
    BY <1>4 DEF SaveBackup
  <2>2. script' \in [Scripts -> Script] /\ script'[s].at = "browsers" /\ \A t \in Scripts \ {s} : script'[t] = script[t]
    BY <2>1, <1>1, GoesOn DEF Ats
  <2>3. new \in Backups /\ new # NoBackup
    BY <1>1, BackupTyped, SystemAssumption
  <2>4. new.policy = policy /\ DOMAIN new.dns = here /\ \A a \in here : new.dns[a] = dns[a]
    OBVIOUS
  <2> HIDE DEF new
  <2>5. WindowsTyped'
    BY <2>1, <2>2, <2>3, <1>1 DEF WindowsTyped
  <2>6. ASSUME ~broken'
        PROVE  /\ BackupTold' /\ DogTold' /\ Chain(s)' /\ (~Running(s)' => Settled')
               /\ \A keys \in SUBSET Keys : Does(script[s].at, keys) => Does("browsers", keys)'
    <3>1. Honest
      BY <1>2, <2>1, <2>6
    <3>2. BackupTold'
      BY <3>1, <2>1, <2>3, <2>4 DEF Honest, BackupTold, Fixed
    <3>3. DogTold' /\ Chain(s)' /\ Running(s)'
      BY <3>1, <2>1, <2>2, <2>3 DEF Honest, DogTold, Chain
    <3> QED BY <3>2, <3>3, <2>1 DEF Does, Enables, Disables
  <2> QED BY <2>1, <2>5, <2>6, ScriptKeeps DEF Goes
<1>5. CASE SetPolicy(s)
  <2>1. PICK step, work : /\ step = After(here, "point", "register") /\ work = here
                        /\ script[s].at = "browsers" /\ Goes(s, step, work) /\ policy' = "ours"
                        /\ UNCHANGED <<here, plugged, dog, broken, dns, backup, task>>
    BY <1>5 DEF SetPolicy
  <2>2. step \in Ats /\ step \in {"point", "register"} /\ work \in SUBSET Adapters
    BY <1>1, <2>1 DEF Ats, After, WindowsTyped
  <2>3. script' \in [Scripts -> Script] /\ script'[s].at = step /\ \A t \in Scripts \ {s} : script'[t] = script[t]
    BY <2>1, <2>2, <1>1, GoesOn
  <2>4. WindowsTyped'
    BY <2>1, <2>2, <2>3, <1>1 DEF WindowsTyped
  <2>5. ~broken' => /\ BackupTold' /\ DogTold'
                    /\ Chain(s)' /\ (~Running(s)' => Settled')
                    /\ \A keys \in SUBSET Keys : Does(script[s].at, keys) => Does(step, keys)'
    BY <1>1, <1>2, <2>1, <2>2, <2>3
       DEF Honest, BackupTold, DogTold, Chain, Settled, Does, Enables, Disables, Fixed, WindowsTyped
  <2> QED BY <2>1, <2>4, <2>5, ScriptKeeps DEF Goes
<1>6. CASE Register(s)
  <2>1. /\ script[s].at = "register" /\ Goes(s, "done", {}) /\ task' = TRUE
        /\ UNCHANGED <<here, plugged, dog, broken, dns, backup, policy>>
    BY <1>6 DEF Register
  <2>3. script' \in [Scripts -> Script] /\ script'[s].at = "done" /\ \A t \in Scripts \ {s} : script'[t] = script[t]
    BY <2>1, <1>1, GoesOn DEF Ats
  <2>4. WindowsTyped'
    <3>1. task' \in BOOLEAN
      BY <2>1
    <3> QED BY <2>1, <2>3, <1>1, <3>1 DEF WindowsTyped
  <2>5. ~broken' => /\ BackupTold' /\ DogTold'
                    /\ Chain(s)' /\ (~Running(s)' => Settled')
                    /\ \A keys \in SUBSET Keys : Does(script[s].at, keys) => Does("done", keys)'
    BY <1>2, <2>1, <2>3 DEF Honest, BackupTold, DogTold, Chain, Settled, Does, Enables, Disables, Fixed
  <2> QED BY <2>1, <2>4, <2>5, ScriptKeeps DEF Goes
<1>7. ASSUME NEW a \in Adapters, Point(s, a)
      PROVE  WindowsInv'
  <2>1. PICK step, rest : /\ rest = script[s].todo \ {a} /\ step = After(rest, "point", "register")
                        /\ script[s].at = "point" /\ Goes(s, step, rest) /\ dns' = [dns EXCEPT ![a] = "engine"]
                        /\ UNCHANGED <<here, plugged, dog, broken, policy, backup, task>>
    BY <1>7 DEF Point
  <2>2. step \in Ats /\ step \in {"point", "register"} /\ rest \in SUBSET Adapters
    BY <1>1, <2>1 DEF Ats, After, WindowsTyped, Script
  <2>3. script' \in [Scripts -> Script] /\ script'[s].at = step /\ \A t \in Scripts \ {s} : script'[t] = script[t]
    BY <2>1, <2>2, <1>1, GoesOn
  <2>4. WindowsTyped'
    BY <2>1, <2>2, <2>3, <1>1 DEF WindowsTyped, Servers
  <2>5. ~broken' => /\ BackupTold' /\ DogTold'
                    /\ Chain(s)' /\ (~Running(s)' => Settled')
                    /\ \A keys \in SUBSET Keys : Does(script[s].at, keys) => Does(step, keys)'
    BY <1>1, <1>2, <2>1, <2>2, <2>3
       DEF Honest, BackupTold, DogTold, Chain, Settled, Does, Enables, Disables, Fixed, WindowsTyped
  <2> QED BY <2>1, <2>4, <2>5, ScriptKeeps DEF Goes
<1> QED BY <1>3, <1>4, <1>5, <1>6, <1>7

LEMMA DisablingKeeps ==
  ASSUME WindowsInv, NEW s \in Scripts, UNCHANGED <<engine, last, mixed, agreed>>,
         Unregister(s) \/ Undo(s) \/ Forget(s) \/ \E a \in Adapters : Reset(s, a) \/ Restore(s, a)
  PROVE  WindowsInv'
<1> USE DEF Running, windows
<1>1. WindowsTyped
  BY DEF WindowsInv
<1>2. ASSUME ~broken PROVE Honest /\ Chain(s)
  BY <1>2 DEF WindowsInv, Honest, Chained
<1>3. CASE Unregister(s)
  <2>1. PICK step, work, had :
                        /\ work = (IF backup = NoBackup THEN here ELSE DOMAIN backup.dns) /\ had = backup
                        /\ step = (IF backup = NoBackup THEN After(here, "reset", "done") ELSE After(work, "restore", "undo"))
                        /\ script[s].at = "unregister" /\ Has(s, step, work, had) /\ task' = FALSE
                        /\ broken' = (broken \/ (dog.runs /\ dog.healthy))
                        /\ UNCHANGED <<here, plugged, dog, dns, policy, backup>>
    BY <1>3 DEF Unregister, Goes
  <2>2. step \in Ats /\ work \in SUBSET Adapters /\ had \in Backups \cup {NoBackup}
    BY <1>1, <2>1, BackupTyped DEF Ats, After, WindowsTyped
  <2>3. /\ script' \in [Scripts -> Script] /\ script'[s].at = step /\ script'[s].todo = work /\ script'[s].had = had
        /\ \A t \in Scripts \ {s} : script'[t] = script[t]
    <3>1. Has(s, step, work, had)
      BY <2>1
    <3> QED BY <2>2, <3>1, <1>1, HasOn
  <2>4. WindowsTyped'
    <3>1. task' \in BOOLEAN
      BY <2>1
    <3>2. backup = NoBackup => step \in {"reset", "done"}
      BY <2>1 DEF After
    <3> QED BY <2>1, <2>3, <1>1, <3>1, <3>2 DEF WindowsTyped
  <2>5. ASSUME ~broken'
        PROVE  /\ BackupTold' /\ DogTold'
               /\ Chain(s)' /\ (~Running(s)' => Settled')
               /\ \A keys \in SUBSET Keys : Does(script[s].at, keys) => Does(step, keys)'
    <3>1. Honest /\ Settled /\ ~task' /\ ~(dog.runs /\ dog.healthy)
      BY <1>2, <2>1, <2>5 DEF Chain
    <3>2. BackupTold' /\ DogTold'
      BY <2>1, <3>1 DEF Honest, BackupTold, DogTold, Fixed
    <3>3. CASE backup = NoBackup
      <4>1. step \in {"reset", "done"}
        BY <2>1, <3>3 DEF After
      <4> QED BY <2>1, <2>3, <3>1, <3>2, <3>3, <4>1 DEF Chain, Settled, Does, Enables, Disables
    <3>4. CASE backup # NoBackup
      <4>1. step \in {"restore", "undo"} /\ (step = "undo" => work = {}) /\ work = DOMAIN backup.dns
        BY <2>1, <3>4 DEF After
      <4>2. Fixed \subseteq work
        BY <3>1, <3>4, <4>1 DEF Honest, BackupTold
      <4> QED BY <2>1, <2>3, <3>1, <3>2, <3>4, <4>1, <4>2 DEF Chain, Does, Enables, Disables, Fixed
    <3> QED BY <3>3, <3>4
  <2> QED BY <2>1, <2>4, <2>5, ScriptKeeps DEF Goes
<1>4. CASE Undo(s)
  <2>1. /\ script[s].at = "undo" /\ Goes(s, "forget", {}) /\ policy' = script[s].had.policy
        /\ UNCHANGED <<here, plugged, dog, broken, dns, backup, task>>
    BY <1>4 DEF Undo
  <2>3. script' \in [Scripts -> Script] /\ script'[s].at = "forget" /\ \A t \in Scripts \ {s} : script'[t] = script[t]
    BY <2>1, <1>1, GoesOn DEF Ats
  <2>4. WindowsTyped'
    <3>1. script[s].had # NoBackup /\ script[s].had \in Backups \cup {NoBackup}
      BY <1>1, <2>1 DEF WindowsTyped, Script
    <3>2. policy' \in {"own", "ours"}
      BY <2>1, <3>1 DEF Backups
    <3> QED BY <1>1, <2>1, <2>3, <3>2 DEF WindowsTyped
  <2>5. ASSUME ~broken'
        PROVE  /\ BackupTold' /\ DogTold'
               /\ Chain(s)' /\ (~Running(s)' => Settled')
               /\ \A keys \in SUBSET Keys : Does(script[s].at, keys) => Does("forget", keys)'
    <3>1. ~broken /\ backup # NoBackup /\ script[s].had = backup
      BY <1>2, <2>1, <2>5 DEF Chain
    <3>2. policy' = "own"
      BY <1>2, <2>1, <3>1 DEF Honest, BackupTold
    <3> QED BY <1>2, <2>1, <2>3, <3>1, <3>2
            DEF Honest, BackupTold, DogTold, Chain, Settled, Does, Enables, Disables, Fixed
  <2> QED BY <2>1, <2>4, <2>5, ScriptKeeps DEF Goes
<1>5. CASE Forget(s)
  <2>1. /\ script[s].at = "forget" /\ Goes(s, "done", {}) /\ backup' = NoBackup
        /\ UNCHANGED <<here, plugged, dog, broken, dns, policy, task>>
    BY <1>5 DEF Forget
  <2>3. script' \in [Scripts -> Script] /\ script'[s].at = "done" /\ \A t \in Scripts \ {s} : script'[t] = script[t]
    BY <2>1, <1>1, GoesOn DEF Ats
  <2>4. WindowsTyped'
    BY <2>1, <2>3, <1>1 DEF WindowsTyped
  <2>5. ~broken' => /\ BackupTold' /\ DogTold'
                    /\ Chain(s)' /\ (~Running(s)' => Settled')
                    /\ \A keys \in SUBSET Keys : Does(script[s].at, keys) => Does("done", keys)'
    BY <1>2, <2>1, <2>3 DEF Honest, BackupTold, DogTold, Chain, Settled, Does, Enables, Disables, Fixed
  <2> QED BY <2>1, <2>4, <2>5, ScriptKeeps DEF Goes
<1>6. ASSUME NEW a \in Adapters, Reset(s, a)
      PROVE  WindowsInv'
  <2>1. PICK step, rest : /\ rest = script[s].todo \ {a} /\ step = After(rest, "reset", "done")
                        /\ script[s].at = "reset" /\ Goes(s, step, rest) /\ dns' = [dns EXCEPT ![a] = "automatic"]
                        /\ UNCHANGED <<here, plugged, dog, broken, policy, backup, task>>
    BY <1>6 DEF Reset
  <2>2. step \in Ats /\ step \in {"reset", "done"} /\ rest \in SUBSET Adapters
    BY <1>1, <2>1 DEF Ats, After, WindowsTyped, Script
  <2>3. script' \in [Scripts -> Script] /\ script'[s].at = step /\ \A t \in Scripts \ {s} : script'[t] = script[t]
    BY <2>1, <2>2, <1>1, GoesOn
  <2>4. WindowsTyped'
    BY <2>1, <2>2, <2>3, <1>1 DEF WindowsTyped, Servers
  <2>5. ~broken' => /\ BackupTold' /\ DogTold'
                    /\ Chain(s)' /\ (~Running(s)' => Settled')
                    /\ \A keys \in SUBSET Keys : Does(script[s].at, keys) => Does(step, keys)'
    BY <1>1, <1>2, <2>1, <2>2, <2>3
       DEF Honest, BackupTold, DogTold, Chain, Settled, Does, Enables, Disables, Fixed, WindowsTyped, Own
  <2> QED BY <2>1, <2>4, <2>5, ScriptKeeps DEF Goes
<1>7. ASSUME NEW a \in Adapters, Restore(s, a)
      PROVE  WindowsInv'
  <2>1. PICK step, rest, had :
             /\ rest = script[s].todo \ {a} /\ step = After(rest, "restore", "undo") /\ had = script[s].had
             /\ script[s].at = "restore" /\ a \in script[s].todo /\ Has(s, step, rest, had)
             /\ dns' = (IF a \in here THEN [dns EXCEPT ![a] = had.dns[a]] ELSE dns)
             /\ UNCHANGED <<here, plugged, dog, broken, policy, backup, task>>
    BY <1>7 DEF Restore
  <2>2. step \in Ats /\ step \in {"restore", "undo"} /\ (step = "undo" => rest = {}) /\ rest \in SUBSET Adapters
        /\ had \in Backups
    BY <1>1, <2>1 DEF Ats, After, WindowsTyped, Script
  <2>3. /\ script' \in [Scripts -> Script] /\ script'[s].at = step /\ script'[s].todo = rest /\ script'[s].had = had
        /\ \A t \in Scripts \ {s} : script'[t] = script[t]
    BY <2>1, <2>2, <1>1, HasOn
  <2>4. WindowsTyped'
    <3>1. had.dns \in UNION {[given -> Servers] : given \in SUBSET Adapters}
      BY <2>2 DEF Backups
    <3>2. had.dns[a] \in Servers
      <4>1. PICK given \in SUBSET Adapters : had.dns \in [given -> Servers]
        BY <3>1
      <4> QED BY <1>1, <2>1, <4>1 DEF WindowsTyped
    <3>3. had # NoBackup /\ rest \subseteq DOMAIN had.dns
      BY <1>1, <2>1 DEF WindowsTyped
    <3> QED BY <1>1, <2>1, <2>2, <2>3, <3>2, <3>3 DEF WindowsTyped
  <2>5. ASSUME ~broken'
        PROVE  /\ BackupTold' /\ DogTold'
               /\ Chain(s)' /\ (~Running(s)' => Settled')
               /\ \A keys \in SUBSET Keys : Does(script[s].at, keys) => Does(step, keys)'
    <3>1. /\ Honest /\ backup # NoBackup /\ ~task /\ had = backup /\ a \in DOMAIN backup.dns
          /\ \A b \in Fixed \ script[s].todo : dns[b] \in Own
      BY <1>1, <1>2, <2>1, <2>5 DEF Chain, WindowsTyped
    <3>4. BackupTold' /\ DogTold'
      BY <2>1, <3>1 DEF Honest, BackupTold, DogTold, Fixed
    <3>5. \A b \in Fixed \ rest : dns'[b] \in Own
      <4>1. a \in Fixed => backup.dns[a] \in Own
        BY <3>1 DEF Honest, BackupTold, Fixed
      <4>2. \A b \in Fixed : dns'[b] = IF b = a THEN backup.dns[a] ELSE dns[b]
        BY <1>1, <2>1, <3>1 DEF WindowsTyped, Fixed
      <4>3. Fixed \subseteq Adapters
        BY <1>1 DEF Fixed, WindowsTyped
      <4> QED BY <2>1, <3>1, <4>1, <4>2, <4>3
    <3>6. Chain(s)' /\ Running(s)'
      BY <2>1, <2>2, <2>3, <3>1, <3>5 DEF Chain, Fixed
    <3> QED BY <2>1, <2>2, <3>4, <3>6 DEF Does, Enables, Disables
  <2> QED BY <2>1, <2>4, <2>5, ScriptKeeps
<1> QED BY <1>3, <1>4, <1>5, <1>6, <1>7

\* A command that fails ends its script, which is one of the things the backup may not survive.
LEMMA BreakKeeps ==
  ASSUME WindowsInv, NEW s \in Scripts, Break(s), UNCHANGED <<engine, last, mixed, agreed>>
  PROVE  WindowsInv'
<1>1. /\ Running(s) /\ Goes(s, "failed", {}) /\ broken' = TRUE
      /\ UNCHANGED <<here, plugged, dog, dns, policy, backup, task>> /\ WindowsTyped
  BY DEF Break, WindowsInv, windows
<1>2. script' \in [Scripts -> Script] /\ script'[s].at = "failed" /\ \A t \in Scripts \ {s} : script'[t] = script[t]
  BY <1>1, GoesOn DEF Ats
<1>3. WindowsTyped'
  BY <1>1, <1>2 DEF WindowsTyped
<1> QED BY <1>1, <1>3, ScriptKeeps DEF Goes

\* Adapters and the watchdog, while the scripts stay where they are.
LEMMA OutsideKeeps ==
  ASSUME WindowsInv, UNCHANGED <<engine, script, policy, backup, task, broken, last, mixed, agreed>>,
         Fixed' \subseteq Fixed, WindowsTyped', plugged \subseteq plugged',
         ~broken => DogTold' /\ \A a \in Fixed : dns'[a] = dns[a] \/ dns[a] = "engine" \/ task
  PROVE  WindowsInv'
<1>1. UNCHANGED <<up, data, saved, call, host, running, firewall, last, mixed, agreed>>
  BY DEF engine
<1>2. CallsTyped' /\ OneInside' /\ (~mixed' => OneChange')
  BY <1>1 DEF WindowsInv, CallsTyped, OneInside, Inside, OneChange
<1>3. ASSUME ~broken'
      PROVE  Honest'
  <2>1. ~broken /\ Honest
    BY <1>3 DEF WindowsInv
  <2>2. BackupTold'
    BY <2>1 DEF Honest, BackupTold, Own
  <2>3. \A s \in Scripts : Chain(s)'
    <3> TAKE s \in Scripts
    <3>1. Chain(s)
      BY <2>1 DEF Honest, Chained
    <3> QED BY <2>1, <3>1 DEF Chain, Settled, Own
  <2>4. Chained'
    BY <2>1, <2>3 DEF Honest, Chained, Settled, Running
  <2>5. Awaited' /\ Obedient'
    BY <1>1, <2>1 DEF Honest, Awaited, Obedient, Running, Changes, Does
  <2> QED BY <2>1, <2>2, <2>4, <2>5 DEF Honest
<1>4. ~mixed' /\ ~broken' /\ agreed' => Agreed'
  BY <1>1 DEF WindowsInv, Agreed, Agrees, Quiet
<1> QED BY <1>2, <1>3, <1>4 DEF WindowsInv

LEMMA PlugKeeps ==
  ASSUME WindowsInv, NEW a \in Adapters, Plug(a), UNCHANGED <<engine, last, mixed, agreed>>
  PROVE  WindowsInv'
<1>1. /\ a \notin here /\ here' = here \cup {a} /\ plugged' = plugged \cup {a} /\ WindowsTyped
      /\ UNCHANGED <<dns, policy, backup, task, script, dog, broken>>
  BY DEF Plug, windows, WindowsInv
<1>2. Fixed' = Fixed /\ WindowsTyped'
  BY <1>1 DEF Fixed, WindowsTyped
<1>3. ~broken => DogTold'
  BY <1>1 DEF WindowsInv, Honest, DogTold
<1> QED BY <1>1, <1>2, <1>3, OutsideKeeps

LEMMA UnplugKeeps ==
  ASSUME WindowsInv, NEW a \in Adapters, Unplug(a), UNCHANGED <<engine, last, mixed, agreed>>
  PROVE  WindowsInv'
<1>1. /\ a \in here /\ here' = here \ {a} /\ plugged' = plugged \cup {a} /\ WindowsTyped
      /\ UNCHANGED <<dns, policy, backup, task, script, dog, broken>>
  BY DEF Unplug, windows, WindowsInv
<1>2. Fixed' \subseteq Fixed /\ WindowsTyped'
  BY <1>1 DEF Fixed, WindowsTyped
<1>3. ~broken => DogTold'
  BY <1>1 DEF WindowsInv, Honest, DogTold
<1> QED BY <1>1, <1>2, <1>3, OutsideKeeps

LEMMA WatchdogKeeps ==
  ASSUME WindowsInv, Watchdog, UNCHANGED <<engine, last, mixed, agreed>>
  PROVE  WindowsInv'
<1>1. WindowsTyped /\ dog \in Dog
  BY DEF WindowsInv, WindowsTyped
<1>2. CASE Wake
  <2>1. /\ task /\ dog' = [runs |-> TRUE, healthy |-> Answers, todo |-> here]
        /\ UNCHANGED <<here, plugged, dns, policy, backup, task, script, broken>>
    BY <1>2 DEF Wake, windows
  <2>2. dog' \in Dog
    BY <1>1, <2>1 DEF Dog, Answers, WindowsTyped
  <2>3. Fixed' = Fixed /\ WindowsTyped'
    BY <1>1, <2>1, <2>2 DEF Fixed, WindowsTyped
  <2>4. DogTold'
    BY <2>1 DEF DogTold
  <2> QED BY <2>1, <2>3, <2>4, OutsideKeeps
<1>3. ASSUME NEW a \in Adapters, Look(a)
      PROVE  WindowsInv'
  <2>1. /\ dog.runs /\ dog' = (IF dog.todo = {a} THEN Asleep ELSE [dog EXCEPT !.todo = @ \ {a}])
        /\ \/ UNCHANGED dns
           \/ dog.healthy /\ dns' = [dns EXCEPT ![a] = "engine"]
           \/ ~dog.healthy /\ dns[a] = "engine" /\ dns' = [dns EXCEPT ![a] = "public"]
        /\ UNCHANGED <<here, plugged, policy, backup, task, script, broken>>
    BY <1>1, <1>3 DEF Look, Dog
  <2>2. dog' \in Dog /\ (dog'.runs /\ dog'.healthy => dog.runs /\ dog.healthy)
    <3>1. CASE dog.todo = {a}
      BY <2>1, <3>1 DEF Asleep, Dog
    <3>2. CASE dog.todo # {a}
      BY <1>1, <2>1, <3>2 DEF Dog
    <3> QED BY <3>1, <3>2
  <2>3. dns' \in [Adapters -> Servers]
    BY <1>1, <2>1 DEF WindowsTyped, Servers
  <2>4. Fixed' = Fixed /\ WindowsTyped'
    BY <1>1, <2>1, <2>2, <2>3 DEF Fixed, WindowsTyped
  <2>5. ~broken => DogTold' /\ (dog.healthy => task)
    BY <2>1, <2>2 DEF WindowsInv, Honest, DogTold
  <2>6. ~broken => \A b \in Fixed : dns'[b] = dns[b] \/ dns[b] = "engine" \/ task
    BY <1>1, <2>1, <2>5 DEF WindowsTyped, Fixed
  <2> QED BY <2>1, <2>4, <2>5, <2>6, OutsideKeeps
<1> QED BY <1>2, <1>3 DEF Watchdog

\* What the engine does to itself: Windows, its scripts and the watchdog stay as they are.
LEMMA EngineKeeps ==
  ASSUME WindowsInv, UNCHANGED <<here, plugged, windows, script, dog, broken>>,
         CallsTyped', OneInside',
         ~broken => Awaited' /\ Obedient',
         ~mixed' => OneChange',
         ~mixed' /\ ~broken /\ agreed' => Agreed'
  PROVE  WindowsInv'
<1>1. UNCHANGED <<dns, policy, backup, task>>
  BY DEF windows
<1>2. WindowsTyped'
  BY <1>1 DEF WindowsInv, WindowsTyped
<1>3. ASSUME ~broken PROVE BackupTold' /\ DogTold' /\ Chained'
  BY <1>1, <1>3 DEF WindowsInv, Honest, BackupTold, DogTold, Chained, Chain, Settled, Fixed, Running
<1> QED BY <1>1, <1>2, <1>3 DEF WindowsInv, Honest

LEMMA UpdateKeeps ==
  ASSUME WindowsInv, NEW u \in Callers, NEW key \in Keys, Toggle(u, key)
  PROVE  WindowsInv'
<1>1. PICK new \in SUBSET Keys :
        /\ call[u].at = "idle" /\ data' = new
        /\ UNCHANGED <<here, plugged, windows, script, dog, broken, agreed>>
        /\ \/ /\ saved' = new
              /\ call' = [call EXCEPT ![u] = [at |-> "wait", old |-> data, new |-> new, slot |-> Nowhere]]
              /\ mixed' = (mixed \/ ~Quiet)
           \/ UNCHANGED <<saved, call>> /\ mixed' = TRUE
  <2>1. data \in SUBSET Keys
    BY DEF WindowsInv, CallsTyped
  <2>2. CASE key \in data
    BY <2>1, <2>2 DEF Toggle, Update, system
  <2>3. CASE key \notin data
    BY <2>1, <2>3 DEF Toggle, Update, system
  <2> QED BY <2>2, <2>3
<1>2. call \in [Callers -> Calls] /\ data \in SUBSET Keys /\ saved \in SUBSET Keys
  BY DEF WindowsInv, CallsTyped
<1>3. UNCHANGED task
  BY <1>1 DEF windows
<1>4. CASE UNCHANGED <<saved, call>> /\ mixed' = TRUE
  <2>1. CallsTyped' /\ OneInside'
    BY <1>1, <1>2, <1>4 DEF WindowsInv, CallsTyped, OneInside, Inside
  <2>2. ~broken => Awaited' /\ Obedient'
    BY <1>1, <1>3, <1>4 DEF WindowsInv, Honest, Awaited, Obedient, Running, Changes, Does
  <2> QED BY <1>1, <1>4, <2>1, <2>2, EngineKeeps
<1>5. CASE /\ saved' = new /\ mixed' = (mixed \/ ~Quiet)
           /\ call' = [call EXCEPT ![u] = [at |-> "wait", old |-> data, new |-> new, slot |-> Nowhere]]
  <2> DEFINE begun == [at |-> "wait", old |-> data, new |-> new, slot |-> Nowhere]
  <2>1. begun \in Calls /\ begun.at = "wait" /\ begun.old = data /\ begun.new = new
    BY <1>2 DEF Calls, Places
  <2> HIDE DEF begun
  <2>2. call' \in [Callers -> Calls] /\ call'[u] = begun /\ \A v \in Callers \ {u} : call'[v] = call[v]
    BY <1>2, <1>5, <2>1 DEF begun
  <2>3. CallsTyped'
    BY <1>1, <1>2, <1>5, <2>1, <2>2 DEF WindowsInv, CallsTyped
  <2>4. OneInside'
    BY <2>1, <2>2 DEF WindowsInv, OneInside, Inside
  <2>5. ~broken => Awaited' /\ Obedient'
    <3>1. SUFFICES ASSUME ~broken PROVE Awaited' /\ Obedient'
      OBVIOUS
    <3>2. Awaited /\ Obedient
      BY <3>1 DEF WindowsInv, Honest
    <3>3. Awaited'
      BY <1>1, <2>2, <3>2 DEF Awaited, Running
    <3>4. Obedient'
      BY <1>1, <1>3, <2>1, <2>2, <3>2 DEF Obedient, Changes, Does
    <3> QED BY <3>3, <3>4
  <2>6. ASSUME ~mixed'
        PROVE  /\ ~mixed /\ saved = data /\ OneChange'
               /\ \A v \in Callers : call[v].at = "idle"
    BY <1>1, <1>5, <2>1, <2>2, <2>6 DEF WindowsInv, OneChange, Quiet
  <2>7. ASSUME ~mixed', ~broken, agreed'
        PROVE  Agreed'
    <3>1. Agrees(data)
      BY <1>1, <2>6, <2>7 DEF WindowsInv, Agreed, Quiet
    <3>2. \A v \in Callers \ {u} : call'[v].at = "idle"
      BY <2>2, <2>6, <2>7
    <3> QED BY <1>3, <2>1, <2>2, <3>1, <3>2 DEF Agreed, Agrees, Quiet
  <2> QED BY <1>1, <2>3, <2>4, <2>5, <2>6, <2>7, EngineKeeps
<1> QED BY <1>1, <1>4, <1>5

\* A caller goes on from where it is to a place that is not the script's, with the change it had.
LEMMA ThenKeeps ==
  ASSUME WindowsInv, NEW u \in Callers, NEW to \in {"bind", "phone", "pc", "services"},
         Then(u, to), call[u].at \notin {"idle", "script"}, Inside(u) \/ ~Locked,
         UNCHANGED <<here, plugged, windows, script, dog, broken, data, saved, mixed>>,
         agreed' => agreed /\ call[u].at # "services" /\ (to = "services" => ~Changes(u, "pc"))
  PROVE  WindowsInv'
<1>1. call \in [Callers -> Calls] /\ call' = [call EXCEPT ![u].at = to]
  BY DEF WindowsInv, CallsTyped, Then
<1>2. to \in Places
  BY DEF Places
<1>3. /\ call' \in [Callers -> Calls] /\ call'[u].at = to
      /\ call'[u].old = call[u].old /\ call'[u].new = call[u].new /\ call'[u].slot = call[u].slot
      /\ \A v \in Callers \ {u} : call'[v] = call[v]
  BY <1>1, <1>2 DEF Calls
<1>4. CallsTyped'
  BY <1>3 DEF WindowsInv, CallsTyped
<1>5. OneInside'
  <2>1. \A v \in Callers \ {u} : ~Inside(v)
    BY DEF WindowsInv, OneInside, Inside, Locked
  <2> QED BY <1>3, <2>1 DEF OneInside, Inside
<1>6. UNCHANGED task
  BY DEF windows
<1>7. ASSUME ~broken PROVE Awaited' /\ Obedient'
  <2>1. Awaited /\ Obedient
    BY <1>7 DEF WindowsInv, Honest
  <2>2. Awaited'
    BY <1>3, <2>1 DEF Awaited, Running
  <2>3. Obedient'
    BY <1>3, <1>6, <2>1 DEF Obedient, Changes, Does
  <2> QED BY <2>2, <2>3
<1>8. ~mixed' => OneChange'
  BY <1>3 DEF WindowsInv, OneChange
<1>9. ASSUME ~mixed', ~broken, agreed' PROVE Agreed'
  <2>1. Agreed /\ OneChange
    BY <1>9 DEF WindowsInv
  <2>2. call[u].at \in {"wait", "bind", "phone", "pc"}
    BY <1>1, <1>9 DEF Calls, Places
  <2>3. Agrees(call[u].old)
    BY <2>1, <2>2 DEF Agreed
  <2>4. to = "services" => Agrees(call[u].new)
    BY <1>9, <2>3 DEF Agrees, Changes
  <2>5. \A v \in Callers \ {u} : call'[v].at = "idle"
    BY <1>3, <2>1 DEF OneChange
  <2> QED BY <1>3, <1>6, <2>3, <2>4, <2>5 DEF Agreed, Agrees, Quiet
<1> QED BY <1>4, <1>5, <1>7, <1>8, <1>9, EngineKeeps

LEMMA PCScriptKeeps ==
  ASSUME WindowsInv, NEW u \in Callers, PCScript(u)
  PROVE  WindowsInv'
<1>1. /\ call[u].at = "pc" /\ UNCHANGED <<here, plugged, windows, dog, broken, data, saved, mixed, policy, backup, task, dns>>
  BY DEF PCScript, At, windows
<1>2. CASE ~Changes(u, "pc") /\ Then(u, "services") /\ UNCHANGED <<script, agreed>>
  BY <1>1, <1>2, ThenKeeps DEF Inside
<1>3. CASE Changes(u, "pc") /\ Then(u, "services") /\ agreed' = FALSE /\ UNCHANGED script
  BY <1>1, <1>3, ThenKeeps DEF Inside
<1>4. ASSUME NEW s \in Scripts, Changes(u, "pc"), ~Running(s), \A v \in Callers : call[v].slot # s,
             Goes(s, IF "pc" \in call[u].new THEN "test" ELSE "unregister", {}),
             call' = [call EXCEPT ![u].at = "script", ![u].slot = s], UNCHANGED agreed
      PROVE  WindowsInv'
  <2>1. PICK step : /\ step = (IF "pc" \in call[u].new THEN "test" ELSE "unregister") /\ Goes(s, step, {})
    BY <1>4
  <2>2. step \in Ats /\ step \in {"test", "unregister"} /\ WindowsTyped
    BY <2>1 DEF Ats, WindowsInv
  <2>3. script' \in [Scripts -> Script] /\ script'[s].at = step /\ \A t \in Scripts \ {s} : script'[t] = script[t]
    BY <2>1, <2>2, GoesOn
  <2>4. WindowsTyped'
    BY <1>1, <2>2, <2>3 DEF WindowsTyped
  <2>5. /\ call' \in [Callers -> Calls] /\ call'[u].at = "script" /\ call'[u].slot = s
        /\ call'[u].old = call[u].old /\ call'[u].new = call[u].new
        /\ \A v \in Callers \ {u} : call'[v] = call[v]
    <3>1. call' = [call EXCEPT ![u] = [[call[u] EXCEPT !.at = "script"] EXCEPT !.slot = s]] /\ call \in [Callers -> Calls]
      BY <1>4 DEF WindowsInv, CallsTyped
    <3> QED BY <3>1 DEF Calls, Places
  <2>6. CallsTyped' /\ OneInside' /\ (~mixed' => OneChange')
    BY <1>1, <2>5 DEF WindowsInv, CallsTyped, OneInside, Inside, OneChange
  <2>7. \A v \in Callers : call[v].at # "script"
    BY <1>1 DEF WindowsInv, OneInside, Inside
  <2>8. ASSUME ~broken PROVE Honest'
    <3>1. Honest /\ \A t \in Scripts : ~Running(t)
      BY <2>7, <2>8 DEF WindowsInv, Honest, Awaited
    <3>2. Settled
      BY <3>1 DEF Honest, Chained
    <3>3. BackupTold' /\ DogTold'
      BY <1>1, <3>1 DEF Honest, BackupTold, DogTold, Fixed
    <3>4. \A t \in Scripts \ {s} : ~Running(t)'
      BY <2>3, <3>1 DEF Running
    <3>5. Chained'
      BY <1>1, <2>2, <2>3, <3>2, <3>4 DEF Chained, Chain, Settled, Running
    <3>6. Awaited'
      BY <2>5, <3>4 DEF Awaited
    <3>7. Obedient'
      <4>1. \A v \in Callers : call'[v].at = "script" => v = u
        BY <2>5, <2>7
      <4>2. Changes(u, "pc")'
        BY <1>4, <2>5 DEF Changes
      <4> QED BY <2>1, <2>2, <2>3, <2>5, <4>1, <4>2 DEF Obedient, Does, Enables, Disables
    <3> QED BY <3>3, <3>5, <3>6, <3>7 DEF Honest
  <2>9. ASSUME ~mixed' PROVE Agreed'
    <3>1. \A v \in Callers \ {u} : call'[v].at = "idle"
      BY <1>1, <2>5, <2>9 DEF WindowsInv, OneChange
    <3> QED BY <2>5, <3>1 DEF Agreed, Quiet
  <2> QED BY <1>1, <2>4, <2>6, <2>8, <2>9 DEF WindowsInv
<1> QED BY <1>2, <1>3, <1>4 DEF PCScript

LEMMA WaitedKeeps ==
  ASSUME WindowsInv, NEW u \in Callers, ScriptDone(u) \/ ScriptLate(u)
  PROVE  WindowsInv'
<1>1. PICK fine : /\ agreed' = fine /\ call[u].at = "script"
                  /\ call' = [call EXCEPT ![u].at = "services", ![u].slot = Nowhere]
                  /\ UNCHANGED <<here, plugged, windows, dog, data, saved, mixed, policy, backup, task, dns>>
                  /\ \/ /\ ~Running(call[u].slot) /\ fine = (script[call[u].slot].at = "done")
                        /\ Goes(call[u].slot, "none", {}) /\ UNCHANGED broken
                     \/ broken' = TRUE /\ UNCHANGED script
  BY DEF ScriptDone, ScriptLate, Waited, At, windows
<1>2. PICK s \in Scripts : call[u].slot = s
  BY <1>1 DEF WindowsInv, CallsTyped
<1>3. /\ call' \in [Callers -> Calls] /\ call'[u].at = "services"
      /\ call'[u].old = call[u].old /\ call'[u].new = call[u].new
      /\ \A v \in Callers \ {u} : call'[v] = call[v]
  <2>1. call' = [call EXCEPT ![u] = [[call[u] EXCEPT !.at = "services"] EXCEPT !.slot = Nowhere]] /\ call \in [Callers -> Calls]
    BY <1>1 DEF WindowsInv, CallsTyped
  <2> QED BY <2>1 DEF Calls, Places
<1>4. CallsTyped' /\ OneInside' /\ (~mixed' => OneChange')
  BY <1>1, <1>3 DEF WindowsInv, CallsTyped, OneInside, Inside, OneChange
<1>5. WindowsTyped
  BY DEF WindowsInv
<1>6. CASE broken' = TRUE /\ UNCHANGED script
  BY <1>1, <1>4, <1>5, <1>6 DEF WindowsInv, WindowsTyped
<1>7. CASE ~Running(s) /\ fine = (script[s].at = "done") /\ Goes(s, "none", {}) /\ UNCHANGED broken
  <2>1. script' \in [Scripts -> Script] /\ script'[s].at = "none" /\ \A t \in Scripts \ {s} : script'[t] = script[t]
    BY <1>5, <1>7, GoesOn DEF Ats
  <2>2. WindowsTyped'
    BY <1>1, <1>5, <2>1 DEF WindowsTyped
  <2>3. \A v \in Callers : call[v].at = "script" => v = u
    BY <1>1 DEF WindowsInv, OneInside, Inside
  <2>4. ASSUME ~broken PROVE Honest' /\ (fine => Agrees(call[u].new))
    <3>1. Honest /\ \A t \in Scripts : ~Running(t)
      BY <1>2, <1>7, <2>3, <2>4 DEF WindowsInv, Honest, Awaited
    <3>2. Settled
      BY <3>1 DEF Honest, Chained
    <3>3. BackupTold' /\ DogTold'
      BY <1>1, <3>1 DEF Honest, BackupTold, DogTold, Fixed
    <3>4. \A t \in Scripts : ~Running(t)'
      BY <2>1, <3>1 DEF Running
    <3>5. Chained'
      BY <1>1, <3>2, <3>4 DEF Chained, Chain, Settled, Running
    <3>6. Awaited'
      BY <3>4 DEF Awaited
    <3>7. Obedient'
      BY <1>3, <2>3 DEF Obedient
    <3>8. fine => Agrees(call[u].new)
      BY <1>1, <1>2, <1>7, <3>1 DEF Honest, Obedient, Does, Agrees
    <3> QED BY <3>3, <3>5, <3>6, <3>7, <3>8 DEF Honest
  <2>5. ASSUME ~mixed', ~broken, agreed' PROVE Agreed'
    <3>1. \A v \in Callers \ {u} : call'[v].at = "idle"
      BY <1>1, <1>3, <2>5 DEF WindowsInv, OneChange
    <3>2. Agrees(call[u].new)
      BY <1>1, <2>4, <2>5
    <3> QED BY <1>1, <1>3, <3>1, <3>2 DEF Agreed, Agrees, Quiet
  <2> QED BY <1>7, <1>4, <2>2, <2>4, <2>5 DEF WindowsInv
<1> QED BY <1>1, <1>2, <1>6, <1>7

LEMMA ServicesKeep ==
  ASSUME WindowsInv, NEW u \in Callers, Services(u)
  PROVE  WindowsInv'
<1>1. /\ call[u].at = "services" /\ call' = [call EXCEPT ![u] = Idle]
      /\ UNCHANGED <<here, plugged, windows, script, dog, broken, data, saved, mixed, agreed, task>>
  BY DEF Services, At, system, windows
<1>2. call' \in [Callers -> Calls] /\ call'[u] = Idle /\ \A v \in Callers \ {u} : call'[v] = call[v]
  BY <1>1 DEF WindowsInv, CallsTyped, Calls, Idle, Places
<1>3. CallsTyped' /\ OneInside' /\ (~mixed' => OneChange')
  BY <1>1, <1>2 DEF WindowsInv, CallsTyped, OneInside, Inside, OneChange, Idle
<1>4. ASSUME ~broken PROVE Awaited' /\ Obedient'
  BY <1>1, <1>2, <1>4 DEF WindowsInv, Honest, Awaited, Obedient, Running, Changes, Does, Idle
<1>5. ASSUME ~mixed', ~broken, agreed' PROVE Agreed'
  <2>1. Agreed /\ OneChange
    BY <1>1, <1>5 DEF WindowsInv
  <2>2. Agrees(data)
    BY <1>1, <2>1 DEF Agreed, OneChange
  <2>3. \A v \in Callers : call'[v].at = "idle"
    BY <1>1, <1>2, <2>1 DEF OneChange, Idle
  <2> QED BY <1>1, <2>2, <2>3 DEF Agreed, Agrees
<1> QED BY <1>1, <1>3, <1>4, <1>5, EngineKeeps

LEMMA RestartKeeps ==
  ASSUME WindowsInv, Start \/ Crash
  PROVE  WindowsInv'
<1>1. CASE Start
  <2>1. data' = saved /\ UNCHANGED <<here, plugged, windows, script, dog, broken, saved, call, mixed, agreed, task>>
    BY <1>1 DEF Start, windows
  <2>2. CallsTyped' /\ OneInside' /\ (~mixed' => OneChange')
    BY <2>1 DEF WindowsInv, CallsTyped, OneInside, Inside, OneChange
  <2>3. ASSUME ~broken PROVE Awaited' /\ Obedient'
    BY <2>1, <2>3 DEF WindowsInv, Honest, Awaited, Obedient, Running, Changes, Does
  <2>4. ASSUME ~mixed', ~broken, agreed' PROVE Agreed'
    BY <2>1, <2>4 DEF WindowsInv, OneChange, Agreed, Agrees, Quiet
  <2> QED BY <2>1, <2>2, <2>3, <2>4, EngineKeeps
<1>2. CASE Crash
  <2>1. /\ call' = [u \in Callers |-> Idle]
        /\ agreed' = (agreed /\ \A u \in Callers : call[u].at = "idle" \/ ~Changes(u, "pc"))
        /\ broken' = (broken \/ \E s \in Scripts : Running(s))
        /\ UNCHANGED <<here, plugged, windows, script, dog, data, saved, mixed, task, dns, policy, backup>>
    BY <1>2 DEF Crash, windows
  <2>2. \A u \in Callers : call'[u] = Idle
    BY <2>1
  <2>3. CallsTyped'
    BY <2>1 DEF WindowsInv, CallsTyped, Calls, Idle, Places
  <2>4. OneInside' /\ (~mixed' => OneChange')
    BY <2>1, <2>2 DEF WindowsInv, OneInside, Inside, OneChange, Idle
  <2>5. WindowsTyped'
    BY <2>1 DEF WindowsInv, WindowsTyped
  <2>6. ASSUME ~broken' PROVE Honest'
    <3>1. Honest /\ \A s \in Scripts : ~Running(s) /\ ~Running(s)'
      BY <2>1, <2>6 DEF WindowsInv, Running
    <3>2. BackupTold' /\ DogTold' /\ Chained'
      BY <2>1, <3>1 DEF Honest, BackupTold, DogTold, Chained, Chain, Settled, Fixed
    <3>3. Awaited' /\ Obedient'
      BY <2>2, <3>1 DEF Awaited, Obedient, Idle
    <3> QED BY <3>2, <3>3 DEF Honest
  <2>7. ASSUME ~mixed', ~broken', agreed' PROVE Agreed'
    <3>1. ~mixed /\ ~broken /\ agreed /\ \A u \in Callers : call[u].at = "idle" \/ ~Changes(u, "pc")
      BY <2>1, <2>7
    <3>2. Agreed /\ OneChange /\ Honest
      BY <3>1 DEF WindowsInv
    <3>3. Agrees(data)
      <4>1. CASE Quiet
        BY <3>2, <4>1 DEF Agreed
      <4>2. ASSUME NEW u \in Callers, call[u].at # "idle"
            PROVE  Agrees(data)
        <5>1. ~Changes(u, "pc") /\ call[u].new = data
          BY <3>1, <3>2, <4>2 DEF OneChange
        <5>2. call[u].at \in Places \ {"idle", "script"}
          BY <3>2, <4>2, <5>1 DEF WindowsInv, CallsTyped, Calls, Honest, Obedient
        <5> QED BY <3>2, <5>1, <5>2 DEF Agreed, Agrees, Changes, Places
      <4> QED BY <4>1, <4>2 DEF Quiet
    <3> QED BY <2>1, <2>2, <3>3 DEF Agreed, Agrees, Idle
  <2> QED BY <2>3, <2>4, <2>5, <2>6, <2>7 DEF WindowsInv
<1> QED BY <1>1, <1>2

LEMMA WindowsSteps ==
  ASSUME WindowsInv, [Next]_vars
  PROVE  WindowsInv'
<1>1. ASSUME NEW u \in Callers, Take(u) \/ Bind(u) \/ PhoneScript(u)
      PROVE  WindowsInv'
  <2>1. UNCHANGED <<here, plugged, windows, script, dog, broken, data, saved, mixed, agreed>>
    BY <1>1 DEF Take, Bind, PhoneScript, system
  <2>2. CASE Take(u)
    BY <2>1, <2>2, ThenKeeps DEF Take, At
  <2>3. CASE Bind(u)
    BY <2>1, <2>3, ThenKeeps DEF Bind, At, Inside
  <2>4. CASE PhoneScript(u)
    BY <2>1, <2>4, ThenKeeps DEF PhoneScript, At, Inside
  <2> QED BY <1>1, <2>2, <2>3, <2>4
<1>2. CASE Windows
  <2>1. UNCHANGED <<engine, last, mixed, agreed>>
    BY <1>2 DEF Windows
  <2>2. ASSUME NEW s \in Scripts, ScriptStep(s)
        PROVE  WindowsInv'
    BY <2>1, <2>2, EnablingKeeps, DisablingKeeps DEF ScriptStep
  <2> QED BY <1>2, <2>1, <2>2, PlugKeeps, UnplugKeeps, BreakKeeps, WatchdogKeeps DEF Windows
<1>3. CASE UNCHANGED vars
  <2>1. /\ UNCHANGED <<here, plugged, dns, policy, backup, task, script, dog, broken>>
        /\ UNCHANGED <<engine, last, mixed, agreed>>
    BY <1>3 DEF vars, system, windows
  <2>2. Fixed' = Fixed /\ WindowsTyped' /\ (~broken => DogTold')
    BY <2>1 DEF WindowsInv, Fixed, WindowsTyped, Honest, DogTold
  <2> QED BY <2>1, <2>2, OutsideKeeps
<1>4. ASSUME NEW u \in Callers, Step(u)
      PROVE  WindowsInv'
  BY <1>1, <1>4, PCScriptKeeps, WaitedKeeps, ServicesKeep DEF Step
<1>5. CASE Start \/ Crash
  BY <1>5, RestartKeeps
<1> QED BY <1>2, <1>3, <1>4, <1>5, UpdateKeeps DEF Next

\* Whatever is changed at the dashboard, by however many callers, scripts and adapters, and whenever the engine
\* stops: Windows is where the switch has it once its script has done its work, the backup holds what was the
\* user's own, and no adapter is left on an engine that nothing watches.
THEOREM WindowsIsKept == Spec => []WindowsKept
<1>1. Init => WindowsInv
  BY WindowsStart
<1>2. WindowsInv /\ [Next]_vars => WindowsInv'
  BY WindowsSteps
<1>3. WindowsInv => WindowsKept
  BY WindowsInvKeeps
<1> QED BY <1>1, <1>2, <1>3, PTL DEF Spec

\* What listens is what the last to have the lock asked for, and what serves no more than that.
PartsInv ==
  /\ servers \in {host, "none"}
  /\ ~up => Quiet
  /\ \A u \in Callers : Inside(u) => last = call[u].new /\ (call[u].at # "bind" => host = Host(last))
  /\ up /\ ~Locked => host = Host(last) /\ running \subseteq Wanted(last)
  /\ up /\ ~mixed /\ Quiet => last = data

LEMMA PartsStart ==
  ASSUME Init
  PROVE  PartsInv
<1>1. \A u \in Callers : call[u].at = "idle"
  BY DEF Init, Idle
<1> QED BY <1>1 DEF Init, SystemInit, PartsInv, Quiet, Inside, Locked

LEMMA PartsShow ==
  ASSUME WindowsInv, PartsInv
  PROVE  PartsFollow /\ \A u \in Callers : At(u, "script") => host = Host(call[u].new)
<1>1. Quiet => ~Locked
  BY DEF Quiet, Locked
<1> QED BY <1>1 DEF WindowsInv, OneChange, PartsInv, PartsFollow, At, Inside

LEMMA PartsSteps ==
  ASSUME WindowsInv, PartsInv, [Next]_vars
  PROVE  PartsInv'
<1>0. call \in [Callers -> Calls]
  BY DEF WindowsInv, CallsTyped
<1>1. ASSUME UNCHANGED <<servers, up, data, call, host, running, last, mixed>>
      PROVE  PartsInv'
  BY <1>1 DEF PartsInv, Inside, Locked, Quiet
<1>2. CASE UNCHANGED vars
  BY <1>1, <1>2 DEF vars, system, engine
<1>3. CASE Windows
  <2>1. UNCHANGED <<servers, engine, last, mixed>>
    BY <1>3 DEF Windows, Plug, Unplug, ScriptStep, Test, SaveBackup, SetPolicy, Point, Register, Unregister, Reset, Restore,
                Undo, Forget, Break, Watchdog, Wake, Look
  <2> QED BY <1>1, <2>1 DEF engine
<1>4. ASSUME NEW u \in Callers, NEW key \in Keys, Toggle(u, key)
      PROVE  PartsInv'
  <2>1. PICK new : /\ up /\ call[u].at = "idle" /\ data' = new /\ UNCHANGED <<servers, up, host, running, last>>
                   /\ \/ /\ call' = [call EXCEPT ![u] = [at |-> "wait", old |-> data, new |-> new, slot |-> Nowhere]]
                      \/ UNCHANGED call /\ mixed' = TRUE
    BY <1>4 DEF Toggle, Update, system
  <2>2. CASE call' = [call EXCEPT ![u] = [at |-> "wait", old |-> data, new |-> new, slot |-> Nowhere]]
    <3>1. call'[u].at = "wait" /\ \A v \in Callers \ {u} : call'[v] = call[v]
      BY <1>0, <2>2
    <3> QED BY <2>1, <3>1 DEF PartsInv, Inside, Locked, Quiet
  <2>3. CASE UNCHANGED call /\ mixed' = TRUE
    BY <2>1, <2>3 DEF PartsInv, Inside, Locked, Quiet
  <2> QED BY <2>1, <2>2, <2>3
<1>5. ASSUME NEW u \in Callers, Take(u)
      PROVE  PartsInv'
  <2>1. /\ up /\ ~Locked /\ call[u].at = "wait" /\ call' = [call EXCEPT ![u].at = "bind"]
        /\ last' = call[u].new /\ UNCHANGED <<servers, up, data, host, running, mixed>>
    BY <1>5 DEF Take, At, Then, system
  <2>2. call'[u].at = "bind" /\ call'[u].new = call[u].new /\ \A v \in Callers \ {u} : call'[v] = call[v]
    BY <1>0, <2>1 DEF Calls
  <2> QED BY <2>1, <2>2 DEF PartsInv, Inside, Locked, Quiet
<1>6. ASSUME NEW u \in Callers, Bind(u)
      PROVE  PartsInv'
  <2>1. /\ up /\ call[u].at = "bind" /\ call' = [call EXCEPT ![u].at = "phone"]
        /\ host' = Host(call[u].new) /\ UNCHANGED <<up, data, running, last, mixed>>
        /\ servers' \in {host', "none"}
    BY <1>6 DEF Bind, At, Then, Listen, Answers, PartsInv
  <2>2. call'[u].at = "phone" /\ call'[u].new = call[u].new /\ \A v \in Callers \ {u} : call'[v] = call[v]
    BY <1>0, <2>1 DEF Calls
  <2>3. \A v \in Callers \ {u} : ~Inside(v)
    BY <2>1 DEF WindowsInv, OneInside, Inside
  <2> QED BY <2>1, <2>2, <2>3 DEF PartsInv, Inside, Locked, Quiet
<1>7. ASSUME NEW u \in Callers, PhoneScript(u) \/ PCScript(u) \/ ScriptDone(u) \/ ScriptLate(u)
      PROVE  PartsInv'
  <2>1. /\ UNCHANGED <<servers, up, data, host, running, last, mixed>>
        /\ call[u].at \in {"phone", "pc", "script"}
    BY <1>7 DEF PhoneScript, PCScript, ScriptDone, ScriptLate, Waited, At, system
  <2>2. PICK r : call' = [call EXCEPT ![u] = r] /\ r.new = call[u].new /\ r.at \in {"pc", "services", "script"}
    <3>1. CASE call' = [call EXCEPT ![u].at = "pc"] \/ call' = [call EXCEPT ![u].at = "services"]
      BY <1>0, <3>1 DEF Calls
    <3>2. ASSUME NEW to \in {"script", "services"}, NEW s, call' = [call EXCEPT ![u].at = to, ![u].slot = s]
          PROVE  \E r : call' = [call EXCEPT ![u] = r] /\ r.new = call[u].new /\ r.at \in {"pc", "services", "script"}
      <4>1. call' = [call EXCEPT ![u] = [[call[u] EXCEPT !.at = to] EXCEPT !.slot = s]]
        BY <1>0, <3>2
      <4>2. [[call[u] EXCEPT !.at = to] EXCEPT !.slot = s].new = call[u].new
            /\ [[call[u] EXCEPT !.at = to] EXCEPT !.slot = s].at = to
        BY <1>0 DEF Calls
      <4> QED BY <4>1, <4>2
    <3> QED BY <1>7, <3>1, <3>2 DEF PhoneScript, PCScript, ScriptDone, ScriptLate, Waited, Then
  <2>3. \A v \in Callers \ {u} : ~Inside(v)
    BY <2>1 DEF WindowsInv, OneInside, Inside
  <2>4. call'[u] = r /\ \A v \in Callers \ {u} : call'[v] = call[v]
    BY <1>0, <2>2
  <2> QED BY <2>1, <2>2, <2>3, <2>4 DEF PartsInv, Inside, Locked, Quiet
<1>8. ASSUME NEW u \in Callers, Services(u)
      PROVE  PartsInv'
  <2>1. /\ up /\ call[u].at = "services" /\ call' = [call EXCEPT ![u] = Idle] /\ running' \subseteq Wanted(call[u].new)
        /\ UNCHANGED <<servers, up, data, host, last, mixed>>
    BY <1>8 DEF Services, At, Serve, system
  <2>2. call'[u].at = "idle" /\ \A v \in Callers \ {u} : call'[v] = call[v]
    BY <1>0, <2>1 DEF Idle
  <2>3. last = call[u].new /\ host = Host(last)
    BY <2>1 DEF PartsInv, Inside
  <2>4. ~mixed => data = call[u].new
    BY <2>1 DEF WindowsInv, OneChange
  <2> QED BY <2>1, <2>2, <2>3, <2>4 DEF PartsInv, Inside, Locked, Quiet
<1>9. CASE Start
  <2>1. /\ ~up /\ data' = saved /\ last' = saved /\ UNCHANGED call /\ host' = Host(saved)
        /\ servers' \in {host', "none"} /\ running' \subseteq Wanted(saved) /\ up' = TRUE
    BY <1>9 DEF Start, Listen, Serve, Answers, PartsInv
  <2>2. Quiet
    BY <2>1 DEF PartsInv
  <2> QED BY <2>1, <2>2 DEF PartsInv, Inside, Locked, Quiet
<1>10. CASE Crash
  <2>1. ~up' /\ host' = "none" /\ servers' = "none" /\ \A u \in Callers : call'[u].at = "idle"
    BY <1>10 DEF Crash, Idle
  <2> QED BY <2>1 DEF PartsInv, Inside, Quiet
<1> QED BY <1>2, <1>3, <1>4, <1>5, <1>6, <1>7, <1>8, <1>9, <1>10 DEF Next, Step

\* Every step of a switch leaves the listeners and the services where the last change to have the lock has them,
\* and a script that points Windows at the engine finds that it was told to listen there.
THEOREM PartsAreMoved == Spec => SwitchesFollow
<1> DEFINE Inv == WindowsInv /\ PartsInv
<1>1. Init => Inv
  BY WindowsStart, PartsStart
<1>2. Inv /\ [Next]_vars => Inv'
  BY WindowsSteps, PartsSteps
<1>3. Inv => PartsFollow
  BY PartsShow
<1>4. Inv /\ [Next]_vars => [ListenFirst]_vars
  BY PartsShow DEF ListenFirst
<1> HIDE DEF Inv
<1> QED BY <1>1, <1>2, <1>3, <1>4, PTL DEF Spec, SwitchesFollow

-----------------------------------------------------------------------------
(* The types.                                                              *)

\* What the switches keep beside what Windows' place rests on.
SwitchesKept ==
  /\ servers \in {"none", "loopback", "lan"} /\ host \in {"none", "loopback", "lan"}
  /\ up \in BOOLEAN /\ mixed \in BOOLEAN /\ agreed \in BOOLEAN /\ firewall \in BOOLEAN /\ broken \in BOOLEAN
  /\ last \subseteq Keys /\ running \subseteq Keys \cup {"any"}
SwitchesShaped == WindowsInv /\ SwitchesKept

LEMMA SwitchesAreShaped ==
  ASSUME SwitchesShaped
  PROVE  TypeOK
BY DEF SwitchesShaped, SwitchesKept, WindowsInv, CallsTyped, WindowsTyped, TypeOK, SystemTypeOK

LEMMA Reaches ==
  ASSUME NEW keys \in SUBSET Keys
  PROVE  Host(keys) \in {"none", "loopback", "lan"} /\ Wanted(keys) \subseteq Keys \cup {"any"}
BY DEF Host, Wanted

LEMMA SystemKept ==
  ASSUME SwitchesKept, Windows
  PROVE  SwitchesKept'
<1>1. UNCHANGED <<servers, up, host, running, firewall, last, mixed, agreed>>
  BY DEF Windows, engine, Plug, Unplug, ScriptStep, Test, SaveBackup, SetPolicy, Register, Unregister, Undo, Forget, Point, Reset,
         Restore, Break, Watchdog, Wake, Look
<1>2. broken' \in BOOLEAN
  BY DEF SwitchesKept, Windows, Plug, Unplug, ScriptStep, Test, SaveBackup, SetPolicy, Register, Unregister, Undo, Forget, Point,
         Reset, Restore, Break, Watchdog, Wake, Look
<1> QED BY <1>1, <1>2 DEF SwitchesKept

LEMMA SwitchesTypes ==
  ASSUME SwitchesShaped, [Next]_vars
  PROVE  SwitchesShaped'
<1>1. WindowsInv' /\ CallsTyped /\ SwitchesKept
  BY WindowsSteps DEF SwitchesShaped, WindowsInv
<1> SUFFICES SwitchesKept'
  BY <1>1 DEF SwitchesShaped
<1>2. CASE UNCHANGED vars
  BY <1>1, <1>2 DEF SwitchesKept, vars, system, engine
<1>3. CASE Windows
  BY <1>1, <1>3, SystemKept
<1>4. CASE Start
  <2>1. Host(saved) \in {"none", "loopback", "lan"} /\ Wanted(saved) \subseteq Keys \cup {"any"}
    BY <1>1, Reaches DEF CallsTyped
  <2>2. servers' \in {"none", "loopback", "lan"} /\ host' \in {"none", "loopback", "lan"}
    BY <1>1, <1>4, <2>1 DEF Start, Listen, SwitchesKept
  <2>3. running' \subseteq Keys \cup {"any"}
    BY <1>4, <2>1 DEF Start, Serve
  <2>4. up' = TRUE /\ last' = saved /\ UNCHANGED <<broken, firewall, mixed, agreed>>
    BY <1>4 DEF Start
  <2> QED BY <1>1, <2>2, <2>3, <2>4 DEF CallsTyped, SwitchesKept
<1>5. CASE Crash
  <2>1. up' = FALSE /\ host' = "none" /\ servers' = "none" /\ running' = {} /\ UNCHANGED <<firewall, last, mixed>>
    BY <1>5 DEF Crash
  <2>2. agreed' \in BOOLEAN /\ broken' \in BOOLEAN
    BY <1>1, <1>5 DEF Crash, SwitchesKept
  <2> QED BY <1>1, <2>1, <2>2 DEF SwitchesKept
<1>6. ASSUME NEW u \in Callers, NEW key \in Keys, Toggle(u, key)
      PROVE  SwitchesKept'
  <2>1. UNCHANGED <<servers, broken, up, host, running, firewall, last, agreed>>
    BY <1>6 DEF Toggle, Update, system
  <2>2. mixed' \in BOOLEAN
    BY <1>1, <1>6 DEF Toggle, Update, SwitchesKept
  <2> QED BY <1>1, <2>1, <2>2 DEF SwitchesKept
<1>7. ASSUME NEW u \in Callers, Step(u)
      PROVE  SwitchesKept'
  <2>1. call[u].new \subseteq Keys
    BY <1>1 DEF CallsTyped, Calls
  <2>2. Host(call[u].new) \in {"none", "loopback", "lan"} /\ Wanted(call[u].new) \subseteq Keys \cup {"any"}
    BY <2>1, Reaches
  <2>3. CASE Take(u)
    BY <1>1, <2>1, <2>3 DEF Take, system, SwitchesKept
  <2>4. CASE Bind(u)
    <3>1. servers' \in {"none", "loopback", "lan"} /\ host' \in {"none", "loopback", "lan"}
      BY <1>1, <2>2, <2>4 DEF Bind, Listen, SwitchesKept
    <3> QED BY <1>1, <2>4, <3>1 DEF Bind, SwitchesKept
  <2>5. CASE PhoneScript(u)
    <3>1. firewall' \in BOOLEAN
      <4>1. firewall \in BOOLEAN /\ ("phone" \in call[u].new) \in BOOLEAN
        BY <1>1 DEF SwitchesKept
      <4>2. firewall' \in IF Changes(u, "phone") THEN {"phone" \in call[u].new, firewall} ELSE {firewall}
        BY <2>5 DEF PhoneScript
      <4> QED BY <4>1, <4>2, Zenon
    <3>2. UNCHANGED <<servers, broken, up, host, running, last, mixed, agreed>>
      BY <2>5 DEF PhoneScript, system
    <3> QED BY <1>1, <3>1, <3>2 DEF SwitchesKept
  <2>6. CASE PCScript(u)
    BY <1>1, <2>6 DEF PCScript, SwitchesKept
  <2>7. CASE ScriptDone(u) \/ ScriptLate(u)
    <3>1. agreed' \in BOOLEAN /\ broken' \in BOOLEAN
      BY <1>1, <2>7 DEF ScriptDone, ScriptLate, Waited, SwitchesKept
    <3> QED BY <1>1, <2>7, <3>1 DEF ScriptDone, ScriptLate, Waited, SwitchesKept
  <2>8. CASE Services(u)
    <3>1. running' \subseteq Keys \cup {"any"}
      BY <2>2, <2>8 DEF Services, Serve
    <3> QED BY <1>1, <2>8, <3>1 DEF Services, system, SwitchesKept
  <2> QED BY <1>7, <2>3, <2>4, <2>5, <2>6, <2>7, <2>8 DEF Step
<1> QED BY <1>2, <1>3, <1>4, <1>5, <1>6, <1>7 DEF Next

\* Every variable of the switches, of Windows, of the engines that take over, of the mail watch and of the
\* reminders keeps its type, for any number of each, and wherever a step fails or a process ends.
THEOREM ServicesAreTyped == Spec /\ Mail!Spec /\ Phone!Spec /\ Engine!Spec => []TypesOK
<1>1. Init => SwitchesShaped
  <2> SUFFICES ASSUME Init
               PROVE  SwitchesKept
    BY WindowsStart DEF SwitchesShaped
  <2> QED BY DEF Init, SystemInit, SwitchesKept
<1>2. SwitchesShaped /\ [Next]_vars => SwitchesShaped'
  BY SwitchesTypes
<1>3. SwitchesShaped => TypeOK
  BY SwitchesAreShaped
<1>4. Spec => []TypeOK
  BY <1>1, <1>2, <1>3, PTL DEF Spec
<1>5. TypeOK /\ Mail!TypeOK /\ Phone!TypeOK /\ Engine!TypeOK => TypesOK
  BY DEF TypesOK
<1> QED BY <1>4, <1>5, MailsAreTyped, RemindersAreTyped, EnginesAreTyped, PTL

=============================================================================
