----------------------------- MODULE SystemDns -----------------------------
(***************************************************************************)
(* This computer's own DNS (scripts/): Enable-PC-Protection.ps1 points the *)
(* adapters at the engine after saving what they had, and installs a task; *)
(* the task's PC-DNS-Watchdog.ps1 moves them to public servers while the   *)
(* engine does not answer; Disable-PC-Protection.ps1 undoes it all. The    *)
(* scripts stop at the first command that fails, and run beside each other *)
(* and beside the watchdog.                                                *)
(***************************************************************************)
EXTENDS Integers, FiniteSets

CONSTANTS
  Adapters,
  Scripts,     \* bound: the elevated scripts that run at one time
  NoBackup

Servers == {"own", "automatic", "engine", "public"}
Backups == [dns : UNION {[had -> Servers] : had \in SUBSET Adapters}, policy : {"own", "ours"}]

ASSUME SystemAssumption == IsFiniteSet(Adapters) /\ IsFiniteSet(Scripts) /\ NoBackup \notin Backups

VARIABLES
  servers,     \* what the engine answers on: "none", "loopback" or "lan"
  here,        \* the adapters that are up, or plugged in
  dns,         \* each adapter's servers: the user's own, automatic ones, the engine or public ones
  policy,      \* browser policies and the DNS client log: the user's own, or ours
  backup,      \* dns-backup.json
  task,        \* the watchdog's task is registered
  script,      \* the elevated scripts
  dog,         \* the watchdog's present run
  plugged,     \* history: the adapters plugged in, or out, since the start
  broken       \* history: a script ended half-way, outlived its caller, or removed the task of a run under way

windows == <<dns, policy, backup, task>>
system  == <<servers, here, windows, script, dog, plugged, broken>>

Answers == servers # "none"

Script  == [at : {"none", "test", "save", "browsers", "point", "register",
                  "unregister", "restore", "reset", "undo", "forget", "done", "failed"},
            todo : SUBSET Adapters, had : Backups \cup {NoBackup}]   \* had: the backup it has read
Dog     == [runs : BOOLEAN, healthy : BOOLEAN, todo : SUBSET Adapters]

SystemTypeOK ==
  /\ servers \in {"none", "loopback", "lan"} /\ dns \in [Adapters -> Servers]
  /\ plugged \subseteq Adapters /\ here \subseteq Adapters
  /\ policy \in {"own", "ours"} /\ backup \in Backups \cup {NoBackup}
  /\ {task, broken} \subseteq BOOLEAN /\ script \in [Scripts -> Script] /\ dog \in Dog

NoScript == [at |-> "none", todo |-> {}, had |-> NoBackup]
Asleep   == [runs |-> FALSE, healthy |-> FALSE, todo |-> {}]
SystemInit ==
  /\ servers = "none" /\ here \in SUBSET Adapters /\ plugged = {} /\ dns = [a \in Adapters |-> "own"] /\ policy = "own"
  /\ backup = NoBackup /\ task = FALSE /\ broken = FALSE
  /\ script = [s \in Scripts |-> NoScript] /\ dog = Asleep

-----------------------------------------------------------------------------
\* An adapter is plugged in, with servers of its own.
Plug(a) ==
  /\ a \notin here /\ here' = here \cup {a} /\ plugged' = plugged \cup {a}
  /\ UNCHANGED <<servers, windows, script, dog, broken>>
\* Or it is taken out, and is what it was when it comes back.
Unplug(a) ==
  /\ a \in here /\ here' = here \ {a} /\ plugged' = plugged \cup {a}
  /\ UNCHANGED <<servers, windows, script, dog, broken>>

Has(s, at, todo, had) == script' = [script EXCEPT ![s] = [at |-> at, todo |-> todo, had |-> had]]
Goes(s, at, todo) == Has(s, at, todo, NoBackup)
After(todo, same, next) == IF todo = {} THEN next ELSE same
Running(s) == script[s].at \notin {"none", "done", "failed"}

\* Enable-PC-Protection.ps1. Nothing is changed unless the engine answers.
Test(s) ==
  /\ script[s].at = "test" /\ Goes(s, IF Answers THEN "save" ELSE "failed", {})
  /\ UNCHANGED <<servers, here, plugged, windows, dog, broken>>

\* Broken on purpose (mutant): each run saves the servers of the moment.
SaveBackupAnew(s) ==
  /\ script[s].at = "save" /\ Goes(s, "browsers", {})
  /\ backup' = [dns |-> [a \in here |-> dns[a]], policy |-> policy]
  /\ UNCHANGED <<servers, here, plugged, dns, policy, task, dog, broken>>

SaveBackup(s) ==
  /\ script[s].at = "save" /\ Goes(s, "browsers", {})
  /\ backup' = IF backup = NoBackup THEN [dns |-> [a \in here |-> dns[a]], policy |-> policy] ELSE backup
  /\ UNCHANGED <<servers, here, plugged, dns, policy, task, dog, broken>>

SetPolicy(s) ==
  /\ script[s].at = "browsers" /\ Goes(s, After(here, "point", "register"), here) /\ policy' = "ours"
  /\ UNCHANGED <<servers, here, plugged, dns, backup, task, dog, broken>>

\* Broken on purpose (mutant): no task is registered after the last adapter.
PointLast(s, a) ==
  /\ script[s].at = "point" /\ a \in script[s].todo \cap here
  /\ LET rest == script[s].todo \ {a} IN Goes(s, After(rest, "point", "done"), rest)
  /\ dns' = [dns EXCEPT ![a] = "engine"]
  /\ UNCHANGED <<servers, here, plugged, policy, backup, task, dog, broken>>

Point(s, a) ==
  /\ script[s].at = "point" /\ a \in script[s].todo \cap here
  /\ LET rest == script[s].todo \ {a} IN Goes(s, After(rest, "point", "register"), rest)
  /\ dns' = [dns EXCEPT ![a] = "engine"]
  /\ UNCHANGED <<servers, here, plugged, policy, backup, task, dog, broken>>

Register(s) ==
  /\ script[s].at = "register" /\ Goes(s, "done", {}) /\ task' = TRUE
  /\ UNCHANGED <<servers, here, plugged, dns, policy, backup, dog, broken>>

\* Disable-PC-Protection.ps1. Removing the task does not stop a run of it.
Unregister(s) ==
  /\ script[s].at = "unregister"
  /\ IF backup = NoBackup THEN Goes(s, After(here, "reset", "done"), here)
     ELSE Has(s, After(DOMAIN backup.dns, "restore", "undo"), DOMAIN backup.dns, backup)
  /\ task' = FALSE /\ broken' = (broken \/ (dog.runs /\ dog.healthy))
  /\ UNCHANGED <<servers, here, plugged, dns, policy, backup, dog>>
\* With no backup every adapter goes to automatic DNS, and that is all. With one, which is read here, the
\* adapters it names get back what they had; one that is gone is passed over.
Reset(s, a) ==
  /\ script[s].at = "reset" /\ a \in script[s].todo \cap here
  /\ LET rest == script[s].todo \ {a} IN Goes(s, After(rest, "reset", "done"), rest)
  /\ dns' = [dns EXCEPT ![a] = "automatic"]
  /\ UNCHANGED <<servers, here, plugged, policy, backup, task, dog, broken>>
Restore(s, a) ==
  /\ script[s].at = "restore" /\ a \in script[s].todo
  /\ LET rest == script[s].todo \ {a} IN Has(s, After(rest, "restore", "undo"), rest, script[s].had)
  /\ dns' = IF a \in here THEN [dns EXCEPT ![a] = script[s].had.dns[a]] ELSE dns
  /\ UNCHANGED <<servers, here, plugged, policy, backup, task, dog, broken>>
Undo(s) ==
  /\ script[s].at = "undo" /\ Goes(s, "forget", {}) /\ policy' = script[s].had.policy
  /\ UNCHANGED <<servers, here, plugged, dns, backup, task, dog, broken>>

\* Broken on purpose (mutant): the backup is left for the next time.
ForgetNot(s) ==
  /\ script[s].at = "forget" /\ backup # NoBackup /\ Goes(s, "done", {})
  /\ UNCHANGED <<servers, here, plugged, windows, dog, broken>>

Forget(s) ==
  /\ script[s].at = "forget" /\ backup # NoBackup /\ Goes(s, "done", {}) /\ backup' = NoBackup
  /\ UNCHANGED <<servers, here, plugged, dns, policy, task, dog, broken>>

\* Any command after the test may fail, one over an adapter that is gone does, and then nothing of the rest is done.
Break(s) ==
  /\ Running(s) /\ script[s].at # "test"
  /\ Goes(s, "failed", {}) /\ broken' = TRUE /\ UNCHANGED <<servers, here, plugged, windows, dog>>

-----------------------------------------------------------------------------
\* PC-DNS-Watchdog.ps1, every minute: it asks the engine, then looks at each adapter.
Wake ==
  /\ task /\ ~dog.runs /\ here # {}
  /\ dog' = [runs |-> TRUE, healthy |-> Answers, todo |-> here]
  /\ UNCHANGED <<servers, here, plugged, windows, script, broken>>
Look(a) ==
  /\ dog.runs /\ a \in dog.todo
  /\ dog' = IF dog.todo = {a} THEN Asleep ELSE [dog EXCEPT !.todo = @ \ {a}]
  /\ IF a \notin here \/ dog.healthy = (dns[a] = "engine") THEN UNCHANGED dns
     ELSE dns' = [dns EXCEPT ![a] = IF dog.healthy THEN "engine" ELSE "public"]
  /\ UNCHANGED <<servers, here, plugged, policy, backup, task, script, broken>>
Watchdog == Wake \/ \E a \in Adapters : Look(a)

ScriptStep(s) ==
  \/ Test(s) \/ SaveBackup(s) \/ SetPolicy(s) \/ Register(s) \/ Unregister(s) \/ Undo(s) \/ Forget(s)
  \/ \E a \in Adapters : Point(s, a) \/ Reset(s, a) \/ Restore(s, a)

=============================================================================
