------------------------------ MODULE Features ------------------------------
(***************************************************************************)
(* The switches (settings.py, features.py, elevated.py, DnsListeners): a   *)
(* request changes them under the settings' lock and saves them, then,     *)
(* under another lock, moves the listeners, runs the scripts it takes and  *)
(* starts and stops the services. Two requests may be under way at once;   *)
(* a write, a socket, a service or the UAC prompt may fail.                *)
(***************************************************************************)
EXTENDS SystemDns

CONSTANTS
  Keys,        \* the switches, with "phone" and "pc"
  Callers,     \* the dashboard's threads that change them
  Nowhere

ASSUME FeaturesAssumption ==
  /\ {"phone", "pc"} \subseteq Keys /\ "any" \notin Keys /\ IsFiniteSet(Callers) /\ Nowhere \notin Scripts

VARIABLES
  up,          \* the engine's process
  data, saved, \* the switches that are on, in memory and in settings.json
  call,        \* each caller: where it is, the switches before and after its change, its script
  host,        \* DnsListeners.host, what it is to listen on
  running,     \* the services that are on
  firewall,    \* the phone's rules in Windows' firewall
  last,        \* history: the switches the last to take the lock went by
  mixed,       \* history: two changes were under way at once, or one was not saved
  agreed       \* history: the last change of "pc" was carried out by its script

engine == <<up, data, saved, call, host, running, firewall>>
vars   == <<system, engine, last, mixed, agreed>>

Places == {"idle", "wait", "bind", "phone", "pc", "script", "services"}
Idle   == [at |-> "idle", old |-> {}, new |-> {}, slot |-> Nowhere]
Calls  == [at : Places, old : SUBSET Keys, new : SUBSET Keys, slot : Scripts \cup {Nowhere}]

TypeOK ==
  /\ SystemTypeOK
  /\ {up, mixed, agreed, firewall} \subseteq BOOLEAN /\ {data, saved, last} \subseteq SUBSET Keys
  /\ call \in [Callers -> Calls]
  /\ host \in {"none", "loopback", "lan"} /\ running \subseteq Keys \cup {"any"}

Init ==
  /\ SystemInit
  /\ up = FALSE /\ data = {} /\ saved = {} /\ call = [u \in Callers |-> Idle]
  /\ host = "none" /\ running = {} /\ firewall = FALSE
  /\ last = {} /\ mixed = FALSE /\ agreed = TRUE

Host(on) == IF "phone" \in on THEN "lan" ELSE IF "pc" \in on THEN "loopback" ELSE "none"
Wanted(on) == on \cup (IF on \cap {"phone", "pc"} # {} THEN {"any"} ELSE {})
Quiet == \A u \in Callers : call[u].at = "idle"
Locked == \E u \in Callers : call[u].at \notin {"idle", "wait"}

-----------------------------------------------------------------------------
\* DnsListeners.bind: what it had is closed before the new sockets are opened.
Listen(h) ==
  /\ host' = h
  /\ IF h = host /\ (Answers \/ h = "none") THEN UNCHANGED servers ELSE servers' \in {h, "none"}

\* Switch.set, of each service: one that does not start stays off.
Serve(on) == running' \in {r \in SUBSET Wanted(on) : running \cap Wanted(on) \subseteq r}

\* Settings.update. When the write fails the request ends here, with the change in memory.
Update(u, new) ==
  /\ up /\ call[u].at = "idle" /\ data' = new
  /\ UNCHANGED <<system, up, host, running, firewall, last, agreed>>
  /\ \/ /\ saved' = new /\ call' = [call EXCEPT ![u] = [at |-> "wait", old |-> data, new |-> new, slot |-> Nowhere]]
        /\ mixed' = (mixed \/ ~Quiet)
     \/ /\ UNCHANGED <<saved, call>> /\ mixed' = TRUE
Toggle(u, key) == Update(u, IF key \in data THEN data \ {key} ELSE data \cup {key})

\* Features.changed, step by step.
At(u, from) == up /\ call[u].at = from
Then(u, to) == call' = [call EXCEPT ![u].at = to]

\* Broken on purpose (mutant): the listeners are left for later.
TakeUnbound(u) ==
  /\ At(u, "wait") /\ ~Locked /\ Then(u, "phone") /\ last' = call[u].new
  /\ UNCHANGED <<system, up, data, saved, host, running, firewall, mixed, agreed>>

Take(u) ==
  /\ At(u, "wait") /\ ~Locked /\ Then(u, "bind") /\ last' = call[u].new
  /\ UNCHANGED <<system, up, data, saved, host, running, firewall, mixed, agreed>>

Bind(u) ==
  /\ At(u, "bind") /\ Then(u, "phone") /\ Listen(Host(call[u].new))
  /\ UNCHANGED <<here, plugged, windows, script, dog, broken, up, data, saved, running, firewall, last, mixed, agreed>>

Changes(u, key) == (key \in call[u].new) # (key \in call[u].old)
PhoneScript(u) ==
  /\ At(u, "phone") /\ Then(u, "pc")
  /\ firewall' \in IF Changes(u, "phone") THEN {"phone" \in call[u].new, firewall} ELSE {firewall}
  /\ UNCHANGED <<system, up, data, saved, host, running, last, mixed, agreed>>

\* run_script: the UAC prompt, and two minutes for the script; after that it goes on by itself.
PCScript(u) ==
  /\ At(u, "pc")
  /\ UNCHANGED <<servers, here, plugged, windows, dog, broken, up, data, saved, host, running, firewall, last, mixed>>
  /\ \/ ~Changes(u, "pc") /\ Then(u, "services") /\ UNCHANGED <<script, agreed>>
     \/ Changes(u, "pc") /\ Then(u, "services") /\ agreed' = FALSE /\ UNCHANGED script
     \/ \E s \in Scripts :
          /\ Changes(u, "pc") /\ ~Running(s) /\ \A v \in Callers : call[v].slot # s
          /\ Goes(s, IF "pc" \in call[u].new THEN "test" ELSE "unregister", {})
          /\ call' = [call EXCEPT ![u].at = "script", ![u].slot = s] /\ UNCHANGED agreed
Waited(u, fine) ==
  /\ call' = [call EXCEPT ![u].at = "services", ![u].slot = Nowhere] /\ agreed' = fine
  /\ UNCHANGED <<servers, here, plugged, windows, dog, up, data, saved, host, running, firewall, last, mixed>>
ScriptDone(u) ==
  /\ At(u, "script") /\ ~Running(call[u].slot)
  /\ Waited(u, script[call[u].slot].at = "done") /\ Goes(call[u].slot, "none", {}) /\ UNCHANGED broken
ScriptLate(u) ==
  /\ At(u, "script") /\ Running(call[u].slot) /\ Waited(u, FALSE) /\ broken' = TRUE /\ UNCHANGED script

\* Broken on purpose (mutant): the services go by the settings of the moment.
ServicesNow(u) ==
  /\ At(u, "services") /\ call' = [call EXCEPT ![u] = Idle] /\ Serve(data)
  /\ UNCHANGED <<system, up, data, saved, host, firewall, last, mixed, agreed>>

Services(u) ==
  /\ At(u, "services") /\ call' = [call EXCEPT ![u] = Idle] /\ Serve(call[u].new)
  /\ UNCHANGED <<system, up, data, saved, host, firewall, last, mixed, agreed>>

-----------------------------------------------------------------------------
\* The engine starts: it follows what is saved "without touching Windows settings again".
Start ==
  /\ ~up /\ up' = TRUE /\ data' = saved /\ last' = saved
  /\ Listen(Host(saved)) /\ Serve(saved)
  /\ UNCHANGED <<here, plugged, windows, script, dog, broken, saved, call, firewall, mixed, agreed>>

\* It is gone, with the changes that were under way. A script that has started goes on.
Crash ==
  /\ up /\ up' = FALSE /\ host' = "none" /\ servers' = "none" /\ running' = {}
  /\ call' = [u \in Callers |-> Idle]
  /\ agreed' = (agreed /\ \A u \in Callers : call[u].at = "idle" \/ ~Changes(u, "pc"))
  /\ broken' = (broken \/ \E s \in Scripts : Running(s))
  /\ UNCHANGED <<here, plugged, windows, script, dog, data, saved, firewall, last, mixed>>

Step(u) == \/ Take(u) \/ Bind(u) \/ PhoneScript(u) \/ PCScript(u) \/ ScriptDone(u) \/ ScriptLate(u)
           \/ Services(u)

Windows ==
  /\ \/ \E a \in Adapters : Plug(a) \/ Unplug(a)
     \/ \E s \in Scripts : ScriptStep(s) \/ Break(s)
     \/ Watchdog
  /\ UNCHANGED <<engine, last, mixed, agreed>>

Next ==
  \/ \E u \in Callers : Step(u) \/ \E key \in Keys : Toggle(u, key)
  \/ Start \/ Crash \/ Windows

Spec == Init /\ [][Next]_vars

-----------------------------------------------------------------------------
(* Properties.                                                             *)

\* What runs is what the settings say once no request is under way: the listeners and the services follow
\* the last change to have the lock, which is the last one saved unless two were under way at once
\* or a write failed.
PartsFollow ==
  up /\ Quiet =>
    /\ host = Host(last) /\ servers \in {host, "none"} /\ running \subseteq Wanted(last)
    /\ ~mixed => last = data /\ saved = data

\* Windows too, when its scripts did what they were asked: on, there is a task to watch over the adapters
\* and a backup to restore; off, nothing is left on the engine and the backup is used up.
\* The adapters plugged in or out since the start are not accounted for.
WindowsFollows ==
  up /\ Quiet /\ ~mixed /\ agreed /\ ~broken =>
    IF "pc" \in data THEN task /\ backup # NoBackup /\ policy = "ours"
    ELSE ~task /\ backup = NoBackup /\ policy = "own"

\* "A second run must not overwrite them with 127.0.0.1, or restoring would restore nothing."
BackupIsOwn ==
  backup # NoBackup /\ ~broken =>
    \A a \in DOMAIN backup.dns \ plugged : backup.dns[a] \in {"own", "automatic"}

\* No adapter is left on an engine that nothing watches: the task is registered, or a script at work
\* will do so or restore the adapter, whatever was refused and whenever the engine stopped.
OnEngine(adapters) == \E a \in adapters : dns[a] = "engine"
Guarded == task \/ broken \/ \E s \in Scripts : Running(s)
Watched == OnEngine(here \ plugged) => Guarded

\* "Listen first, so turning PC protection on finds the engine answering": the test of a script that
\* its caller waits for fails only where the sockets could not be opened.
ListenFirst ==
  \A u \in Callers :
    (At(u, "script") /\ At(u, "script")' /\ script'[call[u].slot].at = "failed" /\ script[call[u].slot].at = "test")
    => host = Host(call[u].new)

\* Every step of a switch leaves the parts where the settings have them, and Windows is sent to the engine
\* only once it listens.
SwitchesFollow == [][PartsFollow' /\ ListenFirst]_vars

\* Windows is never left to something that is gone: not by the settings, by a backup or by an adapter.
WindowsKept == WindowsFollows /\ BackupIsOwn /\ Watched

=============================================================================
