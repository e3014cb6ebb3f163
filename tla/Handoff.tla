------------------------------ MODULE Handoff ------------------------------
(***************************************************************************)
(* One engine takes over from another (app.py): the successor loads every  *)
(* store, then asks the running engine to leave, or stops it, and opens    *)
(* the ports as they come free. Two of the stores: the rules the resolver  *)
(* obeys, saved at each change, and the entries that say what the rules    *)
(* are for, written now and then. What they hold is the number of the last *)
(* decision in them. The other stores are like one or the other.           *)
(***************************************************************************)
EXTENDS Integers, FiniteSets

CONSTANTS
  Engines,        \* 1..n, the processes, in the order in which they start
  MaxDecisions,   \* bound: the decisions made
  Nobody

HandoffAssumption == Engines = 1..Cardinality(Engines) /\ MaxDecisions \in Nat /\ Nobody \notin Engines

VARIABLES
  at, handed,                     \* where each engine's main is; whether it takes over from another
  asked, stuck, through,          \* engines asked to leave; whose saves do not return; whose saves are done
  rules, entries, dirty, half,    \* their stores; the entries differ from the file; a rule is in, its entry not yet
  writes,                         \* what each thread that saves the entries is writing
  ruleFile, entryFile,            \* policy.json, domains.json
  shares, web, dns,               \* whether Windows lets two have the dashboard's port; who has it, and the DNS port
  last, promised,                 \* history: the decisions made, and the last one whose request was answered
  stale, behind,                  \* history: an engine decided after its successor had loaded; had not saved when it did
  cut, late                       \* history: an end or a failing write lost entries, or older ones were written over
                                  \* newer; one that answers, or is about to, crashed, or left when no longer waited for

vars == <<shares, at, handed, asked, stuck, through, rules, entries, dirty, half, writes, ruleFile, entryFile, web, dns,
          last, promised, stale, behind, cut, late>>
stores == <<rules, entries, dirty, half, writes, ruleFile, entryFile>>
facts  == <<last, promised, stale, behind>>

Savers   == {"timer", "request", "leave"}
Decisions == 0..MaxDecisions
Nothing   == -1
Idle      == [t \in Savers |-> Nothing]

TypeOK ==
  /\ at \in [Engines -> {"off", "loading", "ruled", "loaded", "bind", "open", "up", "gone"}]
  /\ handed \in [Engines -> BOOLEAN] /\ asked \subseteq Engines
  /\ stuck \subseteq Engines /\ through \subseteq Engines
  /\ rules \in [Engines -> Decisions] /\ entries \in [Engines -> Decisions]
  /\ dirty \subseteq Engines /\ half \subseteq Engines
  /\ writes \in [Engines -> [Savers -> Decisions \cup {Nothing}]]
  /\ ruleFile \in Decisions /\ entryFile \in Decisions /\ web \subseteq Engines /\ dns \in Engines \cup {Nobody}
  /\ last \in Decisions /\ promised \in Decisions /\ {shares, stale, behind, cut, late} \subseteq BOOLEAN

Init ==
  /\ at = [e \in Engines |-> "off"] /\ handed = [e \in Engines |-> FALSE] /\ asked = {} /\ stuck = {} /\ through = {}
  /\ rules = [e \in Engines |-> 0] /\ entries = rules /\ dirty = {} /\ half = {}
  /\ writes = [e \in Engines |-> Idle] /\ ruleFile = 0 /\ entryFile = 0
  /\ shares \in BOOLEAN /\ web = {} /\ dns = Nobody /\ last = 0 /\ promised = 0 /\ stale = FALSE /\ behind = FALSE
  /\ cut = FALSE /\ late = FALSE

Alive      == {e \in Engines : at[e] \notin {"off", "gone"}}
Writing(e) == {writes[e][t] : t \in Savers} \ {Nothing}
Unsaved(e) == e \in dirty \cup half \/ Writing(e) # {}
To(e, where) == at' = [at EXCEPT ![e] = where]

\* The processes of E end, whatever they are at, and main goes on where "now" says.
Ends(E, now) ==
  /\ at' = [e \in Engines |-> IF e \in E THEN "gone" ELSE now[e]]
  /\ web' = web \ E /\ dns' = (IF dns \in E THEN Nobody ELSE dns)
  /\ cut' = (cut \/ \E e \in E : Unsaved(e))
  /\ dirty' = dirty \ E /\ half' = half \ E
  /\ writes' = [e \in Engines |-> IF e \in E THEN Idle ELSE writes[e]]
  /\ UNCHANGED <<handed, asked, stuck, through, rules, entries, ruleFile, entryFile, facts>>

-----------------------------------------------------------------------------
(* main.                                                                   *)

\* The first engine, or one started by "/api/restart" to take over.
Start(e) ==
  /\ at[e] = "off" /\ \A f \in Engines : f < e => at[f] # "off"
  /\ Alive = {} \/ \E x \in web : at[x] = "up"
  /\ To(e, "loading") /\ handed' = [handed EXCEPT ![e] = Alive # {}]
  /\ UNCHANGED <<asked, stuck, through, stores, web, dns, facts, cut, late>>
LoadRules(e) ==
  /\ at[e] = "loading" /\ To(e, "ruled") /\ rules' = [rules EXCEPT ![e] = ruleFile]
  /\ UNCHANGED <<handed, asked, stuck, through, entries, dirty, half, writes, ruleFile, entryFile, web, dns, facts, cut, late>>
LoadEntries(e) ==
  /\ at[e] = "ruled" /\ To(e, IF handed[e] THEN "loaded" ELSE "bind")
  /\ entries' = [entries EXCEPT ![e] = entryFile] /\ behind' = (behind \/ \E x \in Alive \ {e} : Unsaved(x))
  /\ UNCHANGED <<handed, asked, stuck, through, rules, dirty, half, writes, ruleFile, entryFile, web, dns, cut, late>>
  /\ UNCHANGED <<last, promised, stale>>

\* take_over: an engine with the dashboard's port says it will leave; or none answers in time, and every
\* other one is stopped; or that takes too long, and this one ends.
Ask(e) ==
  /\ at[e] = "loaded" /\ \E x \in web : asked' = asked \cup {x}
  /\ To(e, "bind") /\ UNCHANGED <<handed, stuck, through, stores, web, dns, facts, cut, late>>
Force(e) ==
  /\ at[e] = "loaded"
  /\ \/ Ends(Alive \ {e}, [at EXCEPT ![e] = "bind"])
     \/ Ends({e}, at)
  /\ UNCHANGED late

\* The dashboard's port: the successor waits ten seconds for it, as long as a leaving engine takes unless
\* its saves are stuck, and ends if it is refused; where Windows lets two engines have it, it has it at once.
OpenWeb(e) ==
  /\ at[e] = "bind" /\ (web = {} \/ shares) /\ To(e, "open") /\ web' = web \cup {e}
  /\ UNCHANGED <<handed, asked, stuck, through, stores, dns, facts, cut, late>>
WebRefused(e) ==
  /\ at[e] = "bind" /\ web # {} /\ ~shares /\ (asked \ stuck) \cap web = {}
  /\ Ends({e}, at) /\ UNCHANGED late

\* Broken on purpose (mutant): the successor tries the port once.
RefusedAtOnce == dns # Nobody

\* bind_dns, start_dns: the port is there, or does not come free for ten seconds and the engine does without.
Refused == dns # Nobody /\ dns \notin asked \ stuck
OpenDns(e) ==
  /\ at[e] = "open" /\ To(e, "up")
  /\ \/ dns = Nobody /\ dns' = e
     \/ Refused /\ UNCHANGED dns
  /\ UNCHANGED <<handed, asked, stuck, through, stores, web, facts, cut, late>>

-----------------------------------------------------------------------------
(* The stores of an engine that runs.                                      *)

\* Broken on purpose (mutant): the request is answered whether the rule could be saved or not.
RuleAnswered(e, ok) ==
  /\ at[e] = "up" /\ last < MaxDecisions /\ e \notin half /\ last' = last + 1
  /\ rules' = [rules EXCEPT ![e] = last + 1] /\ promised' = last + 1 /\ half' = half \cup {e}
  /\ ruleFile' = (IF ok THEN last + 1 ELSE ruleFile)
  /\ stale' = (stale \/ \E x \in Alive \ {e} : at[x] # "loading")
  /\ UNCHANGED <<at, handed, asked, stuck, through, entries, dirty, writes, entryFile, web, dns, behind, cut, late>>

\* PolicyStore.update: in memory, then on disk; when it cannot be saved the request fails, and no entry
\* is made. An engine that has loaded knows nothing of it.
Rule(e, ok) ==
  /\ at[e] = "up" /\ last < MaxDecisions /\ e \notin half /\ last' = last + 1
  /\ rules' = [rules EXCEPT ![e] = last + 1]
  /\ ruleFile' = (IF ok THEN last + 1 ELSE ruleFile) /\ promised' = (IF ok THEN last + 1 ELSE promised)
  /\ half' = (IF ok THEN half \cup {e} ELSE half)
  /\ stale' = (stale \/ \E x \in Alive \ {e} : at[x] # "loading")
  /\ UNCHANGED <<at, handed, asked, stuck, through, entries, dirty, writes, entryFile, web, dns, behind, cut, late>>

\* Broken on purpose (mutant): the entry waits for the next decision to be marked.
EntryUnmarked(e) ==
  /\ e \in half /\ half' = half \ {e}
  /\ entries' = [entries EXCEPT ![e] = rules[e]]
  /\ UNCHANGED <<at, handed, asked, stuck, through, rules, dirty, writes, ruleFile, entryFile, web, dns, facts, cut, late>>

\* _set_decision.
Entry(e) ==
  /\ e \in half /\ half' = half \ {e}
  /\ entries' = [entries EXCEPT ![e] = rules[e]] /\ dirty' = dirty \cup {e}
  /\ UNCHANGED <<at, handed, asked, stuck, through, rules, writes, ruleFile, entryFile, web, dns, facts, cut, late>>

\* PCProtection.flush: the mark is cleared, then the file written, outside the lock. "/api/handoff" saves
\* once, if anything is marked, on a thread of its own.
Flush(e, t) ==
  /\ IF t = "leave" THEN e \in asked \ (stuck \cup through) /\ at[e] # "gone" ELSE at[e] = "up"
  /\ e \in dirty /\ dirty' = dirty \ {e} /\ writes[e][t] = Nothing
  /\ writes' = [writes EXCEPT ![e][t] = entries[e]]
  /\ UNCHANGED <<at, handed, asked, stuck, through, rules, entries, half, ruleFile, entryFile, web, dns, facts, cut, late>>
\* Two threads write one .tmp: the one that renames it first renames what either has written.
Flushed(e, t) ==
  /\ writes[e][t] # Nothing /\ (t = "leave" => e \notin stuck)
  /\ \/ entryFile' \in Writing(e) /\ cut' = (cut \/ entryFile' < entryFile \/ entryFile' < writes[e][t])
     \/ cut' = TRUE /\ UNCHANGED entryFile
  /\ writes' = [writes EXCEPT ![e][t] = Nothing]
  /\ through' = (IF t = "leave" THEN through \cup {e} ELSE through)
  /\ UNCHANGED <<at, handed, asked, stuck, rules, entries, dirty, half, ruleFile, web, dns, facts, late>>
NothingToSave(e) ==
  /\ e \in asked \ (stuck \cup through \cup dirty) /\ at[e] # "gone" /\ writes[e]["leave"] = Nothing
  /\ through' = through \cup {e}
  /\ UNCHANGED <<at, handed, asked, stuck, stores, web, dns, facts, cut, late>>

\* Its saves are done, and it exits, whatever its other threads are at.
Leave(e) == e \in through \ stuck /\ at[e] # "gone" /\ Ends({e}, at) /\ UNCHANGED late

\* A save of the engine that leaves takes more than ten seconds; and is done after all.
Stick(e) ==
  /\ e \in asked \ stuck /\ at[e] # "gone" /\ stuck' = stuck \cup {e}
  /\ UNCHANGED <<at, handed, asked, through, stores, web, dns, facts, cut, late>>
ComesLoose(e) ==
  /\ e \in stuck /\ at[e] # "gone" /\ stuck' = stuck \ {e} /\ late' = TRUE
  /\ UNCHANGED <<at, handed, asked, through, stores, web, dns, facts, cut>>
Crash(e) == e \in Alive /\ Ends({e}, at) /\ late' = (late \/ dns = e \/ at[e] \in {"bind", "open"})

Step(e) ==
  \/ Start(e) \/ LoadRules(e) \/ LoadEntries(e) \/ Ask(e) \/ Force(e)
  \/ OpenWeb(e) \/ WebRefused(e) \/ OpenDns(e)
  \/ (\E ok \in BOOLEAN : Rule(e, ok)) \/ Entry(e) \/ (\E t \in Savers : Flush(e, t) \/ Flushed(e, t)) \/ NothingToSave(e)
  \/ Leave(e) \/ Stick(e) \/ ComesLoose(e) \/ Crash(e)
Next == UNCHANGED shares /\ \E e \in Engines : Step(e)

Spec == Init /\ [][Next]_vars

-----------------------------------------------------------------------------
(* Properties.                                                             *)

\* A decision whose request was answered is obeyed by every engine that comes to run, whichever way it came
\* to: unless its predecessor made it after the successor had loaded. That one is lost, or undone by the
\* successor's next save.
DecisionsPass == ~stale => \A e \in Engines : at[e] = "up" => rules[e] >= promised

\* What an engine loads explains the rules it loads, through threads that save at once, ends and starts:
\* unless an end or a failing write cut entries off, or one thread wrote over what another had saved; and
\* unless it took over from one that had not saved yet.
Loads(e) == at[e] \in {"loaded", "bind", "open"}
RulesExplained == ~(stale \/ behind \/ cut) => \A e \in Engines : Loads(e) => entries[e] >= rules[e]

\* "Backend ready: state is saved and the frontend exits": after an engine has left by itself, its
\* successor has what it saved, where nothing was decided once that one had loaded. Violated: the
\* successor has loaded before it asks, and its next save puts what it has in the file's place.
SavedIsTaken ==
  (through # {} /\ ~stale) => \A e \in Engines : (at[e] = "up" /\ handed[e]) => entries[e] >= entryFile

\* While engines run, names are answered, or one is about to: whatever takes over from whatever, together or
\* in turn; unless one that answered or was about to has crashed, or left when its successor no longer waited.
Answered ==
  (\E e \in Engines : at[e] = "up") /\ ~late => dns # Nobody \/ \E e \in Engines : at[e] \in {"bind", "open"}

\* What was decided, and why, outlives the engine that decided it.
StoresPass == DecisionsPass /\ RulesExplained

=============================================================================
