--------------------------- MODULE ServicesProofs --------------------------
(***************************************************************************)
(* Proofs about the handoff, the reminder and the mail watch of            *)
(* MCServices, each by itself and for any number of engines, decisions,    *)
(* addresses, messages and threads.                                        *)
(***************************************************************************)
EXTENDS MCServices, FiniteSetTheorems, TLAPS

-----------------------------------------------------------------------------
(* Handoff: engines that take over from each other.                        *)

Kinds ==
  /\ where \in [Engines -> {"off", "loading", "ruled", "loaded", "bind", "open", "up", "gone"}]
  /\ rules \in [Engines -> Int] /\ entries \in [Engines -> Int] /\ writes \in [Engines -> [Engine!Savers -> Int]]
  /\ ruleFile \in Nat /\ entryFile \in Int /\ made \in Nat
  /\ leaving \subseteq Engines /\ web \subseteq Engines /\ port \in Engines \cup {Nobody}
  /\ marked \subseteq Engines /\ half \subseteq Engines /\ through \subseteq leaving

\* What is written holds what was promised, and engines that load what is written are not ahead of it.
Numbers ==
  /\ promised = ruleFile /\ ruleFile <= made
  /\ \A e \in Engines : where[e] = "ruled" => rules[e] <= ruleFile
Latest ==
  /\ entryFile <= made
  /\ \A e \in Engines : rules[e] <= made /\ entries[e] <= made /\ \A t \in Engine!Savers : writes[e][t] <= made
  /\ \A e \in half : entries[e] <= rules[e]

\* An engine past its rules obeys what was promised.
Loaded == {"ruled", "loaded", "bind", "open", "up"}
Obeys == ~stale => \A e \in Engines : where[e] \in Loaded => rules[e] >= promised

\* Only an engine that runs has something to save; a rule in the file has its entry there, or on its way.
Saves(e) == e \in marked \/ e \in half \/ \E t \in Engine!Savers : writes[e][t] # -1
Savings ==
  /\ \A e \in Engines : Saves(e) => where[e] = "up"
  /\ \A e \in Engines : writes[e]["leave"] # -1 => e \in leaving
OnItsWay(e) ==
  \/ e \in half /\ rules[e] >= ruleFile
  \/ e \in marked /\ entries[e] >= ruleFile
  \/ \E t \in Engine!Savers : writes[e][t] >= ruleFile
Explained ==
  /\ ~cut => entryFile >= ruleFile \/ \E e \in Engines : OnItsWay(e)
  /\ ~(behind \/ cut) => \A e \in Engines : Engine!Loads(e) => entries[e] >= rules[e]

\* Who has the dashboard's port, who was asked to leave, who answers; without shared ports they are one.
Ports ==
  /\ \A e \in Engines : e \in web <=> where[e] \in {"open", "up"}
  /\ \A e \in leaving : where[e] \in {"open", "up", "gone"}
  /\ port # Nobody => where[port] = "up"
  /\ ~shares => (\A x, y \in web : x = y) /\ \A e \in Engines : where[e] = "up" => port = e

\* Somebody who is not about to leave is coming, or serves.
Going   == leaving \ stuck
Coming  == \E e \in Engines \ Going : where[e] \in {"bind", "open"}
Serving == port # Nobody /\ port \notin Going
Served  == ~late /\ (\E e \in Engines : where[e] \in {"bind", "open", "up"}) => Coming \/ Serving

EngineInv == Kinds /\ Numbers /\ Latest /\ Obeys /\ Savings /\ Explained /\ Ports /\ Served

LEMMA EngineBounds == Nobody \notin Engines
BY ServicesAssumption DEF Engine!HandoffAssumption

LEMMA UnsavedSaves == \A e : Engine!Unsaved(e) <=> Saves(e)
BY DEF Engine!Unsaved, Engine!Writing, Saves, Engine!Nothing

LEMMA EngineInvPasses ==
  ASSUME EngineInv
  PROVE  TakesOver
<1>1. Engine!StoresPass
  BY DEF EngineInv, Obeys, Explained, Loaded, Engine!StoresPass, Engine!DecisionsPass, Engine!RulesExplained, Engine!Loads
<1>2. Engine!Answered
  BY DEF EngineInv, Served, Coming, Serving, Engine!Answered
<1> QED BY <1>1, <1>2 DEF TakesOver

LEMMA EngineStart ==
  ASSUME Engine!Init
  PROVE  EngineInv
<1>1. \A e \in Engines : /\ where[e] = "off" /\ rules[e] = 0 /\ writes[e] = Engine!Idle /\ e \notin marked \cup half
                         /\ e \notin web \cup leaving
  BY DEF Engine!Init
<1>2. Kinds
  BY DEF Engine!Init, Kinds, Engine!Idle, Engine!Nothing
<1>2a. Latest
  BY <1>1 DEF Engine!Init, Latest, Engine!Idle, Engine!Nothing
<1>3. Numbers /\ Obeys /\ Ports /\ Served
  BY <1>1 DEF Engine!Init, Numbers, Obeys, Loaded, Ports, Served, Coming, Serving
<1>4. Savings
  BY <1>1 DEF Savings, Saves, Engine!Idle, Engine!Nothing, Engine!Savers
<1>5. Explained
  BY <1>1 DEF Engine!Init, Explained, Engine!Loads
<1> QED BY <1>2, <1>2a, <1>3, <1>4, <1>5 DEF EngineInv

\* main goes on: an engine starts, loads, asks, and opens its ports.
LEMMA EngineStarts ==
  ASSUME EngineInv, NEW e \in Engines, UNCHANGED shares, Engine!Start(e)
  PROVE  EngineInv'
<1> USE DEF EngineInv, Engine!Start, Engine!To, Engine!stores, Engine!facts
<1>1. where' = [where EXCEPT ![e] = "loading"] /\ where[e] = "off"
  OBVIOUS
<1>2. Kinds'
  BY <1>1 DEF Kinds
<1>3. Numbers' /\ Latest' /\ Obeys'
  BY <1>1 DEF Kinds, Numbers, Latest, Obeys, Loaded, Savings, Saves
<1>4. Savings' /\ Explained'
  BY <1>1 DEF Kinds, Savings, Explained, OnItsWay, Saves, Engine!Loads
<1>5. Ports' /\ Served'
  BY <1>1 DEF Kinds, Ports, Served, Coming, Serving, Going
<1> QED BY <1>2, <1>3, <1>4, <1>5

LEMMA EngineLoadsRules ==
  ASSUME EngineInv, NEW e \in Engines, UNCHANGED shares, Engine!LoadRules(e)
  PROVE  EngineInv'
<1> USE DEF EngineInv, Engine!LoadRules, Engine!To, Engine!facts
<1>1. where' = [where EXCEPT ![e] = "ruled"] /\ where[e] = "loading" /\ rules' = [rules EXCEPT ![e] = ruleFile]
  OBVIOUS
<1>2. Kinds'
  BY <1>1 DEF Kinds
<1>3. Numbers' /\ Latest' /\ Obeys'
  BY <1>1 DEF Kinds, Numbers, Latest, Obeys, Loaded, Savings, Saves
<1>4. Savings'
  BY <1>1 DEF Kinds, Savings, Saves
<1>5. Explained'
  <2>1. e \notin half
    BY <1>1 DEF Savings, Saves
  <2> QED BY <1>1, <2>1 DEF Kinds, Explained, OnItsWay, Engine!Loads
<1>6. Ports' /\ Served'
  BY <1>1 DEF Kinds, Ports, Served, Coming, Serving, Going
<1> QED BY <1>2, <1>3, <1>4, <1>5, <1>6

LEMMA EngineLoadsEntries ==
  ASSUME EngineInv, NEW e \in Engines, UNCHANGED shares, Engine!LoadEntries(e)
  PROVE  EngineInv'
<1> USE DEF EngineInv, Engine!LoadEntries, Engine!To
<1>1. /\ where' = [where EXCEPT ![e] = IF handed[e] THEN "loaded" ELSE "bind"] /\ where[e] = "ruled"
      /\ entries' = [entries EXCEPT ![e] = entryFile]
  OBVIOUS
<1>2. Kinds'
  BY <1>1 DEF Kinds
<1>3. Numbers' /\ Latest' /\ Obeys'
  BY <1>1 DEF Kinds, Numbers, Latest, Obeys, Loaded, Savings, Saves
<1>4. Savings'
  BY <1>1 DEF Kinds, Savings, Saves
<1>5. ~Saves(e)
  BY <1>1 DEF Savings
<1>6. ASSUME ~behind', ~cut
      PROVE  entryFile >= rules[e]
  <2>1. \A x \in Engines : ~Saves(x)
    BY <1>5, <1>6, UnsavedSaves DEF Savings, Engine!Alive
  <2>2. \A x \in Engines : ~OnItsWay(x)
    BY <2>1 DEF Kinds, OnItsWay, Saves
  <2> QED BY <1>1, <1>6, <2>2 DEF Kinds, Explained, Numbers
<1>7. Explained'
  <2>1. e \notin marked
    BY <1>5 DEF Saves
  <2>2. (~cut => entryFile >= ruleFile \/ \E x \in Engines : OnItsWay(x))'
    BY <1>1, <2>1 DEF Kinds, Explained, OnItsWay
  <2>3. ASSUME ~behind', ~cut', NEW x \in Engines, Engine!Loads(x)'
        PROVE  entries'[x] >= rules'[x]
    <3>1. CASE x = e
      BY <1>1, <1>6, <2>3, <3>1 DEF Kinds
    <3>2. CASE x # e
      BY <1>1, <2>3, <3>2 DEF Kinds, Explained, Engine!Loads
    <3> QED BY <3>1, <3>2
  <2> QED BY <2>2, <2>3 DEF Explained
<1>8. Ports'
  BY <1>1 DEF Kinds, Ports
<1>9. Served'
  <2>1. e \notin Going
    BY <1>1 DEF Ports, Going
  <2> QED BY <1>1, <2>1 DEF Kinds, Served, Coming, Serving, Going
<1> QED BY <1>2, <1>3, <1>4, <1>7, <1>8, <1>9

LEMMA EngineAsks ==
  ASSUME EngineInv, NEW e \in Engines, UNCHANGED shares, Engine!Ask(e)
  PROVE  EngineInv'
<1> USE DEF EngineInv, Engine!Ask, Engine!To, Engine!stores, Engine!facts
<1>1. PICK x \in web : leaving' = leaving \cup {x}
  OBVIOUS
<1>2. where' = [where EXCEPT ![e] = "bind"] /\ where[e] = "loaded"
  OBVIOUS
<1>3. Kinds'
  BY <1>1, <1>2 DEF Kinds
<1>4. Numbers' /\ Latest' /\ Obeys'
  BY <1>2 DEF Kinds, Numbers, Latest, Obeys, Loaded
<1>5. Savings' /\ Explained'
  BY <1>1, <1>2 DEF Kinds, Savings, Explained, OnItsWay, Saves, Engine!Loads
<1>6. Ports'
  BY <1>1, <1>2 DEF Kinds, Ports
<1>7. Served'
  <2>1. e \notin Going' /\ where'[e] = "bind"
    BY <1>1, <1>2 DEF Kinds, Ports, Going
  <2> QED BY <2>1 DEF Served, Coming
<1> QED BY <1>3, <1>4, <1>5, <1>6, <1>7

LEMMA EngineOpensWeb ==
  ASSUME EngineInv, NEW e \in Engines, UNCHANGED shares, Engine!OpenWeb(e)
  PROVE  EngineInv'
<1> USE DEF EngineInv, Engine!OpenWeb, Engine!To, Engine!stores, Engine!facts
<1>1. where' = [where EXCEPT ![e] = "open"] /\ where[e] = "bind" /\ web' = web \cup {e}
  OBVIOUS
<1>2. Kinds'
  BY <1>1 DEF Kinds
<1>3. Numbers' /\ Latest' /\ Obeys'
  BY <1>1 DEF Kinds, Numbers, Latest, Obeys, Loaded, Savings, Saves
<1>4. Savings' /\ Explained'
  BY <1>1 DEF Kinds, Savings, Explained, OnItsWay, Saves, Engine!Loads
<1>5. Ports'
  BY <1>1 DEF Kinds, Ports
<1>6. Served'
  BY <1>1 DEF Kinds, Served, Coming, Serving, Going
<1> QED BY <1>2, <1>3, <1>4, <1>5, <1>6

LEMMA EngineOpensDns ==
  ASSUME EngineInv, NEW e \in Engines, UNCHANGED shares, Engine!OpenDns(e)
  PROVE  EngineInv'
<1> USE DEF EngineInv, Engine!OpenDns, Engine!To, Engine!stores, Engine!facts
<1>1. /\ where' = [where EXCEPT ![e] = "up"] /\ where[e] = "open"
      /\ (port = Nobody /\ port' = e) \/ (Engine!Refused /\ port' = port)
  OBVIOUS
<1>2. Kinds'
  BY <1>1 DEF Kinds
<1>3. Numbers' /\ Latest' /\ Obeys'
  BY <1>1 DEF Kinds, Numbers, Latest, Obeys, Loaded, Savings, Saves
<1>4. Savings' /\ Explained'
  BY <1>1 DEF Kinds, Savings, Explained, OnItsWay, Saves, Engine!Loads
<1>5. Ports'
  <2>1. CASE port = Nobody /\ port' = e
    BY <1>1, <2>1, EngineBounds DEF Kinds, Ports
  <2>2. CASE Engine!Refused /\ port' = port
    <3>1. port \in web /\ e \in web /\ port # e /\ where[port] = "up"
      BY <1>1, <2>2 DEF Kinds, Ports, Engine!Refused
    <3> QED BY <1>1, <2>2, <3>1 DEF Kinds, Ports
  <2> QED BY <1>1, <2>1, <2>2
<1>6. Served'
  <2>1. CASE port = Nobody /\ port' = e
    BY <1>1, <2>1, EngineBounds DEF Kinds, Served, Coming, Serving, Going
  <2>2. CASE Engine!Refused /\ port' = port
    BY <1>1, <2>2 DEF Served, Serving, Going, Engine!Refused
  <2> QED BY <1>1, <2>1, <2>2
<1> QED BY <1>2, <1>3, <1>4, <1>5, <1>6

\* Engines end, whatever they are at: what they had not saved is lost, and is known to be.
LEMMA EnginesEnd ==
  ASSUME EngineInv, NEW E \in SUBSET Engines, NEW now1, Engine!Ends(E, now1), UNCHANGED shares,
         \/ now1 = where
         \/ \E e \in Engines \ E : where[e] = "loaded" /\ now1 = [where EXCEPT ![e] = "bind"]
  PROVE  Kinds' /\ Numbers' /\ Latest' /\ Obeys' /\ Savings' /\ Explained' /\ Ports'
<1> USE DEF EngineInv, Engine!Ends, Engine!facts
<1>1. /\ where' \in [Engines -> {"off", "loading", "ruled", "loaded", "bind", "open", "up", "gone"}]
      /\ \A x \in E : where'[x] = "gone"
      /\ \A x \in Engines \ E : where'[x] = where[x] \/ (where[x] = "loaded" /\ where'[x] = "bind")
  BY DEF Kinds
<1>2. /\ writes' \in [Engines -> [Engine!Savers -> Int]]
      /\ \A x \in E, t \in Engine!Savers : writes'[x][t] = -1
      /\ \A x \in Engines \ E : writes'[x] = writes[x]
  BY DEF Kinds, Engine!Idle, Engine!Nothing
<1>3. Kinds'
  BY <1>1, <1>2 DEF Kinds
<1>4. Numbers' /\ Obeys'
  BY <1>1 DEF Numbers, Obeys, Loaded
<1>4a. Latest'
  <2>1. made \in Nat
    BY DEF Kinds
  <2>2. ASSUME NEW x \in Engines, NEW t \in Engine!Savers
        PROVE  writes'[x][t] <= made
    <3>1. CASE x \in E
      <4>1. writes'[x][t] = -1
        BY <1>2, <3>1
      <4> HIDE DEF EngineInv, Engine!Ends
      <4> QED BY <2>1, <4>1
    <3>2. CASE x \notin E
      BY <1>2, <3>2 DEF Latest
    <3> QED BY <3>1, <3>2
  <2> QED BY <2>2 DEF Latest
<1>5. Savings'
  <2>1. "leave" \in Engine!Savers
    BY DEF Engine!Savers
  <2>2. ASSUME NEW x \in Engines
        PROVE  (Saves(x)' => where'[x] = "up") /\ (writes'[x]["leave"] # -1 => x \in leaving')
    <3>1. CASE x \in E
      BY <1>2, <2>1, <3>1 DEF Saves
    <3>2. CASE x \notin E
      BY <1>1, <1>2, <3>2 DEF Savings, Saves
    <3> QED BY <3>1, <3>2
  <2> QED BY <2>2 DEF Savings
<1>6. Explained'
  <2>1. cut' <=> cut \/ \E x \in E : Saves(x)
    BY UnsavedSaves
  <2>2. ASSUME ~cut', NEW x \in Engines, OnItsWay(x)
        PROVE  OnItsWay(x)'
    <3>1. Saves(x)
      BY <2>2 DEF OnItsWay, Saves, Kinds
    <3>2. x \notin E
      BY <2>1, <2>2, <3>1
    <3> QED BY <1>2, <2>2, <3>2 DEF OnItsWay
  <2>3. (~cut => entryFile >= ruleFile \/ \E x \in Engines : OnItsWay(x))'
    BY <2>1, <2>2 DEF Explained
  <2>4. ASSUME ~behind', ~cut', NEW x \in Engines, Engine!Loads(x)'
        PROVE  entries'[x] >= rules'[x]
    <3>1. Engine!Loads(x)
      BY <1>1, <2>4 DEF Engine!Loads
    <3> QED BY <2>1, <2>4, <3>1 DEF Explained
  <2> QED BY <2>3, <2>4 DEF Explained
<1>7. Ports'
  BY <1>1, EngineBounds DEF Kinds, Ports
<1> QED BY <1>3, <1>4, <1>4a, <1>5, <1>6, <1>7

LEMMA EngineForces ==
  ASSUME EngineInv, NEW e \in Engines, UNCHANGED shares, Engine!Force(e)
  PROVE  EngineInv'
<1>1. where[e] = "loaded" /\ late' = late /\ e \notin leaving
  BY DEF EngineInv, Ports, Engine!Force
<1>2. CASE Engine!Ends(Engine!Alive \ {e}, [where EXCEPT ![e] = "bind"])
  <2>1. Kinds' /\ Numbers' /\ Latest' /\ Obeys' /\ Savings' /\ Explained' /\ Ports'
    BY <1>1, <1>2, EnginesEnd DEF Engine!Alive
  <2>2. where'[e] = "bind" /\ leaving' = leaving
    BY <1>2 DEF Engine!Ends, EngineInv, Kinds
  <2>3. Served'
    BY <1>1, <2>2 DEF Served, Coming, Going
  <2> QED BY <2>1, <2>3 DEF EngineInv
<1>3. CASE Engine!Ends({e}, where)
  <2>1. Kinds' /\ Numbers' /\ Latest' /\ Obeys' /\ Savings' /\ Explained' /\ Ports'
    BY <1>3, EnginesEnd
  <2>2. where' = [where EXCEPT ![e] = "gone"] /\ port' = port /\ UNCHANGED <<leaving, stuck>>
    BY <1>1, <1>3, EngineBounds DEF Engine!Ends, EngineInv, Kinds, Ports
  <2>3. Served'
    BY <1>1, <2>2 DEF EngineInv, Kinds, Served, Coming, Serving, Going
  <2> QED BY <2>1, <2>3 DEF EngineInv
<1> QED BY <1>2, <1>3 DEF Engine!Force

LEMMA EngineRefused ==
  ASSUME EngineInv, NEW e \in Engines, UNCHANGED shares, Engine!WebRefused(e)
  PROVE  EngineInv'
<1>1. where[e] = "bind" /\ Engine!Ends({e}, where) /\ late' = late /\ ~shares /\ web # {} /\ Going \cap web = {}
  BY DEF Engine!WebRefused, Going
<1>2. Kinds' /\ Numbers' /\ Latest' /\ Obeys' /\ Savings' /\ Explained' /\ Ports'
  BY <1>1, EnginesEnd
<1>3. where' = [where EXCEPT ![e] = "gone"] /\ port' = port /\ UNCHANGED <<leaving, stuck>>
  BY <1>1, EngineBounds DEF Engine!Ends, EngineInv, Kinds, Ports
<1>4. PICK w \in web : w \notin Going /\ w \in Engines /\ w # e /\ (where[w] = "open" \/ (where[w] = "up" /\ port = w))
  BY <1>1 DEF EngineInv, Kinds, Ports
<1>5. Served'
  BY <1>3, <1>4, EngineBounds DEF EngineInv, Kinds, Served, Coming, Serving, Going
<1> QED BY <1>2, <1>5 DEF EngineInv

LEMMA EngineLeaves ==
  ASSUME EngineInv, NEW e \in Engines, UNCHANGED shares, Engine!Leave(e)
  PROVE  EngineInv'
<1>1. e \in Going /\ Engine!Ends({e}, where) /\ late' = late
  BY DEF Engine!Leave, Going, EngineInv, Kinds
<1>2. Kinds' /\ Numbers' /\ Latest' /\ Obeys' /\ Savings' /\ Explained' /\ Ports'
  BY <1>1, EnginesEnd
<1>3. where' = [where EXCEPT ![e] = "gone"] /\ port' = (IF port = e THEN Nobody ELSE port) /\ UNCHANGED <<leaving, stuck>>
  BY <1>1 DEF Engine!Ends, EngineInv, Kinds
<1>4. Served'
  BY <1>1, <1>3 DEF EngineInv, Kinds, Served, Coming, Serving, Going
<1> QED BY <1>2, <1>4 DEF EngineInv

LEMMA EngineCrashes ==
  ASSUME EngineInv, NEW e \in Engines, UNCHANGED shares, Engine!Crash(e)
  PROVE  EngineInv'
<1>1. Engine!Ends({e}, where) /\ late' = (late \/ port = e \/ where[e] \in {"bind", "open"})
  BY DEF Engine!Crash
<1>2. Kinds' /\ Numbers' /\ Latest' /\ Obeys' /\ Savings' /\ Explained' /\ Ports'
  BY <1>1, EnginesEnd
<1>3. where' = [where EXCEPT ![e] = "gone"] /\ (~late' => port' = port) /\ UNCHANGED <<leaving, stuck>>
  BY <1>1 DEF Engine!Ends, EngineInv, Kinds
<1>4. Served'
  BY <1>1, <1>3 DEF EngineInv, Kinds, Served, Coming, Serving, Going
<1> QED BY <1>2, <1>4 DEF EngineInv

\* A decision is made, saved or not, and its entry follows; the entries are saved.
LEMMA EngineDecides ==
  ASSUME EngineInv, NEW e \in Engines, NEW ok \in BOOLEAN, UNCHANGED shares, Engine!Rule(e, ok)
  PROVE  EngineInv'
<1> USE DEF EngineInv, Engine!Rule
<1>1. /\ where[e] = "up" /\ where' = where /\ rules' = [rules EXCEPT ![e] = made + 1] /\ made' = made + 1
      /\ made \in Nat /\ ruleFile <= made /\ promised = ruleFile
  BY DEF Kinds, Numbers
<1>2. \/ ruleFile' = made + 1 /\ promised' = made + 1 /\ half' = half \cup {e}
      \/ UNCHANGED <<ruleFile, promised, half>>
  OBVIOUS
<1>3. Kinds'
  BY <1>1, <1>2 DEF Kinds
<1>4. Numbers'
  <2>1. ruleFile \in Nat /\ \A x \in Engines : where[x] = "ruled" => rules'[x] = rules[x] /\ rules[x] \in Int
    BY <1>1 DEF Kinds
  <2> QED BY <1>1, <1>2, <2>1 DEF Numbers
<1>4a. Latest'
  <2>1. entryFile \in Int /\ \A x \in Engines : /\ rules[x] \in Int /\ entries[x] \in Int
                                               /\ \A t \in Engine!Savers : writes[x][t] \in Int
    BY DEF Kinds
  <2>2. \A x \in Engines : rules'[x] = made + 1 \/ rules'[x] = rules[x]
    BY <1>1 DEF Kinds
  <2>3. rules'[e] = made + 1 /\ \A x \in half' \ {e} : rules'[x] = rules[x] /\ x \in half
    BY <1>1, <1>2 DEF Kinds
  <2> QED BY <1>1, <1>2, <2>1, <2>2, <2>3 DEF Kinds, Latest
<1>5. Obeys'
  <2> SUFFICES ASSUME ~stale', NEW x \in Engines, where[x] \in Loaded
               PROVE  rules'[x] >= promised'
    BY <1>1 DEF Obeys
  <2>1. CASE x = e
    BY <1>1, <1>2, <2>1 DEF Kinds
  <2>2. CASE x # e
    BY <2>2 DEF Engine!Alive, Loaded
  <2> QED BY <2>1, <2>2
<1>6. Savings'
  BY <1>1, <1>2 DEF Savings, Saves
<1>7. Explained'
  <2>1. (~cut => entryFile >= ruleFile \/ \E x \in Engines : OnItsWay(x))'
    <3>1. CASE ruleFile' = made + 1 /\ half' = half \cup {e}
      <4>1. OnItsWay(e)'
        BY <1>1, <3>1 DEF Kinds, OnItsWay
      <4> QED BY <4>1
    <3>2. CASE UNCHANGED <<ruleFile, half>>
      <4>1. \A x \in Engines : rules'[x] >= rules[x] \/ x \notin half
        BY <1>1 DEF Kinds
      <4>2. \A x \in Engines : OnItsWay(x) => OnItsWay(x)'
        BY <1>1, <3>2, <4>1 DEF Kinds, OnItsWay
      <4> QED BY <3>2, <4>2 DEF Explained
    <3> QED BY <1>2, <3>1, <3>2
  <2>2. \A x \in Engines : Engine!Loads(x) => x # e
    BY <1>1 DEF Engine!Loads
  <2> QED BY <1>1, <2>1, <2>2 DEF Kinds, Explained, Engine!Loads
<1>8. Ports' /\ Served'
  BY <1>1 DEF Ports, Served, Coming, Serving, Going
<1> QED BY <1>3, <1>4, <1>4a, <1>5, <1>6, <1>7, <1>8

LEMMA EngineExplains ==
  ASSUME EngineInv, NEW e \in Engines, UNCHANGED shares, Engine!Entry(e)
  PROVE  EngineInv'
<1> USE DEF EngineInv, Engine!Entry, Engine!facts
<1>1. /\ where[e] = "up" /\ e \in half /\ half' = half \ {e} /\ marked' = marked \cup {e}
      /\ entries' = [entries EXCEPT ![e] = rules[e]]
  BY DEF Savings, Saves
<1>2. Kinds' /\ Numbers' /\ Latest' /\ Obeys'
  BY <1>1 DEF Kinds, Numbers, Latest, Obeys
<1>3. Savings'
  BY <1>1 DEF Savings, Saves
<1>4. Explained'
  <2>1. \A x \in Engines : OnItsWay(x) => OnItsWay(x)'
    <3> SUFFICES ASSUME NEW x \in Engines, OnItsWay(x)
                 PROVE  OnItsWay(x)'
      OBVIOUS
    <3>1. CASE x # e
      BY <1>1, <3>1 DEF Kinds, OnItsWay
    <3>2. CASE x = e /\ e \in half /\ rules[e] >= ruleFile
      BY <1>1, <3>2 DEF Kinds, OnItsWay
    <3>3. CASE x = e /\ \E t \in Engine!Savers : writes[e][t] >= ruleFile
      BY <3>3 DEF OnItsWay
    <3>4. CASE x = e /\ e \in marked /\ entries[e] >= ruleFile /\ rules[e] < ruleFile
      BY <1>1, <3>4 DEF Kinds, Latest
    <3> QED BY <1>1, <3>1, <3>2, <3>3, <3>4 DEF Kinds, OnItsWay
  <2>2. \A x \in Engines : Engine!Loads(x) => x # e
    BY <1>1 DEF Engine!Loads
  <2> QED BY <1>1, <2>1, <2>2 DEF Kinds, Explained, Engine!Loads
<1>5. Ports' /\ Served'
  BY DEF Ports, Served, Coming, Serving, Going
<1> QED BY <1>2, <1>3, <1>4, <1>5

\* A store is being saved: what its threads write, and whether they are done, is all that changes.
LEMMA EngineFlushes ==
  ASSUME EngineInv, NEW e \in Engines, NEW t \in Engine!Savers, UNCHANGED shares, Engine!Flush(e, t)
  PROVE  EngineInv'
<1> USE DEF EngineInv, Engine!Flush, Engine!facts
<1>1. /\ where[e] = "up" /\ e \in marked /\ marked' = marked \ {e} /\ (t = "leave" => e \in leaving)
      /\ writes' = [writes EXCEPT ![e][t] = entries[e]] /\ writes[e][t] = -1
  BY DEF Savings, Saves, Engine!Nothing
<1>2. /\ writes' \in [Engines -> [Engine!Savers -> Int]] /\ writes'[e][t] = entries[e]
      /\ \A x \in Engines, s \in Engine!Savers : x # e \/ s # t => writes'[x][s] = writes[x][s]
  BY <1>1 DEF Kinds
<1>3. Kinds' /\ Numbers' /\ Obeys'
  BY <1>1, <1>2 DEF Kinds, Numbers, Obeys
<1>4. Latest'
  <2>1. ASSUME NEW x \in Engines, NEW s \in Engine!Savers
        PROVE  writes'[x][s] <= made
    BY <1>2 DEF Latest
  <2> QED BY <2>1 DEF Latest
<1>5. Savings'
  <2>1. "leave" \in Engine!Savers
    BY DEF Engine!Savers
  <2>2. ASSUME NEW x \in Engines
        PROVE  (Saves(x)' => where'[x] = "up") /\ (writes'[x]["leave"] # -1 => x \in leaving')
    BY <1>1, <1>2, <2>1 DEF Savings, Saves
  <2> QED BY <2>2 DEF Savings
<1>6. Explained'
  <2>1. ASSUME NEW x \in Engines, OnItsWay(x)
        PROVE  OnItsWay(x)'
    <3>1. CASE x = e /\ entries[e] >= ruleFile
      BY <1>2, <3>1 DEF OnItsWay
    <3>2. CASE x \in half /\ rules[x] >= ruleFile
      BY <3>2 DEF OnItsWay
    <3>3. CASE x # e /\ x \in marked /\ entries[x] >= ruleFile
      BY <1>1, <3>3 DEF OnItsWay
    <3>4. ASSUME NEW s \in Engine!Savers, writes[x][s] >= ruleFile
          PROVE  OnItsWay(x)'
      <4>1. x # e \/ s # t
        BY <1>1, <3>4 DEF Kinds
      <4> QED BY <1>2, <3>4, <4>1 DEF OnItsWay
    <3> QED BY <2>1, <3>1, <3>2, <3>3, <3>4 DEF OnItsWay
  <2> QED BY <2>1 DEF Explained, Engine!Loads
<1>7. Ports' /\ Served'
  BY DEF Ports, Served, Coming, Serving, Going
<1> QED BY <1>3, <1>4, <1>5, <1>6, <1>7

LEMMA EngineFlushed ==
  ASSUME EngineInv, NEW e \in Engines, NEW t \in Engine!Savers, UNCHANGED shares, Engine!Flushed(e, t)
  PROVE  EngineInv'
<1> USE DEF EngineInv, Engine!Flushed, Engine!facts
<1>1. /\ writes[e][t] # -1 /\ where[e] = "up" /\ (t = "leave" => e \in leaving)
      /\ writes' = [writes EXCEPT ![e][t] = -1]
      /\ \/ \E s \in Engine!Savers : /\ entryFile' = writes[e][s]
                                     /\ cut' = (cut \/ entryFile' < entryFile \/ entryFile' < writes[e][t])
         \/ cut' = TRUE /\ UNCHANGED entryFile
      /\ through' = (IF t = "leave" THEN through \cup {e} ELSE through)
  BY DEF Savings, Saves, Engine!Nothing, Engine!Writing
<1>2. /\ writes' \in [Engines -> [Engine!Savers -> Int]] /\ writes'[e][t] = -1
      /\ \A x \in Engines, s \in Engine!Savers : x # e \/ s # t => writes'[x][s] = writes[x][s]
  BY <1>1 DEF Kinds
<1>3. Kinds' /\ Numbers' /\ Obeys'
  BY <1>1, <1>2 DEF Kinds, Numbers, Obeys
<1>4. Latest'
  <2>1. ASSUME NEW x \in Engines, NEW s \in Engine!Savers
        PROVE  writes'[x][s] <= made
    BY <1>2 DEF Kinds, Latest
  <2> QED BY <1>1, <2>1 DEF Latest
<1>5. Savings'
  <2>1. "leave" \in Engine!Savers
    BY DEF Engine!Savers
  <2>2. ASSUME NEW x \in Engines
        PROVE  (Saves(x)' => where'[x] = "up") /\ (writes'[x]["leave"] # -1 => x \in leaving')
    BY <1>1, <1>2, <2>1 DEF Savings, Saves
  <2> QED BY <2>2 DEF Savings
<1>6. Explained'
  <2>1. ASSUME ~cut'
        PROVE  entryFile' >= ruleFile \/ \E x \in Engines : OnItsWay(x)'
    <3>1. ~cut /\ entryFile' \in Int /\ entryFile' >= entryFile /\ entryFile' >= writes[e][t]
      <4>1. PICK s \in Engine!Savers : /\ entryFile' = writes[e][s]
                                       /\ cut' = (cut \/ entryFile' < entryFile \/ entryFile' < writes[e][t])
        BY <1>1, <2>1
      <4>2. entryFile' \in Int /\ entryFile \in Int /\ writes[e][t] \in Int
        BY <4>1 DEF Kinds
      <4>3. ~cut /\ ~(entryFile' < entryFile) /\ ~(entryFile' < writes[e][t])
        BY <2>1, <4>1, Zenon
      <4> QED BY <4>2, <4>3
    <3>2. CASE entryFile >= ruleFile
      BY <3>1, <3>2 DEF Kinds
    <3>3. ASSUME NEW x \in Engines, OnItsWay(x)
          PROVE  entryFile' >= ruleFile \/ OnItsWay(x)'
      <4>1. CASE (x \in half /\ rules[x] >= ruleFile) \/ (x \in marked /\ entries[x] >= ruleFile)
        BY <4>1 DEF OnItsWay
      <4>2. ASSUME NEW s \in Engine!Savers, writes[x][s] >= ruleFile
            PROVE  entryFile' >= ruleFile \/ OnItsWay(x)'
        <5>1. CASE x = e /\ s = t
          BY <3>1, <4>2, <5>1 DEF Kinds
        <5>2. CASE x # e \/ s # t
          BY <1>2, <4>2, <5>2 DEF OnItsWay
        <5> QED BY <5>1, <5>2
      <4> QED BY <3>3, <4>1, <4>2 DEF OnItsWay
    <3> QED BY <3>1, <3>2, <3>3 DEF Explained
  <2> QED BY <1>1, <2>1 DEF Explained, Engine!Loads
<1>7. Ports' /\ Served'
  BY DEF Ports, Served, Coming, Serving, Going
<1> QED BY <1>3, <1>4, <1>5, <1>6, <1>7

\* An engine that leaves has nothing to save; its saves are stuck, or done after all.
LEMMA EngineLingers ==
  ASSUME EngineInv, NEW e \in Engines, UNCHANGED shares,
         Engine!NothingToSave(e) \/ Engine!Stick(e) \/ Engine!ComesLoose(e)
  PROVE  EngineInv'
<1> USE DEF EngineInv, Engine!NothingToSave, Engine!Stick, Engine!ComesLoose, Engine!stores, Engine!facts
<1>1. /\ UNCHANGED <<where, leaving, rules, entries, marked, half, writes, ruleFile, entryFile, web, port, made, promised,
                     stale, behind, cut>>
      /\ through' \subseteq leaving
      /\ late' \/ (late' = late /\ stuck \subseteq stuck')
  BY DEF Kinds
<1>2. Kinds' /\ Numbers' /\ Latest' /\ Obeys'
  BY <1>1 DEF Kinds, Numbers, Latest, Obeys
<1>3. Savings' /\ Explained'
  BY <1>1 DEF Savings, Saves, Explained, OnItsWay, Engine!Loads
<1>4. Ports' /\ Served'
  BY <1>1 DEF Ports, Served, Coming, Serving, Going
<1> QED BY <1>2, <1>3, <1>4

LEMMA EngineStep ==
  ASSUME EngineInv, [Engine!Next]_(Engine!vars)
  PROVE  EngineInv'
<1>1. CASE UNCHANGED Engine!vars
  <2>1. Kinds' /\ Numbers' /\ Latest' /\ Obeys'
    BY <1>1 DEF Engine!vars, EngineInv, Kinds, Numbers, Latest, Obeys
  <2>2. Savings' /\ Explained'
    BY <1>1 DEF Engine!vars, EngineInv, Savings, Saves, Explained, OnItsWay, Engine!Loads
  <2>3. Ports' /\ Served'
    BY <1>1 DEF Engine!vars, EngineInv, Ports, Served, Coming, Serving, Going
  <2> QED BY <2>1, <2>2, <2>3 DEF EngineInv
<1>2. CASE Engine!Next
  <2>1. PICK e \in Engines : Engine!Step(e) /\ UNCHANGED shares
    BY <1>2 DEF Engine!Next
  <2> QED
    BY <2>1, EngineStarts, EngineLoadsRules, EngineLoadsEntries, EngineAsks, EngineForces, EngineOpensWeb, EngineRefused,
       EngineOpensDns, EngineDecides, EngineExplains, EngineFlushes, EngineFlushed, EngineLingers, EngineLeaves, EngineCrashes
    DEF Engine!Step
<1> QED BY <1>1, <1>2

\* However many engines take over from each other, and whatever they decide: a decision that was answered is
\* obeyed by every engine that comes to run, what an engine loads explains the rules it loads, and somebody
\* answers, or is about to (main, take_over, bind_dns, PolicyStore.update, PCProtection.flush).
THEOREM EnginesTakeOver == Engine!Spec => []TakesOver
<1>1. Engine!Init => EngineInv
  BY EngineStart
<1>2. EngineInv /\ [Engine!Next]_(Engine!vars) => EngineInv'
  BY EngineStep
<1>3. EngineInv => TakesOver
  BY EngineInvPasses
<1> QED BY <1>1, <1>2, <1>3, PTL DEF Engine!Spec

-----------------------------------------------------------------------------
(* Phone: the reminders of the connection and of this computer's address.  *)

Colours == {"green", "orange", "red"}
Notes == [state : {"waiting", "connected", "lost", "disconnected"}, quiet : Int, waited : Int,
          green : BOOLEAN, orange : BOOLEAN, red : BOOLEAN]
Noting ==
  /\ heard \in Int /\ mem \in Notes /\ kept \in Notes /\ sent \in [Colours -> Nat]
  /\ noted \in BOOLEAN /\ lost \in BOOLEAN /\ asked \in BOOLEAN

\* Only a device that has been heard is lost, and only one that has not is disconnected.
Sound(m) == (m.state = "lost" => m.quiet >= 0) /\ (m.state = "disconnected" => m.quiet < 0)
Sounds   == Sound(mem) /\ (kept = Phone!None \/ Sound(kept)) /\ (~noted => heard >= 0)

\* A state that remembers: what was sent is marked in it, and a device that asked is in it.
Remembers(m) ==
  /\ sent["green"] <= 1 /\ (sent["green"] = 1 => m.green)
  /\ sent["orange"] <= 1 /\ (sent["orange"] = 1 => m.orange)
  /\ sent["red"] <= 1 /\ (sent["red"] = 1 => m.red \/ m.quiet >= 0)
  /\ asked => m.quiet >= 0

\* The state the engine has, or will start with, remembers, unless a crash lost what the file did not have.
Remembered ==
  ~lost => /\ alive => Remembers(mem)
           /\ ~alive /\ kept = Phone!None => Remembers(Phone!First)
           /\ ~alive /\ kept # Phone!None => Remembers(kept)

\* The address in the file is the one the watch goes by, the one it goes by was told of or will be;
\* or a change was missed.
AddressKept ==
  /\ tell \in BOOLEAN /\ missed \in BOOLEAN /\ alive \in BOOLEAN /\ (on => alive)
  /\ alive => /\ written \in {Nowhere, known} \/ missed
              /\ tell => written = known
              /\ known # Nowhere => known = told \/ tell \/ missed
  /\ ~alive => /\ ~tell /\ mem.state = "waiting"
               /\ written # Nowhere => written = told \/ missed

ReminderInv == Noting /\ Sounds /\ Remembered /\ AddressKept

LEMMA AgedNotes ==
  ASSUME NEW m \in Notes
  PROVE  /\ Phone!Aged(m) \in Notes /\ Phone!Aged(m).state = m.state
         /\ Phone!Aged(m).green = m.green /\ Phone!Aged(m).orange = m.orange /\ Phone!Aged(m).red = m.red
         /\ Phone!Aged(m).quiet >= 0 <=> m.quiet >= 0
<1>1. m.quiet \in Int /\ m.waited \in Int
  BY DEF Notes
<1>2. Phone!Older(m.quiet, Lost) \in Int /\ Phone!Older(m.waited, Grace) \in Int
      /\ (Phone!Older(m.quiet, Lost) >= 0 <=> m.quiet >= 0)
  BY <1>1 DEF Phone!Older
<1>3. Phone!Aged(m) = [[m EXCEPT !.quiet = Phone!Older(m.quiet, Lost)] EXCEPT !.waited = Phone!Older(m.waited, Grace)]
  BY DEF Phone!Aged, Notes
<1> HIDE DEF Phone!Older
<1> QED BY <1>2, <1>3 DEF Notes

LEMMA FirstNotes ==
  /\ Phone!First \in Notes /\ Sound(Phone!First) /\ Phone!None \in Notes
  /\ Phone!First.state = "waiting" /\ Phone!First.quiet = -1 /\ Phone!None.quiet = -1 /\ Phone!None.state = "lost"
<1>1. Phone!First \in Notes /\ Phone!First.quiet = -1 /\ Phone!First.state = "waiting"
  BY DEF Phone!First, Notes
<1>2. Phone!None \in Notes /\ Phone!None.quiet = -1 /\ Phone!None.state = "lost"
  BY <1>1 DEF Phone!None, Notes
<1> QED BY <1>1, <1>2 DEF Sound

LEMMA ReminderInvReminds ==
  ASSUME ReminderInv
  PROVE  Reminded
<1>1. Phone!NoticedOnce
  <2> SUFFICES ASSUME ~lost, NEW c \in DOMAIN sent
               PROVE  sent[c] <= 1
    BY DEF Phone!NoticedOnce
  <2>1. c \in {"green", "orange", "red"}
    BY DEF ReminderInv, Noting, Colours
  <2>2. \E m : Remembers(m)
    BY DEF ReminderInv, Remembered, AddressKept
  <2> QED BY <2>1, <2>2 DEF Remembers
<1>2. Phone!Latched
  <2> SUFFICES ASSUME ~lost, mem.state = "disconnected", asked
               PROVE  FALSE
    BY DEF Phone!Latched
  <2>1. mem.quiet < 0 /\ mem.quiet \in Int
    BY DEF ReminderInv, Sounds, Sound, Noting, Notes
  <2>2. alive
    BY DEF ReminderInv, AddressKept
  <2> QED BY <2>1, <2>2 DEF ReminderInv, Remembered, Remembers
<1>3. Phone!AddressTold
  BY DEF ReminderInv, AddressKept, Phone!AddressTold
<1> QED BY <1>1, <1>2, <1>3 DEF Reminded, Phone!Reminded

LEMMA ReminderStart ==
  ASSUME Phone!Init
  PROVE  ReminderInv
<1>1. Noting
  <2>1. sent \in [Colours -> Nat]
    BY DEF Phone!Init, Phone!Unsent, Colours
  <2>2. /\ heard = -1 /\ mem = Phone!First /\ kept = Phone!None
        /\ noted = TRUE /\ lost = FALSE /\ asked = FALSE
    BY DEF Phone!Init
  <2>3. mem \in Notes /\ kept \in Notes /\ heard \in Int
    BY <2>2, FirstNotes
  <2>4. noted \in BOOLEAN /\ lost \in BOOLEAN /\ asked \in BOOLEAN
    BY <2>2
  <2> QED BY <2>1, <2>3, <2>4 DEF Noting
<1>2. Sounds
  BY FirstNotes DEF Phone!Init, Sounds
<1>3. Remembered
  BY FirstNotes DEF Phone!Init, Remembered, Remembers, Phone!Unsent
<1>4. AddressKept
  BY FirstNotes DEF Phone!Init, AddressKept
<1> QED BY <1>1, <1>2, <1>3, <1>4 DEF ReminderInv

\* What a step other than the clock's and an evaluation may do to the notes.
LEMMA NotesStay ==
  ASSUME ReminderInv, UNCHANGED <<heard, noted, mem, sent, lost, asked, alive>>, kept' \in {mem, kept}, alive
  PROVE  Noting' /\ Sounds' /\ Remembered'
BY DEF ReminderInv, Noting, Sounds, Remembered, Remembers

LEMMA ClockKeeps ==
  ASSUME ReminderInv, Phone!Tick
  PROVE  ReminderInv'
<1>1. mem \in Notes /\ kept \in Notes /\ mem' = Phone!Aged(mem) /\ heard \in Int
      /\ kept' = (IF kept = Phone!None THEN Phone!None ELSE Phone!Aged(kept))
      /\ UNCHANGED <<alive, on, noted, sent, asked, lost, known, tell, written, told, missed>>
  BY DEF ReminderInv, Noting, Phone!Tick, Phone!watch
<1>2. heard' \in Int /\ (heard >= 0 => heard' >= 0)
  BY <1>1 DEF Phone!Tick, Phone!Older
<1>3. Noting'
  BY <1>1, <1>2, AgedNotes, FirstNotes DEF ReminderInv, Noting
<1>4. Sounds' /\ (kept' = Phone!None <=> kept = Phone!None)
  <2>1. kept # Phone!None => Sound(Phone!Aged(kept)) /\ Phone!Aged(kept) # Phone!None
    <3>1. SUFFICES ASSUME kept # Phone!None
                   PROVE  Sound(Phone!Aged(kept)) /\ Phone!Aged(kept) # Phone!None
      OBVIOUS
    <3>2. Sound(kept)
      BY <3>1 DEF ReminderInv, Sounds
    <3>3. kept.quiet \in Int /\ Phone!Aged(kept).quiet \in Int
      BY <1>1, AgedNotes DEF Notes
    <3>4. Sound(Phone!Aged(kept))
      BY <1>1, <3>2, <3>3, AgedNotes DEF Sound
    <3> QED BY <3>4, FirstNotes DEF Sound
  <2>2. Sound(Phone!Aged(mem))
    <3>1. Sound(mem) /\ mem.quiet \in Int /\ Phone!Aged(mem).quiet \in Int
      BY <1>1, AgedNotes DEF ReminderInv, Sounds, Notes
    <3> QED BY <1>1, <3>1, AgedNotes DEF Sound
  <2>3. ~noted' => heard' >= 0
    BY <1>1, <1>2 DEF ReminderInv, Sounds
  <2> QED BY <1>1, <2>1, <2>2, <2>3 DEF Sounds
<1>5. Remembered'
  <2>1. \A m \in Notes : Remembers(m) => Remembers(Phone!Aged(m))
    BY AgedNotes DEF Remembers
  <2>2. \A m : Remembers(m) => Remembers(m)'
    BY <1>1 DEF Remembers
  <2>3. ~lost' => ~lost /\ (alive' <=> alive)
    BY <1>1
  <2> QED BY <1>1, <1>4, <2>1, <2>3 DEF ReminderInv, Remembered, Remembers
<1>6. AddressKept'
  BY <1>1, AgedNotes DEF ReminderInv, AddressKept
<1> QED BY <1>3, <1>4, <1>5, <1>6 DEF ReminderInv

\* What an evaluation makes of the notes: the flag of what is due, and its notice, go together.
LEMMA EvaluationNotes ==
  ASSUME ReminderInv, Phone!Evaluate
  PROVE  /\ mem' \in Notes /\ sent' \in [Colours -> Nat] /\ Sound(mem')
         /\ Remembers(mem) => Remembers(mem)'
<1> DEFINE n   == Phone!Noted(mem)
           j   == Phone!Judged(n)
           m   == Phone!Entered(n, j)
           due == Phone!Due(m)
           over(c) == \/ c = "green" /\ (mem.state = "lost" \/ m.state = "disconnected")
                      \/ c = "orange" /\ ~noted
           before(c) == IF over(c) THEN 0 ELSE sent[c]
<1>1. mem \in Notes /\ heard \in Int /\ Sound(mem) /\ (~noted => heard >= 0) /\ sent \in [Colours -> Nat]
  BY DEF ReminderInv, Noting, Sounds
<1>2. /\ n \in Notes /\ n.state = mem.state /\ n.quiet = (IF noted THEN mem.quiet ELSE heard)
      /\ n.green = (mem.green /\ (noted \/ mem.state # "lost"))
      /\ n.orange = (mem.orange /\ noted) /\ n.red = (mem.red /\ noted)
  <2>1. CASE noted
    BY <1>1, <2>1 DEF Phone!Noted, Notes
  <2>2. CASE ~noted
    <3> DEFINE w == IF heard < Grace THEN heard ELSE Grace
    <3>1. w \in Int
      BY <1>1, ServicesAssumption DEF Phone!ReminderAssumption
    <3>2. n = [[[[[mem EXCEPT !.quiet = heard] EXCEPT !.waited = w] EXCEPT !.red = FALSE] EXCEPT !.orange = FALSE]
               EXCEPT !.green = mem.green /\ mem.state # "lost"]
      BY <2>2, <1>1 DEF Phone!Noted, Notes
    <3> HIDE DEF w, n
    <3> QED BY <1>1, <2>2, <3>1, <3>2 DEF Notes
  <2> QED BY <2>1, <2>2
<1> HIDE DEF n
<1>3. /\ j \in {"waiting", "connected", "lost", "disconnected"}
      /\ (j = "lost" => n.quiet >= 0) /\ (j = "disconnected" => n.quiet < 0)
  BY <1>2 DEF Phone!Judged, Notes
<1> HIDE DEF j
<1>4. /\ m \in Notes /\ m.state = j /\ m.quiet = n.quiet /\ m.orange = n.orange /\ m.red = n.red
      /\ m.green = (n.green /\ ~(j = "disconnected" /\ n.state # "disconnected"))
  <2>1. m = [[n EXCEPT !.state = j] EXCEPT !.green = n.green /\ ~(j = "disconnected" /\ n.state # "disconnected")]
    BY <1>2 DEF Phone!Entered, Notes
  <2> QED BY <1>2, <1>3, <2>1 DEF Notes
<1> HIDE DEF m
<1>5. /\ due = "green" => ~m.green
      /\ due = "orange" => ~m.orange /\ m.state = "lost"
      /\ due = "red" => ~m.red /\ m.state = "disconnected"
      /\ due \in Colours \cup {"none"}
  BY DEF Phone!Due, Colours
<1>6. mem' = (CASE due = "green" -> [m EXCEPT !.green = TRUE] [] due = "orange" -> [m EXCEPT !.orange = TRUE]
                [] due = "red" -> [m EXCEPT !.red = TRUE] [] OTHER -> m)
  BY DEF Phone!Evaluate, m, n, j
<1>7. sent' = [c \in DOMAIN sent |-> IF c = due /\ before(c) < 2 THEN before(c) + 1 ELSE before(c)]
  <2> DEFINE overs == {c \in DOMAIN sent : over(c)}
             was   == [c \in DOMAIN sent |-> IF c \in overs THEN 0 ELSE sent[c]]
  <2>1. sent' = [c \in DOMAIN sent |-> IF c = due /\ was[c] < 2 THEN was[c] + 1 ELSE was[c]]
    BY DEF Phone!Evaluate, m, n, j
  <2>2. \A c \in DOMAIN sent : was[c] = before(c)
    OBVIOUS
  <2> HIDE DEF was, before
  <2> QED BY <2>1, <2>2
<1>8. asked' = (asked \/ ~noted)
  BY DEF Phone!Evaluate
<1>9. /\ mem' \in Notes /\ mem'.state = m.state /\ mem'.quiet = m.quiet
      /\ (mem'.green <=> m.green \/ due = "green") /\ (mem'.orange <=> m.orange \/ due = "orange")
      /\ (mem'.red <=> m.red \/ due = "red")
  <2> HIDE DEF due
  <2>1. CASE due = "green"
    BY <1>4, <1>5, <1>6, <2>1 DEF Notes
  <2>2. CASE due = "orange"
    BY <1>4, <1>5, <1>6, <2>2 DEF Notes
  <2>3. CASE due = "red"
    BY <1>4, <1>5, <1>6, <2>3 DEF Notes
  <2>4. CASE due = "none"
    BY <1>4, <1>5, <1>6, <2>4 DEF Notes
  <2> QED BY <1>5, <2>1, <2>2, <2>3, <2>4 DEF Colours
<1> HIDE DEF due
<1>10. \A c \in Colours : before(c) \in Nat
  BY <1>1
<1>11. sent' \in [Colours -> Nat]
  <2>1. DOMAIN sent = Colours
    BY <1>1
  <2> HIDE DEF before
  <2> QED BY <1>7, <1>10, <2>1
<1>12. Sound(mem')
  BY <1>2, <1>3, <1>4, <1>9 DEF Sound
<1>13. ASSUME Remembers(mem)
       PROVE  Remembers(mem)'
  <2>1. \A c \in Colours : sent'[c] = (IF c = due /\ before(c) < 2 THEN before(c) + 1 ELSE before(c))
    <3> HIDE DEF before
    <3> QED BY <1>1, <1>7
  <2>2. mem.quiet \in Int /\ mem'.quiet \in Int /\ n.quiet = mem'.quiet
    BY <1>1, <1>9, <1>4 DEF Notes
  <2>3. sent'["green"] <= 1 /\ (sent'["green"] = 1 => mem'.green)
    <3>1. sent["green"] \in Nat /\ sent["green"] <= 1 /\ (sent["green"] = 1 => mem.green)
      BY <1>1, <1>13 DEF Remembers, Colours
    <3>2. before("green") = 1 => m.green
      <4>1. before("green") = 1 => mem.state # "lost" /\ m.state # "disconnected" /\ mem.green
        BY <3>1
      <4> HIDE DEF before
      <4> QED BY <4>1, <1>2, <1>4, Zenon
    <3>3. before("green") \in {0, 1}
      BY <3>1
    <3>4. sent'["green"] = IF "green" = due /\ before("green") < 2 THEN before("green") + 1 ELSE before("green")
      BY <2>1 DEF Colours
    <3> HIDE DEF before
    <3> QED BY <3>2, <3>3, <3>4, <1>5, <1>9
  <2>4. sent'["orange"] <= 1 /\ (sent'["orange"] = 1 => mem'.orange)
    <3>1. sent["orange"] \in Nat /\ sent["orange"] <= 1 /\ (sent["orange"] = 1 => mem.orange)
      BY <1>1, <1>13 DEF Remembers, Colours
    <3>2. before("orange") = 1 => m.orange
      <4>1. before("orange") = 1 => noted /\ mem.orange
        BY <3>1
      <4> HIDE DEF before
      <4> QED BY <4>1, <1>2, <1>4, Zenon
    <3>3. before("orange") \in {0, 1}
      BY <3>1
    <3>4. sent'["orange"] = IF "orange" = due /\ before("orange") < 2 THEN before("orange") + 1 ELSE before("orange")
      BY <2>1 DEF Colours
    <3> HIDE DEF before
    <3> QED BY <3>2, <3>3, <3>4, <1>5, <1>9
  <2>5. sent'["red"] <= 1 /\ (sent'["red"] = 1 => mem'.red \/ mem'.quiet >= 0)
    <3>1. sent["red"] \in Nat /\ sent["red"] <= 1 /\ (sent["red"] = 1 => mem.red \/ mem.quiet >= 0)
      BY <1>1, <1>13 DEF Remembers, Colours
    <3>2. before("red") = 1 => m.red \/ m.quiet >= 0
      BY <3>1, <1>1, <1>2, <1>4
    <3>3. before("red") \in {0, 1}
      BY <3>1
    <3>4. sent'["red"] = IF "red" = due /\ before("red") < 2 THEN before("red") + 1 ELSE before("red")
      BY <2>1 DEF Colours
    <3>5. due = "red" => ~(m.quiet >= 0)
      BY <1>2, <1>3, <1>4, <1>5, <2>2
    <3> HIDE DEF before
    <3> QED BY <3>2, <3>3, <3>4, <3>5, <1>5, <1>9
  <2>6. asked' => mem'.quiet >= 0
    BY <1>1, <1>2, <1>4, <1>8, <1>9, <1>13 DEF Remembers
  <2> QED BY <2>3, <2>4, <2>5, <2>6 DEF Remembers
<1> QED BY <1>9, <1>11, <1>12, <1>13

LEMMA EvaluationKeeps ==
  ASSUME ReminderInv, Phone!Evaluate
  PROVE  ReminderInv'
<1>1. on /\ noted' = TRUE /\ asked' = (asked \/ ~noted)
      /\ UNCHANGED <<alive, on, kept, lost, heard, address, known, candidate, checks, tell, written, told, missed>>
  BY DEF Phone!Evaluate, Phone!watch
<1>2. alive
  BY <1>1 DEF ReminderInv, AddressKept
<1>3. Noting'
  BY <1>1, EvaluationNotes DEF ReminderInv, Noting
<1>4. Sounds'
  BY <1>1, EvaluationNotes DEF ReminderInv, Sounds
<1>5. Remembered'
  BY <1>1, <1>2, EvaluationNotes DEF ReminderInv, Remembered
<1>6. AddressKept'
  BY <1>1, <1>2 DEF ReminderInv, AddressKept
<1> QED BY <1>3, <1>4, <1>5, <1>6 DEF ReminderInv

\* The engine and Windows: what is started with is what was kept, and a crash keeps what was saved.
LEMMA StartsKeep ==
  ASSUME ReminderInv, Phone!Start
  PROVE  ReminderInv'
<1>1. /\ ~alive /\ alive' = TRUE /\ mem' = (IF kept = Phone!None THEN Phone!First ELSE kept) /\ known' = written
      /\ UNCHANGED <<on, unsaved, kept, sent, asked, lost, heard, noted, address, candidate, checks, tell, written, told, missed>>
  BY DEF Phone!Start, Phone!resolver
<1>2. Noting' /\ Sounds'
  BY <1>1, FirstNotes DEF ReminderInv, Noting, Sounds
<1>3. Remembered'
  BY <1>1 DEF ReminderInv, Remembered, Remembers
<1>4. AddressKept'
  BY <1>1 DEF ReminderInv, AddressKept
<1> QED BY <1>2, <1>3, <1>4 DEF ReminderInv

LEMMA StopsKeep ==
  ASSUME ReminderInv, Phone!Stops, UNCHANGED alive \/ alive'= FALSE
  PROVE  /\ mem' = Phone!First /\ noted' = TRUE /\ heard' = -1 /\ alive' = FALSE /\ AddressKept'
BY FirstNotes DEF ReminderInv, AddressKept, Phone!Stops

LEMMA CrashKeeps ==
  ASSUME ReminderInv, Phone!Crash
  PROVE  ReminderInv'
<1>1. /\ alive /\ UNCHANGED <<kept, sent, asked>> /\ lost' = (lost \/ kept # mem) /\ Phone!Stops
  BY DEF Phone!Crash
<1>2. /\ mem' = Phone!First /\ noted' = TRUE /\ heard' = -1 /\ alive' = FALSE /\ AddressKept'
  BY <1>1, StopsKeep DEF Phone!Stops
<1>3. Noting'
  BY <1>1, <1>2, FirstNotes DEF ReminderInv, Noting
<1>4. Sounds'
  BY <1>1, <1>2, FirstNotes DEF ReminderInv, Sounds
<1>5. Remembered'
  <2> SUFFICES ASSUME ~lost'
               PROVE  kept # Phone!None /\ kept' = kept /\ Remembers(kept)'
    BY <1>2 DEF Remembered
  <2>1. kept = mem /\ ~lost
    BY <1>1
  <2>2. kept # Phone!None
    BY <2>1, FirstNotes DEF ReminderInv, Sounds, Sound
  <2>3. Remembers(kept)
    BY <1>1, <2>1 DEF ReminderInv, Remembered
  <2>4. kept' = kept /\ sent' = sent /\ asked' = asked
    BY <1>1
  <2> QED BY <2>2, <2>3, <2>4 DEF Remembers
<1> QED BY <1>2, <1>3, <1>4, <1>5 DEF ReminderInv

LEMMA BootKeeps ==
  ASSUME ReminderInv, Phone!Boot
  PROVE  ReminderInv'
<1>1. /\ kept' = Phone!None /\ sent' = Phone!Unsent /\ asked' = FALSE /\ lost' = FALSE /\ Phone!Stops
  BY DEF Phone!Boot
<1>2. /\ mem' = Phone!First /\ noted' = TRUE /\ heard' = -1 /\ alive' = FALSE /\ AddressKept'
  BY <1>1, StopsKeep DEF Phone!Stops
<1>3. sent' \in [Colours -> Nat] /\ sent'["green"] = 0 /\ sent'["orange"] = 0 /\ sent'["red"] = 0
  BY <1>1 DEF Phone!Unsent, Colours
<1>4. Noting'
  <2>1. mem' \in Notes /\ kept' \in Notes /\ heard' \in Int
    BY <1>1, <1>2, FirstNotes
  <2>2. noted' \in BOOLEAN /\ lost' \in BOOLEAN /\ asked' \in BOOLEAN
    BY <1>1, <1>2
  <2> QED BY <1>3, <2>1, <2>2 DEF Noting
<1>5. Sounds'
  BY <1>1, <1>2, FirstNotes DEF Sounds
<1>6. Remembered'
  BY <1>1, <1>2, <1>3 DEF Remembered, Remembers
<1> QED BY <1>2, <1>4, <1>5, <1>6 DEF ReminderInv

\* The steps that leave the notes alone, and those of the address.
LEMMA AddressSteps ==
  ASSUME ReminderInv, UNCHANGED <<alive, on, same, mem, unsaved, kept, sent, asked, lost, heard, noted>>,
         \/ UNCHANGED <<known, tell, written, told, missed>>
         \/ Phone!Check
         \/ Phone!Notify
  PROVE  ReminderInv'
<1>1. Noting' /\ Sounds' /\ Remembered'
  BY DEF ReminderInv, Noting, Sounds, Remembered, Remembers
<1>2. AddressKept'
  <2>1. CASE UNCHANGED <<known, tell, written, told, missed>>
    BY <2>1 DEF ReminderInv, AddressKept
  <2>2. CASE Phone!Check
    <3>1. alive /\ on /\ ~tell
      BY <2>2 DEF Phone!Check, ReminderInv, AddressKept
    <3>2. CASE UNCHANGED <<known, tell, written, told, missed>>
      BY <3>2 DEF ReminderInv, AddressKept
    <3>3. CASE /\ known = Nowhere /\ known' = address /\ told' = address
               /\ written' \in {address, written} /\ UNCHANGED <<candidate, checks, tell, missed>>
      BY <3>1, <3>3 DEF ReminderInv, AddressKept
    <3>4. CASE /\ UNCHANGED told /\ known' = address
               /\ \/ written' = address /\ tell' = TRUE /\ UNCHANGED missed
                  \/ missed' = TRUE /\ UNCHANGED <<written, tell>>
      <4>1. alive' /\ (on' => alive')
        BY <3>1
      <4>2. CASE written' = address /\ tell' = TRUE /\ UNCHANGED missed
        BY <3>4, <4>1, <4>2 DEF ReminderInv, AddressKept
      <4>3. CASE missed' = TRUE /\ UNCHANGED <<written, tell>>
        BY <3>1, <3>4, <4>1, <4>3 DEF ReminderInv, AddressKept
      <4> QED BY <3>4, <4>2, <4>3
    <3> QED BY <2>2, <3>2, <3>3, <3>4 DEF Phone!Check
  <2>3. CASE Phone!Notify
    <3>1. alive /\ on /\ tell /\ written = known
      BY <2>3 DEF Phone!Notify, ReminderInv, AddressKept
    <3>2. tell' = FALSE /\ told' = known /\ missed' = FALSE /\ UNCHANGED <<known, written>>
      BY <2>3 DEF Phone!Notify
    <3>3. tell' \in BOOLEAN /\ missed' \in BOOLEAN /\ alive' \in BOOLEAN /\ alive' /\ (on' => alive')
      BY <3>1, <3>2
    <3> QED BY <3>1, <3>2, <3>3 DEF AddressKept
  <2> QED BY <2>1, <2>2, <2>3
<1> QED BY <1>1, <1>2 DEF ReminderInv

\* A query, the file and the switch of the reminder.
LEMMA NotesSteps ==
  ASSUME ReminderInv, Phone!Ask \/ Phone!Save \/ Phone!TurnOn \/ Phone!TurnOff
  PROVE  ReminderInv'
<1>1. UNCHANGED <<alive, mem, sent, asked, lost, known, tell, written, told, missed>> /\ alive
      /\ (on' => alive)
  BY DEF ReminderInv, AddressKept, Phone!Ask, Phone!Save, Phone!TurnOn, Phone!TurnOff, Phone!reminder, Phone!watch
<1>2. AddressKept'
  BY <1>1 DEF ReminderInv, AddressKept
<1>3. CASE Phone!Ask
  <2>1. heard' = 0 /\ noted' = FALSE /\ UNCHANGED kept
    BY <1>3 DEF Phone!Ask, Phone!reminder
  <2>2a. heard' \in Int /\ heard' >= 0
    BY <2>1
  <2>2b. noted' \in BOOLEAN
    BY <2>1
  <2>2. heard' \in Int /\ heard' >= 0 /\ noted' \in BOOLEAN
    BY <2>2a, <2>2b
  <2>3. Noting' /\ Sounds'
    BY <1>1, <2>1, <2>2 DEF ReminderInv, Noting, Sounds
  <2>4. Remembered'
    BY <1>1, <2>1 DEF ReminderInv, Remembered, Remembers
  <2> QED BY <1>2, <2>3, <2>4 DEF ReminderInv
<1>4. CASE Phone!Save \/ Phone!TurnOn \/ Phone!TurnOff
  <2>1. UNCHANGED <<heard, noted>> /\ kept' \in {mem, kept}
    BY <1>4 DEF Phone!Save, Phone!TurnOn, Phone!TurnOff, Phone!reminder, Phone!resolver
  <2> QED BY <1>1, <1>2, <2>1, NotesStay DEF ReminderInv
<1> QED BY <1>3, <1>4

LEMMA ReminderSteps ==
  ASSUME ReminderInv, [Phone!Next]_Phone!vars
  PROVE  ReminderInv'
<1>1. CASE Phone!Tick
  BY <1>1, ClockKeeps
<1>2. CASE Phone!Start
  BY <1>2, StartsKeep
<1>3. CASE Phone!Crash
  BY <1>3, CrashKeeps
<1>4. CASE Phone!Boot
  BY <1>4, BootKeeps
<1>5. CASE Phone!Evaluate
  BY <1>5, EvaluationKeeps
<1>6. CASE Phone!Ask \/ Phone!Save \/ Phone!TurnOn \/ Phone!TurnOff
  BY <1>6, NotesSteps
<1>7. ASSUME NEW a \in Phone!Somewhere, Phone!Move(a)
      PROVE  ReminderInv'
  BY <1>7, AddressSteps DEF Phone!Move, Phone!reminder, Phone!resolver
<1>8. CASE Phone!Check \/ Phone!Notify
  BY <1>8, AddressSteps DEF Phone!Check, Phone!Notify, Phone!reminder, Phone!resolver
<1>9. CASE UNCHANGED Phone!vars
  BY <1>9, AddressSteps DEF Phone!vars, Phone!reminder, Phone!resolver, Phone!watch
<1> QED BY <1>1, <1>2, <1>3, <1>4, <1>5, <1>6, <1>7, <1>8, <1>9 DEF Phone!Next, Phone!Thread

\* Each state of the connection is told of once, and a change of the address not lost, for any number
\* of addresses, and whatever the times of grace and silence are: over restarts and boots, unless a crash
\* comes before the file is written.
THEOREM RemindersAreSent == Phone!Spec => []Reminded
<1>1. Phone!Init => ReminderInv
  BY ReminderStart
<1>2. ReminderInv /\ [Phone!Next]_Phone!vars => ReminderInv'
  BY ReminderSteps
<1>3. ReminderInv => Reminded
  BY ReminderInvReminds
<1> QED BY <1>1, <1>2, <1>3, PTL DEF Phone!Spec

-----------------------------------------------------------------------------
(* Mail: the Outlook watch.                                                *)

MailTyped ==
  /\ inbox \subseteq Msgs /\ seen \subseteq Msgs /\ slipped \subseteq Msgs /\ gone \subseteq Msgs /\ raced \subseteq Msgs
  /\ received \in [Msgs -> Nat] /\ lines \in [Msgs -> Nat] /\ since \in Nat /\ pending \in Seq(Msgs)
  /\ at \in [Threads -> Mail!Phases] /\ todo \in [Threads -> SUBSET (Msgs \X BOOLEAN)]
  /\ hand \in [Threads -> Msgs \cup {NoMsg}]
  /\ file.seen \subseteq Msgs /\ file.since \in Nat

\* Where a thread has something to handle, and one in hand.
Placed ==
  \A t \in Threads : /\ todo[t] # {} => at[t] \in {"assess", "judge", "log"}
                     /\ hand[t] # NoMsg <=> at[t] \in {"judge", "log"}
                     /\ at[t] = "log" => hand[t] \in seen

\* A message has a line or is in one thread's hand, not both, and one that is written, or judged, is seen.
Once ==
  \A m \in Msgs \ (slipped \cup raced) :
    /\ lines[m] <= 1
    /\ \A t, u \in Threads : hand[t] = m /\ hand[u] = m => t = u
    /\ lines[m] = 1 => m \in seen /\ \A t \in Threads : hand[t] # m
Logged == \A m \in gone : lines[m] > 0 \/ m \in slipped \/ \E t \in Threads : hand[t] = m

\* The date up to which it knows the mail is that of a message it has seen; in memory and in the file.
DatedBy(some, date) == date = 0 \/ \E n \in some : received[n] >= date
Dated == DatedBy(seen, since) /\ DatedBy(file.seen, file.since) /\ \A m \in inbox : received[m] > 0

\* The search by date covers what it does not find, from when it is done, while the switch is on.
Waits(m)   == m \in Mail!Range(pending) \/ \E t \in Threads : \E mail0 \in todo[t] : mail0[1] = m
Covered(m) == Waits(m) \/ \E n \in Msgs : (n \in seen \/ Waits(n)) /\ received[n] >= received[m]
Away       == \E t \in Threads : at[t] \in {"attach", "catch", "retry", "dead"}
Caught ==
  ~stop => /\ \E t \in Threads : at[t] # "off"
           /\ Away \/ \A m \in inbox \ seen : Covered(m)

MailInv == MailTyped /\ Placed /\ Once /\ Logged /\ Dated /\ Caught

\* The instance has FiniteSets of its own: its Cardinality is the one.
LEMMA MailSets ==
  ASSUME NEW S
  PROVE  Mail!Cardinality(S) = Cardinality(S) /\ (Mail!IsFiniteSet(S) <=> IsFiniteSet(S))
BY DEF Mail!Cardinality, Cardinality, Mail!IsFiniteSet, IsFiniteSet

LEMMA MailBounds ==
  /\ IsFiniteSet(Msgs) /\ NoMsg \notin Msgs /\ CatchUpLimit \in Nat \ {0} /\ Danger \subseteq Msgs
BY ServicesAssumption, MailSets DEF Mail!MailAssumption

LEMMA HeldWaits == \A m : Mail!Held(m) <=> Waits(m)
BY DEF Mail!Held, Waits

LEMMA MailInvInspects ==
  ASSUME MailInv
  PROVE  MailInspected
<1>1. Mail!MissedIsOld
  BY HeldWaits DEF MailInv, Caught, Away, Covered, Mail!MissedIsOld
<1>2. Mail!InspectedOnce
  BY DEF MailInv, MailTyped, Once, Mail!InspectedOnce
<1>3. Mail!RemovedIsLogged
  BY DEF MailInv, Logged, Mail!RemovedIsLogged
<1> QED BY <1>1, <1>2, <1>3 DEF MailInspected, Mail!MailInspected

LEMMA MailStart ==
  ASSUME Mail!Init
  PROVE  MailInv
<1>1. /\ \A t \in Threads : at[t] = "off" /\ todo[t] = {} /\ hand[t] = NoMsg
      /\ \A m \in Msgs : lines[m] = 0
  BY DEF Mail!Init
<1>2. file.seen = {} /\ file.since = 0 /\ pending \in Seq(Msgs)
  BY DEF Mail!Init
<1>3. MailTyped
  BY <1>2 DEF Mail!Init, MailTyped, Mail!Phases
<1>4. Placed /\ Once /\ Logged
  BY <1>1, MailBounds DEF Mail!Init, Placed, Once, Logged
<1>5. Dated /\ Caught
  BY <1>2 DEF Mail!Init, Dated, DatedBy, Caught
<1> QED BY <1>3, <1>4, <1>5 DEF MailInv

\* The queue of what Outlook told of.
LEMMA Queued ==
  ASSUME NEW queue \in Seq(Msgs), NEW m \in Msgs
  PROVE  Append(queue, m) \in Seq(Msgs) /\ Mail!Range(Append(queue, m)) = Mail!Range(queue) \cup {m}
<1>1. Append(queue, m) \in Seq(Msgs) /\ Len(Append(queue, m)) = Len(queue) + 1
  OBVIOUS
<1>2. \A i \in 1..Len(queue) : Append(queue, m)[i] = queue[i]
  OBVIOUS
<1>3. Append(queue, m)[Len(queue) + 1] = m
  OBVIOUS
<1>4. DOMAIN queue = 1..Len(queue) /\ DOMAIN Append(queue, m) = 1..(Len(queue) + 1) /\ Len(queue) \in Nat
  OBVIOUS
<1>5. 1..(Len(queue) + 1) = (1..Len(queue)) \cup {Len(queue) + 1}
  BY <1>4
<1> QED BY <1>1, <1>2, <1>3, <1>4, <1>5 DEF Mail!Range

LEMMA Unqueued ==
  ASSUME NEW queue \in Seq(Msgs), queue # <<>>
  PROVE  /\ Tail(queue) \in Seq(Msgs) /\ Head(queue) \in Msgs
         /\ Mail!Range(queue) = Mail!Range(Tail(queue)) \cup {Head(queue)}
<1>1. Tail(queue) \in Seq(Msgs) /\ Head(queue) \in Msgs /\ Len(queue) \in Nat \ {0} /\ Len(Tail(queue)) = Len(queue) - 1
  OBVIOUS
<1>2. \A i \in 1..(Len(queue) - 1) : Tail(queue)[i] = queue[i + 1]
  OBVIOUS
<1>3. Head(queue) = queue[1]
  OBVIOUS
<1>4. DOMAIN queue = 1..Len(queue) /\ DOMAIN Tail(queue) = 1..(Len(queue) - 1)
  BY <1>1
<1>5. ASSUME NEW i \in 2..Len(queue)
      PROVE  i - 1 \in 1..(Len(queue) - 1) /\ Tail(queue)[i - 1] = queue[i]
  BY <1>1, <1>2, <1>5
<1>6. \A i \in 1..Len(queue) : i = 1 \/ i \in 2..Len(queue)
  BY <1>1
<1>7. \A i \in 1..(Len(queue) - 1) : i + 1 \in 1..Len(queue)
  BY <1>1
<1>8. 1 \in 1..Len(queue)
  BY <1>1
<1>9. \A i \in DOMAIN queue : queue[i] \in Mail!Range(Tail(queue)) \cup {Head(queue)}
  BY <1>3, <1>4, <1>5, <1>6 DEF Mail!Range
<1>10. \A i \in DOMAIN Tail(queue) : Tail(queue)[i] \in Mail!Range(queue)
  BY <1>2, <1>4, <1>7 DEF Mail!Range
<1>11. Head(queue) \in Mail!Range(queue)
  BY <1>3, <1>4, <1>8 DEF Mail!Range
<1>12. \A x \in Mail!Range(queue) : \E i \in DOMAIN queue : x = queue[i]
  BY DEF Mail!Range
<1>13. \A x \in Mail!Range(Tail(queue)) : \E i \in DOMAIN Tail(queue) : x = Tail(queue)[i]
  BY DEF Mail!Range
<1> QED BY <1>1, <1>9, <1>10, <1>11, <1>12, <1>13

\* A thread that has nothing to handle goes on to where it has nothing to handle.
Idles == {"off", "attach", "catch", "loop", "save", "retry", "dead"}
LEMMA IdleKeeps ==
  ASSUME MailInv, NEW t \in Threads, NEW p \in Idles, at[t] \in Idles, at' = [at EXCEPT ![t] = p],
         UNCHANGED <<inbox, received, seen, since, todo, hand, lines, gone, slipped, raced>>,
         file' = file \/ (file'.seen = seen /\ file'.since = since), pending' \in Seq(Msgs),
         \/ stop'
         \/ p \in {"attach", "catch", "retry", "dead"}
         \/ p = "loop" /\ at[t] \in {"loop", "save"} /\ UNCHANGED <<pending, stop>>
  PROVE  MailInv'
<1>1. MailTyped
  BY DEF MailInv
<1>2. at' \in [Threads -> Mail!Phases] /\ at'[t] = p /\ \A u \in Threads \ {t} : at'[u] = at[u]
  BY <1>1 DEF MailTyped, Mail!Phases, Idles
<1>3. MailTyped'
  BY <1>1, <1>2 DEF MailTyped
<1>4. Placed' /\ Once' /\ Logged'
  BY <1>2 DEF MailInv, Placed, Once, Logged, Idles
<1>5. Dated'
  BY DEF MailInv, Dated, DatedBy
<1>6. Caught'
  <2>1. CASE stop'
    BY <2>1 DEF Caught
  <2>2. CASE p \in {"attach", "catch", "retry", "dead"}
    BY <1>2, <2>2 DEF Caught, Away
  <2>3. CASE p = "loop" /\ at[t] \in {"loop", "save"} /\ UNCHANGED <<pending, stop>>
    <3>1. Away => Away'
      BY <1>2, <2>3 DEF Away
    <3>2. \A m : Covered(m)' <=> Covered(m)
      BY <2>3 DEF Covered, Waits
    <3> QED BY <1>2, <2>3, <3>1, <3>2 DEF MailInv, Caught, Covered, Waits
  <2> QED BY <2>1, <2>2, <2>3
<1> QED BY <1>3, <1>4, <1>5, <1>6 DEF MailInv

LEMMA RaiseKeeps ==
  ASSUME MailInv, NEW t \in Threads, Mail!Raise(t), pending' \in Seq(Msgs)
  PROVE  MailInv'
<1>1. MailTyped
  BY DEF MailInv
<1>2. /\ at' = [at EXCEPT ![t] = "retry"] /\ todo' = [todo EXCEPT ![t] = {}] /\ hand' = [hand EXCEPT ![t] = NoMsg]
      /\ slipped' = slipped \cup ({hand[t]} \ {NoMsg})
      /\ UNCHANGED <<inbox, received, stop, seen, since, file, lines, gone, raced>>
  BY DEF Mail!Raise, Mail!GoTo, Mail!outlook, Mail!files
<1>3. /\ at' \in [Threads -> Mail!Phases] /\ at'[t] = "retry" /\ todo'[t] = {} /\ hand'[t] = NoMsg
      /\ \A u \in Threads \ {t} : at'[u] = at[u] /\ todo'[u] = todo[u] /\ hand'[u] = hand[u]
      /\ todo' \in [Threads -> SUBSET (Msgs \X BOOLEAN)] /\ hand' \in [Threads -> Msgs \cup {NoMsg}]
  BY <1>1, <1>2 DEF MailTyped, Mail!Phases
<1>4. MailTyped'
  BY <1>1, <1>2, <1>3 DEF MailTyped
<1>5. Placed'
  BY <1>2, <1>3 DEF MailInv, Placed
<1>6. Once'
  <2>1. \A m \in Msgs \ (slipped' \cup raced') : m \in Msgs \ (slipped \cup raced)
    BY <1>2
  <2> QED BY <1>2, <1>3, <2>1, MailBounds DEF MailInv, Once
<1>7. Logged'
  BY <1>1, <1>2, <1>3, MailBounds DEF MailInv, Logged, MailTyped
<1>8. Dated'
  BY <1>2 DEF MailInv, Dated, DatedBy
<1>9. Caught'
  BY <1>3 DEF Caught, Away
<1> QED BY <1>4, <1>5, <1>6, <1>7, <1>8, <1>9 DEF MailInv

\* What Outlook and the user do: the threads are told of what arrives, and the switch goes off.
LEMMA WorldKeeps ==
  ASSUME MailInv, Mail!World \/ Mail!Off \/ UNCHANGED Mail!vars
  PROVE  MailInv'
<1>1. MailTyped
  BY DEF MailInv
<1>2. UNCHANGED <<seen, since, at, todo, hand, file, lines, gone, slipped, raced>> /\ (stop' = stop \/ stop' = TRUE)
  BY DEF Mail!World, Mail!Off, Mail!vars, Mail!Arrive, Mail!ReadIt, Mail!DeleteIt, Mail!OpenOutlook, Mail!CloseOutlook,
         Mail!Click, Mail!Outside, Mail!threads, Mail!files, Mail!history, Mail!service
<1>3. ASSUME inbox' \subseteq inbox, UNCHANGED <<received, pending>>
      PROVE  MailInv'
  <2>1. MailTyped' /\ Placed' /\ Once' /\ Logged' /\ Dated'
    BY <1>2, <1>3 DEF MailInv, MailTyped, Placed, Once, Logged, Dated, DatedBy
  <2>2. \A m \in Msgs : Covered(m) => Covered(m)'
    BY <1>2, <1>3 DEF Covered, Waits
  <2>3. Caught'
    BY <1>1, <1>2, <1>3, <2>2 DEF MailInv, Caught, Away, MailTyped
  <2> QED BY <2>1, <2>3 DEF MailInv
<1>4. ASSUME NEW m \in Msgs, NEW when \in 1..MaxTime, Mail!Arrive(m, when)
      PROVE  MailInv'
  <2>1. /\ received[m] = 0 /\ received' = [received EXCEPT ![m] = when] /\ inbox' = inbox \cup {m} /\ UNCHANGED stop
        /\ \/ Mail!Called /\ pending' = Append(pending, m)
           \/ ~Mail!Called /\ UNCHANGED pending
    BY <1>4 DEF Mail!Arrive, Mail!Told, Mail!Outside
  <2>2. when \in Nat /\ when > 0
    BY ServicesAssumption DEF Mail!MailAssumption
  <2>3. received' \in [Msgs -> Nat] /\ received'[m] = when /\ \A n \in Msgs \ {m} : received'[n] = received[n]
    BY <1>1, <2>1, <2>2 DEF MailTyped
  <2>4. pending' \in Seq(Msgs) /\ Mail!Range(pending) \subseteq Mail!Range(pending')
        /\ (Mail!Called => m \in Mail!Range(pending'))
    <3>1. pending \in Seq(Msgs)
      BY <1>1 DEF MailTyped
    <3>2. CASE Mail!Called /\ pending' = Append(pending, m)
      <4>1. Append(pending, m) \in Seq(Msgs) /\ Mail!Range(Append(pending, m)) = Mail!Range(pending) \cup {m}
        BY <3>1, Queued
      <4> QED BY <3>2, <4>1
    <3>3. CASE ~Mail!Called /\ UNCHANGED pending
      BY <3>1, <3>3
    <3> QED BY <2>1, <3>2, <3>3
  <2>5. MailTyped' /\ Placed' /\ Once' /\ Logged'
    BY <1>2, <2>1, <2>3, <2>4 DEF MailInv, MailTyped, Placed, Once, Logged
  <2>6. \A n \in Msgs : received'[n] >= received[n] /\ received[n] \in Nat
    BY <1>1, <2>1, <2>2, <2>3 DEF MailTyped
  <2>7. Dated'
    <3>1. \A some \in SUBSET Msgs, date \in Nat : DatedBy(some, date) => (date = 0 \/ \E n \in some : received'[n] >= date)
      <4> TAKE some \in SUBSET Msgs, date \in Nat
      <4>1. \A n \in some : received[n] >= date => received'[n] >= date
        <5> TAKE n \in some
        <5>1. n \in Msgs /\ received'[n] \in Nat
          BY <2>3
        <5> QED BY <2>6, <5>1
      <4> QED BY <4>1 DEF DatedBy
    <3>2. \A n \in inbox' : received'[n] > 0
      BY <1>1, <2>1, <2>2, <2>3 DEF MailInv, Dated, MailTyped
    <3> QED BY <1>1, <1>2, <3>1, <3>2 DEF MailInv, MailTyped, Dated, DatedBy
  <2>8. Caught'
    <3>1. SUFFICES ASSUME ~stop, ~Away
                   PROVE  \A n \in inbox' \ seen' : Covered(n)'
      BY <1>2, <2>1 DEF MailInv, Caught, Away
    <3>2. Mail!Called
      <4>1. PICK t \in Threads : at[t] # "off"
        BY <3>1 DEF MailInv, Caught
      <4>2. at[t] \in {"loop", "assess", "judge", "log", "save"}
        BY <1>1, <3>1, <4>1 DEF Away, MailTyped, Mail!Phases
      <4> QED BY <4>2 DEF Mail!Called, Mail!Bound
    <3>3. \A n : Waits(n) => Waits(n)'
      BY <1>2, <2>4 DEF Waits
    <3>4. Covered(m)'
      BY <2>4, <3>2 DEF Covered, Waits
    <3>5. ASSUME NEW n \in inbox \ seen, n # m
          PROVE  Covered(n)'
      <4>1. n \in Msgs /\ Covered(n)
        BY <1>1, <3>1, <3>5 DEF MailInv, Caught, MailTyped
      <4>2. CASE Waits(n)
        BY <3>3, <4>2 DEF Covered, Waits
      <4>3. ASSUME NEW k \in Msgs, k \in seen \/ Waits(k), received[k] >= received[n]
            PROVE  Covered(n)'
        <5>1. received'[k] >= received'[n]
          BY <2>3, <2>6, <3>5, <4>1, <4>3
        <5>2. k \in seen' \/ Waits(k)'
          BY <1>2, <3>3, <4>3
        <5> QED BY <5>1, <5>2 DEF Covered, Waits
      <4> QED BY <4>1, <4>2, <4>3 DEF Covered
    <3> QED BY <1>2, <2>1, <3>4, <3>5
  <2> QED BY <2>5, <2>7, <2>8 DEF MailInv
<1>5. CASE Mail!Off \/ Mail!OpenOutlook \/ Mail!CloseOutlook \/ Mail!Click \/ UNCHANGED Mail!vars
  BY <1>3, <1>5 DEF Mail!Off, Mail!OpenOutlook, Mail!CloseOutlook, Mail!Click, Mail!vars, Mail!outlook, Mail!service
<1>6. ASSUME NEW m \in Msgs, Mail!ReadIt(m) \/ Mail!DeleteIt(m)
      PROVE  MailInv'
  BY <1>3, <1>6 DEF Mail!ReadIt, Mail!DeleteIt
<1> QED BY <1>4, <1>5, <1>6 DEF Mail!World

\* The search by date: what it leaves is older than something it took, or than what it knows.
LEMMA CatchUpKeeps ==
  ASSUME MailInv, NEW t \in Threads, Mail!CatchUp(t)
  PROVE  MailInv'
<1>1. MailTyped /\ at[t] = "catch"
  BY DEF MailInv, Mail!CatchUp
<1>2. CASE Mail!Raise(t) /\ UNCHANGED <<pending, said>>
  BY <1>1, <1>2, RaiseKeeps DEF MailTyped
<1>3. CASE /\ \E s \in Mail!Newest, old \in BOOLEAN :
                /\ todo' = [todo EXCEPT ![t] = Mail!Mails(s \ seen)] /\ found' = [found EXCEPT ![t] = old]
                /\ Mail!GoTo(t, Mail!Onward(old, Mail!Mails(s \ seen)))
           /\ UNCHANGED <<Mail!outlook, Mail!service, hand, Mail!files, Mail!history>>
  <2>1. PICK s \in Mail!Newest, old \in BOOLEAN :
          todo' = [todo EXCEPT ![t] = Mail!Mails(s \ seen)] /\ Mail!GoTo(t, Mail!Onward(old, Mail!Mails(s \ seen)))
    BY <1>3
  <2>2. UNCHANGED <<inbox, received, stop, pending, seen, since, hand, file, lines, gone, slipped, raced>>
    BY <1>3 DEF Mail!outlook, Mail!service, Mail!files, Mail!history
  <2>3. PICK p : /\ p \in {"assess", "save", "loop"} /\ (Mail!Mails(s \ seen) # {} => p = "assess")
                 /\ at' = [at EXCEPT ![t] = p]
    BY <2>1 DEF Mail!GoTo, Mail!Onward
  <2> DEFINE new == {m \in inbox : received[m] > since}
  <2>4. /\ s \subseteq new /\ Mail!Cardinality(s) = Mail!Min({CatchUpLimit, Mail!Cardinality(new)})
        /\ \A m \in s, n \in new \ s : received[m] >= received[n]
    BY DEF Mail!Newest
  <2>5. new # {} => s # {}
    <3>1. IsFiniteSet(new) /\ Cardinality(new) \in Nat
      <4>1. new \subseteq Msgs
        BY <1>1 DEF MailTyped
      <4> HIDE DEF new
      <4> QED BY <4>1, MailBounds, FS_Subset, FS_CardinalityType
    <3> HIDE DEF new
    <3>2. SUFFICES ASSUME new # {}, s = {} PROVE FALSE
      OBVIOUS
    <3>3. Cardinality(new) # 0 /\ Cardinality(s) = 0
      BY <3>1, <3>2, FS_EmptySet
    <3>4. Mail!Min({CatchUpLimit, Cardinality(new)}) \in {CatchUpLimit, Cardinality(new)}
      <4>1. \E x \in {CatchUpLimit, Cardinality(new)} : \A y \in {CatchUpLimit, Cardinality(new)} : x =< y
        <5>1. CatchUpLimit \in Nat
          BY MailBounds
        <5> QED BY <3>1, <5>1
      <4> QED BY <4>1, Zenon DEF Mail!Min
    <3> QED BY <2>4, <3>3, <3>4, MailSets, MailBounds
  <2>6. Mail!Mails(s \ seen) = {<<m, m \in fresh>> : m \in s \ seen}
    BY DEF Mail!Mails
  <2>7. Mail!Mails(s \ seen) \subseteq Msgs \X BOOLEAN
    <3>1. \A m \in s \ seen : m \in Msgs
      BY <1>1, <2>4 DEF MailTyped
    <3>2. \A m : (m \in fresh) \in BOOLEAN
      OBVIOUS
    <3>3. \A m \in s \ seen : <<m, m \in fresh>> \in Msgs \X BOOLEAN
      BY <3>1, <3>2, Zenon
    <3> QED BY <2>6, <3>3, Zenon
  <2>8. /\ at' \in [Threads -> Mail!Phases] /\ at'[t] = p /\ todo'[t] = Mail!Mails(s \ seen)
        /\ \A u \in Threads \ {t} : at'[u] = at[u] /\ todo'[u] = todo[u]
        /\ todo' \in [Threads -> SUBSET (Msgs \X BOOLEAN)]
    BY <1>1, <2>1, <2>3, <2>7 DEF MailTyped, Mail!Phases
  <2>9. MailTyped' /\ Placed' /\ Once' /\ Logged'
    <3>1. MailTyped'
      BY <1>1, <2>2, <2>8 DEF MailTyped
    <3>2. Placed'
      BY <1>1, <2>2, <2>3, <2>8 DEF MailInv, Placed
    <3>3. Once' /\ Logged'
      BY <2>2 DEF MailInv, Once, Logged
    <3> QED BY <3>1, <3>2, <3>3
  <2>10. Dated'
    BY <2>2 DEF MailInv, Dated, DatedBy
  <2>11. \A m \in s \ seen : Waits(m)'
    <3> TAKE m \in s \ seen
    <3>1. <<m, m \in fresh>> \in todo'[t] /\ <<m, m \in fresh>>[1] = m
      BY <2>6, <2>8
    <3> QED BY <3>1 DEF Waits
  <2>12. \A m \in inbox' \ seen' : Covered(m)'
    <3> TAKE m \in inbox' \ seen'
    <3>1. m \in inbox \ seen /\ m \in Msgs /\ received[m] \in Nat /\ received[m] > 0 /\ since \in Nat
      BY <1>1, <2>2 DEF MailInv, MailTyped, Dated
    <3>2. CASE m \in s
      BY <2>2, <2>11, <3>1, <3>2 DEF Covered, Waits
    <3>3. CASE m \in new \ s
      <4>1. PICK n \in s : received[n] >= received[m]
        BY <2>4, <2>5, <3>3
      <4>2. n \in Msgs /\ (n \in seen' \/ Waits(n)')
        BY <1>1, <2>2, <2>4, <2>11 DEF MailTyped
      <4> QED BY <2>2, <4>1, <4>2 DEF Covered, Waits
    <3>4. CASE m \notin new
      <4>1. received[m] <= since
        BY <3>1, <3>4
      <4>2. PICK n \in seen : received[n] >= since
        BY <3>1, <4>1 DEF MailInv, Dated, DatedBy
      <4>3. n \in Msgs /\ received[n] \in Nat
        BY <1>1 DEF MailTyped
      <4>4. received[n] >= received[m]
        BY <3>1, <4>1, <4>2, <4>3
      <4> QED BY <2>2, <4>2, <4>3, <4>4 DEF Covered, Waits
    <3> QED BY <3>2, <3>3, <3>4, <2>4
  <2>13. Caught'
    BY <2>2, <2>3, <2>8, <2>12 DEF Caught
  <2> QED BY <2>9, <2>10, <2>13 DEF MailInv
<1> QED BY <1>2, <1>3 DEF Mail!CatchUp

\* What a step of a thread that is at work must keep, for the messages that wait.
LEMMA WorkCaught ==
  ASSUME MailInv, NEW t \in Threads, NEW p \in {"loop", "assess", "judge", "log", "save"},
         at[t] \in {"loop", "assess", "judge", "log", "save"}, at' = [at EXCEPT ![t] = p],
         inbox' \subseteq inbox, UNCHANGED <<received, stop>>, seen \subseteq seen',
         \A m \in Msgs : Waits(m) => Waits(m)' \/ m \in seen'
  PROVE  Caught'
<1>1. MailTyped
  BY DEF MailInv
<1>2. at'[t] = p /\ \A u \in Threads \ {t} : at'[u] = at[u]
  BY <1>1 DEF MailTyped
<1>3. Away => Away'
  BY <1>2 DEF Away
<1>4. \A m \in inbox' \ seen' : Covered(m) => Covered(m)'
  <2> TAKE m \in inbox' \ seen'
  <2>1. m \in Msgs
    BY <1>1 DEF MailTyped
  <2>2. CASE Waits(m)
    BY <2>1, <2>2 DEF Covered, Waits
  <2>3. ASSUME NEW n \in Msgs, n \in seen \/ Waits(n), received[n] >= received[m]
        PROVE  Covered(m)'
    BY <2>3 DEF Covered, Waits
  <2> QED BY <2>2, <2>3 DEF Covered
<1> QED BY <1>2, <1>3, <1>4 DEF MailInv, Caught

\* handle, up to the mark: of what is seen nothing is taken in hand.
LEMMA AssessKeeps ==
  ASSUME MailInv, NEW t \in Threads, Mail!Assess(t)
  PROVE  MailInv'
<1>1. MailTyped /\ at[t] = "assess"
  BY DEF MailInv, Mail!Assess
<1>2. UNCHANGED <<inbox, received, stop, pending, seen, since, file, lines, gone, slipped>>
  BY DEF Mail!Assess, Mail!outlook, Mail!service, Mail!files
<1>3. PICK mail0 \in todo[t] :
        \/ /\ mail0[1] \in seen /\ todo' = [todo EXCEPT ![t] = todo[t] \ {mail0}]
           /\ Mail!GoTo(t, Mail!Onward(found[t], todo[t] \ {mail0})) /\ UNCHANGED <<hand, raced>>
        \/ /\ mail0[1] \notin seen /\ hand' = [hand EXCEPT ![t] = mail0[1]] /\ Mail!GoTo(t, "judge")
           /\ raced' = raced \cup {n \in {mail0[1]} : \E u \in Threads \ {t} : at[u] = "judge" /\ hand[u] = n}
           /\ UNCHANGED todo
  BY DEF Mail!Assess, Mail!Handled
<1>4. mail0[1] \in Msgs
  BY <1>1 DEF MailTyped
<1>5. CASE /\ mail0[1] \in seen /\ todo' = [todo EXCEPT ![t] = todo[t] \ {mail0}]
           /\ Mail!GoTo(t, Mail!Onward(found[t], todo[t] \ {mail0})) /\ UNCHANGED <<hand, raced>>
  <2>1. PICK p : /\ p = Mail!Onward(found[t], todo[t] \ {mail0}) /\ at' = [at EXCEPT ![t] = p]
    BY <1>5 DEF Mail!GoTo
  <2>2. p \in {"assess", "save", "loop"} /\ (todo[t] \ {mail0} # {} => p = "assess")
    BY <2>1 DEF Mail!Onward
  <2>3. /\ at' \in [Threads -> Mail!Phases] /\ at'[t] = p /\ todo'[t] = todo[t] \ {mail0}
        /\ \A u \in Threads \ {t} : at'[u] = at[u] /\ todo'[u] = todo[u]
        /\ todo' \in [Threads -> SUBSET (Msgs \X BOOLEAN)]
    BY <1>1, <1>5, <2>1, <2>2 DEF MailTyped, Mail!Phases
  <2>4. MailTyped'
    BY <1>1, <1>2, <1>5, <2>3 DEF MailTyped
  <2>5. Placed'
    BY <1>1, <1>2, <1>5, <2>2, <2>3 DEF MailInv, Placed
  <2>6. Once' /\ Logged' /\ Dated'
    BY <1>2, <1>5 DEF MailInv, Once, Logged, Dated, DatedBy
  <2>7. \A m \in Msgs : Waits(m) => Waits(m)' \/ m \in seen'
    BY <1>2, <1>5, <2>3 DEF Waits
  <2>8. Caught'
    BY <1>1, <1>2, <2>1, <2>2, <2>7, WorkCaught
  <2> QED BY <2>4, <2>5, <2>6, <2>8 DEF MailInv
<1>6. CASE /\ mail0[1] \notin seen /\ hand' = [hand EXCEPT ![t] = mail0[1]] /\ Mail!GoTo(t, "judge")
           /\ raced' = raced \cup {n \in {mail0[1]} : \E u \in Threads \ {t} : at[u] = "judge" /\ hand[u] = n}
           /\ UNCHANGED todo
  <2>1. at' = [at EXCEPT ![t] = "judge"]
    BY <1>6 DEF Mail!GoTo
  <2>2. /\ at' \in [Threads -> Mail!Phases] /\ at'[t] = "judge" /\ hand'[t] = mail0[1]
        /\ \A u \in Threads \ {t} : at'[u] = at[u] /\ hand'[u] = hand[u]
        /\ hand' \in [Threads -> Msgs \cup {NoMsg}]
    BY <1>1, <1>4, <1>6, <2>1 DEF MailTyped, Mail!Phases
  <2>3. /\ raced \subseteq raced' /\ raced' \subseteq raced \cup {mail0[1]}
        /\ (\E u \in Threads \ {t} : at[u] = "judge" /\ hand[u] = mail0[1]) => mail0[1] \in raced'
    BY <1>6
  <2>4. MailTyped'
    BY <1>1, <1>2, <1>4, <1>6, <2>2, <2>3 DEF MailTyped
  <2>5. Placed'
    BY <1>1, <1>2, <1>4, <1>6, <2>2, MailBounds DEF MailInv, Placed
  <2>6. Once'
    <3> SUFFICES ASSUME NEW m \in Msgs \ (slipped' \cup raced')
                 PROVE  /\ lines[m] <= 1
                        /\ \A v, u \in Threads : hand'[v] = m /\ hand'[u] = m => v = u
                        /\ lines[m] = 1 => m \in seen /\ \A v \in Threads : hand'[v] # m
      BY <1>2 DEF Once
    <3>1. m \in Msgs \ (slipped \cup raced)
      BY <1>2, <2>3
    <3>2. /\ lines[m] <= 1
          /\ \A v, u \in Threads : hand[v] = m /\ hand[u] = m => v = u
          /\ lines[m] = 1 => m \in seen /\ \A v \in Threads : hand[v] # m
      BY <3>1 DEF MailInv, Once
    <3>3. CASE m # mail0[1]
      BY <2>2, <3>2, <3>3
    <3>4. CASE m = mail0[1]
      <4>1. lines[m] # 1
        BY <1>6, <3>2, <3>4
      <4>2. \A u \in Threads \ {t} : hand[u] # m
        <5> SUFFICES ASSUME NEW u \in Threads \ {t}, hand[u] = m PROVE FALSE
          OBVIOUS
        <5>1. at[u] = "judge" \/ m \in seen
          BY <1>4, <3>4, MailBounds DEF MailInv, Placed
        <5> QED BY <1>6, <2>3, <3>4, <5>1
      <4> QED BY <2>2, <3>2, <4>1, <4>2
    <3> QED BY <3>3, <3>4
  <2>7. Logged'
    <3> SUFFICES ASSUME NEW m \in gone
                 PROVE  lines[m] > 0 \/ m \in slipped \/ \E u \in Threads : hand'[u] = m
      BY <1>2 DEF Logged
    <3>1. hand[t] = NoMsg /\ m # NoMsg
      BY <1>1, MailBounds DEF MailInv, Placed, MailTyped
    <3> QED BY <2>2, <2>3, <3>1 DEF MailInv, Logged
  <2>8. Dated'
    BY <1>2 DEF MailInv, Dated, DatedBy
  <2>9. \A m \in Msgs : Waits(m) => Waits(m)' \/ m \in seen'
    BY <1>2, <1>6 DEF Waits
  <2>10. Caught'
    BY <1>1, <1>2, <2>1, <2>9, WorkCaught
  <2> QED BY <2>4, <2>5, <2>6, <2>7, <2>8, <2>10 DEF MailInv
<1> QED BY <1>3, <1>5, <1>6

\* The message in hand is seen from here on, and if it is removed its line is the next thing.
LEMMA JudgeKeeps ==
  ASSUME MailInv, NEW t \in Threads, Mail!Judge(t)
  PROVE  MailInv'
<1>1. MailTyped
  BY DEF MailInv
<1>2. PICK mail0 \in todo[t] :
        /\ at[t] = "judge" /\ hand[t] = mail0[1] /\ todo' = [todo EXCEPT ![t] = todo[t] \ {mail0}]
        /\ seen' = seen \cup {mail0[1]} /\ at' = [at EXCEPT ![t] = "log"]
        /\ inbox' \subseteq inbox /\ gone \subseteq gone' /\ gone' \subseteq gone \cup {mail0[1]}
        /\ UNCHANGED <<received, stop, pending, since, hand, file, lines, slipped, raced>>
  BY DEF Mail!Judge, Mail!GoTo, Mail!files
<1>3. mail0[1] \in Msgs
  BY <1>1 DEF MailTyped
<1>4. /\ at' \in [Threads -> Mail!Phases] /\ at'[t] = "log" /\ todo'[t] = todo[t] \ {mail0}
      /\ \A u \in Threads \ {t} : at'[u] = at[u] /\ todo'[u] = todo[u]
      /\ todo' \in [Threads -> SUBSET (Msgs \X BOOLEAN)]
  BY <1>1, <1>2 DEF MailTyped, Mail!Phases
<1>5. MailTyped'
  BY <1>1, <1>2, <1>3, <1>4 DEF MailTyped
<1>6. Placed'
  BY <1>1, <1>2, <1>3, <1>4, MailBounds DEF MailInv, Placed
<1>7. Once' /\ Logged'
  BY <1>2 DEF MailInv, Once, Logged
<1>8. Dated'
  BY <1>2 DEF MailInv, Dated, DatedBy
<1>9. \A m \in Msgs : Waits(m) => Waits(m)' \/ m \in seen'
  BY <1>2, <1>4 DEF Waits
<1>10. Caught'
  BY <1>2, <1>9, WorkCaught
<1> QED BY <1>5, <1>6, <1>7, <1>8, <1>10 DEF MailInv

\* The line, after which the message is out of hand.
LEMMA LogKeeps ==
  ASSUME MailInv, NEW t \in Threads, Mail!Log(t)
  PROVE  MailInv'
<1>1. MailTyped /\ at[t] = "log"
  BY DEF MailInv, Mail!Log
<1>2. CASE Mail!Raise(t) /\ UNCHANGED <<pending, said>>
  BY <1>1, <1>2, RaiseKeeps DEF MailTyped
<1>3. ASSUME NEW m, m = hand[t], lines' = Mail!Line(m), since' = Mail!Max({since, received[m]}),
             hand' = [hand EXCEPT ![t] = NoMsg], Mail!GoTo(t, IF todo[t] = {} THEN "save" ELSE "assess"),
             UNCHANGED <<Mail!outlook, stop, pending, seen, todo, file, Mail!history>>
      PROVE  MailInv'
  <2>1. UNCHANGED <<inbox, received, stop, pending, seen, todo, file, gone, slipped, raced>>
    BY <1>3 DEF Mail!outlook, Mail!history
  <2>2. PICK p : p = (IF todo[t] = {} THEN "save" ELSE "assess") /\ at' = [at EXCEPT ![t] = p]
    BY <1>3 DEF Mail!GoTo
  <2>3. m \in Msgs /\ m \in seen
    BY <1>1, <1>3 DEF MailInv, MailTyped, Placed
  <2>4. lines' = [lines EXCEPT ![m] = lines[m] + 1]
    BY <1>3 DEF Mail!Line
  <2>5. /\ at' \in [Threads -> Mail!Phases] /\ at'[t] = p /\ hand'[t] = NoMsg
        /\ \A u \in Threads \ {t} : at'[u] = at[u] /\ hand'[u] = hand[u]
        /\ hand' \in [Threads -> Msgs \cup {NoMsg}]
        /\ lines' \in [Msgs -> Nat] /\ lines'[m] = lines[m] + 1 /\ \A n \in Msgs \ {m} : lines'[n] = lines[n]
    BY <1>1, <1>3, <2>2, <2>3, <2>4 DEF MailTyped, Mail!Phases
  <2>6. since' \in {since, received[m]}
    <3>1. since \in Nat /\ received[m] \in Nat
      BY <1>1, <2>3 DEF MailTyped
    <3>2. \E x \in {since, received[m]} : \A y \in {since, received[m]} : x >= y
      BY <3>1
    <3> QED BY <1>3, <3>2, Zenon DEF Mail!Max
  <2>7. MailTyped'
    <3>1. since' \in Nat
      BY <1>1, <2>3, <2>6 DEF MailTyped
    <3> QED BY <1>1, <2>1, <2>5, <3>1 DEF MailTyped
  <2>8. Placed'
    BY <1>1, <2>1, <2>2, <2>5 DEF MailInv, Placed
  <2>9. Once'
    <3> SUFFICES ASSUME NEW n \in Msgs \ (slipped \cup raced)
                 PROVE  /\ lines'[n] <= 1
                        /\ \A v, u \in Threads : hand'[v] = n /\ hand'[u] = n => v = u
                        /\ lines'[n] = 1 => n \in seen /\ \A v \in Threads : hand'[v] # n
      BY <2>1 DEF Once
    <3>1. /\ lines[n] <= 1 /\ lines[n] \in Nat
          /\ \A v, u \in Threads : hand[v] = n /\ hand[u] = n => v = u
          /\ lines[n] = 1 => n \in seen /\ \A v \in Threads : hand[v] # n
      BY <1>1 DEF MailInv, Once, MailTyped
    <3>2. n # NoMsg
      BY MailBounds
    <3>3. CASE n # m
      BY <2>5, <3>1, <3>2, <3>3
    <3>4. CASE n = m
      <4>1. lines[n] = 0
        BY <1>3, <3>1, <3>4
      <4>2. \A v \in Threads : hand'[v] # n
        BY <1>3, <2>5, <3>1, <3>2, <3>4
      <4> QED BY <2>3, <2>5, <3>4, <4>1, <4>2
    <3> QED BY <3>3, <3>4
  <2>10. Logged'
    <3> SUFFICES ASSUME NEW n \in gone
                 PROVE  lines'[n] > 0 \/ n \in slipped \/ \E u \in Threads : hand'[u] = n
      BY <2>1 DEF Logged
    <3>1. n \in Msgs /\ lines[n] \in Nat /\ (lines[n] > 0 \/ n \in slipped \/ \E u \in Threads : hand[u] = n)
      BY <1>1 DEF MailInv, Logged, MailTyped
    <3> QED BY <1>3, <2>5, <3>1
  <2>11. Dated'
    <3>1. received[m] \in Nat
      BY <1>1, <2>3 DEF MailTyped
    <3>2. DatedBy(seen, since')
      BY <2>3, <2>6, <3>1 DEF MailInv, Dated, DatedBy
    <3> QED BY <2>1, <3>2 DEF MailInv, Dated, DatedBy
  <2>12. \A n \in Msgs : Waits(n) => Waits(n)' \/ n \in seen'
    BY <2>1 DEF Waits
  <2>13. Caught'
    BY <1>1, <2>1, <2>2, <2>12, WorkCaught
  <2> QED BY <2>7, <2>8, <2>9, <2>10, <2>11, <2>13 DEF MailInv
<1> QED BY <1>2, <1>3 DEF Mail!Log

\* What Outlook told of goes from the queue to the thread.
LEMMA TakeKeeps ==
  ASSUME MailInv, NEW t \in Threads, Mail!Take(t)
  PROVE  MailInv'
<1>1. MailTyped /\ at[t] = "loop" /\ todo[t] = {} /\ pending' = Tail(pending) /\ pending # <<>>
  BY DEF MailInv, Placed, Mail!Take
<1>2. /\ pending' \in Seq(Msgs) /\ Head(pending) \in Msgs
      /\ Mail!Range(pending) = Mail!Range(pending') \cup {Head(pending)}
  BY <1>1, Unqueued DEF MailTyped
<1>3. CASE Mail!Raise(t)
  BY <1>2, <1>3, RaiseKeeps
<1>4. CASE /\ Head(pending) \in seen
           /\ UNCHANGED <<Mail!outlook, stop, dirty, quit, show, said, seen, since, unread, Mail!threads, Mail!files, Mail!history>>
  <2>1. UNCHANGED <<inbox, received, stop, seen, since, at, todo, hand, file, lines, gone, slipped, raced>>
    BY <1>4 DEF Mail!outlook, Mail!threads, Mail!files, Mail!history
  <2>2. MailTyped'
    BY <1>1, <1>2, <2>1 DEF MailTyped
  <2>3. Placed' /\ Once' /\ Logged' /\ Dated'
    BY <2>1 DEF MailInv, Placed, Once, Logged, Dated, DatedBy
  <2>4. \A m \in Msgs : Waits(m) => Waits(m)' \/ m \in seen'
    BY <1>2, <1>4, <2>1 DEF Waits
  <2>5. at' = [at EXCEPT ![t] = "loop"]
    BY <1>1, <2>1 DEF MailTyped
  <2>6. Caught'
    BY <1>1, <2>1, <2>4, <2>5, WorkCaught
  <2> QED BY <2>2, <2>3, <2>6 DEF MailInv
<1>5. CASE /\ todo' = [todo EXCEPT ![t] = Mail!Mails({Head(pending)})] /\ Mail!GoTo(t, "assess")
           /\ UNCHANGED <<Mail!outlook, stop, seen, since, hand, Mail!files, Mail!history>>
  <2>1. UNCHANGED <<inbox, received, stop, seen, since, hand, file, lines, gone, slipped, raced>>
    BY <1>5 DEF Mail!outlook, Mail!files, Mail!history
  <2>2. at' = [at EXCEPT ![t] = "assess"]
    BY <1>5 DEF Mail!GoTo
  <2>3. PICK one \in Msgs \X BOOLEAN : one[1] = Head(pending) /\ Mail!Mails({Head(pending)}) = {one}
    <3>1. (Head(pending) \in fresh) \in BOOLEAN
      OBVIOUS
    <3>2. Mail!Mails({Head(pending)}) = {<<Head(pending), Head(pending) \in fresh>>}
      BY DEF Mail!Mails
    <3> QED BY <1>2, <3>1, <3>2
  <2>4. /\ at' \in [Threads -> Mail!Phases] /\ at'[t] = "assess" /\ todo'[t] = {one}
        /\ \A u \in Threads \ {t} : at'[u] = at[u] /\ todo'[u] = todo[u]
        /\ todo' \in [Threads -> SUBSET (Msgs \X BOOLEAN)]
    <3>1. at' \in [Threads -> Mail!Phases] /\ at'[t] = "assess" /\ \A u \in Threads \ {t} : at'[u] = at[u]
      BY <1>1, <2>2 DEF MailTyped, Mail!Phases
    <3>2. {one} \in SUBSET (Msgs \X BOOLEAN) /\ todo' = [todo EXCEPT ![t] = {one}]
      BY <1>5, <2>3
    <3>3. ASSUME NEW kinds, todo \in [Threads -> kinds], {one} \in kinds
          PROVE  todo' \in [Threads -> kinds] /\ todo'[t] = {one} /\ \A u \in Threads \ {t} : todo'[u] = todo[u]
      BY <3>2, <3>3
    <3> QED BY <1>1, <3>1, <3>2, <3>3 DEF MailTyped
  <2>5. MailTyped'
    BY <1>1, <1>2, <2>1, <2>4 DEF MailTyped
  <2>6. Placed'
    BY <1>1, <2>1, <2>4 DEF MailInv, Placed
  <2>7. Once' /\ Logged' /\ Dated'
    BY <2>1 DEF MailInv, Once, Logged, Dated, DatedBy
  <2>8. ASSUME NEW m \in Msgs, m = Head(pending)
        PROVE  Waits(m)'
    <3>1. one \in todo'[t] /\ one[1] = m
      BY <2>3, <2>4, <2>8
    <3> QED BY <3>1 DEF Waits
  <2>9. \A m \in Msgs : Waits(m) => Waits(m)' \/ m \in seen'
    <3>1. ASSUME NEW m \in Msgs, Waits(m), m # Head(pending)
          PROVE  Waits(m)'
      <4>1. CASE m \in Mail!Range(pending)
        BY <1>1, <1>2, <3>1, <4>1 DEF Waits
      <4>2. CASE \E u \in Threads : \E mail0 \in todo[u] : mail0[1] = m
        <5>1. \E u \in Threads \ {t} : \E mail0 \in todo[u] : mail0[1] = m
          BY <1>1, <4>2
        <5>2. \E u \in Threads : \E mail0 \in todo'[u] : mail0[1] = m
          BY <2>4, <5>1
        <5> QED BY <5>2 DEF Waits
      <4> QED BY <3>1, <4>1, <4>2 DEF Waits
    <3> QED BY <2>8, <3>1
  <2>10. Caught'
    BY <1>1, <2>1, <2>2, <2>9, WorkCaught
  <2> QED BY <2>5, <2>6, <2>7, <2>10 DEF MailInv
<1> QED BY <1>3, <1>4, <1>5 DEF Mail!Take

\* The attachment to Outlook and its end, the rests between, the switch, and the writes of the file.
LEMMA RestKeeps ==
  ASSUME MailInv, NEW t \in Threads,
         \/ Mail!Attach(t) \/ Mail!NotThere(t) \/ Mail!Store(t) \/ Mail!Refresh(t) \/ Mail!OpenInbox(t)
         \/ Mail!Leave(t) \/ Mail!End(t) \/ Mail!Retry(t) \/ Mail!On(t)
  PROVE  MailInv'
<1>1. MailTyped /\ pending \in Seq(Msgs) /\ <<>> \in Seq(Msgs)
  BY DEF MailInv, MailTyped
<1>2. Mail!Save => (UNCHANGED <<seen, since>> => file'.seen = seen /\ file'.since = since)
  BY DEF Mail!Save
<1>3. CASE Mail!Attach(t)
  <2>1. /\ at[t] = "attach" /\ pending' = <<>>
        /\ UNCHANGED <<inbox, received, seen, since, todo, hand, lines, gone, slipped, raced>>
        /\ file' = file \/ (file'.seen = seen /\ file'.since = since)
        /\ \E p \in {"catch", "retry"} : at' = [at EXCEPT ![t] = p]
    BY <1>2, <1>3 DEF Mail!Attach, Mail!GoTo, Mail!outlook, Mail!history
  <2> QED BY <1>1, <2>1, IdleKeeps DEF Idles
<1>4. CASE Mail!NotThere(t) \/ Mail!Leave(t) \/ Mail!Retry(t)
  <2>1. /\ at[t] \in {"attach", "loop", "retry"} /\ UNCHANGED pending
        /\ UNCHANGED <<inbox, received, seen, since, todo, hand, lines, gone, slipped, raced>>
        /\ file' = file \/ (file'.seen = seen /\ file'.since = since)
        /\ \E p \in {"attach", "retry", "dead"} : at' = [at EXCEPT ![t] = p]
    BY <1>2, <1>4 DEF Mail!NotThere, Mail!Leave, Mail!Retry, Mail!GoTo, Mail!outlook, Mail!history
  <2> QED BY <1>1, <2>1, IdleKeeps DEF Idles
<1>5. CASE Mail!Store(t)
  <2>1. CASE Mail!Raise(t) /\ UNCHANGED <<pending, said>>
    BY <1>1, <2>1, RaiseKeeps
  <2>2. CASE Mail!GoTo(t, "loop") /\ UNCHANGED <<Mail!outlook, Mail!service, todo, hand, lines, Mail!history>> /\ Mail!Save
    <3>1. /\ at[t] = "save" /\ at' = [at EXCEPT ![t] = "loop"]
          /\ UNCHANGED <<inbox, received, stop, pending, seen, since, todo, hand, lines, gone, slipped, raced>>
      BY <1>5, <2>2 DEF Mail!Store, Mail!GoTo, Mail!outlook, Mail!service, Mail!history
    <3>2. file'.seen = seen /\ file'.since = since
      BY <1>2, <2>2, <3>1
    <3> QED BY <1>1, <3>1, <3>2, IdleKeeps DEF Idles
  <2> QED BY <1>5, <2>1, <2>2 DEF Mail!Store
<1>6. CASE Mail!Refresh(t) \/ Mail!OpenInbox(t)
  <2>1. /\ at[t] = "loop" /\ UNCHANGED <<inbox, received, stop, pending, seen, since, todo, hand, lines, gone, slipped, raced>>
        /\ file' = file \/ (file'.seen = seen /\ file'.since = since)
        /\ at' = at \/ at' = [at EXCEPT ![t] = "retry"]
    BY <1>2, <1>6 DEF Mail!Refresh, Mail!OpenInbox, Mail!Resting, Mail!GoTo, Mail!outlook, Mail!history, Mail!threads
  <2>2. at' = at => at' = [at EXCEPT ![t] = "loop"]
    BY <1>1, <2>1 DEF MailTyped
  <2> QED BY <1>1, <2>1, <2>2, IdleKeeps DEF Idles
<1>7. CASE Mail!End(t)
  <2>1. /\ at[t] = "attach" /\ stop' /\ at' = [at EXCEPT ![t] = "off"] /\ UNCHANGED pending
        /\ UNCHANGED <<inbox, received, seen, since, todo, hand, file, lines, gone, slipped, raced>>
    BY <1>7 DEF Mail!End, Mail!GoTo, Mail!outlook, Mail!service, Mail!files, Mail!history
  <2> QED BY <1>1, <2>1, IdleKeeps DEF Idles
<1>8. CASE Mail!On(t)
  <2>1. /\ at[t] \in {"off", "dead"} /\ at' = [at EXCEPT ![t] = "attach"] /\ UNCHANGED pending
        /\ UNCHANGED <<inbox, received, seen, since, todo, hand, file, lines, gone, slipped, raced>>
    BY <1>8 DEF Mail!On, Mail!GoTo, Mail!outlook, Mail!files, Mail!history
  <2> QED BY <1>1, <2>1, IdleKeeps DEF Idles
<1> QED BY <1>3, <1>4, <1>5, <1>6, <1>7, <1>8

\* The engine's process starts again, with what is in the file.
LEMMA MailRestarts ==
  ASSUME MailInv, Mail!Restart
  PROVE  MailInv'
<1>1. MailTyped
  BY DEF MailInv
<1>2. /\ stop' = TRUE /\ pending' = <<>> /\ seen' = file.seen /\ since' = file.since
      /\ slipped' = slipped \cup (seen \ file.seen) \cup ({hand[t] : t \in Threads} \ {NoMsg})
      /\ UNCHANGED <<inbox, received, file, lines, gone, raced>>
  BY DEF Mail!Restart, Mail!outlook, Mail!files
<1>3. /\ at' = [t \in Threads |-> "off"] /\ todo' = [t \in Threads |-> {}] /\ hand' = [t \in Threads |-> NoMsg]
  BY DEF Mail!Restart
<1>4. \A t \in Threads : at'[t] = "off" /\ todo'[t] = {} /\ hand'[t] = NoMsg
  BY <1>3
<1>5. MailTyped'
  <2>1. at' \in [Threads -> Mail!Phases] /\ hand' \in [Threads -> Msgs \cup {NoMsg}] /\ pending' \in Seq(Msgs)
    BY <1>2, <1>3 DEF Mail!Phases
  <2>2. todo' \in [Threads -> SUBSET (Msgs \X BOOLEAN)]
    BY <1>3
  <2>3. slipped' \subseteq Msgs
    BY <1>1, <1>2 DEF MailTyped
  <2> QED BY <1>1, <1>2, <2>1, <2>2, <2>3 DEF MailTyped
<1>6. Placed'
  BY <1>4 DEF Placed
<1>7. Once'
  <2>1. \A m \in Msgs \ (slipped' \cup raced') : m \in Msgs \ (slipped \cup raced) /\ (m \in seen => m \in seen')
    BY <1>2
  <2> QED BY <1>2, <1>4, <2>1, MailBounds DEF MailInv, Once
<1>8. Logged'
  BY <1>1, <1>2, MailBounds DEF MailInv, MailTyped, Logged
<1>9. Dated'
  BY <1>2 DEF MailInv, Dated, DatedBy
<1>10. Caught'
  BY <1>2 DEF Caught
<1> QED BY <1>5, <1>6, <1>7, <1>8, <1>9, <1>10 DEF MailInv

LEMMA MailSteps ==
  ASSUME MailInv, [Mail!Next]_Mail!vars
  PROVE  MailInv'
<1>1. ASSUME NEW t \in Threads, Mail!Step(t) \/ Mail!On(t)
      PROVE  MailInv'
  BY <1>1, RestKeeps, TakeKeeps, CatchUpKeeps, AssessKeeps, JudgeKeeps, LogKeeps DEF Mail!Step
<1> QED BY <1>1, WorldKeeps, MailRestarts DEF Mail!Next

\* Every new message is inspected while the watch is on and its threads have caught up, none twice, and what was
\* removed has its line, for any messages, threads and limit of the search: unless a write failed or the engine
\* crashed between the mark and the line.
THEOREM MailIsInspected == Mail!Spec => []MailInspected
<1>1. Mail!Init => MailInv
  BY MailStart
<1>2. MailInv /\ [Mail!Next]_Mail!vars => MailInv'
  BY MailSteps
<1>3. MailInv => MailInspected
  BY MailInvInspects
<1> QED BY <1>1, <1>2, <1>3, PTL DEF Mail!Spec

-----------------------------------------------------------------------------
(* The types of the three.                                                 *)

LEMMA EndsTypes ==
  ASSUME Engine!TypeOK, NEW E \in SUBSET Engines,
         NEW now \in [Engines -> {"off", "loading", "ruled", "loaded", "bind", "open", "up", "gone"}],
         Engine!Ends(E, now), UNCHANGED shares, late' \in BOOLEAN
  PROVE  Engine!TypeOK'
<1> USE DEF Engine!TypeOK, Engine!Ends, Engine!facts, Engine!Decisions
<1>1. where' \in [Engines -> {"off", "loading", "ruled", "loaded", "bind", "open", "up", "gone"}]
  OBVIOUS
<1>2. writes' \in [Engines -> [Engine!Savers -> Engine!Decisions \cup {Engine!Nothing}]]
  BY DEF Engine!Idle
<1>3. web' \subseteq Engines /\ port' \in Engines \cup {Nobody} /\ marked' \subseteq Engines /\ half' \subseteq Engines
  OBVIOUS
<1>4. UNCHANGED <<handed, leaving, stuck, through, rules, entries, ruleFile, entryFile, made, promised, stale, behind>>
  OBVIOUS
<1>5. cut' \in BOOLEAN
  OBVIOUS
<1> QED BY <1>1, <1>2, <1>3, <1>4, <1>5

LEMMA EngineTypes ==
  ASSUME Engine!TypeOK, [Engine!Next]_Engine!vars
  PROVE  Engine!TypeOK'
<1> USE DEF Engine!Decisions
<1> DEFINE Stations == {"off", "loading", "ruled", "loaded", "bind", "open", "up", "gone"}
<1>1. CASE UNCHANGED Engine!vars
  BY <1>1 DEF Engine!vars, Engine!TypeOK
<1> SUFFICES ASSUME NEW e \in Engines, UNCHANGED shares, Engine!Step(e)
             PROVE  Engine!TypeOK'
  BY <1>1 DEF Engine!Next
<1>2. ASSUME Engine!Start(e) \/ Engine!LoadRules(e) \/ Engine!LoadEntries(e) \/ Engine!Ask(e)
             \/ Engine!OpenWeb(e) \/ Engine!OpenDns(e)
      PROVE  Engine!TypeOK'
  <2>1. where' \in [Engines -> Stations]
    BY <1>2 DEF Engine!TypeOK, Engine!To, Engine!Start, Engine!LoadRules, Engine!LoadEntries, Engine!Ask, Engine!OpenWeb,
                Engine!OpenDns
  <2>2. CASE Engine!Start(e)
    BY <2>1, <2>2 DEF Engine!TypeOK, Engine!Start, Engine!stores, Engine!facts
  <2>3. CASE Engine!LoadRules(e)
    BY <2>1, <2>3 DEF Engine!TypeOK, Engine!LoadRules, Engine!facts
  <2>4. CASE Engine!LoadEntries(e)
    BY <2>1, <2>4 DEF Engine!TypeOK, Engine!LoadEntries
  <2>5. CASE Engine!Ask(e)
    BY <2>1, <2>5 DEF Engine!TypeOK, Engine!Ask, Engine!stores, Engine!facts
  <2>6. CASE Engine!OpenWeb(e)
    BY <2>1, <2>6 DEF Engine!TypeOK, Engine!OpenWeb, Engine!stores, Engine!facts
  <2>7. CASE Engine!OpenDns(e)
    BY <2>1, <2>7 DEF Engine!TypeOK, Engine!OpenDns, Engine!stores, Engine!facts
  <2> QED BY <1>2, <2>2, <2>3, <2>4, <2>5, <2>6, <2>7
<1>3. ASSUME Engine!Force(e) \/ Engine!WebRefused(e) \/ Engine!Leave(e) \/ Engine!Crash(e)
      PROVE  Engine!TypeOK'
  <2>1. where \in [Engines -> Stations] /\ [where EXCEPT ![e] = "bind"] \in [Engines -> Stations] /\ late \in BOOLEAN
    BY DEF Engine!TypeOK
  <2>2. {e} \in SUBSET Engines /\ Engine!Alive \ {e} \in SUBSET Engines
    BY DEF Engine!Alive
  <2>3. late' \in BOOLEAN
    BY <1>3, <2>1 DEF Engine!Force, Engine!WebRefused, Engine!Leave, Engine!Crash
  <2>4. \/ Engine!Ends({e}, where)
        \/ Engine!Ends(Engine!Alive \ {e}, [where EXCEPT ![e] = "bind"])
    BY <1>3 DEF Engine!Force, Engine!WebRefused, Engine!Leave, Engine!Crash
  <2> QED BY <2>1, <2>2, <2>3, <2>4, EndsTypes
<1>4. ASSUME NEW ok \in BOOLEAN, Engine!Rule(e, ok)
      PROVE  Engine!TypeOK'
  <2>1. made + 1 \in 0..MaxDecisions /\ made' = made + 1
    BY <1>4, ServicesAssumption DEF Engine!TypeOK, Engine!Rule, Engine!HandoffAssumption
  <2> QED BY <1>4, <2>1 DEF Engine!TypeOK, Engine!Rule
<1>5. CASE Engine!Entry(e)
  BY <1>5 DEF Engine!TypeOK, Engine!Entry, Engine!facts
<1>6. ASSUME NEW t \in Engine!Savers, Engine!Flush(e, t)
      PROVE  Engine!TypeOK'
  BY <1>6 DEF Engine!TypeOK, Engine!Flush, Engine!facts
<1>7. ASSUME NEW t \in Engine!Savers, Engine!Flushed(e, t)
      PROVE  Engine!TypeOK'
  <2>1. entryFile' \in Engine!Decisions /\ cut' \in BOOLEAN
    <3>1. Engine!Writing(e) \subseteq Engine!Decisions
      BY DEF Engine!TypeOK, Engine!Writing
    <3>2. entryFile' = entryFile \/ entryFile' \in Engine!Writing(e)
      BY <1>7 DEF Engine!Flushed
    <3>3. cut' \in BOOLEAN
      BY <1>7 DEF Engine!Flushed, Engine!TypeOK
    <3> HIDE DEF Engine!Decisions
    <3> QED BY <3>1, <3>2, <3>3 DEF Engine!TypeOK
  <2>2. writes' = [writes EXCEPT ![e][t] = Engine!Nothing] /\ through' \subseteq Engines
        /\ UNCHANGED <<where, handed, leaving, stuck, rules, entries, marked, half, ruleFile, web, port>>
        /\ UNCHANGED <<made, promised, stale, behind, late>>
    BY <1>7 DEF Engine!TypeOK, Engine!Flushed, Engine!facts
  <2>3. writes' \in [Engines -> [Engine!Savers -> Engine!Decisions \cup {Engine!Nothing}]]
    <3> DEFINE Written == Engine!Decisions \cup {Engine!Nothing}
    <3>1. Engine!Nothing \in Written /\ writes \in [Engines -> [Engine!Savers -> Written]]
      BY DEF Engine!TypeOK
    <3> HIDE DEF Written
    <3>2. writes' \in [Engines -> [Engine!Savers -> Written]]
      BY <2>2, <3>1
    <3> QED BY <3>2 DEF Written
  <2> QED BY <2>1, <2>2, <2>3 DEF Engine!TypeOK
<1>8. CASE Engine!NothingToSave(e) \/ Engine!Stick(e) \/ Engine!ComesLoose(e)
  BY <1>8 DEF Engine!TypeOK, Engine!NothingToSave, Engine!Stick, Engine!ComesLoose, Engine!stores, Engine!facts
<1> QED BY <1>2, <1>3, <1>4, <1>5, <1>6, <1>7, <1>8 DEF Engine!Step

LEMMA EnginesAreTyped == Engine!Spec => []Engine!TypeOK
<1>1. Engine!Init => Engine!TypeOK
  <2> SUFFICES ASSUME Engine!Init
               PROVE  Engine!TypeOK
    OBVIOUS
  <2>1. 0 \in Engine!Decisions
    BY ServicesAssumption DEF Engine!Decisions, Engine!HandoffAssumption
  <2>2. Engine!Idle \in [Engine!Savers -> Engine!Decisions \cup {Engine!Nothing}]
    BY DEF Engine!Idle
  <2> QED BY <2>1, <2>2 DEF Engine!Init, Engine!TypeOK
<1>2. Engine!TypeOK /\ [Engine!Next]_Engine!vars => Engine!TypeOK'
  BY EngineTypes
<1> QED BY <1>1, <1>2, PTL DEF Engine!Spec

\* What the reminder sees of a query that it has not taken note of has a time.
ReminderTyped ==
  /\ alive \in BOOLEAN /\ on \in BOOLEAN /\ same \in BOOLEAN /\ noted \in BOOLEAN /\ unsaved \in BOOLEAN
  /\ asked \in BOOLEAN /\ lost \in BOOLEAN /\ tell \in BOOLEAN /\ missed \in BOOLEAN
  /\ heard \in Phone!Ages /\ mem \in Phone!States /\ kept \in Phone!States
  /\ sent \in [{"green", "orange", "red"} -> 0..2]
  /\ address \in Phone!Somewhere /\ known \in Phone!Somewhere /\ candidate \in Phone!Somewhere
  /\ written \in Phone!Somewhere /\ told \in Phone!Somewhere /\ checks \in 0..Confirm
  /\ ~noted => heard >= 0

LEMMA Ageing ==
  ASSUME NEW limit \in Nat, NEW age \in -1..limit
  PROVE  /\ Phone!Older(age, limit) \in -1..limit
         /\ age >= 0 => Phone!Older(age, limit) >= 0
BY DEF Phone!Older

LEMMA AgedTypes ==
  ASSUME NEW m \in Phone!States
  PROVE  Phone!Aged(m) \in Phone!States
<1>1. m.quiet \in -1..Lost /\ m.waited \in 0..Grace /\ Lost \in Nat /\ Grace \in Nat
  BY ServicesAssumption DEF Phone!ReminderAssumption, Phone!States, Phone!Ages
<1>2. m.waited \in -1..Grace /\ m.waited >= 0
  BY <1>1
<1>3. Phone!Older(m.quiet, Lost) \in -1..Lost
  BY <1>1, Ageing
<1>4. Phone!Older(m.waited, Grace) \in 0..Grace
  BY <1>1, <1>2, Ageing
<1>5. Phone!Aged(m) = [[m EXCEPT !.quiet = Phone!Older(m.quiet, Lost)] EXCEPT !.waited = Phone!Older(m.waited, Grace)]
  BY DEF Phone!Aged, Phone!States
<1> HIDE DEF Phone!Older
<1> QED BY <1>3, <1>4, <1>5 DEF Phone!States, Phone!Ages

LEMMA FirstTypes == Phone!First \in Phone!States /\ Phone!None \in Phone!States
<1>1. Lost \in Nat /\ Grace \in Nat
  BY ServicesAssumption DEF Phone!ReminderAssumption
<1>2. Phone!First \in Phone!States
  BY <1>1 DEF Phone!First, Phone!States, Phone!Ages
<1> QED BY <1>2 DEF Phone!None, Phone!States

LEMMA EvaluateTypes ==
  ASSUME ReminderTyped, Phone!Evaluate
  PROVE  ReminderTyped'
<1>1. Lost \in Nat /\ Grace \in Nat /\ mem \in Phone!States /\ heard \in -1..Lost /\ (~noted => heard >= 0)
  BY ServicesAssumption DEF Phone!ReminderAssumption, ReminderTyped, Phone!Ages
<1> DEFINE n == Phone!Noted(mem)
           m == Phone!Entered(n, Phone!Judged(n))
           due == Phone!Due(m)
<1>2. n \in Phone!States
  <2>1. CASE noted
    BY <1>1, <2>1 DEF Phone!Noted
  <2>2. CASE ~noted
    <3>1. (IF heard < Grace THEN heard ELSE Grace) \in 0..Grace
      BY <1>1, <2>2
    <3> QED BY <1>1, <2>2, <3>1 DEF Phone!Noted, Phone!States, Phone!Ages
  <2> QED BY <2>1, <2>2
<1>3. m \in Phone!States
  <2> HIDE DEF n
  <2>1. Phone!Judged(n) \in {"waiting", "connected", "lost", "disconnected"}
    BY DEF Phone!Judged
  <2> HIDE DEF Phone!Judged
  <2> QED BY <1>2, <2>1 DEF Phone!Entered, Phone!States
<1>4. mem' = (CASE due = "green" -> [m EXCEPT !.green = TRUE] [] due = "orange" -> [m EXCEPT !.orange = TRUE]
                [] due = "red" -> [m EXCEPT !.red = TRUE] [] OTHER -> m)
      /\ unsaved' = (~noted \/ mem' # mem)
  BY DEF Phone!Evaluate
<1>5. mem' \in Phone!States
  <2>1. /\ [m EXCEPT !.green = TRUE] \in Phone!States /\ [m EXCEPT !.orange = TRUE] \in Phone!States
        /\ [m EXCEPT !.red = TRUE] \in Phone!States
    <3> HIDE DEF m
    <3> QED BY <1>3 DEF Phone!States
  <2> HIDE DEF m, due
  <2> QED BY <1>3, <1>4, <2>1
<1>6. sent' \in [{"green", "orange", "red"} -> 0..2]
  <2>1. sent \in [{"green", "orange", "red"} -> 0..2] /\ DOMAIN sent = {"green", "orange", "red"}
    BY DEF ReminderTyped
  <2>2. PICK over, d : LET before == [c \in DOMAIN sent |-> IF c \in over THEN 0 ELSE sent[c]]
                       IN sent' = [c \in DOMAIN sent |-> IF c = d /\ before[c] < 2 THEN before[c] + 1 ELSE before[c]]
    BY DEF Phone!Evaluate
  <2> QED BY <2>1, <2>2
<1>7. noted' = TRUE /\ asked' \in BOOLEAN /\ unsaved' \in BOOLEAN
  BY <1>4 DEF Phone!Evaluate, ReminderTyped
<1>8. UNCHANGED <<alive, on, same, kept, lost, heard, address, known, candidate, checks, tell, written, told, missed>>
  BY DEF Phone!Evaluate, Phone!watch
<1> QED BY <1>5, <1>6, <1>7, <1>8 DEF ReminderTyped

LEMMA ReminderTypes ==
  ASSUME ReminderTyped, [Phone!Next]_Phone!vars
  PROVE  ReminderTyped'
<1> USE DEF ReminderTyped
<1>0. Lost \in Nat \ {0} /\ Confirm \in Nat \ {0} /\ 0 \in Phone!Ages /\ -1 \in Phone!Ages
      /\ Nowhere \in Phone!Somewhere
  BY ServicesAssumption DEF Phone!ReminderAssumption, Phone!Ages, Phone!Somewhere
<1>1. CASE UNCHANGED Phone!vars
  BY <1>1 DEF Phone!vars, Phone!reminder, Phone!resolver, Phone!watch
<1>2. CASE Phone!Tick
  <2>1. heard' \in Phone!Ages /\ (heard >= 0 => heard' >= 0)
    BY <1>0, <1>2, Ageing DEF Phone!Tick, Phone!Ages
  <2>2. mem' \in Phone!States /\ kept' \in Phone!States
    BY <1>2, AgedTypes, FirstTypes DEF Phone!Tick
  <2> QED BY <1>2, <2>1, <2>2 DEF Phone!Tick, Phone!watch
<1>3. CASE Phone!Ask
  <2>1. heard' \in Phone!Ages /\ heard' >= 0
    BY <1>0, <1>3 DEF Phone!Ask
  <2>2. /\ noted' = FALSE
        /\ UNCHANGED <<alive, on, same, mem, unsaved, kept, sent, asked, lost, address, known, candidate, checks,
                       tell, written, told, missed>>
    BY <1>3 DEF Phone!Ask, Phone!reminder, Phone!watch
  <2> QED BY <2>1, <2>2
<1>4. ASSUME NEW a \in Phone!Somewhere, Phone!Move(a)
      PROVE  ReminderTyped'
  BY <1>4 DEF Phone!Move, Phone!reminder, Phone!resolver
<1>5. CASE Phone!Start
  BY <1>5, FirstTypes DEF Phone!Start, Phone!resolver
<1>6. CASE Phone!Crash \/ Phone!Boot
  <2>1. /\ sent' \in [{"green", "orange", "red"} -> 0..2] /\ kept' \in Phone!States
        /\ asked' \in BOOLEAN /\ lost' \in BOOLEAN
    <3>1. Phone!Unsent \in [{"green", "orange", "red"} -> 0..2]
      BY DEF Phone!Unsent
    <3>2. CASE Phone!Crash
      BY <3>2 DEF Phone!Crash
    <3>3. CASE Phone!Boot
      BY <3>1, <3>3, FirstTypes DEF Phone!Boot
    <3> QED BY <1>6, <3>2, <3>3
  <2>2. Phone!Stops
    BY <1>6 DEF Phone!Crash, Phone!Boot
  <2>3. heard' \in Phone!Ages /\ checks' \in 0..Confirm /\ candidate' \in Phone!Somewhere /\ known' \in Phone!Somewhere
    BY <1>0, <2>2 DEF Phone!Stops
  <2>4. /\ alive' = FALSE /\ on' = FALSE /\ same' = FALSE /\ noted' = TRUE /\ unsaved' = FALSE /\ tell' = FALSE
        /\ mem' = Phone!First /\ missed' \in BOOLEAN /\ UNCHANGED <<address, written, told>>
    BY <2>2 DEF Phone!Stops
  <2> QED BY <2>1, <2>3, <2>4, FirstTypes
<1>7. CASE Phone!TurnOn
  BY <1>7 DEF Phone!TurnOn, Phone!resolver, Phone!watch
<1>8. CASE Phone!TurnOff
  BY <1>8 DEF Phone!TurnOff, Phone!reminder, Phone!resolver, Phone!watch
<1>9. CASE Phone!Save
  BY <1>9 DEF Phone!Save, Phone!resolver, Phone!watch
<1>10. CASE Phone!Check
  <2>1. checks' \in 0..Confirm
    BY <1>0, <1>10 DEF Phone!Check
  <2>2. /\ known' \in Phone!Somewhere /\ candidate' \in Phone!Somewhere /\ written' \in Phone!Somewhere
        /\ told' \in Phone!Somewhere /\ tell' \in BOOLEAN /\ missed' \in BOOLEAN
    BY <1>0, <1>10 DEF Phone!Check
  <2>3. UNCHANGED <<alive, on, same, mem, unsaved, kept, sent, asked, lost, heard, noted, address>>
    BY <1>10 DEF Phone!Check, Phone!reminder, Phone!resolver
  <2> QED BY <2>1, <2>2, <2>3
<1>11. CASE Phone!Notify
  BY <1>11 DEF Phone!Notify, Phone!reminder, Phone!resolver
<1> QED BY <1>1, <1>2, <1>3, <1>4, <1>5, <1>6, <1>7, <1>8, <1>9, <1>10, <1>11, EvaluateTypes DEF Phone!Next, Phone!Thread

LEMMA RemindersAreTyped == Phone!Spec => []Phone!TypeOK
<1>1. Phone!Init => ReminderTyped
  <2> SUFFICES ASSUME Phone!Init
               PROVE  ReminderTyped
    OBVIOUS
  <2>1. Phone!Unsent \in [{"green", "orange", "red"} -> 0..2]
    BY DEF Phone!Unsent
  <2>2. -1 \in Phone!Ages /\ 0 \in 0..Confirm /\ Nowhere \in Phone!Somewhere
    BY ServicesAssumption DEF Phone!ReminderAssumption, Phone!Ages, Phone!Somewhere
  <2> QED BY <2>1, <2>2, FirstTypes DEF Phone!Init, ReminderTyped
<1>2. ReminderTyped /\ [Phone!Next]_Phone!vars => ReminderTyped'
  BY ReminderTypes
<1>3. ReminderTyped => Phone!TypeOK
  BY DEF ReminderTyped, Phone!TypeOK
<1> QED BY <1>1, <1>2, <1>3, PTL DEF Phone!Spec

\* What the mail watch keeps beside what its inspections rest on.
MailKept ==
  /\ open \in BOOLEAN /\ stop \in BOOLEAN /\ dirty \in BOOLEAN /\ quit \in BOOLEAN /\ show \in BOOLEAN
  /\ said \in {"closed", "running", "error"} /\ fresh \subseteq inbox /\ unread \subseteq Msgs /\ gone \subseteq Danger
  /\ received \in [Msgs -> 0..MaxTime] /\ since \in 0..MaxTime
  /\ file \in Mail!Saved /\ found \in [Threads -> BOOLEAN]
MailShaped == MailInv /\ MailKept

LEMMA MailIsTyped ==
  ASSUME MailShaped
  PROVE  Mail!TypeOK
<1>1. [seen |-> seen, since |-> since, unread |-> unread] \in Mail!Saved
  BY DEF MailShaped, MailInv, MailTyped, MailKept, Mail!Saved
<1> QED BY <1>1 DEF MailShaped, MailInv, MailTyped, MailKept, Mail!TypeOK

\* What a save puts in the file.
LEMMA SavedKept ==
  ASSUME MailTyped', MailKept, unread' \subseteq Msgs, since' \in 0..MaxTime, Mail!Save \/ UNCHANGED file
  PROVE  file' \in Mail!Saved
BY DEF MailTyped, MailKept, Mail!Save, Mail!Saved

\* A step that leaves Outlook and the history alone.
LEMMA QuietKept ==
  ASSUME MailKept, MailTyped', UNCHANGED <<inbox, received, gone, open>>, fresh' \subseteq fresh,
         unread' \subseteq Msgs, since' \in 0..MaxTime, Mail!Save \/ UNCHANGED file, found' \in [Threads -> BOOLEAN],
         said' \in {"closed", "running", "error"},
         stop' \in BOOLEAN, dirty' \in BOOLEAN, quit' \in BOOLEAN, show' \in BOOLEAN
  PROVE  MailKept'
<1>1. file' \in Mail!Saved
  BY SavedKept
<1> QED BY <1>1 DEF MailKept

LEMMA RaiseKept ==
  ASSUME MailKept, MailTyped', NEW t \in Threads, Mail!Raise(t), UNCHANGED said
  PROVE  MailKept'
<1>1. UNCHANGED <<inbox, received, gone, open, fresh, stop, dirty, quit, show, seen, since, unread, file>>
  BY DEF Mail!Raise, Mail!outlook, Mail!files
<1>2. found' \in [Threads -> BOOLEAN]
  BY DEF Mail!Raise, MailKept
<1> QED BY <1>1, <1>2, QuietKept DEF MailKept

LEMMA WorldKept ==
  ASSUME MailShaped, MailTyped', Mail!World
  PROVE  MailKept'
<1>1. UNCHANGED <<stop, said, since, unread, found, file, gone>>
  BY DEF Mail!World, Mail!Arrive, Mail!ReadIt, Mail!DeleteIt, Mail!OpenOutlook, Mail!CloseOutlook, Mail!Click,
         Mail!Outside, Mail!threads, Mail!files, Mail!history
<1>2. open' \in BOOLEAN /\ quit' \in BOOLEAN /\ show' \in BOOLEAN /\ dirty' \in BOOLEAN
  BY DEF MailShaped, MailKept, Mail!World, Mail!Arrive, Mail!ReadIt, Mail!DeleteIt, Mail!OpenOutlook, Mail!CloseOutlook,
         Mail!Click, Mail!Outside, Mail!outlook, Mail!Changed, Mail!Called
<1>3. received' \in [Msgs -> 0..MaxTime]
  <2>1. \A when \in 1..MaxTime : when \in 0..MaxTime
    BY ServicesAssumption DEF Mail!MailAssumption
  <2>2. \/ UNCHANGED received
        \/ \E m \in Msgs : \E when \in 1..MaxTime : received' = [received EXCEPT ![m] = when]
    BY DEF Mail!World, Mail!Arrive, Mail!ReadIt, Mail!DeleteIt, Mail!OpenOutlook, Mail!CloseOutlook, Mail!Click,
           Mail!outlook
  <2> QED BY <2>1, <2>2 DEF MailShaped, MailKept
<1>4. fresh' \subseteq inbox'
  BY DEF MailShaped, MailKept, Mail!World, Mail!Arrive, Mail!ReadIt, Mail!DeleteIt, Mail!OpenOutlook, Mail!CloseOutlook,
         Mail!Click, Mail!outlook
<1> QED BY <1>1, <1>2, <1>3, <1>4 DEF MailShaped, MailKept

LEMMA MailTypes ==
  ASSUME MailShaped, [Mail!Next]_Mail!vars
  PROVE  MailShaped'
<1>1. MailInv' /\ MailTyped' /\ MailKept /\ MailTyped
  BY MailSteps DEF MailShaped, MailInv
<1> SUFFICES MailKept'
  BY <1>1 DEF MailShaped
<1>2. CASE UNCHANGED Mail!vars
  BY <1>1, <1>2 DEF MailKept, Mail!vars, Mail!outlook, Mail!service, Mail!threads, Mail!files, Mail!history
<1>3. CASE Mail!World
  BY <1>1, <1>3, WorldKept
<1>4. CASE Mail!Off
  BY <1>1, <1>4, QuietKept DEF Mail!Off, Mail!outlook, Mail!threads, Mail!files, Mail!history, MailKept
<1>5. CASE Mail!Restart
  <2>1. /\ UNCHANGED <<open, inbox, fresh, received, file, gone>>
        /\ stop' = TRUE /\ dirty' = FALSE /\ quit' = FALSE /\ show' = FALSE /\ said' \in {"closed", "running", "error"}
        /\ since' = file.since /\ unread' = file.unread
    BY <1>5 DEF Mail!Restart, Mail!outlook, Mail!files
  <2>2. file.since \in 0..MaxTime /\ file.unread \subseteq Msgs /\ found' \in [Threads -> BOOLEAN]
    BY <1>1, <1>5 DEF MailKept, Mail!Saved, Mail!Restart
  <2> QED BY <1>1, <2>1, <2>2 DEF MailKept
<1>6. ASSUME NEW t \in Threads, Mail!On(t)
      PROVE  MailKept'
  BY <1>1, <1>6, QuietKept DEF Mail!On, Mail!outlook, Mail!files, Mail!history, MailKept
<1>7. ASSUME NEW t \in Threads, Mail!Step(t)
      PROVE  MailKept'
  <2>1. CASE Mail!Attach(t) \/ Mail!NotThere(t) \/ Mail!Leave(t) \/ Mail!End(t) \/ Mail!Retry(t)
    <3>1. UNCHANGED <<open, inbox, fresh, received, gone, stop, show, since, unread, found>>
      BY <2>1 DEF Mail!Attach, Mail!NotThere, Mail!Leave, Mail!End, Mail!Retry, Mail!outlook, Mail!service, Mail!history,
                  Mail!files
    <3>2. Mail!Save \/ UNCHANGED file
      BY <2>1 DEF Mail!Attach, Mail!NotThere, Mail!Leave, Mail!End, Mail!Retry, Mail!files
    <3>3. dirty' \in BOOLEAN /\ quit' \in BOOLEAN /\ said' \in {"closed", "running", "error"}
      BY <1>1, <2>1 DEF Mail!Attach, Mail!NotThere, Mail!Leave, Mail!End, Mail!Retry, Mail!service, MailKept
    <3> QED BY <1>1, <3>1, <3>2, <3>3, QuietKept DEF MailKept
  <2>2. CASE Mail!CatchUp(t)
    BY <1>1, <2>2, RaiseKept, QuietKept DEF Mail!CatchUp, Mail!outlook, Mail!service, Mail!files, Mail!history, MailKept
  <2>3. CASE Mail!Assess(t)
    BY <1>1, <2>3, QuietKept DEF Mail!Assess, Mail!outlook, Mail!service, Mail!files, MailKept
  <2>4. CASE Mail!Judge(t)
    <3>1. PICK mail0 \in todo[t] : Mail!Judge(t)!(mail0)
      BY <2>4 DEF Mail!Judge
    <3>2. mail0 \in Msgs \X BOOLEAN /\ mail0[1] \in Msgs
      BY <1>1 DEF MailTyped
    <3>3. fresh' \subseteq inbox' /\ gone' \subseteq Danger
      BY <1>1, <3>1 DEF MailKept, Mail!Dangerous
    <3>4. unread' \subseteq Msgs
      BY <1>1, <3>1, <3>2 DEF MailKept
    <3>5. UNCHANGED <<open, received, stop, dirty, quit, show, said, since, found, file>>
      BY <3>1 DEF Mail!files
    <3> QED BY <1>1, <3>3, <3>4, <3>5 DEF MailKept
  <2>5. CASE Mail!Log(t)
    <3>1. CASE Mail!Raise(t) /\ UNCHANGED <<pending, said>>
      BY <1>1, <3>1, RaiseKept
    <3>2. ASSUME since' = Mail!Max({since, received[hand[t]]}), found' = [found EXCEPT ![t] = TRUE],
                 UNCHANGED <<Mail!outlook, stop, pending, dirty, quit, show, said, seen, unread, todo, file, Mail!history>>
          PROVE  MailKept'
      <4>1. hand[t] \in Msgs
        BY <1>1, <2>5 DEF MailShaped, MailInv, MailTyped, Placed, Mail!Log
      <4>2. since \in 0..MaxTime /\ received[hand[t]] \in 0..MaxTime
        BY <1>1, <4>1 DEF MailKept
      <4>3. since \in Int /\ received[hand[t]] \in Int
        BY <4>2
      <4>4. \E x \in {since, received[hand[t]]} : \A y \in {since, received[hand[t]]} : x >= y
        BY <4>3
      <4>5. since' \in {since, received[hand[t]]}
        BY <3>2, <4>4, Zenon DEF Mail!Max
      <4>6. since' \in 0..MaxTime
        BY <4>2, <4>5
      <4> QED BY <1>1, <3>2, <4>6, QuietKept DEF MailKept, Mail!outlook, Mail!history
    <3> QED BY <2>5, <3>1, <3>2 DEF Mail!Log
  <2>6. CASE Mail!Store(t)
    BY <1>1, <2>6, RaiseKept, QuietKept DEF Mail!Store, Mail!outlook, Mail!service, Mail!history, MailKept
  <2>7. CASE Mail!Take(t)
    BY <1>1, <2>7, RaiseKept, QuietKept DEF Mail!Take, Mail!outlook, Mail!threads, Mail!files, Mail!history, MailKept
  <2>8. CASE Mail!Refresh(t)
    <3>1. unread' \subseteq Msgs
      BY <1>1, <2>8 DEF Mail!Refresh, MailKept
    <3> QED BY <1>1, <2>8, <3>1, QuietKept DEF Mail!Refresh, Mail!outlook, Mail!history, MailKept
  <2>9. CASE Mail!OpenInbox(t)
    <3>1. unread' \subseteq Msgs /\ fresh' \subseteq fresh
      BY <1>1, <2>9 DEF Mail!OpenInbox, MailKept
    <3>2. Mail!Save \/ UNCHANGED file
      BY <2>9 DEF Mail!OpenInbox
    <3> QED BY <1>1, <2>9, <3>1, <3>2, QuietKept DEF Mail!OpenInbox, Mail!threads, Mail!history, MailKept
  <2> QED BY <1>7, <2>1, <2>2, <2>3, <2>4, <2>5, <2>6, <2>7, <2>8, <2>9 DEF Mail!Step
<1> QED BY <1>2, <1>3, <1>4, <1>5, <1>6, <1>7 DEF Mail!Next

LEMMA MailsAreTyped == Mail!Spec => []Mail!TypeOK
<1>1. Mail!Init => MailShaped
  <2> SUFFICES ASSUME Mail!Init
               PROVE  MailKept
    BY MailStart DEF MailShaped
  <2>1. 0 \in 0..MaxTime
    BY ServicesAssumption DEF Mail!MailAssumption
  <2>2. file \in Mail!Saved
    BY <2>1 DEF Mail!Init, Mail!Saved
  <2> QED BY <2>1, <2>2 DEF Mail!Init, MailKept
<1>2. MailShaped /\ [Mail!Next]_Mail!vars => MailShaped'
  BY MailTypes
<1>3. MailShaped => Mail!TypeOK
  BY MailIsTyped
<1> QED BY <1>1, <1>2, <1>3, PTL DEF Mail!Spec

=============================================================================
