---------------------------- MODULE RecordsProofs ---------------------------
(***************************************************************************)
(* Proofs about the records of MCRecords, each by itself and for any       *)
(* number of helpers, apps, connections and threads.                       *)
(***************************************************************************)
EXTENDS MCRecords, FiniteSetTheorems, WellFoundedInduction, TLAPS

-----------------------------------------------------------------------------
(* Each instance has FiniteSets of its own: its Cardinality is the one.    *)

LEMMA PhoneSets ==
  ASSUME NEW S
  PROVE  Phone!Cardinality(S) = Cardinality(S) /\ (Phone!IsFiniteSet(S) <=> IsFiniteSet(S))
BY DEF Phone!Cardinality, Cardinality, Phone!IsFiniteSet, IsFiniteSet

LEMMA ControlsSets ==
  \A S : Controls!Cardinality(S) = Cardinality(S) /\ (Controls!IsFiniteSet(S) <=> IsFiniteSet(S))
BY DEF Controls!Cardinality, Cardinality, Controls!IsFiniteSet, IsFiniteSet

LEMMA PhoneBounds ==
  Phone!Cardinality(Helpers) \in Nat /\ Phone!Cardinality(Sessions) \in Nat /\ None = 0
BY PhoneSets, FS_CardinalityType, RecordsAssumption DEF Phone!HelpersAssumption

-----------------------------------------------------------------------------
(* PhoneHelpers: the worker and the process in its hand. *)

\* The types, in three parts: numbers, sets of them, and where things are.
Numbers ==
  /\ used \in Nat /\ used <= Phone!Cardinality(Helpers)
  /\ begun \in Nat /\ begun <= Phone!Cardinality(Sessions) /\ session \in Nat /\ session <= begun
  /\ child \in Nat /\ child <= used /\ listed \in Nat /\ listed <= used
Members ==
  /\ processes \subseteq 1..used /\ procs \subseteq 1..used /\ strayed \subseteq 1..used
  /\ results \subseteq 1..begun /\ dropped \subseteq 1..begun
Marks ==
  /\ worker \in {"none", "loop", "command", "spawned", "reading", "break", "waiting"}
  /\ halted \in BOOLEAN /\ hired \in BOOLEAN

\* What others see is what the worker has, once it is listed; a worker runs only when one was hired, and one
\* that has no process has none listed either.
InHand ==
  /\ worker \in {"spawned", "reading", "break"} => child \in 1..used
  /\ worker \in {"none", "loop", "command", "waiting"} => child = 0
  /\ worker \in {"reading", "break"} => listed = child
  /\ worker \notin {"reading", "break"} => listed = 0
  /\ worker # "none" => hired

PhoneInv == Numbers /\ Members /\ Marks /\ InHand /\ HelpersHeld

LEMMA PhoneTypes == PhoneInv => Phone!TypeOK
BY PhoneBounds DEF PhoneInv, Numbers, Members, Marks, Phone!TypeOK

LEMMA PhoneInit ==
  ASSUME Phone!Init
  PROVE  PhoneInv
<1>1. Numbers
  BY PhoneBounds DEF Phone!Init, Numbers
<1>2. Members
  BY PhoneBounds DEF Phone!Init, Members
<1>3. Marks
  BY PhoneBounds DEF Phone!Init, Marks
<1>4. InHand
  BY PhoneBounds DEF Phone!Init, InHand
<1>5. Phone!NoOrphan
  BY PhoneBounds DEF Phone!Init, Phone!NoOrphan
<1>6. Phone!OffIsOff
  BY PhoneBounds DEF Phone!Init, Phone!OffIsOff
<1>7. Phone!StopFinds
  BY PhoneBounds DEF Phone!Init, Phone!StopFinds
<1>8. Phone!ResultKept
  BY PhoneBounds DEF Phone!Init, Phone!ResultKept
<1> QED
  BY <1>1, <1>2, <1>3, <1>4, <1>5, <1>6, <1>7, <1>8 DEF PhoneInv, HelpersHeld, Phone!HelpersHeld

LEMMA PhoneStep ==
  ASSUME PhoneInv, [Phone!Next]_Phone!vars
  PROVE  PhoneInv'
<1> USE PhoneBounds DEF PhoneInv, HelpersHeld, Phone!HelpersHeld
<1>1. CASE Phone!Begin
  BY <1>1 DEF Phone!Begin, Phone!Idle, Phone!Room, Phone!evidence, Numbers, Members, Marks, InHand, Phone!NoOrphan, Phone!OffIsOff, Phone!StopFinds, Phone!ResultKept
<1>2. CASE Phone!BeginHalf
  BY <1>2 DEF Phone!BeginHalf, Phone!Idle, Phone!Room, Phone!evidence, Numbers, Members, Marks, InHand, Phone!NoOrphan, Phone!OffIsOff, Phone!StopFinds, Phone!ResultKept
<1>3. CASE Phone!BeginFails
  BY <1>3 DEF Phone!BeginFails, Phone!Idle, Phone!Room, Phone!evidence, Numbers, Members, Marks, InHand, Phone!NoOrphan, Phone!OffIsOff, Phone!StopFinds, Phone!ResultKept
<1>4. CASE Phone!Stop
  <2>1. Numbers'
    BY <1>4 DEF Phone!Stop, Phone!evidence, Numbers
  <2>2. Members'
    <3>1. session \in 1..begun
      BY <1>4 DEF Phone!Stop, Numbers
    <3>2. UNCHANGED <<used, begun, dropped, strayed>> /\ processes' \subseteq processes
      BY <1>4 DEF Phone!Stop, Phone!evidence
    <3>3. results' \subseteq results \cup {session} /\ procs' \subseteq procs
      BY <1>4 DEF Phone!Stop
    <3> QED BY <3>1, <3>2, <3>3 DEF Members
  <2>3. Marks'
    BY <1>4 DEF Phone!Stop, Phone!evidence, Marks
  <2>4. InHand'
    BY <1>4 DEF Phone!Stop, Phone!evidence, Numbers, Marks, InHand
  <2>5. Phone!NoOrphan'
    BY <1>4 DEF Phone!Stop, Phone!evidence, Numbers, Members, Marks, InHand, Phone!NoOrphan
  <2>6. Phone!OffIsOff'
    BY <1>4 DEF Phone!Stop, Phone!evidence, Numbers, Members, Marks, InHand, Phone!OffIsOff, Phone!NoOrphan
  <2>7. Phone!StopFinds'
    BY <1>4 DEF Phone!Stop, Phone!evidence, Numbers, Members, Phone!StopFinds
  <2>8. Phone!ResultKept'
    BY <1>4 DEF Phone!Stop, Phone!evidence, Numbers, Members, Phone!ResultKept
  <2> QED BY <2>1, <2>2, <2>3, <2>4, <2>5, <2>6, <2>7, <2>8
<1>5. CASE Phone!TurnOn
  BY <1>5 DEF Phone!TurnOn, Phone!capture, Numbers, Members, Marks, InHand, Phone!NoOrphan, Phone!OffIsOff, Phone!StopFinds, Phone!ResultKept
<1>6. CASE Phone!TurnOff
  <2>1. Numbers'
    BY <1>6 DEF Phone!TurnOff, Phone!capture, Numbers
  <2>2. Members'
    <3>1. worker = "spawned" => child \in 1..used
      BY DEF InHand
    <3> QED BY <1>6, <3>1 DEF Phone!TurnOff, Phone!capture, Numbers, Members
  <2>3. Marks'
    BY <1>6 DEF Phone!TurnOff, Phone!capture, Marks
  <2>4. InHand'
    BY <1>6 DEF Phone!TurnOff, Phone!capture, Numbers, Marks, InHand
  <2>5. Phone!NoOrphan'
    BY <1>6 DEF Phone!TurnOff, Phone!capture, Numbers, Members, Marks, InHand, Phone!NoOrphan
  <2>6. Phone!OffIsOff'
    BY <1>6 DEF Phone!TurnOff, Phone!capture, Numbers, Members, Marks, InHand, Phone!OffIsOff, Phone!NoOrphan
  <2>7. Phone!StopFinds'
    BY <1>6 DEF Phone!TurnOff, Phone!capture, Numbers, Members, Phone!StopFinds
  <2>8. Phone!ResultKept'
    BY <1>6 DEF Phone!TurnOff, Phone!capture, Numbers, Members, Phone!ResultKept
  <2> QED BY <2>1, <2>2, <2>3, <2>4, <2>5, <2>6, <2>7, <2>8
<1>7. CASE Phone!Spawn
  <2>1. Numbers'
    BY <1>7 DEF Phone!Spawn, Phone!Room, Phone!capture, Numbers
  <2>2. Members'
    <3>1. UNCHANGED <<procs, begun, results, dropped>>
      BY <1>7 DEF Phone!Spawn, Phone!capture
    <3>2. /\ used' \in Nat /\ used <= used' /\ processes' \subseteq processes \cup 1..used'
          /\ strayed' \subseteq strayed \cup 1..used'
      BY <1>7 DEF Phone!Spawn, Phone!Room, Numbers
    <3> QED BY <3>1, <3>2 DEF Members, Numbers
  <2>3. Marks'
    BY <1>7 DEF Phone!Spawn, Phone!Room, Phone!capture, Marks
  <2>4. InHand'
    BY <1>7 DEF Phone!Spawn, Phone!Room, Phone!capture, Numbers, Marks, InHand
  <2>5. Phone!NoOrphan'
    <3>1. UNCHANGED procs /\ strayed \subseteq strayed' /\ child = 0
      BY <1>7 DEF Phone!Spawn, Phone!capture, InHand
    <3>2. processes \subseteq procs \cup strayed
      BY <3>1 DEF Phone!NoOrphan
    <3>3. processes' = processes \/ (child' \in 1..used' /\ processes' = processes \cup {child'})
      BY <1>7 DEF Phone!Spawn, Phone!Room, Numbers
    <3> QED BY <3>1, <3>2, <3>3 DEF Phone!NoOrphan
  <2>6. Phone!OffIsOff'
    BY <1>7 DEF Phone!Spawn, Phone!Room, Phone!capture, Numbers, Members, Marks, InHand, Phone!OffIsOff, Phone!NoOrphan
  <2>7. Phone!StopFinds'
    BY <1>7 DEF Phone!Spawn, Phone!Room, Phone!capture, Numbers, Members, Phone!StopFinds
  <2>8. Phone!ResultKept'
    BY <1>7 DEF Phone!Spawn, Phone!Room, Phone!capture, Numbers, Members, Phone!ResultKept
  <2> QED BY <2>1, <2>2, <2>3, <2>4, <2>5, <2>6, <2>7, <2>8
<1>8. CASE Phone!Register
  BY <1>8 DEF Phone!Register, Phone!capture, Numbers, Members, Marks, InHand, Phone!NoOrphan, Phone!OffIsOff, Phone!StopFinds, Phone!ResultKept
<1>9. CASE Phone!Line
  <2>1. Numbers'
    BY <1>9 DEF Phone!Line, Phone!capture, Numbers
  <2>2. Members'
    BY <1>9 DEF Phone!Line, Phone!capture, Numbers, Members
  <2>3. Marks'
    BY <1>9 DEF Phone!Line, Phone!capture, Marks
  <2>4. InHand'
    BY <1>9 DEF Phone!Line, Phone!capture, Numbers, Marks, InHand
  <2>5. Phone!NoOrphan'
    BY <1>9 DEF Phone!Line, Phone!capture, Numbers, Members, Marks, InHand, Phone!NoOrphan
  <2>6. Phone!OffIsOff'
    BY <1>9 DEF Phone!Line, Phone!capture, Numbers, Members, Marks, InHand, Phone!OffIsOff, Phone!NoOrphan
  <2>7. Phone!StopFinds'
    BY <1>9 DEF Phone!Line, Phone!capture, Numbers, Members, Phone!StopFinds
  <2>8. Phone!ResultKept'
    BY <1>9 DEF Phone!Line, Phone!capture, Numbers, Members, Phone!ResultKept
  <2> QED BY <2>1, <2>2, <2>3, <2>4, <2>5, <2>6, <2>7, <2>8
<1>10. CASE Phone!Done
  BY <1>10 DEF Phone!Done, Phone!capture, Numbers, Members, Marks, InHand, Phone!NoOrphan, Phone!OffIsOff, Phone!StopFinds, Phone!ResultKept
<1>11. CASE Phone!Retry
  BY <1>11 DEF Phone!Retry, Phone!capture, Numbers, Members, Marks, InHand, Phone!NoOrphan, Phone!OffIsOff, Phone!StopFinds, Phone!ResultKept
<1>12. CASE Phone!Look
  BY <1>12 DEF Phone!Look, Phone!capture, Numbers, Members, Marks, InHand, Phone!NoOrphan, Phone!OffIsOff, Phone!StopFinds, Phone!ResultKept
<1>13. CASE \E h \in Helpers : Phone!Ends(h)
  BY <1>13 DEF Phone!Ends, Phone!capture, Phone!evidence, Numbers, Members, Marks, InHand, Phone!NoOrphan, Phone!OffIsOff, Phone!StopFinds, Phone!ResultKept
<1>14. CASE Phone!Crash
  <2>1. Numbers'
    BY <1>14 DEF Phone!Crash, Numbers
  <2>2. Members'
    BY <1>14 DEF Phone!Crash, Numbers, Members
  <2>3. Marks'
    BY <1>14 DEF Phone!Crash, Marks
  <2>4. InHand'
    BY <1>14 DEF Phone!Crash, Numbers, Marks, InHand
  <2>5. Phone!NoOrphan'
    BY <1>14 DEF Phone!Crash, Numbers, Members, Marks, InHand, Phone!NoOrphan
  <2>6. Phone!OffIsOff'
    BY <1>14 DEF Phone!Crash, Numbers, Members, Marks, InHand, Phone!OffIsOff, Phone!NoOrphan
  <2>7. Phone!StopFinds'
    BY <1>14 DEF Phone!Crash, Numbers, Members, Phone!StopFinds
  <2>8. Phone!ResultKept'
    BY <1>14 DEF Phone!Crash, Numbers, Members, Phone!ResultKept
  <2> QED BY <2>1, <2>2, <2>3, <2>4, <2>5, <2>6, <2>7, <2>8
<1>15. CASE UNCHANGED Phone!vars
  BY <1>15 DEF Phone!vars, Phone!capture, Phone!evidence, Numbers, Members, Marks, InHand, Phone!NoOrphan, Phone!OffIsOff, Phone!StopFinds, Phone!ResultKept
<1>16. CASE Phone!BeginNone
  BY <1>16 DEF Phone!BeginNone, Phone!Idle, Phone!evidence, Numbers, Members, Marks, InHand, Phone!NoOrphan, Phone!OffIsOff, Phone!StopFinds, Phone!ResultKept
<1> QED
  BY <1>1, <1>2, <1>3, <1>4, <1>5, <1>6, <1>7, <1>8, <1>9, <1>10, <1>11, <1>12, <1>13, <1>14, <1>15, <1>16 DEF Phone!Next

\* No helper of the capture or of the evidence monitor runs in nobody's hand, off is off, a capture that
\* runs can be stopped and yields its result (app.py: PrivacyCaptureManager, IPhoneEvidenceMonitor).
THEOREM HelpersAreHeld == Phone!Spec => []HelpersHeld
<1>1. PhoneInv => HelpersHeld
  BY DEF PhoneInv
<1> QED
  BY PhoneInit, PhoneStep, <1>1, PTL DEF Phone!Spec

-----------------------------------------------------------------------------
(* PrivacyControls: what memory and file hold agrees with the choices.     *)

\* A store is a record of three fields, its apps a function.
Store(d) ==
  /\ d = [apps |-> d.apps, incidents |-> d.incidents, applied |-> d.applied]
  /\ d.apps = [a \in DOMAIN d.apps |-> d.apps[a]] /\ d.applied \in BOOLEAN

\* d has what the user chose, unless a save has failed.
Holds(d) == \A a \in DOMAIN chosen \ unclear : a \in DOMAIN d.apps /\ d.apps[a].desired = chosen[a]

\* Every verdict in d is on what it holds.
Judges(d) == \A a \in DOMAIN d.apps : d.apps[a] = Controls!Evaluated(d.apps[a].desired, d.apps[a].result)

ControlsInv ==
  /\ up \in BOOLEAN /\ Store(choices) /\ Store(disk)
  /\ Holds(disk) /\ (up => Holds(choices) /\ Judges(choices))
  /\ DOMAIN chosen # {} => disk.applied
  /\ up => choices.applied /\ disk.applied

\* Judging again changes no choice and no result.
LEMMA EvaluatedFields ==
  ASSUME NEW w, NEW r
  PROVE  /\ Controls!Evaluated(w, r).desired = w /\ Controls!Evaluated(w, r).result = r
         /\ Controls!Evaluated(w, r) = Controls!Evaluated(Controls!Evaluated(w, r).desired, Controls!Evaluated(w, r).result)
BY DEF Controls!Evaluated

\* Other incidents leave the rest of a store as it is.
LEMMA AlsoStore ==
  ASSUME NEW d, NEW list, Store(d)
  PROVE  LET w == [d EXCEPT !.incidents = list] IN
         Store(w) /\ w.applied = d.applied /\ w.apps = d.apps /\ w.incidents = list
<1> DEFINE w == [d EXCEPT !.incidents = list]
<1>1. w = [apps |-> d.apps, incidents |-> list, applied |-> d.applied]
  BY DEF Store
<1>2. w.apps = d.apps /\ w.incidents = list /\ w.applied = d.applied
  BY <1>1
<1> QED BY <1>1, <1>2 DEF Store

\* What is loaded has the apps and the choices of the file, each verdict is on them, and the incidents are the
\* newest of the file's and those of the last results.
LEMMA LoadedStore ==
  ASSUME NEW d, Store(d), NEW l \in Controls!Loaded(d)
  PROVE  /\ Store(l) /\ Judges(l) /\ l.applied = d.applied
         /\ DOMAIN l.apps = DOMAIN d.apps
         /\ \A a \in DOMAIN d.apps : l.apps[a].desired = d.apps[a].desired /\ l.apps[a].result = d.apps[a].result
         /\ l.apps = [a \in DOMAIN d.apps |-> Controls!Evaluated(d.apps[a].desired, d.apps[a].result)]
         /\ l.incidents \in Controls!Newest([i \in DOMAIN d.incidents \cup Controls!Last(d) |-> i.at])
<1> DEFINE E == [a \in DOMAIN d.apps |-> Controls!Evaluated(d.apps[a].desired, d.apps[a].result)]
           f == [d EXCEPT !.apps = E]
<1>1. PICK list \in Controls!Newest([i \in DOMAIN d.incidents \cup Controls!Last(d) |-> i.at]) :
        l = [f EXCEPT !.incidents = list]
  BY DEF Controls!Loaded, Controls!Rejudged
<1>2. f = [apps |-> E, incidents |-> d.incidents, applied |-> d.applied]
  BY DEF Store
<1>3. f.apps = E /\ f.applied = d.applied
  BY <1>2
<1>4. Store(f)
  BY <1>2, <1>3 DEF Store
<1> HIDE DEF f
<1>5. Store(l) /\ l.applied = d.applied /\ l.apps = E /\ l.incidents = list
  BY <1>1, <1>3, <1>4, AlsoStore
<1>6. ASSUME NEW a \in DOMAIN d.apps
      PROVE  /\ l.apps[a].desired = d.apps[a].desired /\ l.apps[a].result = d.apps[a].result
             /\ l.apps[a] = Controls!Evaluated(l.apps[a].desired, l.apps[a].result)
  BY <1>5, EvaluatedFields
<1> QED BY <1>1, <1>5, <1>6 DEF Judges

\* The balanced defaults leave a store whose verdicts are true one; where they have been applied, they change
\* nothing.
LEMMA BalancedStore ==
  ASSUME NEW d, Store(d), Judges(d)
  PROVE  LET b == Controls!Balanced(d) IN
         /\ Store(b) /\ Judges(b) /\ b.applied /\ b.incidents = d.incidents
         /\ d.applied => b = d
         /\ ~d.applied => b.apps = [a \in DOMAIN d.apps |->
                                     Controls!Evaluated(Controls!Denied(d.apps[a].desired), d.apps[a].result)]
<1> DEFINE b == Controls!Balanced(d)
           E == [a \in DOMAIN d.apps |-> Controls!Evaluated(Controls!Denied(d.apps[a].desired), d.apps[a].result)]
<1>1. CASE d.applied
  BY <1>1 DEF Controls!Balanced
<1>2. CASE ~d.applied
  <2>1. b = [apps |-> E, incidents |-> d.incidents, applied |-> TRUE]
    BY <1>2 DEF Controls!Balanced, Store
  <2>2. b.apps = E /\ b.incidents = d.incidents /\ b.applied = TRUE
    BY <2>1
  <2>3. Store(b)
    BY <2>1, <2>2 DEF Store
  <2>4. ASSUME NEW a \in DOMAIN d.apps
        PROVE  b.apps[a] = Controls!Evaluated(b.apps[a].desired, b.apps[a].result)
    BY <2>2, EvaluatedFields
  <2> QED BY <1>2, <2>2, <2>3, <2>4 DEF Judges
<1> QED BY <1>1, <1>2

\* A new entry of one app leaves the others as they are.
LEMMA WithStore ==
  ASSUME NEW d, NEW app, NEW entry, Store(d)
  PROVE  LET v == Controls!With(d, app, entry) IN
         /\ Store(v) /\ v.applied = d.applied /\ v.incidents = d.incidents
         /\ DOMAIN v.apps = DOMAIN d.apps \cup {app} /\ v.apps[app] = entry
         /\ \A a \in DOMAIN d.apps \ {app} : v.apps[a] = d.apps[a]
<1> DEFINE v == Controls!With(d, app, entry)
           A == [a \in DOMAIN d.apps \cup {app} |-> IF a = app THEN entry ELSE d.apps[a]]
<1>1. v = [apps |-> A, incidents |-> d.incidents, applied |-> d.applied]
  BY DEF Controls!With, Store
<1>2. v.apps = A /\ v.incidents = d.incidents /\ v.applied = d.applied
  BY <1>1
<1> QED BY <1>1, <1>2 DEF Store

LEMMA ControlsStart ==
  ASSUME Controls!Init
  PROVE  ControlsInv
<1>1. PICK older \in SUBSET Apps :
        disk = [apps |-> [a \in older |-> Controls!Evaluated([k \in Keys |-> "monitor"], Controls!NoResult)],
                incidents |-> <<>>, applied |-> FALSE]
  BY DEF Controls!Init
<1>2. Store(disk)
  BY <1>1 DEF Store
<1>3. DOMAIN chosen = {} /\ chosen = <<>> /\ up = FALSE
  BY DEF Controls!Init
<1>4. Store(choices)
  BY DEF Controls!Init, Store
<1> QED BY <1>2, <1>3, <1>4 DEF ControlsInv, Holds, Judges

\* The engine starts: the file is loaded, and the defaults are applied if they have not been.
LEMMA ControlsStarts ==
  ASSUME ControlsInv, Controls!Start
  PROVE  ControlsInv'
<1> USE DEF ControlsInv
<1>0. PICK l \in Controls!Loaded(disk) :
        \/ up' = TRUE /\ choices' = Controls!Balanced(l) /\ disk' = choices'
        \/ disk' \in {disk, l} /\ UNCHANGED <<up, choices>>
  BY DEF Controls!Start
<1> DEFINE b == Controls!Balanced(l)
<1>1. /\ Store(l) /\ Judges(l) /\ l.applied = disk.applied
      /\ DOMAIN l.apps = DOMAIN disk.apps /\ \A a \in DOMAIN disk.apps : l.apps[a].desired = disk.apps[a].desired
  BY LoadedStore
<1>2. Store(b) /\ Judges(b) /\ b.applied /\ (l.applied => b = l)
  BY <1>1, BalancedStore
<1>3. UNCHANGED <<chosen, unclear>> /\ ~up
  BY DEF Controls!Start
<1>4. Holds(l)
  BY <1>1 DEF Holds
<1>5. Holds(b)
  <2>1. CASE disk.applied
    BY <1>1, <1>2, <1>4, <2>1
  <2>2. CASE ~disk.applied
    BY <2>2 DEF Holds
  <2> QED BY <2>1, <2>2
<1>6. CASE up' = TRUE /\ choices' = b /\ disk' = choices'
  BY <1>1, <1>2, <1>3, <1>4, <1>5, <1>6 DEF Holds
<1>7. CASE disk' \in {disk, l} /\ UNCHANGED <<up, choices>>
  BY <1>1, <1>3, <1>4, <1>7 DEF Holds
<1> QED BY <1>0, <1>6, <1>7

\* A request changes the entry of one app and saves: what it leaves in memory and in the file, given what it
\* made of the choices.
LEMMA ControlsSaves ==
  ASSUME ControlsInv, up, UNCHANGED up, NEW app, NEW ok \in BOOLEAN, Controls!Saves(app, ok),
         NEW entry, entry = Controls!Evaluated(entry.desired, entry.result),
         Store(choices'), choices'.applied = choices.applied,
         DOMAIN choices'.apps = DOMAIN choices.apps \cup {app}, choices'.apps[app] = entry,
         \A a \in DOMAIN choices.apps \ {app} : choices'.apps[a] = choices.apps[a],
         \A a \in DOMAIN chosen' \ {app} : a \in DOMAIN chosen /\ chosen'[a] = chosen[a],
         app \in DOMAIN chosen' \ unclear' => chosen'[app] = entry.desired
  PROVE  ControlsInv'
<1> USE DEF ControlsInv
<1>1. Holds(choices)'
  BY DEF Holds, Controls!Saves
<1>2. Judges(choices)'
  BY DEF Judges
<1>3. CASE ok
  BY <1>1, <1>2, <1>3 DEF Controls!Saves
<1>4. CASE ~ok
  <2>1. disk' = disk /\ unclear' = unclear \cup {app}
    BY <1>4 DEF Controls!Saves
  <2>2. Holds(disk)'
    BY <2>1 DEF Holds
  <2>3. up' /\ choices'.applied /\ disk'.applied
    BY <2>1
  <2> QED BY <1>1, <1>2, <1>4, <2>1, <2>2, <2>3
<1> QED BY <1>3, <1>4

LEMMA ControlsUpdate ==
  ASSUME ControlsInv, NEW a \in Apps, NEW w, NEW ok \in BOOLEAN, Controls!Update(a, w, ok)
  PROVE  ControlsInv'
<1> DEFINE old1 == Controls!Current(choices, a)
           new == [k \in Keys |-> IF k \in DOMAIN w THEN w[k] ELSE old1.desired[k]]
           entry == Controls!Evaluated(new, old1.result)
<1>1. /\ up /\ UNCHANGED up /\ Controls!Saves(a, ok)
      /\ choices' = Controls!With(choices, a, entry)
      /\ chosen' = IF ok THEN [x \in DOMAIN chosen \cup {a} |-> IF x = a THEN new ELSE chosen[x]] ELSE chosen
  BY DEF Controls!Update
<1>2. entry.desired = new /\ entry = Controls!Evaluated(entry.desired, entry.result)
  BY EvaluatedFields
<1>3. \A x \in DOMAIN chosen' \ {a} : x \in DOMAIN chosen /\ chosen'[x] = chosen[x]
  BY <1>1
<1>4. a \in DOMAIN chosen' \ unclear' => chosen'[a] = entry.desired
  BY <1>1, <1>2 DEF Controls!Saves
<1>6. /\ Store(choices') /\ choices'.applied = choices.applied
      /\ DOMAIN choices'.apps = DOMAIN choices.apps \cup {a} /\ choices'.apps[a] = entry
      /\ \A x \in DOMAIN choices.apps \ {a} : choices'.apps[x] = choices.apps[x]
  BY <1>1, WithStore DEF ControlsInv
<1> HIDE DEF entry
<1> QED BY <1>1, <1>2, <1>3, <1>4, <1>6, ControlsSaves

\* A result judges the present choice, and its incident joins the others.
LEMMA ControlsRecorded ==
  ASSUME ControlsInv, NEW a \in Apps, NEW ok \in BOOLEAN, NEW r,
         NEW w, w = Controls!Current(choices, a).desired,
         Controls!Recorded(a, Controls!Evaluated(w, r), ok)
  PROVE  ControlsInv'
<1> DEFINE entry == Controls!Evaluated(w, r)
           v == Controls!With(choices, a, entry)
<1>1. PICK list : /\ up /\ UNCHANGED <<up, chosen>> /\ Controls!Saves(a, ok)
                  /\ choices' = [v EXCEPT !.incidents = list]
  BY DEF Controls!Recorded
<1>2. /\ Store(v) /\ v.applied = choices.applied
      /\ DOMAIN v.apps = DOMAIN choices.apps \cup {a} /\ v.apps[a] = entry
      /\ \A x \in DOMAIN choices.apps \ {a} : v.apps[x] = choices.apps[x]
  BY WithStore DEF ControlsInv
<1> HIDE DEF v
<1>3. /\ Store(choices') /\ choices'.applied = choices.applied
      /\ DOMAIN choices'.apps = DOMAIN choices.apps \cup {a} /\ choices'.apps[a] = entry
      /\ \A x \in DOMAIN choices.apps \ {a} : choices'.apps[x] = choices.apps[x]
  BY <1>1, <1>2, AlsoStore
<1>4. entry.desired = w /\ entry = Controls!Evaluated(entry.desired, entry.result)
  BY EvaluatedFields
<1>5. a \in DOMAIN chosen' \ unclear' => chosen'[a] = entry.desired
  BY <1>1, <1>4 DEF ControlsInv, Holds, Controls!Saves, Controls!Current
<1>6. \A x \in DOMAIN chosen' \ {a} : x \in DOMAIN chosen /\ chosen'[x] = chosen[x]
  BY <1>1
<1> HIDE DEF entry
<1> QED BY <1>1, <1>3, <1>4, <1>5, <1>6, ControlsSaves

\* A second call is to come for an app.
ControlsDue == \A q \in due : q[1] \in Apps

LEMMA ControlsStep ==
  ASSUME ControlsInv, ControlsDue, [Controls!Next]_Controls!vars
  PROVE  ControlsInv'
<1>1. CASE Controls!Start
  BY <1>1, ControlsStarts
<1>2. CASE Controls!Crash
  BY <1>2 DEF Controls!Crash, ControlsInv, Holds, Judges
<1>3. ASSUME NEW a \in Apps, NEW ok \in BOOLEAN, NEW w \in Controls!Wishing, Controls!Update(a, w, ok)
      PROVE  ControlsInv'
  BY <1>3, ControlsUpdate
<1>4. ASSUME NEW a \in Apps, NEW ok \in BOOLEAN, NEW s \in [Keys -> Controls!Seen], Controls!Record(a, s, ok)
      PROVE  ControlsInv'
  BY <1>4, ControlsRecorded DEF Controls!Record
<1>5. ASSUME NEW q \in due, NEW ok \in BOOLEAN, Controls!RecordAgain(q[1], q[2], ok)
      PROVE  ControlsInv'
  BY <1>5, ControlsRecorded DEF Controls!RecordAgain, ControlsDue
<1>6. CASE UNCHANGED Controls!vars
  BY <1>6 DEF Controls!vars, ControlsInv, Holds, Judges
<1> QED BY <1>1, <1>2, <1>3, <1>4, <1>5, <1>6 DEF Controls!Next

-----------------------------------------------------------------------------
(* PhoneApps: the list of the phone's apps and the removals.               *)

\* No two threads are under way.
OneAtWork == \A t, u \in List!Threads : place[t] # "idle" /\ place[u] # "idle" => t = u

\* Where each thread is, by what it is: what it was told was merged, and is still there; what went is
\* neither named by the reading nor Apple's; what a report asked about is on record.
Alone == ~met \/ lone
Steady ==
  /\ OneAtWork
  /\ \A t \in List!Threads : place[t] \in {"prune", "note"} => told[t] \subseteq found /\ told[t] \subseteq foundFile
  /\ \A t \in List!Threads : place[t] = "note" => found \subseteq told[t] \cup Apple /\ gone[t] \cap told[t] = {}
  /\ \A t \in List!Threads : place[t] = "drop" => told[t] \subseteq removed

\* What has been in the saved list and is not on record as removed is in the file, or on its way.
Filed ==
  \A a \in ever \ missing :
    a \in foundFile \/ a \in removed \/ \E t \in List!Threads : place[t] = "note" /\ a \in gone[t]

Threaded ==
  /\ place \in [List!Threads -> {"idle", "merge", "prune", "note", "save", "ask", "drop"}]
  /\ DOMAIN told = List!Threads /\ told = [t \in List!Threads |-> told[t]]
  /\ DOMAIN gone = List!Threads /\ gone = [t \in List!Threads |-> gone[t]]
  /\ met \in BOOLEAN /\ lone \in BOOLEAN /\ settled \in BOOLEAN
  /\ \A t \in List!Threads : place[t] \in {"prune", "note", "save"} => t \in Syncs
  /\ foundFile \subseteq ever /\ removedFile \cap Apple = {}

\* A sync that met nobody is the only thread; once it has noted the removals it saves them, and is over.
Lonely ==
  /\ lone => \A t \in List!Threads : place[t] # "idle" => t \in Syncs
  /\ settled => lone /\ \A t \in List!Threads : place[t] \in {"idle", "save"}

ListInv ==
  /\ Threaded /\ List!AppleStays /\ (Alone => Steady) /\ Lonely
  /\ List!Repaired /\ List!Remembered /\ (~met => Filed)

LEMMA ListStart ==
  ASSUME List!Init
  PROVE  ListInv
BY DEF List!Init, ListInv, Threaded, List!AppleStays, Alone, Steady, OneAtWork, Lonely, List!Repaired, List!Remembered, Filed

LEMMA ListBegins ==
  ASSUME ListInv, NEW t \in List!Threads, NEW p \in {"merge", "save"}, p = "save" => t \in Syncs,
         NEW as, List!Begins(t, p, as)
  PROVE  ListInv'
<1> USE DEF ListInv, List!Begins, List!Busy, List!Goes, List!lists, List!removal
<1>1. Threaded'
  BY DEF Threaded
<1>2. List!AppleStays'
  BY DEF List!AppleStays
<1>3. (Alone => Steady)'
  <2>1. CASE \E u \in List!Threads : place[u] # "idle"
    BY <2>1 DEF Alone
  <2>2. CASE \A u \in List!Threads : place[u] = "idle"
    BY <2>2 DEF Steady, OneAtWork, Threaded
  <2> QED BY <2>1, <2>2
<1>4. Lonely'
  BY DEF Lonely, Threaded
<1>5. List!Repaired'
  BY DEF List!Repaired
<1>6. List!Remembered' /\ (~met => Filed)'
  BY DEF List!Remembered, Filed, Threaded
<1> QED BY <1>1, <1>2, <1>3, <1>4, <1>5, <1>6

LEMMA ListMerge ==
  ASSUME ListInv, NEW t \in List!Threads, NEW ok \in BOOLEAN, List!Merge(t, ok)
  PROVE  ListInv'
<1> USE DEF ListInv, List!Merge, List!SaveList, List!Goes, List!removal
<1>1. Threaded'
  BY DEF Threaded, List!Threads
<1>2. List!AppleStays'
  BY DEF List!AppleStays
<1>3. (Alone => Steady)'
  <2>1. Alone' => Steady /\ \A u \in List!Threads \ {t} : place[u] = "idle"
    BY DEF Alone, Steady, OneAtWork
  <2> QED BY <2>1 DEF Steady, OneAtWork, Threaded
<1>4. Lonely'
  BY DEF Lonely, Threaded
<1>5. List!Repaired'
  BY DEF List!Repaired
<1>6. ~met => List!Remembered' /\ Filed'
  BY DEF List!Remembered, Filed, Threaded
<1> QED BY <1>1, <1>2, <1>3, <1>4, <1>5, <1>6 DEF List!Remembered

LEMMA ListPrune ==
  ASSUME ListInv, NEW t \in List!Threads, NEW ok \in BOOLEAN, List!Prune(t, ok)
  PROVE  ListInv'
<1> DEFINE out == (found \ told[t]) \ Apple
<1> USE DEF ListInv, List!SaveList, List!Goes, List!removal, List!lists
<1>0. /\ place[t] = "prune" /\ place' = [place EXCEPT ![t] = IF ok THEN "note" ELSE "idle"]
      /\ gone' = [gone EXCEPT ![t] = IF ok THEN out ELSE {}]
      /\ missing' = (IF ok THEN missing ELSE missing \cup out)
      /\ UNCHANGED <<removed, removedFile, told, met, lone, settled>>
      /\ found' = found \ out /\ ever' = ever \cup foundFile'
      /\ \/ ok /\ foundFile' = found'
         \/ foundFile' = foundFile /\ (ok => out = {})
  BY DEF List!Prune, Threaded
<1>1. Threaded'
  BY <1>0 DEF Threaded
<1>2. List!AppleStays'
  BY <1>0 DEF List!AppleStays, Threaded
<1>3. (Alone => Steady)'
  <2>1. Alone' => Steady /\ \A u \in List!Threads \ {t} : place[u] = "idle"
    BY <1>0 DEF Alone, Steady, OneAtWork
  <2> QED BY <1>0, <2>1 DEF Steady, OneAtWork, Threaded
<1>4. Lonely'
  BY <1>0 DEF Lonely, Threaded
<1>5. List!Repaired'
  BY <1>0 DEF List!Repaired, Lonely
<1>6. ~met => List!Remembered' /\ Filed'
  <2>1. ASSUME ~met PROVE List!Remembered'
    BY <1>0, <2>1 DEF List!Remembered, Filed, Threaded
  <2>2. ASSUME ~met PROVE Filed'
    BY <1>0, <2>2 DEF List!Remembered, Filed, Threaded
  <2> QED BY <2>1, <2>2
<1> QED BY <1>0, <1>1, <1>2, <1>3, <1>4, <1>5, <1>6 DEF List!Remembered

LEMMA ListNote ==
  ASSUME ListInv, NEW t \in List!Threads, List!Note(t)
  PROVE  ListInv'
<1> USE DEF ListInv, List!Note, List!Goes, List!lists
<1>1. Threaded'
  BY DEF Threaded
<1>2. List!AppleStays'
  BY DEF List!AppleStays
<1>3. (Alone => Steady)'
  <2>1. Alone' => Steady /\ \A u \in List!Threads \ {t} : place[u] = "idle"
    BY DEF Alone, Steady, OneAtWork
  <2> QED BY <2>1 DEF Steady, OneAtWork, Threaded
<1>4. Lonely'
  <2>1. lone => \A u \in List!Threads \ {t} : place[u] = "idle"
    BY DEF Alone, Steady, OneAtWork
  <2> QED BY <2>1 DEF Lonely, Threaded
<1>5. List!Repaired'
  <2>1. lone => /\ told[t] \subseteq found /\ found \subseteq told[t] \cup Apple /\ gone[t] \cap told[t] = {}
    BY DEF Alone, Steady
  <2>2. t \in Syncs /\ removed \cap Apple = {} /\ gone[t] \cap Apple = {}
    BY DEF Threaded, List!AppleStays
  <2> QED BY <2>1, <2>2 DEF List!Repaired
<1>6. ~met => List!Remembered' /\ Filed'
  <2>1. ~met => told[t] \subseteq found /\ told[t] \subseteq foundFile
    BY DEF Alone, Steady
  <2>2. ~met => \A u \in List!Threads \ {t} : place[u] = "idle"
    BY DEF Alone, Steady, OneAtWork
  <2> QED BY <2>1, <2>2 DEF List!Remembered, Filed, Threaded
<1> QED BY <1>1, <1>2, <1>3, <1>4, <1>5, <1>6 DEF List!Remembered

LEMMA ListSave ==
  ASSUME ListInv, NEW t \in List!Threads, NEW ok \in BOOLEAN, List!Save(t, ok)
  PROVE  ListInv'
<1> USE DEF ListInv, List!Save, List!Goes, List!lists
<1>1. Threaded'
  BY DEF Threaded, List!AppleStays
<1>2. List!AppleStays'
  BY DEF List!AppleStays, Threaded
<1>3. (Alone => Steady)'
  <2>1. Alone' => Steady /\ \A u \in List!Threads \ {t} : place[u] = "idle"
    BY DEF Alone, Steady, OneAtWork
  <2> QED BY <2>1 DEF Steady, OneAtWork, Threaded
<1>4. Lonely' /\ List!Repaired'
  BY DEF Lonely, Threaded, List!Repaired
<1>5. ~met => List!Remembered' /\ Filed'
  BY DEF List!Remembered, Filed, Threaded
<1> QED BY <1>1, <1>2, <1>3, <1>4, <1>5 DEF List!Remembered

LEMMA ListAsk ==
  ASSUME ListInv, NEW t \in List!Threads, List!AskRemoved(t)
  PROVE  ListInv'
<1> USE DEF ListInv, List!AskRemoved, List!Goes, List!lists, List!removal
<1>1. Threaded' /\ List!AppleStays'
  BY DEF Threaded, List!AppleStays
<1>2. (Alone => Steady)'
  <2>1. Alone' => Steady /\ \A u \in List!Threads \ {t} : place[u] = "idle"
    BY DEF Alone, Steady, OneAtWork
  <2> QED BY <2>1 DEF Steady, OneAtWork, Threaded
<1>3. Lonely' /\ List!Repaired'
  BY DEF Lonely, Threaded, List!Repaired
<1>4. ~met => List!Remembered' /\ Filed'
  BY DEF List!Remembered, Filed, Threaded
<1> QED BY <1>1, <1>2, <1>3, <1>4 DEF List!Remembered

LEMMA ListDrop ==
  ASSUME ListInv, NEW t \in List!Threads, NEW ok \in BOOLEAN, List!Drop(t, ok)
  PROVE  ListInv'
<1> DEFINE out == found \cap told[t]
<1> USE DEF ListInv, List!SaveList, List!Goes, List!removal, List!lists
<1>0. /\ place[t] = "drop" /\ place' = [place EXCEPT ![t] = "idle"] /\ told' = [told EXCEPT ![t] = {}]
      /\ UNCHANGED <<removed, removedFile, gone, met, missing, lone, settled>>
      /\ found' = found \ out /\ ever' = ever \cup foundFile' /\ foundFile' \in {found', foundFile}
  BY DEF List!Drop, Threaded
<1>1. Threaded' /\ List!AppleStays'
  BY <1>0 DEF Threaded, List!AppleStays
<1>2. (Alone => Steady)'
  <2>1. Alone' => Steady /\ \A u \in List!Threads \ {t} : place[u] = "idle"
    BY <1>0 DEF Alone, Steady, OneAtWork
  <2> QED BY <1>0, <2>1 DEF Steady, OneAtWork, Threaded
<1>3. Lonely' /\ List!Repaired'
  BY <1>0 DEF Lonely, Threaded, List!Repaired
<1>4. ~met => List!Remembered' /\ Filed'
  <2>1. ~met => told[t] \subseteq removed
    BY <1>0 DEF Alone, Steady
  <2> QED BY <1>0, <2>1 DEF List!Remembered, Filed, Threaded
<1> QED BY <1>0, <1>1, <1>2, <1>3, <1>4 DEF List!Remembered

LEMMA ListRestart ==
  ASSUME ListInv, List!Restart
  PROVE  ListInv'
<1> USE DEF ListInv, List!Restart
<1>1. Threaded' /\ List!AppleStays'
  BY DEF Threaded, List!AppleStays
<1>2. Steady' /\ Lonely' /\ List!Repaired'
  BY DEF Steady, OneAtWork, Lonely, List!Repaired
<1>3. ~met => List!Remembered' /\ Filed'
  BY DEF List!Remembered, Filed
<1> QED BY <1>1, <1>2, <1>3 DEF List!Remembered

LEMMA ListStep ==
  ASSUME ListInv, [List!Next]_List!vars
  PROVE  ListInv'
<1>1. ASSUME NEW t \in List!Threads, NEW as \in SUBSET Bundles, List!Read(t, as) \/ List!Report(t, as)
      PROVE  ListInv'
  BY <1>1, ListBegins DEF List!Read, List!Report
<1>2. ASSUME NEW t \in List!Threads, List!Note(t) \/ List!AskRemoved(t)
      PROVE  ListInv'
  BY <1>2, ListNote, ListAsk
<1>3. ASSUME NEW t \in List!Threads, NEW ok \in BOOLEAN,
             List!Merge(t, ok) \/ List!Prune(t, ok) \/ List!Save(t, ok) \/ List!Drop(t, ok)
      PROVE  ListInv'
  BY <1>3, ListMerge, ListPrune, ListSave, ListDrop
<1>4. CASE (\E ok \in BOOLEAN : List!Unreached(ok)) \/ UNCHANGED List!vars
  BY <1>4 DEF List!Unreached, List!vars, List!lists, List!removal, List!threads, ListInv, Threaded, List!AppleStays,
     Alone, Steady, OneAtWork, Lonely, List!Repaired, List!Remembered, Filed
<1>5. CASE List!Restart
  BY <1>5, ListRestart
<1> QED BY <1>1, <1>2, <1>3, <1>4, <1>5 DEF List!Next

\* What left the phone is on record as removed, a sync that met nobody leaves list and removals right, and
\* Apple's own apps are never taken for removed (app.py: AppProfileStore; program_inventory.py: sync_phone).
THEOREM RemovalsAreRemembered == List!Spec => []List!AppsListed
<1>1. ListInv => List!AppsListed
  BY DEF ListInv, List!AppsListed
<1> QED
  BY ListStart, ListStep, <1>1, PTL DEF List!Spec

-----------------------------------------------------------------------------
(* DohPool: the connections to the providers.                              *)

LEMMA PoolCounts == \A S : Pool!IsFiniteSet(S) <=> IsFiniteSet(S)
BY DEF Pool!IsFiniteSet, IsFiniteSet

LEMMA PoolSizes == \A S : Pool!Cardinality(S) = Cardinality(S)
BY DEF Pool!Cardinality, Cardinality

\* Who holds a connection exchanges over it, and it is open; those that are kept were made.
Buckets ==
  /\ idle \in [Hosts -> SUBSET Conns] /\ \A h \in Hosts : idle[h] \subseteq made /\ idle[h] \cap shut = {}
  /\ made \subseteq Conns /\ shut \subseteq made
Hands ==
  /\ stage \in [Queries -> Pool!Phase] /\ host \in [Queries -> Hosts] /\ hand \in [Queries -> Conns \cup {None}]
  /\ reused \in [Queries -> BOOLEAN] /\ again \in [Queries -> BOOLEAN]
  /\ \A q \in Queries : IF stage[q] = "exchange" THEN hand[q] \in made \ shut ELSE hand[q] = None
Owned == \A c \in made : c \in shut \/ (\E q \in Queries : hand[q] = c) \/ \E h \in Hosts : c \in idle[h]
Few == \A h \in Hosts : Cardinality(idle[h]) <= MaxIdle

PoolInv == Buckets /\ Hands /\ Pool!OneUser /\ Owned /\ Few /\ Pool!FailsLate

LEMMA PoolInvKept ==
  ASSUME PoolInv
  PROVE  PoolKept
BY PoolSizes DEF PoolInv, PoolKept, Pool!PoolKept, Pool!NoneLeft, Buckets, Owned, Few

LEMMA PoolStart ==
  ASSUME Pool!Init
  PROVE  PoolInv
<1>1. Few
  BY RecordsAssumption, FS_EmptySet DEF Pool!Init, Few, Pool!PoolAssumption
<1> QED
  BY <1>1, RecordsAssumption
  DEF Pool!Init, PoolInv, Buckets, Hands, Pool!OneUser, Owned, Pool!FailsLate, Pool!Phase, Pool!PoolAssumption

\* A bucket that only loses connections stays as small as it may be.
LEMMA FewerAreFew ==
  ASSUME PoolInv, NEW S, NEW h \in Hosts, S \subseteq idle[h]
  PROVE  Cardinality(S) <= MaxIdle
<1>1. IsFiniteSet(idle[h])
  BY RecordsAssumption, PoolCounts, FS_Subset DEF PoolInv, Buckets, Pool!PoolAssumption
<1>2. Cardinality(S) <= Cardinality(idle[h]) /\ Cardinality(S) \in Nat /\ Cardinality(idle[h]) \in Nat
  BY <1>1, FS_Subset, FS_CardinalityType
<1>3. Cardinality(idle[h]) <= MaxIdle /\ MaxIdle \in Nat
  BY RecordsAssumption DEF PoolInv, Few, Pool!PoolAssumption
<1> QED BY <1>2, <1>3

LEMMA PoolAsks ==
  ASSUME PoolInv, NEW q \in Queries, NEW h \in Hosts, Pool!Ask(q, h)
  PROVE  PoolInv'
<1> USE DEF PoolInv, Pool!Ask, Pool!Goes, Pool!conns
<1>1. Buckets' /\ Few'
  BY DEF Buckets, Few
<1>2. Hands'
  BY DEF Hands, Pool!Phase
<1>3. Pool!OneUser' /\ Owned'
  BY DEF Pool!OneUser, Owned
<1>4. Pool!FailsLate'
  BY DEF Pool!FailsLate, Hands
<1> QED BY <1>1, <1>2, <1>3, <1>4

\* A connection is taken: it leaves its bucket, or is new, and those that are too old are shut.
LEMMA PoolTakes ==
  ASSUME PoolInv, NEW q \in Queries, NEW c \in Conns, NEW pooled \in BOOLEAN, NEW shed \in SUBSET idle[host[q]],
         stage[q] = "acquire", c \notin shed, Pool!Takes(q, c, pooled),
         idle' = [idle EXCEPT ![host[q]] = (@ \ shed) \ {c}], shut' = shut \cup shed, made' = made \cup {c},
         c \in idle[host[q]] \/ c \notin made
  PROVE  PoolInv'
<1> USE DEF PoolInv, Pool!Takes, Pool!Goes
<1>1. host[q] \in Hosts /\ hand[q] = None /\ None \notin Conns
  BY RecordsAssumption DEF Hands, Pool!PoolAssumption
<1>2. idle'[host[q]] = (idle[host[q]] \ shed) \ {c} /\ \A h \in Hosts \ {host[q]} : idle'[h] = idle[h]
  BY <1>1 DEF Buckets
<1>3. c \notin shut /\ \A h \in Hosts : c \notin idle'[h] /\ idle'[h] \subseteq idle[h]
  BY <1>1, <1>2 DEF Buckets, Pool!OneUser
<1>4. \A r \in Queries : hand[r] # c /\ hand[r] \notin shed
  BY <1>1 DEF Hands, Buckets, Pool!OneUser
<1>5. hand'[q] = c /\ \A r \in Queries \ {q} : hand'[r] = hand[r]
  BY DEF Hands
<1>6. Buckets'
  <2>1. idle' \in [Hosts -> SUBSET Conns] /\ made' \subseteq Conns /\ shut' \subseteq made'
    BY <1>1 DEF Buckets
  <2>2. ASSUME NEW h \in Hosts
        PROVE  idle'[h] \subseteq made' /\ idle'[h] \cap shut' = {}
    <3>1. CASE h = host[q]
      BY <1>2, <3>1 DEF Buckets
    <3>2. CASE h # host[q]
      BY <1>1, <1>2, <3>2 DEF Buckets, Pool!OneUser
    <3> QED BY <3>1, <3>2
  <2> QED BY <2>1, <2>2 DEF Buckets
<1>7. Hands'
  <2>1. hand' \in [Queries -> Conns \cup {None}] /\ stage' \in [Queries -> Pool!Phase] /\ host' \in [Queries -> Hosts]
        /\ reused' \in [Queries -> BOOLEAN] /\ again' \in [Queries -> BOOLEAN]
    BY DEF Hands, Pool!Phase
  <2>2. stage'[q] = "exchange" /\ \A r \in Queries \ {q} : stage'[r] = stage[r]
    BY DEF Hands
  <2> QED BY <2>1, <2>2, <1>3, <1>4, <1>5 DEF Hands, Buckets
<1>8. Pool!OneUser'
  <2>1. \A r, s \in Queries : r # s /\ hand'[r] # None => hand'[r] # hand'[s]
    BY <1>4, <1>5 DEF Pool!OneUser
  <2>2. \A r \in Queries, h \in Hosts : hand'[r] \notin idle'[h]
    BY <1>3, <1>5 DEF Pool!OneUser
  <2>3. \A g, h \in Hosts : g # h => idle'[g] \cap idle'[h] = {}
    BY <1>3 DEF Pool!OneUser
  <2> QED BY <2>1, <2>2, <2>3 DEF Pool!OneUser
<1>9. Owned'
  <2> SUFFICES ASSUME NEW d \in made'
               PROVE  d \in shut' \/ (\E r \in Queries : hand'[r] = d) \/ \E h \in Hosts : d \in idle'[h]
    BY DEF Owned
  <2>1. CASE d = c
    BY <2>1, <1>5
  <2>2. CASE d # c /\ d \in shut
    BY <2>2
  <2>3. CASE d # c /\ \E r \in Queries : hand[r] = d
    <3>1. PICK r \in Queries : hand[r] = d
      BY <2>3
    <3>2. r # q
      BY <3>1, <2>3, <1>1 DEF Buckets
    <3> QED BY <3>1, <3>2, <1>5
  <2>4. CASE d # c /\ \E h \in Hosts : d \in idle[h]
    BY <2>4, <1>1, <1>2
  <2> QED BY <2>1, <2>2, <2>3, <2>4 DEF Owned
<1>10. Few'
  BY <1>3, FewerAreFew DEF Few
<1>11. Pool!FailsLate'
  BY DEF Pool!FailsLate, Hands
<1> QED BY <1>6, <1>7, <1>8, <1>9, <1>10, <1>11

\* A request lets go of its connection: it is shut, or kept where there is room for it.
LEMMA PoolDrops ==
  ASSUME PoolInv, NEW q \in Queries, NEW where \in {"acquire", "answered", "refused", "failed"},
         stage[q] = "exchange", Pool!Goes(q, where), Pool!Drops(q), Pool!Discard(q) \/ Pool!Release(q),
         again' \in [Queries -> BOOLEAN], \A r \in Queries : again[r] => again'[r],
         where = "failed" => again'[q] \/ ~reused[q]
  PROVE  PoolInv'
<1> USE DEF PoolInv, Pool!Drops, Pool!Goes
<1> DEFINE c == hand[q]
           h == host[q]
<1>1. h \in Hosts /\ c \in made \ shut /\ c \in Conns /\ None \notin Conns
  BY RecordsAssumption DEF Hands, Buckets, Pool!PoolAssumption
<1>2. hand'[q] = None /\ \A r \in Queries \ {q} : hand'[r] = hand[r] /\ hand[r] # c
  BY <1>1 DEF Hands, Pool!OneUser
<1>3. \/ shut' = shut \cup {c} /\ idle' = idle
      \/ shut' = shut /\ idle' = [idle EXCEPT ![h] = @ \cup {c}] /\ Cardinality(idle[h]) < MaxIdle
  <2>1. Cardinality(idle[h]) \in Nat /\ MaxIdle \in Nat
    BY <1>1, RecordsAssumption, PoolCounts, FS_Subset, FS_CardinalityType DEF Buckets, Pool!PoolAssumption
  <2> QED BY <2>1, PoolSizes DEF Pool!Discard, Pool!Release
<1>4. made' = made /\ \A g \in Hosts : c \notin idle[g]
  BY DEF Pool!OneUser
<1>5. Hands'
  <2>1. hand' \in [Queries -> Conns \cup {None}] /\ stage' \in [Queries -> Pool!Phase] /\ host' \in [Queries -> Hosts]
        /\ reused' \in [Queries -> BOOLEAN]
    BY DEF Hands, Pool!Phase
  <2>2. stage'[q] # "exchange" /\ \A r \in Queries \ {q} : stage'[r] = stage[r]
    BY DEF Hands
  <2> QED BY <2>1, <2>2, <1>2, <1>3, <1>4 DEF Hands
<1>6. Pool!FailsLate'
  BY DEF Pool!FailsLate, Hands
<1>7. CASE shut' = shut \cup {c} /\ idle' = idle
  <2>1. Buckets' /\ Few'
    BY <1>1, <1>4, <1>7 DEF Buckets, Few
  <2>2. Pool!OneUser'
    BY <1>1, <1>2, <1>7 DEF Pool!OneUser, Buckets
  <2>3. Owned'
    BY <1>2, <1>4, <1>7 DEF Owned
  <2> QED BY <2>1, <2>2, <2>3, <1>5, <1>6
<1>8. CASE shut' = shut /\ idle' = [idle EXCEPT ![h] = @ \cup {c}] /\ Cardinality(idle[h]) < MaxIdle
  <2>1. idle'[h] = idle[h] \cup {c} /\ \A g \in Hosts \ {h} : idle'[g] = idle[g]
    BY <1>1, <1>8 DEF Buckets
  <2>2. Buckets'
    <3>1. idle' \in [Hosts -> SUBSET Conns]
      BY <1>1, <1>8 DEF Buckets
    <3> QED BY <1>1, <1>4, <1>8, <2>1, <3>1 DEF Buckets
  <2>3. Pool!OneUser'
    <3>1. \A r, s \in Queries : r # s /\ hand'[r] # None => hand'[r] # hand'[s]
      BY <1>2 DEF Pool!OneUser
    <3>2. \A r \in Queries, g \in Hosts : hand'[r] \notin idle'[g]
      BY <1>1, <1>2, <2>1 DEF Pool!OneUser, Buckets
    <3>3. \A f, g \in Hosts : f # g => idle'[f] \cap idle'[g] = {}
      BY <1>4, <2>1 DEF Pool!OneUser
    <3> QED BY <3>1, <3>2, <3>3 DEF Pool!OneUser
  <2>4. Owned'
    BY <1>1, <1>2, <1>4, <1>8, <2>1 DEF Owned
  <2>5. Few'
    <3>1. IsFiniteSet(idle[h])
      BY <1>1, RecordsAssumption, PoolCounts, FS_Subset DEF Buckets, Pool!PoolAssumption
    <3>2. Cardinality(idle[h] \cup {c}) = Cardinality(idle[h]) + 1 /\ Cardinality(idle[h]) \in Nat
      BY <1>1, <1>4, <3>1, FS_AddElement, FS_CardinalityType
    <3>3. Cardinality(idle'[h]) <= MaxIdle
      BY <2>1, <3>2, <1>8, RecordsAssumption DEF Pool!PoolAssumption
    <3> QED BY <2>1, <3>3 DEF Few
  <2> QED BY <2>2, <2>3, <2>4, <2>5, <1>5, <1>6
<1> QED BY <1>3, <1>7, <1>8

\* The provider closes a connection, or one becomes too old: who has which is as it was.
LEMMA PoolRests ==
  ASSUME PoolInv, UNCHANGED <<idle, made, shut, Pool!requests>>
  PROVE  PoolInv'
BY DEF PoolInv, Pool!requests, Buckets, Hands, Pool!OneUser, Owned, Few, Pool!FailsLate

LEMMA PoolStep ==
  ASSUME PoolInv, [Pool!Next]_(Pool!vars)
  PROVE  PoolInv'
<1>1. ASSUME NEW q \in Queries, NEW h \in Hosts, Pool!Ask(q, h)
      PROVE  PoolInv'
  BY <1>1, PoolAsks
<1>2. ASSUME NEW q \in Queries, NEW c \in Conns, Pool!AcquireIdle(q, c)
      PROVE  PoolInv'
  <2> DEFINE shed == idle[host[q]] \cap old
  <2>1. shed \in SUBSET idle[host[q]] /\ c \notin shed /\ c \in idle[host[q]]
    BY <1>2 DEF Pool!AcquireIdle
  <2>2. host[q] \in Hosts /\ made \cup {c} = made
    BY <2>1 DEF PoolInv, Hands, Buckets
  <2>3. idle' = [idle EXCEPT ![host[q]] = (@ \ shed) \ {c}]
    <3>1. (idle[host[q]] \ old) \ {c} = (idle[host[q]] \ shed) \ {c}
      OBVIOUS
    <3> QED BY <1>2, <3>1 DEF Pool!AcquireIdle
  <2>4. stage[q] = "acquire" /\ Pool!Takes(q, c, TRUE) /\ shut' = shut \cup shed /\ made' = made \cup {c}
    BY <1>2, <2>2 DEF Pool!AcquireIdle
  <2> HIDE DEF shed
  <2> QED BY <2>1, <2>3, <2>4, PoolTakes
<1>3. ASSUME NEW q \in Queries, NEW c \in Conns, Pool!AcquireNew(q, c)
      PROVE  PoolInv'
  <2> DEFINE shed == idle[host[q]]
  <2>1. c \notin made /\ c \notin shed
    BY <1>3 DEF Pool!AcquireNew, PoolInv, Hands, Buckets
  <2>2. idle' = [idle EXCEPT ![host[q]] = (@ \ shed) \ {c}]
    <3>1. {} = (idle[host[q]] \ shed) \ {c}
      OBVIOUS
    <3> QED BY <1>3, <3>1 DEF Pool!AcquireNew
  <2>3. stage[q] = "acquire" /\ Pool!Takes(q, c, FALSE) /\ shut' = shut \cup shed /\ made' = made \cup {c}
    BY <1>3 DEF Pool!AcquireNew
  <2>4. shed \in SUBSET idle[host[q]]
    OBVIOUS
  <2> HIDE DEF shed
  <2> QED BY <2>1, <2>2, <2>3, <2>4, PoolTakes
<1>4. ASSUME NEW q \in Queries, NEW keep \in BOOLEAN, Pool!Answer(q, keep)
      PROVE  PoolInv'
  <2>1. PICK where \in {"answered", "refused"} : Pool!Goes(q, where)
    BY <1>4 DEF Pool!Answer
  <2>2. stage[q] = "exchange" /\ Pool!Drops(q) /\ (Pool!Discard(q) \/ Pool!Release(q)) /\ again' = again
    BY <1>4 DEF Pool!Answer
  <2> QED BY <2>1, <2>2, PoolDrops DEF PoolInv, Hands
<1>5. ASSUME NEW q \in Queries, Pool!HttpError(q)
      PROVE  PoolInv'
  <2>1. stage[q] = "exchange" /\ Pool!Drops(q) /\ Pool!Discard(q) /\ Pool!Goes(q, "refused") /\ again' = again
    BY <1>5 DEF Pool!HttpError
  <2> QED BY <2>1, PoolDrops DEF PoolInv, Hands
<1>6. ASSUME NEW q \in Queries, Pool!Breaks(q)
      PROVE  PoolInv'
  <2>1. stage[q] = "exchange" /\ Pool!Drops(q) /\ Pool!Discard(q)
    BY <1>6 DEF Pool!Breaks
  <2>2. CASE reused[q] /\ ~again[q]
    <3>1. Pool!Goes(q, "acquire") /\ again' = [again EXCEPT ![q] = TRUE]
      BY <1>6, <2>2 DEF Pool!Breaks
    <3>2. again' \in [Queries -> BOOLEAN] /\ \A r \in Queries : again[r] => again'[r]
      BY <3>1 DEF PoolInv, Hands
    <3> QED BY <2>1, <3>1, <3>2, PoolDrops
  <2>3. CASE ~(reused[q] /\ ~again[q])
    <3>1. Pool!Goes(q, "failed") /\ again' = again
      BY <1>6, <2>3 DEF Pool!Breaks
    <3> QED BY <2>1, <2>3, <3>1, PoolDrops DEF PoolInv, Hands
  <2> QED BY <2>2, <2>3
<1>7. ASSUME NEW c \in Conns, Pool!Closes(c) \/ Pool!Ages(c)
      PROVE  PoolInv'
  BY <1>7, PoolRests DEF Pool!Closes, Pool!Ages
<1>8. CASE UNCHANGED Pool!vars
  BY <1>8, PoolRests DEF Pool!vars, Pool!conns
<1> QED BY <1>1, <1>2, <1>3, <1>4, <1>5, <1>6, <1>7, <1>8 DEF Pool!Next

\* Every connection to a provider has one user or one bucket, none is left open that nobody has, and a request
\* that fails has had its second attempt or a connection of its own: for any number of requests, providers and
\* connections (DoHConnectionPool, _doh_request_pooled).
THEOREM ConnectionsAreKept == Pool!Spec => []PoolKept
<1>1. Pool!Init => PoolInv
  BY PoolStart
<1>2. PoolInv /\ [Pool!Next]_(Pool!vars) => PoolInv'
  BY PoolStep
<1>3. PoolInv => PoolKept
  BY PoolInvKept
<1> QED BY <1>1, <1>2, <1>3, PTL DEF Pool!Spec

-----------------------------------------------------------------------------
(* Permissions: the buttons that deny a capability and give it back.       *)

GrantsRecords == {change, saved}

\* The uses have a last one, and the log has been read up to one of them.
Clocked ==
  /\ uses = {} => copied = 0
  /\ uses # {} => \E u \in uses : copied <= u.at /\ \A v \in uses : v.at <= u.at

\* What was judged is borne out by the uses.
Borne(c) ==
  /\ c.state = "verified-blocked" => \E u \in uses : u.at > c.at /\ u.blocked
  /\ c.state = "not-effective" => Grants!Across(c.at) \/ \E u \in uses : u.at > c.at /\ ~u.blocked
Judgements == \A m \in GrantsRecords : m.change # NoChange => Borne(m.change)

\* What a request under way has read or left, what a change that stands would give back, and what is there
\* once it was given back; as long as what was there first is known.
Mine == ~twice /\ ~lost
Taken  == busy[1] = "deny" => busy[2] = own
Stands == busy[1] # "deny" /\ Grants!Changed => change.change.before = own
Back   == reg = own \/ (own = "no key" /\ reg = "no value")
Given  ==
  /\ busy[1] = "restore" /\ ~touched => Back
  /\ busy = Grants!Free /\ change.change # NoChange /\ change.change.state = "restored" /\ ~touched => Back
  /\ busy = Grants!Free /\ reg = "Deny" /\ own # "Deny" /\ ~touched => Grants!Changed
Buttons == Mine => Taken /\ Stands /\ Given

\* An engine that is down has no request under way, and has its record of the change on disk.
Down ==
  /\ busy # Grants!Free => running
  /\ busy[1] = "restore" => Grants!Changed
  /\ ~running /\ ~lost => change.change = saved.change

GrantsInv == Grants!TypeOK /\ Clocked /\ Judgements /\ Buttons /\ Down

LEMMA GrantsInvHonest ==
  ASSUME GrantsInv
  PROVE  ButtonsHonest
<1> USE DEF GrantsInv
<1>1. Grants!JudgedAfter
  BY DEF Judgements, Borne, GrantsRecords, Grants!JudgedAfter
<1>2. Grants!Restores /\ Grants!DenyOnRecord
  BY DEF Buttons, Mine, Given, Back, Grants!Restores, Grants!DenyOnRecord
<1> QED BY <1>1, <1>2 DEF ButtonsHonest, Grants!ButtonsHonest

LEMMA GrantsBounds == MaxMoves \in Nat /\ MaxUses \in Nat /\ Gap \in Nat /\ NoChange \notin Grants!Changes
BY RecordsAssumption DEF Grants!PermissionsAssumption

LEMMA GrantsStart ==
  ASSUME Grants!Init
  PROVE  GrantsInv
<1> USE GrantsBounds DEF Grants!Init, Grants!Empty, Grants!Free
<1>1. change.change = NoChange /\ change \in Grants!Records /\ saved = change /\ busy[1] = "no"
  BY DEF Grants!Records
<1>2. Grants!TypeOK
  <2>1. polled \in {"", "Allow", "Deny"}
    BY DEF Grants!Row, Grants!Values
  <2>2. reg \in Grants!Values /\ own \in Grants!Values /\ uses \subseteq [at : Nat, blocked : BOOLEAN]
    BY DEF Grants!Values
  <2>3. busy \in {Grants!Free} \cup ({"deny", "restore"} \X Grants!Values)
    OBVIOUS
  <2>4. moves \in 0..MaxMoves /\ copied \in Nat
    <3>1. moves = 0 /\ copied = 0
      OBVIOUS
    <3> HIDE DEF Grants!Init
    <3> QED BY <3>1
  <2>5. page \in {"none", "deny", "restore"} /\ {running, touched, twice, lost} \subseteq BOOLEAN
    OBVIOUS
  <2> QED BY <1>1, <2>1, <2>2, <2>3, <2>4, <2>5 DEF Grants!TypeOK
<1>3. Clocked /\ Judgements
  BY <1>1 DEF Clocked, Judgements, GrantsRecords
<1>4. Buttons /\ Down
  BY <1>1 DEF Buttons, Taken, Stands, Given, Back, Down, Grants!Values, Grants!Changed
<1> QED BY <1>2, <1>3, <1>4 DEF GrantsInv

\* The last use is one, if there are any.
LEMMA LastUse ==
  ASSUME Grants!TypeOK, Clocked
  PROVE  /\ Grants!Last \in Nat /\ copied <= Grants!Last
         /\ \A u \in uses : u.at <= Grants!Last
         /\ uses = {} => Grants!Last = 0
         /\ uses # {} => \E u \in uses : u.at = Grants!Last
<1>1. CASE uses = {}
  BY <1>1 DEF Clocked, Grants!Last
<1>2. CASE uses # {}
  <2>1. PICK u \in uses : copied <= u.at /\ \A v \in uses : v.at <= u.at
    BY <1>2 DEF Clocked
  <2>2. u.at \in Nat /\ copied \in Nat /\ \A v \in uses : v.at \in Nat
    BY DEF Grants!TypeOK
  <2>3. u.at \in {v.at : v \in uses} /\ \A v \in uses : v.at <= u.at
    BY <2>1
  <2> DEFINE L == CHOOSE t \in {v.at : v \in uses} : \A v \in uses : v.at <= t
  <2>4. L \in {v.at : v \in uses} /\ \A v \in uses : v.at <= L
    BY <2>3
  <2>5. Grants!Last = L
    BY <1>2 DEF Grants!Last
  <2> QED BY <2>1, <2>2, <2>4, <2>5
<1> QED BY <1>1, <1>2

\* What has been found stays found when there are more uses, and more of them are read.
LEMMA BorneOn ==
  ASSUME Grants!TypeOK, Grants!TypeOK', uses \subseteq uses', copied <= copied',
         \A u \in uses' : u.at <= copied => u \in uses,
         NEW c, Borne(c)
  PROVE  Borne(c)'
<1>1. ASSUME Grants!Across(c.at)
      PROVE  Grants!Across(c.at)'
  <2>1. PICK u \in Grants!Known, v \in Grants!Known : u.at <= c.at /\ c.at < v.at /\ Grants!Joined(u, v)
    BY <1>1 DEF Grants!Across
  <2>2. \A w \in uses' : w.at \in Nat
    BY DEF Grants!TypeOK
  <2>3. copied \in Nat /\ copied' \in Nat
    BY DEF Grants!TypeOK
  <2>4. Grants!Known \subseteq Grants!Known' /\ \A w \in Grants!Known' : w.at <= copied => w \in Grants!Known
    BY <2>2, <2>3 DEF Grants!Known
  <2>5. \A w \in Grants!Known : w.at <= copied /\ w.at \in Nat
    BY <2>2 DEF Grants!Known
  <2>6. Grants!Joined(u, v)'
    BY <2>1, <2>2, <2>3, <2>4, <2>5 DEF Grants!Joined, Grants!Known
  <2> QED BY <2>1, <2>4, <2>6 DEF Grants!Across
<1> QED BY <1>1 DEF Borne

\* A step that leaves the uses alone, and what has been read of them, leaves the judgements.
LEMMA BorneStill ==
  ASSUME uses' = uses, copied' = copied, NEW c, Borne(c)
  PROVE  Borne(c)'
BY DEF Borne, Grants!Across, Grants!Known, Grants!Joined

\* A use is logged; the log is read.
LEMMA GrantsLogged ==
  ASSUME GrantsInv, \/ \E after \in 1..(Gap + 1), b \in BOOLEAN : Grants!Use(after, b)
                    \/ Grants!Read
  PROVE  GrantsInv'
<1>1. Grants!TypeOK /\ Clocked
  BY DEF GrantsInv
<1>2. /\ Grants!Last \in Nat /\ copied <= Grants!Last /\ copied \in Nat
      /\ \A u \in uses : u.at <= Grants!Last /\ u.at \in Nat
      /\ uses # {} => \E u \in uses : u.at = Grants!Last
      /\ uses = {} => Grants!Last = 0
  BY <1>1, LastUse DEF Grants!TypeOK
<1>3. uses \subseteq uses' /\ copied <= copied' /\ Grants!TypeOK' /\ Clocked'
      /\ \A u \in uses' : u.at <= copied => u \in uses
  <2>1. ASSUME NEW after \in 1..(Gap + 1), NEW b \in BOOLEAN, Grants!Use(after, b)
        PROVE  uses \subseteq uses' /\ copied <= copied' /\ Grants!TypeOK' /\ Clocked'
               /\ \A u \in uses' : u.at <= copied => u \in uses
    <3> DEFINE e == [at |-> Grants!Last + after, blocked |-> b]
    <3>1. after \in Nat /\ after > 0
      BY GrantsBounds
    <3>2. uses' = uses \cup {e} /\ copied' = copied
      BY <2>1 DEF Grants!Use
    <3>3. e \in [at : Nat, blocked : BOOLEAN] /\ e.at > Grants!Last /\ e.at \in Nat
      BY <1>2, <3>1
    <3> HIDE DEF e
    <3>4. Grants!TypeOK'
      <4>1. uses' \subseteq [at : Nat, blocked : BOOLEAN]
        BY <1>1, <3>2, <3>3 DEF Grants!TypeOK
      <4> QED BY <1>1, <2>1, <3>2, <4>1 DEF Grants!TypeOK, Grants!Use
    <3>5. Clocked'
      BY <1>2, <3>2, <3>3 DEF Clocked
    <3>6. \A u \in uses' : u.at <= copied => u \in uses
      BY <1>2, <3>2, <3>3
    <3> QED BY <1>2, <3>2, <3>4, <3>5, <3>6
  <2>2. ASSUME Grants!Read
        PROVE  uses \subseteq uses' /\ copied <= copied' /\ Grants!TypeOK' /\ Clocked'
               /\ \A u \in uses' : u.at <= copied => u \in uses
    <3>1. uses' = uses /\ copied' = Grants!Last
      BY <2>2 DEF Grants!Read
    <3>2. Grants!TypeOK'
      BY <1>1, <1>2, <2>2, <3>1 DEF Grants!TypeOK, Grants!Read
    <3>3. Clocked'
      BY <1>2, <3>1 DEF Clocked
    <3> QED BY <1>2, <3>1, <3>2, <3>3
  <2> QED BY <2>1, <2>2
<1>4. UNCHANGED <<reg, moves, running, change, saved, busy, own, touched, twice, lost>>
  BY DEF Grants!Use, Grants!Read
<1>5. Judgements'
  BY <1>1, <1>3, <1>4, BorneOn DEF GrantsInv, Judgements, GrantsRecords
<1>6. Buttons' /\ Down'
  BY <1>4 DEF GrantsInv, Buttons, Mine, Taken, Stands, Given, Back, Down, Grants!Changed
<1> QED BY <1>3, <1>5, <1>6 DEF GrantsInv

\* The user in Windows' settings; the page; the registry read.
LEMMA GrantsAround ==
  ASSUME GrantsInv, (\E v \in Grants!Values : Grants!Outside(v)) \/ Grants!Show \/ Grants!Poll
  PROVE  GrantsInv'
<1>1. UNCHANGED <<uses, copied, running, change, saved, busy, own, twice, lost>>
  BY DEF Grants!Outside, Grants!Show, Grants!Poll
<1>2. Grants!TypeOK'
  <2>1. ASSUME NEW v \in Grants!Values, Grants!Outside(v)
        PROVE  Grants!TypeOK'
    <3>1. moves' \in 0..MaxMoves
      <4>1. moves \in 0..MaxMoves /\ moves < MaxMoves /\ moves' = moves + 1
        BY <2>1 DEF GrantsInv, Grants!TypeOK, Grants!Outside
      <4> QED BY <4>1, GrantsBounds
    <3> QED BY <1>1, <2>1, <3>1 DEF GrantsInv, Grants!TypeOK, Grants!Outside
  <2>2. CASE Grants!Show
    BY <1>1, <2>2 DEF GrantsInv, Grants!TypeOK, Grants!Show, Grants!Offered
  <2>3. CASE Grants!Poll
    <3>1. polled' \in {"", "Allow", "Deny"}
      BY <2>3 DEF GrantsInv, Grants!TypeOK, Grants!Poll, Grants!Row, Grants!Values
    <3> QED BY <1>1, <2>3, <3>1 DEF GrantsInv, Grants!TypeOK, Grants!Poll
  <2> QED BY <2>1, <2>2, <2>3
<1>3. Clocked' /\ Judgements'
  BY <1>1, BorneStill DEF GrantsInv, Clocked, Judgements, GrantsRecords
<1>4. Buttons' /\ Down'
  <2>1. (reg' = reg /\ touched' = touched) \/ touched' = TRUE
    BY DEF Grants!Outside, Grants!Show, Grants!Poll
  <2> QED BY <1>1, <2>1 DEF GrantsInv, Buttons, Mine, Taken, Stands, Given, Back, Down, Grants!Changed
<1> QED BY <1>2, <1>3, <1>4 DEF GrantsInv

\* A button is pressed, and the key written.
LEMMA GrantsPressed ==
  ASSUME GrantsInv, Grants!Deny \/ Grants!Restore \/ Grants!RestoreFails
  PROVE  GrantsInv'
<1>1. UNCHANGED <<uses, copied, moves, running, change, saved, polled, page, lost>> /\ busy = Grants!Free /\ running
  BY DEF Grants!Deny, Grants!Restore, Grants!RestoreFails
<1>2. Clocked' /\ Judgements'
  BY <1>1, BorneStill DEF GrantsInv, Clocked, Judgements, GrantsRecords
<1>3. CASE Grants!Deny
  <2>1. /\ busy' = <<"deny", reg>> /\ reg' = "Deny" /\ touched' = FALSE
        /\ twice' = (Grants!Changed /\ reg = "Deny") /\ own' = IF twice' THEN own ELSE reg
    BY <1>3 DEF Grants!Deny
  <2>2. busy' \in {"deny", "restore"} \X Grants!Values /\ busy'[1] = "deny" /\ busy'[2] = reg /\ busy' # Grants!Free
    BY <2>1 DEF GrantsInv, Grants!TypeOK, Grants!Free
  <2>3. Grants!TypeOK'
    <3>1. reg' \in Grants!Values /\ own' \in Grants!Values /\ twice' \in BOOLEAN
      BY <2>1 DEF GrantsInv, Grants!TypeOK, Grants!Values
    <3> QED BY <1>1, <2>1, <2>2, <3>1 DEF GrantsInv, Grants!TypeOK
  <2>4. Buttons' /\ Down'
    BY <1>1, <2>1, <2>2 DEF GrantsInv, Buttons, Mine, Taken, Stands, Given, Down
  <2> QED BY <1>2, <2>3, <2>4 DEF GrantsInv
<1>4. CASE Grants!Restore
  <2>1. /\ Grants!Changed /\ reg' \in Grants!Back(change.change.before) /\ busy' = <<"restore", reg'>>
        /\ touched' = FALSE /\ own' = own /\ twice' = twice
    BY <1>4 DEF Grants!Restore
  <2>2. change.change \in Grants!Changes
    BY <2>1 DEF GrantsInv, Grants!TypeOK, Grants!Records, Grants!Changed
  <2>3. reg' \in Grants!Values
    BY <2>1, <2>2 DEF Grants!Changes, Grants!Back, Grants!Values
  <2>4. busy' \in {"deny", "restore"} \X Grants!Values /\ busy'[1] = "restore" /\ busy' # Grants!Free
    BY <2>1, <2>3 DEF Grants!Free
  <2>5. Grants!TypeOK'
    BY <1>1, <2>1, <2>3, <2>4 DEF GrantsInv, Grants!TypeOK
  <2>6. Grants!Changed' /\ Down'
    BY <1>1, <2>1, <2>4 DEF GrantsInv, Down, Grants!Changed
  <2>7. Buttons'
    <3> SUFFICES ASSUME Mine'
                 PROVE  Taken' /\ Stands' /\ Given'
      BY DEF Buttons
    <3>1. change.change.before = own
      BY <1>1, <2>1 DEF GrantsInv, Buttons, Mine, Stands, Grants!Free
    <3>2. Back'
      BY <2>1, <3>1 DEF Back, Grants!Back
    <3> QED BY <1>1, <2>1, <2>4, <3>1, <3>2 DEF Taken, Stands, Given
  <2> QED BY <1>2, <2>5, <2>6, <2>7 DEF GrantsInv
<1>5. CASE Grants!RestoreFails
  <2>1. Grants!Changed /\ reg' = "no value" /\ UNCHANGED <<busy, own, touched, twice>>
    BY <1>5 DEF Grants!RestoreFails
  <2>2. Grants!TypeOK'
    BY <1>1, <2>1 DEF GrantsInv, Grants!TypeOK, Grants!Values
  <2>3. Grants!Changed' /\ Down'
    BY <1>1, <2>1 DEF GrantsInv, Down, Grants!Changed
  <2>4. Buttons'
    BY <1>1, <2>1, <2>3 DEF GrantsInv, Buttons, Mine, Taken, Stands, Given, Grants!Changed, Grants!Free
  <2> QED BY <1>2, <2>2, <2>3, <2>4 DEF GrantsInv
<1> QED BY <1>3, <1>4, <1>5

\* The record of the change is made; whether it is saved is another matter.
LEMMA GrantsRecorded ==
  ASSUME GrantsInv, NEW ok \in BOOLEAN, Grants!Record(ok)
  PROVE  GrantsInv'
<1>1. /\ UNCHANGED <<reg, uses, moves, running, copied, page, own, touched, twice, lost>>
      /\ busy # Grants!Free /\ busy' = Grants!Free /\ busy \in {"deny", "restore"} \X Grants!Values
      /\ saved' = change' \/ saved' = saved
  BY DEF Grants!Record, GrantsInv, Grants!TypeOK
<1> DEFINE c == change'.change
<1>2. busy[1] \in {"deny", "restore"} /\ busy[2] \in Grants!Values /\ running /\ busy'[1] = "no"
  BY <1>1 DEF GrantsInv, Down, Grants!Free
<1>3. /\ change' \in Grants!Records /\ c \in Grants!Changes /\ Borne(c)
      /\ busy[1] = "deny" => c.state \in {"setting-changed", "recommended"} /\ c.before = busy[2]
      /\ busy[1] = "restore" => c.state = "restored" /\ c.before = change.change.before
  <2>1. CASE busy[1] = "deny"
    <3> DEFINE n == Grants!Made(busy[2])
    <3>1. change' = [change EXCEPT !.change = n]
      BY <2>1 DEF Grants!Record
    <3>2. n \in Grants!Changes /\ n.state \in {"setting-changed", "recommended"} /\ n.before = busy[2]
      BY <1>2, LastUse DEF Grants!Made, Grants!Changes, GrantsInv
    <3> HIDE DEF n
    <3>3. c = n /\ change' \in Grants!Records
      BY <3>1, <3>2 DEF GrantsInv, Grants!TypeOK, Grants!Records
    <3> QED BY <2>1, <3>2, <3>3 DEF Borne
  <2>2. CASE busy[1] = "restore"
    <3> DEFINE o == change.change
               n == [o EXCEPT !.state = "restored"]
    <3>1. o \in Grants!Changes
      BY <2>2 DEF GrantsInv, Down, Grants!Changed, Grants!TypeOK, Grants!Records
    <3>2. n \in Grants!Changes /\ n.state = "restored" /\ n.before = o.before
      BY <3>1 DEF Grants!Changes
    <3>3. change' = [change EXCEPT !.change = n]
      BY <2>2 DEF Grants!Record
    <3> HIDE DEF n
    <3>4. c = n /\ change' \in Grants!Records
      BY <3>2, <3>3 DEF GrantsInv, Grants!TypeOK, Grants!Records
    <3> QED BY <2>2, <3>2, <3>4 DEF Borne
  <2> QED BY <1>2, <2>1, <2>2
<1> HIDE DEF c
<1>4. c # NoChange
  BY <1>3, GrantsBounds
<1>5. Grants!TypeOK'
  <2>1. polled' \in {"", "Allow", "Deny"}
    BY DEF GrantsInv, Grants!TypeOK, Grants!Record, Grants!Row, Grants!Values
  <2> QED BY <1>1, <1>3, <2>1 DEF GrantsInv, Grants!TypeOK
<1>6. Clocked' /\ Judgements'
  BY <1>1, <1>3, BorneStill DEF c, GrantsInv, Clocked, Judgements, GrantsRecords
<1>7. Down'
  BY <1>1, <1>2 DEF Down, Grants!Free
<1>8. Buttons'
  <2> SUFFICES ASSUME Mine
               PROVE  Taken' /\ Stands' /\ Given'
    BY <1>1 DEF Buttons, Mine
  <2>1. CASE busy[1] = "deny"
    <3>1. c.state # "restored" /\ c.before = own /\ Grants!Changed'
      BY <1>3, <1>4, <2>1 DEF c, GrantsInv, Buttons, Taken, Grants!Changed
    <3> QED BY <1>1, <1>2, <3>1 DEF c, Taken, Stands, Given
  <2>2. CASE busy[1] = "restore"
    <3>1. c.state = "restored" /\ (~touched => Back) /\ ~Grants!Changed'
      BY <1>3, <2>2 DEF c, GrantsInv, Buttons, Given, Grants!Changed
    <3>2. Back' = Back
      BY <1>1 DEF Back
    <3> QED BY <1>1, <1>2, <3>1, <3>2 DEF c, Taken, Stands, Given, Back
  <2> QED BY <1>2, <2>1, <2>2
<1> QED BY <1>5, <1>6, <1>7, <1>8 DEF GrantsInv

\* A judgement rests on uses of the series that went on after the change.
LEMMA GrantsVerified ==
  ASSUME GrantsInv, NEW ok \in BOOLEAN, Grants!Verify(ok)
  PROVE  GrantsInv'
<1> DEFINE o == change.change
           n == Grants!Judged(o)
<1>1. /\ UNCHANGED <<reg, uses, moves, running, busy, polled, copied, page, own, touched, twice, lost>>
      /\ busy = Grants!Free /\ running /\ o # NoChange
  BY DEF Grants!Verify
<1>2. o \in Grants!Changes /\ o.at \in Nat
  BY <1>1 DEF GrantsInv, Grants!TypeOK, Grants!Records, Grants!Changes
<1>3. busy' = busy /\ running' = running /\ (saved' = change' \/ saved' = saved) /\ busy[1] = "no"
  BY DEF Grants!Verify, Grants!Free
<1>4. /\ Grants!State(o) \in {"recommended", "setting-changed", "verified-blocked", "not-effective", "restored"}
      /\ Grants!State(o) = "restored" <=> o.state = "restored"
      /\ Grants!State(o) # o.state => Grants!State(o) \in {"verified-blocked", "not-effective"}
  BY <1>2 DEF Grants!State, Grants!Changes, Grants!Awaited
<1>5. n \in Grants!Changes /\ n.state = Grants!State(o) /\ n.before = o.before /\ n.at = o.at
  <2> DEFINE s == Grants!State(o)
             a == IF s # o.state THEN Grants!Allowed(o.at) # {} ELSE o.allowed
             m == [o EXCEPT !.state = s]
  <2>1. n = [m EXCEPT !.allowed = a]
    BY <1>2 DEF Grants!Judged, Grants!Changes
  <2>2. a \in BOOLEAN
    BY <1>2 DEF Grants!Changes
  <2> HIDE DEF a
  <2>3. m \in Grants!Changes /\ m.state = s /\ m.before = o.before /\ m.at = o.at
    BY <1>2, <1>4 DEF Grants!Changes
  <2> HIDE DEF m, n
  <2> QED BY <2>1, <2>2, <2>3 DEF Grants!Changes
<1>6. change' \in Grants!Records /\ change'.change = n /\ n # NoChange
  <2> HIDE DEF n
  <2>1. change' = [change |-> n, platform |-> IF Grants!State(o) # o.state THEN Grants!State(o) ELSE "not-effective"]
    BY DEF Grants!Verify, n
  <2> QED BY <1>4, <1>5, <2>1, GrantsBounds DEF Grants!Records
<1>7. Borne(n)
  <2> HIDE DEF n
  <2>1. Borne(o)
    BY <1>1 DEF GrantsInv, Judgements, GrantsRecords
  <2>2. ASSUME NEW u \in Grants!Since(o.at)
        PROVE  u \in uses /\ (u.at > o.at \/ \E v \in Grants!Since(o.at) : v.at > o.at /\ (u.at <= o.at => Grants!Across(o.at)))
    <3>1. u \in Grants!Known /\ u \in uses /\ u.at \in Nat
      BY DEF Grants!Since, Grants!Known, GrantsInv, Grants!TypeOK
    <3>2. CASE u.at > o.at
      BY <3>1, <3>2
    <3>3. CASE \E v \in Grants!Known : v.at > o.at /\ Grants!Joined(u, v)
      BY <3>1, <3>3 DEF Grants!Since, Grants!Across
    <3> QED BY <3>1, <3>2, <3>3 DEF Grants!Since
  <2>3. CASE Grants!State(o) = o.state
    BY <1>5, <2>1, <2>3 DEF Borne
  <2>4. CASE Grants!State(o) # o.state /\ Grants!Allowed(o.at) # {}
    <3>1. PICK u \in Grants!Since(o.at) : ~u.blocked
      BY <2>4 DEF Grants!Allowed, Grants!Blocked
    <3>2. Grants!State(o) = "not-effective"
      BY <2>4 DEF Grants!State
    <3>3. u \in uses /\ (u.at > o.at \/ Grants!Across(o.at))
      <4>1. u.at \in Nat
        BY <2>2 DEF GrantsInv, Grants!TypeOK
      <4> QED BY <1>2, <2>2, <4>1
    <3> QED BY <1>5, <3>1, <3>2, <3>3 DEF Borne
  <2>5. CASE Grants!State(o) # o.state /\ Grants!Allowed(o.at) = {}
    <3>1. Grants!State(o) = "verified-blocked" /\ Grants!Blocked(o.at) # {}
      BY <2>5 DEF Grants!State
    <3>2. PICK u \in Grants!Since(o.at) : u.blocked
      BY <3>1 DEF Grants!Blocked
    <3>3. \E v \in Grants!Since(o.at) : v.at > o.at
      BY <2>2
    <3>4. \E v \in uses : v.at > o.at /\ v.blocked
      BY <2>2, <2>5, <3>3 DEF Grants!Allowed, Grants!Blocked
    <3> QED BY <1>5, <3>1, <3>4 DEF Borne
  <2> QED BY <2>3, <2>4, <2>5
<1> HIDE DEF n
<1>8. Grants!TypeOK'
  BY <1>3, <1>6 DEF GrantsInv, Grants!TypeOK, Grants!Verify
<1>9. Clocked' /\ Judgements'
  <2>1. uses' = uses /\ copied' = copied
    BY DEF Grants!Verify
  <2> QED BY <1>3, <1>6, <1>7, <2>1, BorneStill DEF GrantsInv, Clocked, Judgements, GrantsRecords
<1>10. (Grants!Changed' <=> Grants!Changed) /\ (n.state = "restored" <=> o.state = "restored")
  BY <1>1, <1>4, <1>5, <1>6 DEF Grants!Changed
<1>11. Down'
  BY <1>1, <1>3 DEF Down
<1>12. Buttons'
  <2>1. UNCHANGED <<reg, own, touched, twice, lost>>
    BY DEF Grants!Verify
  <2>2. busy' = busy /\ busy[1] = "no" /\ o # NoChange
    BY <1>1, <1>3
  <2>3. change'.change.before = o.before /\ (change'.change.state = "restored" <=> o.state = "restored")
    BY <1>5, <1>6, <1>10
  <2>4. Buttons
    BY DEF GrantsInv
  <2> QED BY <1>10, <2>1, <2>2, <2>3, <2>4 DEF Buttons, Mine, Taken, Stands, Given, Back
<1> QED BY <1>8, <1>9, <1>11, <1>12 DEF GrantsInv

\* The engine ends, and starts with the record on disk.
LEMMA GrantsRestarted ==
  ASSUME GrantsInv, Grants!Crash \/ Grants!Start
  PROVE  GrantsInv'
<1>1. UNCHANGED <<reg, uses, moves, saved, copied, page, own, touched, twice>>
  BY DEF Grants!Crash, Grants!Start
<1>2. Clocked'
  BY <1>1 DEF GrantsInv, Clocked
<1>3. Judgements'
  BY <1>1, BorneStill DEF GrantsInv, Judgements, GrantsRecords, Grants!Crash, Grants!Start, Grants!Loaded
<1>4. CASE Grants!Crash
  <2>1. running' = FALSE /\ busy' = Grants!Free /\ change' = change /\ polled' = polled
        /\ lost' = (lost \/ busy # Grants!Free \/ change.change # saved.change)
    BY <1>4 DEF Grants!Crash
  <2>2. Grants!TypeOK'
    BY <1>1, <2>1 DEF GrantsInv, Grants!TypeOK
  <2>3. busy'[1] = "no" /\ (~lost' => ~lost /\ busy' = busy /\ change.change = saved.change)
    BY <2>1 DEF Grants!Free
  <2>4. Down'
    BY <1>1, <2>1, <2>3 DEF Down
  <2>5. Buttons'
    BY <1>1, <2>1, <2>3 DEF GrantsInv, Buttons, Mine, Taken, Stands, Given, Back, Grants!Changed
  <2> QED BY <1>2, <1>3, <2>2, <2>4, <2>5 DEF GrantsInv
<1>5. CASE Grants!Start
  <2>1. ~running /\ running' = TRUE /\ change' = saved /\ lost' = lost /\ busy' = busy /\ polled' = Grants!Row
    BY <1>5 DEF Grants!Start, Grants!Loaded
  <2>2. busy = Grants!Free
    BY <2>1 DEF GrantsInv, Down
  <2>2a. busy[1] = "no"
    BY <2>2 DEF Grants!Free
  <2>3. Grants!TypeOK'
    <3>1. polled' \in {"", "Allow", "Deny"}
      BY <2>1 DEF GrantsInv, Grants!TypeOK, Grants!Row, Grants!Values
    <3> QED BY <1>1, <2>1, <3>1 DEF GrantsInv, Grants!TypeOK
  <2>4. Down'
    BY <2>1, <2>2, <2>2a DEF Down
  <2>5. Buttons'
    BY <1>1, <2>1, <2>2, <2>2a DEF GrantsInv, Down, Buttons, Mine, Taken, Stands, Given, Back, Grants!Changed
  <2> QED BY <1>2, <1>3, <2>3, <2>4, <2>5 DEF GrantsInv
<1> QED BY <1>4, <1>5

LEMMA GrantsStep ==
  ASSUME GrantsInv, [Grants!Next]_(Grants!vars)
  PROVE  GrantsInv'
<1>1. CASE UNCHANGED Grants!vars
  <2>1. Grants!TypeOK' /\ Clocked'
    BY <1>1 DEF Grants!vars, GrantsInv, Grants!TypeOK, Clocked
  <2>2. Judgements'
    BY <1>1, BorneStill DEF Grants!vars, GrantsInv, Judgements, GrantsRecords
  <2>3. Buttons' /\ Down'
    BY <1>1 DEF Grants!vars, GrantsInv, Buttons, Mine, Taken, Stands, Given, Back, Down, Grants!Changed
  <2> QED BY <2>1, <2>2, <2>3 DEF GrantsInv
<1> QED
  BY <1>1, GrantsLogged, GrantsAround, GrantsPressed, GrantsRecorded, GrantsVerified, GrantsRestarted DEF Grants!Next

\* The two buttons are honest, for any history of uses: a judgement is borne out by a use after the change or
\* by a series across it, what is given back is what was there, and a Deny of ours can be taken back
\* (permission_state, set_permission, verify_permissions).
THEOREM DenialsAreHonest == Grants!Spec => []ButtonsHonest
<1>1. Grants!Init => GrantsInv
  BY GrantsStart
<1>2. GrantsInv /\ [Grants!Next]_(Grants!vars) => GrantsInv'
  BY GrantsStep
<1>3. GrantsInv => ButtonsHonest
  BY GrantsInvHonest
<1> QED BY <1>1, <1>2, <1>3, PTL DEF Grants!Spec

-----------------------------------------------------------------------------
(* MicSessions: who captures, and who has.                                 *)

\* Processes that run have numbers of their own, and whom the monitor watches since it started has a series.
Apart   == \A p, q \in alive : Pid[p] = Pid[q] => p = q
Watched == \A p \in live \ left : series[p] # "none"

MicInv == Mic!TypeOK /\ Apart /\ Watched /\ SessionsTold

LEMMA LeastNumber ==
  ASSUME NEW T \in SUBSET Nat, T # {}
  PROVE  \E x \in T : \A y \in T : x <= y
<1> DEFINE Below == {s \in Nat \X Nat : s[1] < s[2]}
<1>1. IsWellFoundedOn(Below, Nat)
  BY NatLessThanWellFounded DEF OpToRel
<1> HIDE DEF Below
<1>2. PICK x \in T : \A y \in T : ~(<<y, x>> \in Below)
  BY <1>1, WFMin
<1>3. \A y \in T : ~(y < x)
  BY <1>2 DEF Below
<1> QED BY <1>3

LEMMA DevicesNumbered == \E n \in Nat : Devices = 1..n
<1> DEFINE n == Mic!Cardinality(Devices)
<1>1. Mic!IsFiniteSet(Devices) /\ Devices = 1..n
  BY RecordsAssumption DEF Mic!MicAssumption
<1>2. IsFiniteSet(Devices) /\ n = Cardinality(Devices)
  BY <1>1 DEF Mic!IsFiniteSet, IsFiniteSet, Mic!Cardinality, Cardinality
<1>3. n \in Nat
  BY <1>2, FS_CardinalityType
<1> QED BY <1>1, <1>3

\* There is a last one among some of the devices.
LEMMA LastDevice ==
  ASSUME NEW S \in SUBSET Devices, S # {}
  PROVE  \E d \in S : \A e \in S : e <= d
<1>1. PICK n \in Nat : Devices = 1..n
  BY DevicesNumbered
<1> DEFINE T == {i \in Nat : i <= n /\ n - i \in S}
<1>2. T # {}
  <2>1. PICK d \in S : TRUE
    OBVIOUS
  <2>2. n - d \in Nat /\ n - d <= n /\ n - (n - d) = d
    BY <1>1, <2>1
  <2> QED BY <2>2
<1>3. PICK i \in T : \A j \in T : i <= j
  BY <1>2, LeastNumber
<1>4. i \in Nat /\ n - i \in S
  BY <1>3
<1>5. ASSUME NEW e \in S
      PROVE  e <= n - i
  <2>1. n - e \in Nat /\ n - e <= n /\ n - (n - e) = e /\ e \in Nat
    BY <1>1, <1>5
  <2>2. i <= n - e
    BY <1>3, <2>1
  <2> QED BY <1>4, <2>1, <2>2
<1> QED BY <1>4, <1>5

\* What is heard of a process: a series goes on, and it is in use if the process captures and is idle nowhere.
LEMMA WhatIsHeard ==
  ASSUME Mic!TypeOK, NEW s \in Mic!Series, NEW p \in Procs, s # "none"
  PROVE  /\ Mic!Heard(s, p) \in Mic!Series /\ Mic!Heard(s, p) # "none"
         /\ ~Mic!Captures(p) => Mic!Heard(s, p) # "inUse"
         /\ Mic!Captures(p) /\ ~Mic!Torn(p) => Mic!Heard(s, p) = "inUse"
<1>1. CASE Mic!LastActive(p)
  BY <1>1 DEF Mic!Heard, Mic!Series, Mic!LastActive, Mic!Captures
<1>2. CASE ~Mic!LastActive(p)
  <2>1. Mic!Heard(s, p) = IF s = "inUse" \/ Mic!Captures(p) THEN "used" ELSE s
    BY <1>2 DEF Mic!Heard
  <2>2. Mic!Captures(p) => Mic!Torn(p)
    <3> SUFFICES ASSUME Mic!Captures(p), ~Mic!Torn(p)
                 PROVE  Mic!LastActive(p)
      BY <1>2
    <3> DEFINE S == {d \in Devices : held[p][d] = "active"}
    <3>1. S # {}
      BY DEF Mic!Captures
    <3>2. PICK d \in S : \A e \in S : e <= d
      BY <3>1, LastDevice
    <3>3. ASSUME NEW e \in Devices, e > d
          PROVE  held[p][e] = "none"
      <4>1. held[p][e] \in {"none", "idle", "active"} /\ held[p][e] # "idle"
        BY DEF Mic!TypeOK, Mic!Torn
      <4>2. e \in Int /\ d \in Int
        BY DevicesNumbered
      <4> QED BY <3>2, <3>3, <4>1, <4>2
    <3> QED BY <3>2, <3>3 DEF Mic!LastActive
  <2> QED BY <2>1, <2>2 DEF Mic!Series
<1> QED BY <1>1, <1>2

LEMMA MicStart ==
  ASSUME Mic!Init
  PROVE  MicInv
BY DEF Mic!Init, MicInv, Mic!TypeOK, Mic!NoSession, Mic!NoneOpen, Mic!Series, Apart, Watched,
       SessionsTold, Mic!SessionsTold, Mic!CapturingTold, Mic!Recorded, Mic!OpenIsLive

\* In Windows: the monitor has not read it yet.
LEMMA MicElsewhere ==
  ASSUME MicInv, \E p \in Procs : \/ Mic!Launch(p) \/ Mic!Quit(p)
                                  \/ \E d \in Devices, s \in {"none", "idle", "active"} : Mic!Session(p, d, s)
  PROVE  MicInv'
<1>1. read' = FALSE /\ UNCHANGED <<Mic!monitor, kept, lines, Mic!history>>
  BY DEF Mic!Launch, Mic!Quit, Mic!Session, Mic!Elsewhere
<1>2. Mic!TypeOK' /\ Apart'
  <2>1. ASSUME NEW p \in Procs, Mic!Launch(p)
        PROVE  Mic!TypeOK' /\ Apart'
    <3>1. alive' \subseteq born' /\ born' \subseteq Procs /\ held' = held
      BY <2>1 DEF MicInv, Mic!TypeOK, Mic!Launch
    <3>2. Mic!TypeOK'
      BY <1>1, <3>1 DEF MicInv, Mic!TypeOK, Mic!monitor, Mic!history
    <3>3. Apart'
      BY <2>1 DEF MicInv, Apart, Mic!Launch
    <3> QED BY <3>2, <3>3
  <2>2. ASSUME NEW p \in Procs, Mic!Quit(p) \/ \E d \in Devices, s \in {"none", "idle", "active"} : Mic!Session(p, d, s)
        PROVE  Mic!TypeOK' /\ Apart'
    <3>1. alive' \subseteq alive /\ born' = born
      BY <2>2 DEF Mic!Quit, Mic!Session
    <3>2. held' \in [Procs -> [Devices -> {"none", "idle", "active"}]]
      BY <2>2 DEF MicInv, Mic!TypeOK, Mic!Quit, Mic!Session, Mic!NoSession
    <3>3. Mic!TypeOK'
      BY <1>1, <3>1, <3>2 DEF MicInv, Mic!TypeOK, Mic!monitor, Mic!history
    <3> QED BY <3>1, <3>3 DEF MicInv, Apart
  <2> QED BY <2>1, <2>2
<1>3. Watched' /\ SessionsTold'
  BY <1>1 DEF MicInv, Watched, SessionsTold, Mic!SessionsTold, Mic!CapturingTold, Mic!Recorded, Mic!OpenIsLive,
              Mic!monitor, Mic!history
<1> QED BY <1>2, <1>3 DEF MicInv

\* A read: the processes it knows when it has told them apart, those it hears, and what their series become.
Watching(named) == live \cup named
Hears(named)    == {q \in Watching(named) : Mic!TakenFor(q) # {}}
Opened(named)   == [p \in Procs |-> IF p \in named THEN "silent" ELSE series[p]]
Becomes(named, reached) ==
  [q \in Procs |-> IF q \in Hears(named) THEN Mic!Heard(Opened(named)[q], CHOOSE p \in Mic!TakenFor(q) : TRUE)
                   ELSE IF q \in reached THEN Mic!Ended(Opened(named)[q]) ELSE Opened(named)[q]]

\* What such a read does, when it reaches some of those it no longer hears, and finds some of these gone.
Reads(named, reached, over) ==
  /\ \A p \in named : Mic!Known(p) = {}
  /\ reached \subseteq Watching(named) \ Hears(named) /\ over \subseteq reached
  /\ series' = [p \in Procs |-> IF p \in over THEN "none" ELSE Becomes(named, reached)[p]]
  /\ lines \cup slipped \cup {p \in over : Becomes(named, reached)[p] # "none"} \subseteq lines' \cup slipped'
  /\ lines' \cup slipped' \subseteq lines \cup slipped \cup over
  /\ live' = Watching(named) \ over /\ left' = left \ over
  /\ caught' = caught \cup {q \in Hears(named) : series'[q] = "inUse"}
  /\ mistaken' = mistaken \cup UNION {Mic!TakenFor(q) \cup {q} : q \in {r \in Hears(named) : r \notin Mic!TakenFor(r)}}
  /\ read' \in BOOLEAN /\ (read' => reached = Watching(named) \ Hears(named))
  /\ heard = "on" /\ UNCHANGED <<alive, born, held, heard, kept>>

LEMMA WhatPollDoes ==
  ASSUME MicInv, Mic!Poll
  PROVE  \E named \in SUBSET Mic!Holders, reached \in SUBSET Procs, over \in SUBSET Procs : Reads(named, reached, over)
<1>1. PICK named \in SUBSET {p \in Mic!Holders : Mic!Known(p) = {}} :
        /\ heard = "on" /\ UNCHANGED <<alive, born, held, heard, kept>>
        /\ \E reached \in SUBSET (Watching(named) \ Hears(named)) : \E over \in SUBSET reached :
             /\ \/ /\ reached = Watching(named) \ Hears(named) /\ read' = TRUE
                   /\ Mic!Close(over, Becomes(named, reached)) /\ UNCHANGED slipped
                \/ \E p \in over : /\ Becomes(named, reached)[p] # "none" /\ slipped' = slipped \cup {p} /\ read' = FALSE
                                   /\ Mic!Close(over \ {p}, [Becomes(named, reached) EXCEPT ![p] = "none"])
             /\ live' = Watching(named) \ over /\ left' = left \ over
        /\ caught' = caught \cup {q \in Hears(named) : series'[q] = "inUse"}
        /\ mistaken' = mistaken \cup UNION {Mic!TakenFor(q) \cup {q} : q \in {r \in Hears(named) : r \notin Mic!TakenFor(r)}}
  BY DEF Mic!Poll, Watching, Hears, Opened, Becomes, Mic!windows
<1>2. PICK reached \in SUBSET (Watching(named) \ Hears(named)), over \in SUBSET (Watching(named) \ Hears(named)) :
        /\ over \subseteq reached
        /\ \/ /\ reached = Watching(named) \ Hears(named) /\ read' = TRUE
              /\ Mic!Close(over, Becomes(named, reached)) /\ UNCHANGED slipped
           \/ \E p \in over : /\ Becomes(named, reached)[p] # "none" /\ slipped' = slipped \cup {p} /\ read' = FALSE
                              /\ Mic!Close(over \ {p}, [Becomes(named, reached) EXCEPT ![p] = "none"])
        /\ live' = Watching(named) \ over /\ left' = left \ over
  BY <1>1
<1> DEFINE B == Becomes(named, reached)
<1>3. B = [p \in Procs |-> B[p]]
  BY DEF Becomes
<1>4. reached \subseteq Procs /\ over \subseteq Procs
  BY <1>1, <1>2 DEF Watching, Mic!Holders, MicInv, Mic!TypeOK
<1>5. read' \in BOOLEAN /\ (read' => reached = Watching(named) \ Hears(named))
  BY <1>2
<1>6. \/ Mic!Close(over, B) /\ UNCHANGED slipped
      \/ \E p \in over : /\ B[p] # "none" /\ slipped' = slipped \cup {p}
                         /\ Mic!Close(over \ {p}, [B EXCEPT ![p] = "none"])
  BY <1>2
<1> HIDE DEF B
<1>7. /\ series' = [p \in Procs |-> IF p \in over THEN "none" ELSE B[p]]
      /\ lines \cup slipped \cup {p \in over : B[p] # "none"} \subseteq lines' \cup slipped'
      /\ lines' \cup slipped' \subseteq lines \cup slipped \cup over
  <2>1. CASE Mic!Close(over, B) /\ UNCHANGED slipped
    BY <1>4, <2>1 DEF Mic!Close
  <2>2. ASSUME NEW p \in over, B[p] # "none", slipped' = slipped \cup {p},
               Mic!Close(over \ {p}, [B EXCEPT ![p] = "none"])
        PROVE  /\ series' = [q \in Procs |-> IF q \in over THEN "none" ELSE B[q]]
               /\ lines \cup slipped \cup {q \in over : B[q] # "none"} \subseteq lines' \cup slipped'
               /\ lines' \cup slipped' \subseteq lines \cup slipped \cup over
    <3> DEFINE C == [B EXCEPT ![p] = "none"]
    <3>1. C[p] = "none" /\ \A q \in Procs \ {p} : C[q] = B[q]
      BY <1>3, <1>4
    <3>2. series' = [q \in Procs |-> IF q \in over \ {p} THEN "none" ELSE C[q]]
          /\ lines' = lines \cup {q \in over \ {p} : C[q] # "none"}
      BY <2>2 DEF Mic!Close
    <3> HIDE DEF C
    <3>3. series' = [q \in Procs |-> IF q \in over THEN "none" ELSE B[q]]
      BY <3>1, <3>2
    <3> QED BY <1>4, <2>2, <3>1, <3>2, <3>3
  <2> QED BY <1>6, <2>1, <2>2
<1>8. /\ reached \subseteq Watching(named) \ Hears(named) /\ over \subseteq reached
      /\ live' = Watching(named) \ over /\ left' = left \ over
  BY <1>2
<1>9. /\ \A p \in named : Mic!Known(p) = {}
      /\ caught' = caught \cup {q \in Hears(named) : series'[q] = "inUse"}
      /\ mistaken' = mistaken \cup UNION {Mic!TakenFor(q) \cup {q} : q \in {r \in Hears(named) : r \notin Mic!TakenFor(r)}}
      /\ heard = "on" /\ UNCHANGED <<alive, born, held, heard, kept>>
  BY <1>1
<1>10. Reads(named, reached, over)
  BY <1>5, <1>7, <1>8, <1>9 DEF Reads, B
<1> QED BY <1>1, <1>4, <1>10

\* What becomes of a series: one that was open stays open; in use, of those reached, only if its process is heard.
LEMMA WhatSeriesBecome ==
  ASSUME MicInv, NEW named \in SUBSET Mic!Holders, NEW reached \in SUBSET (Watching(named) \ Hears(named)), NEW q \in Procs
  PROVE  LET b == Opened(named)[q] IN
         /\ b \in Mic!Series
         /\ series[q] # "none" \/ q \in named => b # "none"
         /\ Becomes(named, reached)[q] \in Mic!Series
         /\ b # "none" => Becomes(named, reached)[q] # "none"
         /\ q \notin Watching(named) => Becomes(named, reached)[q] = series[q]
         /\ q \in reached => Becomes(named, reached)[q] # "inUse"
         /\ \A p : Mic!TakenFor(q) = {p} /\ q \in Watching(named) => Becomes(named, reached)[q] = Mic!Heard(b, p)
<1> DEFINE b == Opened(named)[q]
           B == Becomes(named, reached)[q]
<1>1. b = IF q \in named THEN "silent" ELSE series[q]
  BY DEF Opened
<1>2. b \in Mic!Series
  BY <1>1 DEF MicInv, Mic!TypeOK, Mic!Series
<1>3. CASE q \notin Hears(named) /\ q \notin reached
  <2>1. B = b
    BY <1>3 DEF Becomes
  <2>2. q \in Watching(named) => Mic!TakenFor(q) = {}
    BY <1>3 DEF Hears
  <2>3. q \notin Watching(named) => q \notin named
    BY DEF Watching
  <2> QED BY <1>1, <1>2, <1>3, <2>1, <2>2, <2>3
<1>4. CASE q \in Hears(named)
  <2> DEFINE p == CHOOSE p \in Mic!TakenFor(q) : TRUE
  <2>1. p \in Mic!TakenFor(q) /\ q \in Watching(named) /\ q \notin reached
    BY <1>4 DEF Hears
  <2>2. B = Mic!Heard(b, p)
    BY <1>4, <2>1 DEF Becomes
  <2>3. p \in Procs
    BY <2>1 DEF Mic!TakenFor, Mic!Holders, MicInv, Mic!TypeOK
  <2> HIDE DEF p
  <2>4. b = "none" => Mic!Heard(b, p) = "none"
    BY DEF Mic!Heard
  <2>5. b # "none" => Mic!Heard(b, p) \in Mic!Series /\ Mic!Heard(b, p) # "none"
    BY <1>2, <2>3, WhatIsHeard DEF MicInv
  <2>6. B \in Mic!Series
    BY <2>2, <2>4, <2>5 DEF Mic!Series
  <2> QED BY <1>1, <1>2, <1>4, <2>1, <2>2, <2>5, <2>6
<1>5. CASE q \in reached
  <2>1. B = Mic!Ended(b)
    BY <1>5 DEF Becomes
  <2>2. Mic!TakenFor(q) = {} /\ q \in Watching(named)
    BY <1>5 DEF Hears
  <2> QED BY <1>1, <1>2, <1>5, <2>1, <2>2 DEF Mic!Ended, Mic!Series
<1> QED BY <1>3, <1>4, <1>5

\* Who is heard under its own number is the only one.
LEMMA HeardAlone ==
  ASSUME MicInv, NEW q \in Procs, q \in Mic!TakenFor(q)
  PROVE  Mic!TakenFor(q) = {q}
BY DEF MicInv, Apart, Mic!TakenFor, Mic!Holders

\* A read: who is heard goes on, who is not is over, and who is gone has a line.
LEMMA MicPolled ==
  ASSUME MicInv, Mic!Poll
  PROVE  MicInv'
<1>0. PICK named \in SUBSET Mic!Holders, reached \in SUBSET Procs, over \in SUBSET Procs : Reads(named, reached, over)
  BY WhatPollDoes
<1>1. /\ \A p \in named : Mic!Known(p) = {}
      /\ reached \subseteq Watching(named) \ Hears(named) /\ over \subseteq reached
      /\ series' = [p \in Procs |-> IF p \in over THEN "none" ELSE Becomes(named, reached)[p]]
      /\ lines \cup slipped \cup {p \in over : Becomes(named, reached)[p] # "none"} \subseteq lines' \cup slipped'
      /\ lines' \cup slipped' \subseteq lines \cup slipped \cup over
      /\ live' = Watching(named) \ over /\ left' = left \ over
      /\ caught' = caught \cup {q \in Hears(named) : series'[q] = "inUse"}
      /\ mistaken' = mistaken \cup UNION {Mic!TakenFor(q) \cup {q} : q \in {r \in Hears(named) : r \notin Mic!TakenFor(r)}}
      /\ read' \in BOOLEAN /\ (read' => reached = Watching(named) \ Hears(named))
      /\ heard = "on" /\ UNCHANGED <<alive, born, held, heard, kept>>
  BY <1>0 DEF Reads
<1>2. named \subseteq Procs /\ Watching(named) \subseteq Procs /\ Hears(named) \subseteq Watching(named)
      /\ \A q : Mic!TakenFor(q) \subseteq Procs
  BY DEF Watching, Hears, Mic!Holders, Mic!TakenFor, MicInv, Mic!TypeOK
<1>3. Mic!TypeOK'
  <2>1. series' \in [Procs -> Mic!Series]
    BY <1>1, WhatSeriesBecome DEF Mic!Series
  <2>2. live' \subseteq Procs /\ caught' \subseteq Procs /\ left' \subseteq Procs /\ lines' \subseteq Procs /\ slipped' \subseteq Procs
    BY <1>1, <1>2 DEF MicInv, Mic!TypeOK
  <2>3. mistaken' \subseteq Procs
    BY <1>1, <1>2 DEF MicInv, Mic!TypeOK
  <2> QED BY <1>1, <2>1, <2>2, <2>3 DEF MicInv, Mic!TypeOK
<1>4. Apart'
  BY <1>1 DEF MicInv, Apart
<1>5. ASSUME NEW q \in Procs
      PROVE  /\ series[q] # "none" => series'[q] # "none" \/ q \in lines' \cup slipped'
             /\ q \in live' \ left' => series'[q] # "none" /\ Opened(named)[q] # "none"
             /\ q \notin live' => series'[q] = "none"
  <2>1. q \in over => series'[q] = "none" /\ (Becomes(named, reached)[q] # "none" => q \in lines' \cup slipped')
    BY <1>1
  <2>2. q \notin over => series'[q] = Becomes(named, reached)[q]
    BY <1>1
  <2>3. series[q] # "none" \/ q \in named => Becomes(named, reached)[q] # "none" /\ Opened(named)[q] # "none"
    BY <1>1, WhatSeriesBecome
  <2>4. q \in live' \ left' => q \notin over /\ (series[q] # "none" \/ q \in named)
    BY <1>1 DEF MicInv, Watched, Watching
  <2>5. q \notin live' => q \in over \/ q \notin Watching(named)
    BY <1>1
  <2>6. q \notin Watching(named) => Becomes(named, reached)[q] = "none"
    BY <1>1, WhatSeriesBecome DEF MicInv, SessionsTold, Mic!SessionsTold, Mic!OpenIsLive, Watching
  <2> QED BY <2>1, <2>2, <2>3, <2>4, <2>5, <2>6
<1>6. Watched' /\ Mic!OpenIsLive'
  BY <1>3, <1>5 DEF Watched, Mic!OpenIsLive, Mic!TypeOK
<1>7. Mic!Recorded'
  <2> SUFFICES ASSUME NEW q \in caught'
               PROVE  q \in lines' \cup slipped' \/ (q \in Procs /\ series'[q] # "none")
    BY DEF Mic!Recorded
  <2>1. q \in Procs
    BY <1>3 DEF Mic!TypeOK
  <2>2. CASE q \in caught
    BY <1>1, <1>5, <2>1, <2>2 DEF MicInv, SessionsTold, Mic!SessionsTold, Mic!Recorded
  <2>3. CASE q \notin caught
    <3>1. series'[q] = "inUse"
      BY <1>1, <2>3
    <3> QED BY <2>1, <3>1
  <2> QED BY <2>2, <2>3
<1>8. Mic!CapturingTold'
  <2> SUFFICES ASSUME read', NEW q \in live', q \notin left', q \notin mistaken'
               PROVE  (Mic!Torn(q) \/ (series[q] = "inUse" <=> q \in alive /\ Mic!Captures(q)))'
    BY DEF Mic!CapturingTold
  <2>1. q \in Procs /\ q \in Watching(named) /\ q \notin over /\ series'[q] = Becomes(named, reached)[q]
    BY <1>1, <1>2
  <2>2. alive' = alive /\ (Mic!Torn(q)' <=> Mic!Torn(q)) /\ (Mic!Captures(q)' <=> Mic!Captures(q))
    BY <1>1 DEF Mic!Torn, Mic!Captures
  <2>3. CASE q \in Hears(named)
    <3>1. q \in Mic!TakenFor(q)
      BY <1>1, <2>3
    <3>2. Mic!TakenFor(q) = {q} /\ q \in alive
      BY <2>1, <3>1, HeardAlone DEF Mic!TakenFor, Mic!Holders
    <3>3. series'[q] = Mic!Heard(Opened(named)[q], q) /\ Opened(named)[q] \in Mic!Series
      <4>1. Becomes(named, reached)[q] = Mic!Heard(Opened(named)[q], q)
        BY <1>1, <2>1, <3>2, WhatSeriesBecome
      <4>2. Opened(named)[q] \in Mic!Series
        BY <1>1, <2>1, WhatSeriesBecome
      <4> QED BY <2>1, <4>1, <4>2
    <3>4. Opened(named)[q] # "none"
      BY <1>5, <2>1
    <3> QED BY <2>1, <2>2, <3>2, <3>3, <3>4, WhatIsHeard DEF MicInv
  <2>4. CASE q \notin Hears(named)
    <3>1. Mic!TakenFor(q) = {}
      BY <2>1, <2>4 DEF Hears
    <3>2. q \notin alive \/ ~Mic!Captures(q)
      BY <2>1, <3>1 DEF Mic!TakenFor, Mic!Holders, Mic!Captures, Mic!NoSession
    <3>3. series'[q] # "inUse"
      BY <1>1, <2>1, <2>4, WhatSeriesBecome
    <3> QED BY <2>2, <3>2, <3>3
  <2> QED BY <2>3, <2>4
<1> QED BY <1>3, <1>4, <1>6, <1>7, <1>8 DEF MicInv, SessionsTold, Mic!SessionsTold

\* What is saved, and the switch.
LEMMA MicSwitched ==
  ASSUME MicInv, Mic!Save \/ Mic!TurnOn \/ Mic!TurnOff \/ Mic!Crash
  PROVE  MicInv'
<1>1. UNCHANGED <<alive, born, held, mistaken>>
  BY DEF Mic!Save, Mic!TurnOn, Mic!TurnOff, Mic!Crash, Mic!windows, Mic!history
<1>2. CASE Mic!Save
  <2>1. UNCHANGED <<live, left, series, heard, lines, caught, slipped, read>> /\ kept' \in {series, kept}
    BY <1>2 DEF Mic!Save, Mic!monitor, Mic!history
  <2>2. Mic!TypeOK'
    BY <1>1, <2>1 DEF MicInv, Mic!TypeOK
  <2>3. Apart' /\ Watched' /\ SessionsTold'
    BY <1>1, <2>1 DEF MicInv, Apart, Watched, SessionsTold, Mic!SessionsTold, Mic!CapturingTold, Mic!Recorded,
                      Mic!OpenIsLive, Mic!Torn, Mic!Captures
  <2> QED BY <2>2, <2>3 DEF MicInv
<1>3. CASE Mic!TurnOff
  <2>1. UNCHANGED <<live, left, series, lines, caught, slipped>> /\ kept' \in {series, kept} /\ read' = FALSE /\ heard' = "off"
    BY <1>3 DEF Mic!TurnOff, Mic!history
  <2>2. Mic!TypeOK'
    BY <1>1, <2>1 DEF MicInv, Mic!TypeOK
  <2>3. Apart' /\ Watched' /\ SessionsTold'
    BY <1>1, <2>1 DEF MicInv, Apart, Watched, SessionsTold, Mic!SessionsTold, Mic!CapturingTold, Mic!Recorded,
                      Mic!OpenIsLive
  <2> QED BY <2>2, <2>3 DEF MicInv
<1>4. CASE Mic!Crash
  <2>1. /\ heard' = "off" /\ live' = {} /\ left' = {} /\ series' = kept /\ read' = FALSE /\ UNCHANGED <<kept, lines, caught>>
        /\ slipped' = slipped \cup {p \in Procs : series[p] # kept[p]}
    BY <1>4 DEF Mic!Crash
  <2>2. Mic!TypeOK'
    BY <1>1, <2>1 DEF MicInv, Mic!TypeOK
  <2>3. Apart' /\ Watched' /\ SessionsTold'
    BY <1>1, <2>1 DEF MicInv, Apart, Watched, SessionsTold, Mic!SessionsTold, Mic!CapturingTold, Mic!Recorded,
                      Mic!OpenIsLive
  <2> QED BY <2>2, <2>3 DEF MicInv
<1>5. CASE Mic!TurnOn
  <2>1. left' = left \cup live /\ read' = FALSE /\ UNCHANGED <<live, kept, caught>> /\ heard' \in {"on", "dead"}
    BY <1>5 DEF Mic!TurnOn
  <2>2. /\ series' \in [Procs -> Mic!Series] /\ lines' \subseteq Procs /\ slipped' \subseteq Procs
        /\ heard' = "on" => \A p \in Procs : series'[p] = "none"
        /\ \A p \in Procs : series[p] # "none" => series'[p] # "none" \/ p \in lines' \cup slipped'
        /\ lines \cup slipped \subseteq lines' \cup slipped'
    <3>1. CASE heard' = "on" /\ Mic!Close(Procs, series) /\ UNCHANGED slipped
      BY <3>1 DEF Mic!Close, Mic!Series, MicInv, Mic!TypeOK
    <3>2. ASSUME NEW p \in Procs, NEW some \in SUBSET Procs, p \notin some, heard' = "dead",
                 slipped' = slipped \cup {p}, Mic!Close(some, [series EXCEPT ![p] = "none"])
          PROVE  /\ series' \in [Procs -> Mic!Series] /\ lines' \subseteq Procs /\ slipped' \subseteq Procs
                 /\ heard' # "on"
                 /\ \A q \in Procs : series[q] # "none" => series'[q] # "none" \/ q \in lines' \cup slipped'
                 /\ lines \cup slipped \subseteq lines' \cup slipped'
      <4> DEFINE C == [series EXCEPT ![p] = "none"]
      <4>1. C[p] = "none" /\ \A q \in Procs \ {p} : C[q] = series[q]
        BY DEF MicInv, Mic!TypeOK
      <4>2. \A q \in Procs : C[q] \in Mic!Series
        BY <4>1 DEF MicInv, Mic!TypeOK, Mic!Series
      <4>3. series' = [q \in Procs |-> IF q \in some THEN "none" ELSE C[q]]
            /\ lines' = lines \cup {q \in some : C[q] # "none"}
        BY <3>2 DEF Mic!Close
      <4> HIDE DEF C
      <4>4. series' \in [Procs -> Mic!Series]
        BY <4>2, <4>3 DEF Mic!Series
      <4> QED BY <3>2, <4>1, <4>3, <4>4 DEF MicInv, Mic!TypeOK
    <3> QED BY <1>5, <3>1, <3>2 DEF Mic!TurnOn
  <2>3. Mic!TypeOK'
    BY <1>1, <2>1, <2>2 DEF MicInv, Mic!TypeOK
  <2>4. Apart' /\ Watched'
    BY <1>1, <2>1 DEF MicInv, Apart, Watched
  <2>5. SessionsTold'
    <3>1. Mic!Recorded'
      BY <2>1, <2>2 DEF MicInv, SessionsTold, Mic!SessionsTold, Mic!Recorded
    <3> QED BY <2>1, <2>2, <3>1 DEF SessionsTold, Mic!SessionsTold, Mic!CapturingTold, Mic!OpenIsLive
  <2> QED BY <2>3, <2>4, <2>5 DEF MicInv
<1> QED BY <1>2, <1>3, <1>4, <1>5

LEMMA MicStep ==
  ASSUME MicInv, [Mic!Next]_(Mic!vars)
  PROVE  MicInv'
<1>1. CASE UNCHANGED Mic!vars
  <2>1. UNCHANGED <<alive, born, held, heard, live, series, kept, lines, caught, left, mistaken, slipped, read>>
    BY <1>1 DEF Mic!vars, Mic!windows, Mic!monitor, Mic!history
  <2>2. Mic!TypeOK'
    BY <2>1 DEF MicInv, Mic!TypeOK
  <2> QED BY <2>1, <2>2 DEF MicInv, Apart, Watched, SessionsTold, Mic!SessionsTold, Mic!CapturingTold, Mic!Recorded,
                            Mic!OpenIsLive, Mic!Torn, Mic!Captures
<1> QED BY <1>1, MicElsewhere, MicPolled, MicSwitched DEF Mic!Next

\* Who captures is said and who has captured is on record, for any processes and devices: each read leaves in
\* use the series of those that capture, none of them is forgotten, and no other is open (poll_live, _close,
\* start_live_gap).
THEOREM CapturesAreTold == Mic!Spec => []SessionsTold
<1>1. Mic!Init => MicInv
  BY MicStart
<1>2. MicInv /\ [Mic!Next]_(Mic!vars) => MicInv'
  BY MicStep
<1>3. MicInv => SessionsTold
  BY DEF MicInv
<1> QED BY <1>1, <1>2, <1>3, PTL DEF Mic!Spec

-----------------------------------------------------------------------------
(* CapabilityUses: every use that was read is counted once.                *)

LEMMA UsesNumbered == Uses \subseteq Nat \ {0} /\ Gap \in Nat /\ MaxTime \in Nat \ {0} /\ Times \subseteq Nat
<1>1. Cardinality(Uses) \in Nat
  BY UsesAssumption, FS_CardinalityType
<1> QED BY <1>1, UsesAssumption DEF Times

\* The largest of some numbers with a bound.
LEMMA MaxOf ==
  ASSUME NEW S \in SUBSET Nat, S # {}, NEW n \in Nat, \A x \in S : x <= n
  PROVE  Max(S) \in S /\ \A x \in S : x <= Max(S)
<1> DEFINE T == {b \in Nat : \A x \in S : x <= b}
<1>1. PICK b \in T : \A c \in T : b <= c
  BY LeastNumber
<1>2. b \in S
  <2> SUFFICES ASSUME b \notin S
               PROVE  FALSE
    OBVIOUS
  <2>1. PICK x \in S : TRUE
    OBVIOUS
  <2>2. \A y \in S : y < b
    BY <1>1
  <2>3. b - 1 \in Nat /\ \A y \in S : y <= b - 1
    BY <1>1, <2>1, <2>2
  <2>4. b <= b - 1
    BY <1>1, <2>3
  <2> QED BY <1>1, <2>4
<1>3. \E x \in S : \A y \in S : x >= y
  BY <1>1, <1>2
<1>4. Max(S) \in S /\ \A y \in S : Max(S) >= y
  BY <1>3, Zenon DEF Max
<1> QED BY <1>4

LEMMA MaxOfTwo ==
  ASSUME NEW a \in Nat, NEW b \in Nat
  PROVE  Max({a, b}) \in {a, b} /\ Max({a, b}) >= a /\ Max({a, b}) >= b
<1>1. CASE a <= b
  BY <1>1, MaxOf
<1>2. CASE b <= a
  BY <1>2, MaxOf
<1> QED BY <1>1, <1>2

LEMMA MaxOfTimes ==
  ASSUME NEW a \in Times, NEW b \in Times
  PROVE  Max({a, b}) \in Times
BY MaxOfTwo, UsesNumbered

-----------------------------------------------------------------------------
\* What the log and the open series count together.
Tally == [open : Series \cup {NoSeries}, log : [Uses -> Nat]]
Total(open, log) == [u \in Uses |-> log[u] + IF open = NoSeries THEN 0 ELSE open.counts[u]]

LEMMA OneMore ==
  ASSUME NEW f \in [Uses -> Nat], NEW u \in Uses
  PROVE  /\ Plus(f, One(u)) \in [Uses -> Nat] /\ One(u) \in [Uses -> Nat]
         /\ \A v \in Uses : /\ Plus(f, One(u))[v] = f[v] + (IF v = u THEN 1 ELSE 0)
                            /\ One(u)[v] = IF v = u THEN 1 ELSE 0
BY DEF Plus, One, Never

LEMMA Closed ==
  ASSUME NEW m \in Tally
  PROVE  /\ Close(m) \in Tally /\ Close(m).open = NoSeries
         /\ Total(Close(m).open, Close(m).log) = Total(m.open, m.log)
<1>1. CASE m.open = NoSeries
  BY <1>1 DEF Close, Tally, Total
<1>2. CASE m.open \in Series
  <2>1. m.open # NoSeries /\ m.open.counts \in [Uses -> Nat] /\ m.log \in [Uses -> Nat]
    BY <1>2, UsesAssumption DEF Series, Tally
  <2>2. Plus(m.log, m.open.counts) \in [Uses -> Nat]
        /\ \A u \in Uses : Plus(m.log, m.open.counts)[u] = m.log[u] + m.open.counts[u]
    BY <2>1 DEF Plus
  <2> QED BY <2>1, <2>2 DEF Close, Tally, Total
<1> QED BY <1>1, <1>2 DEF Tally

\* A use that joins the series.
LEMMA Joining ==
  ASSUME NEW s \in Series, NEW r \in Rows
  PROVE  /\ Joined(s, r) \in Series /\ Joined(s, r).counts = Plus(s.counts, One(r.use))
         /\ Joined(s, r).inUse = (r.stop = 0)
<1>1. /\ s.counts \in [Uses -> Nat] /\ s.lastStart \in Times /\ s.lastStop \in Times
      /\ r.use \in Uses /\ r.start \in Times /\ r.stop \in Times
  BY DEF Series, Rows
<1>2. Plus(s.counts, One(r.use)) \in [Uses -> Nat]
  BY <1>1, OneMore
<1>3. Max({s.lastStart, r.start}) \in Times /\ Max({s.lastStop, r.stop}) \in Times
  BY <1>1, MaxOfTimes
<1> QED BY <1>1, <1>2, <1>3 DEF Joined, Series

\* The end of a use changes nothing that is counted; any other row counts one use more, the last of its series.
LEMMA Adding ==
  ASSUME NEW m \in Tally, NEW r \in Rows, NEW a, a = AddUse(m, r)
  PROVE  /\ a \in Tally /\ a.open \in Series
         /\ r.update /\ m.open # NoSeries => a.log = m.log /\ a.open.counts = m.open.counts
         /\ ~(r.update /\ m.open # NoSeries) =>
              /\ \A u \in Uses : Total(a.open, a.log)[u] = Total(m.open, m.log)[u] + (IF u = r.use THEN 1 ELSE 0)
              /\ a.open.inUse = (r.stop = 0)
              /\ \/ a.open.counts = One(r.use)
                 \/ m.open # NoSeries /\ a.open.counts = Plus(m.open.counts, One(r.use))
<1> DEFINE fresh == [counts |-> One(r.use), lastStart |-> r.start, lastStop |-> r.stop, inUse |-> r.stop = 0]
<1>0. /\ r.use \in Uses /\ r.start \in Times /\ r.stop \in Times
      /\ m = [open |-> m.open, log |-> m.log] /\ m.log \in [Uses -> Nat] /\ m.open \in Series \cup {NoSeries}
  BY DEF Rows, Tally
<1>1. CASE r.update /\ m.open # NoSeries
  <2>1. m.open \in Series /\ Max({m.open.lastStop, r.stop}) \in Times
    BY <1>0, <1>1, MaxOfTimes DEF Series
  <2>2. a = [open |-> [counts |-> m.open.counts, lastStart |-> m.open.lastStart,
                       lastStop |-> Max({m.open.lastStop, r.stop}), inUse |-> FALSE], log |-> m.log]
    <3>1. a = [m EXCEPT !.open.lastStop = Max({m.open.lastStop, r.stop}), !.open.inUse = FALSE]
      BY <1>1 DEF AddUse
    <3>2. /\ a = [open |-> a.open, log |-> m.log]
          /\ a.open = [m.open EXCEPT !.lastStop = Max({m.open.lastStop, r.stop}), !.inUse = FALSE]
      BY <1>0, <3>1
    <3>3. m.open = [counts |-> m.open.counts, lastStart |-> m.open.lastStart,
                    lastStop |-> m.open.lastStop, inUse |-> m.open.inUse]
      BY <2>1 DEF Series
    <3> DEFINE end == Max({m.open.lastStop, r.stop})
    <3> HIDE DEF end
    <3>4. a.open = [counts |-> m.open.counts, lastStart |-> m.open.lastStart, lastStop |-> end, inUse |-> FALSE]
      BY <3>2, <3>3 DEF end
    <3> QED BY <3>2, <3>4 DEF end
  <2>3. m.open.counts \in [Uses -> Nat] /\ m.open.lastStart \in Times
    BY <2>1 DEF Series
  <2>4. a.open \in Series /\ a.open.counts = m.open.counts /\ a.log = m.log
    BY <2>1, <2>2, <2>3 DEF Series
  <2>5. a \in Tally
    BY <1>0, <2>2, <2>4 DEF Tally
  <2> QED BY <1>1, <2>4, <2>5
<1>2. CASE ~(r.update /\ m.open # NoSeries) /\ Joins(m, r)
  <2>1. m.open \in Series /\ m.open # NoSeries
    BY <1>0, <1>2 DEF Joins
  <2>2. a = [open |-> Joined(m.open, r), log |-> m.log]
    BY <1>0, <1>2 DEF AddUse
  <2>3. a.open \in Series /\ a.open # NoSeries /\ a.open.counts = Plus(m.open.counts, One(r.use))
        /\ a.open.inUse = (r.stop = 0) /\ a.log = m.log
    BY <2>1, <2>2, Joining, UsesAssumption
  <2>4. \A u \in Uses : a.open.counts[u] = m.open.counts[u] + (IF u = r.use THEN 1 ELSE 0)
                        /\ m.open.counts[u] \in Nat /\ m.log[u] \in Nat
    BY <1>0, <2>1, <2>3, OneMore DEF Series
  <2>5. a \in Tally
    BY <1>0, <2>2, <2>3 DEF Tally
  <2> QED BY <1>2, <2>1, <2>3, <2>4, <2>5 DEF Total
<1>3. CASE ~(r.update /\ m.open # NoSeries) /\ ~Joins(m, r)
  <2>1. Close(m) \in Tally /\ Total(Close(m).open, Close(m).log) = Total(m.open, m.log) /\ Close(m).open = NoSeries
    BY Closed
  <2>2. a = [open |-> fresh, log |-> Close(m).log]
    BY <1>3, <2>1 DEF AddUse, Tally
  <2>3. One(r.use) \in [Uses -> Nat] /\ \A u \in Uses : One(r.use)[u] = IF u = r.use THEN 1 ELSE 0
    BY <1>0 DEF One, Never
  <2>4. fresh \in Series /\ fresh # NoSeries
    <3>1. (r.stop = 0) \in BOOLEAN
      OBVIOUS
    <3>2. fresh \in Series
      BY <1>0, <2>3, <3>1, Zenon DEF Series
    <3> QED BY <3>2, UsesAssumption
  <2>5. /\ a \in Tally /\ a.open \in Series /\ a.open # NoSeries
        /\ a.open.counts = One(r.use) /\ a.open.inUse = (r.stop = 0) /\ a.log = Close(m).log
    BY <2>1, <2>2, <2>4 DEF Tally
  <2>6. \A u \in Uses : /\ Total(a.open, a.log)[u] = Close(m).log[u] + One(r.use)[u]
                        /\ Total(m.open, m.log)[u] = Close(m).log[u] + 0
    <3> TAKE u \in Uses
    <3>1. Total(a.open, a.log)[u] = Close(m).log[u] + One(r.use)[u]
      BY <2>5 DEF Total
    <3>2. Total(Close(m).open, Close(m).log)[u] = Close(m).log[u] + 0
      BY <2>1 DEF Total
    <3> QED BY <2>1, <3>1, <3>2
  <2>7. \A u \in Uses : Close(m).log[u] \in Nat
    BY <2>1 DEF Tally
  <2> QED BY <1>3, <2>3, <2>5, <2>6, <2>7
<1> QED BY <1>1, <1>2, <1>3

-----------------------------------------------------------------------------
\* What the database holds, and the types, with a bound on the numbers of rows.
Database == {[id |-> row[u], use |-> u, start |-> start[u], stop |-> stop[u], update |-> FALSE] :
               u \in {v \in Uses : row[v] > 0}}
Numbered == /\ \A u \in Uses : row[u] <= top
            /\ \E n \in Nat : \A r \in copy.rows : r.id <= n
UsesTyped == TypeOK /\ Numbered

DatabaseHolds ==
  /\ Database \subseteq Rows
  /\ \A r \in Database : /\ r.use \in Uses /\ r.id = row[r.use] /\ r.id > 0 /\ r.start = start[r.use]
                         /\ r.stop = stop[r.use] /\ ~r.update
  /\ \A u \in Uses : row[u] > 0 => \E r \in Database : r.use = u
  /\ \A r, q \in Database : r.use = q.use => r = q

LEMMA InDatabase == TypeOK => DatabaseHolds
<1> SUFFICES ASSUME TypeOK
             PROVE  DatabaseHolds
  OBVIOUS
<1> DEFINE In(u) == [id |-> row[u], use |-> u, start |-> start[u], stop |-> stop[u], update |-> FALSE]
<1>1. \A u \in Uses : /\ In(u) \in Rows /\ In(u).use = u /\ In(u).id = row[u] /\ In(u).start = start[u]
                      /\ In(u).stop = stop[u] /\ ~In(u).update
  BY DEF TypeOK, Rows
<1>2. \A r \in Database : \E u \in Uses : row[u] > 0 /\ r = In(u)
  BY DEF Database
<1>3. \A u \in Uses : row[u] > 0 => In(u) \in Database
  BY DEF Database
<1> HIDE DEF In
<1> QED BY <1>1, <1>2, <1>3 DEF DatabaseHolds

LEMMA Heights ==
  ASSUME UsesTyped
  PROVE  /\ Highest \in Nat /\ \A r \in copy.rows : r.id \in Nat /\ r.id <= Highest
         /\ Highest = 0 \/ \E r \in copy.rows : r.id = Highest
         /\ Known \in {0, mem.cursor.id} /\ Known <= Highest /\ (mem.cursor.id <= Highest => Known = mem.cursor.id)
<1> DEFINE ids == {r.id : r \in copy.rows} \cup {0}
<1>1. copy.rows \subseteq Rows /\ mem.cursor.id \in Nat
  BY DEF UsesTyped, TypeOK, State, Cursor
<1>2. PICK n \in Nat : \A r \in copy.rows : r.id <= n
  BY DEF UsesTyped, Numbered
<1>3. ids \in SUBSET Nat /\ ids # {} /\ \A x \in ids : x <= n
  BY <1>1, <1>2 DEF Rows
<1>4. Max(ids) \in ids /\ \A x \in ids : x <= Max(ids)
  BY <1>3, MaxOf
<1>5. Highest = Max(ids)
  BY DEF Highest
<1>6. Highest \in Nat /\ (\A r \in copy.rows : r.id \in Nat /\ r.id <= Highest)
      /\ (Highest = 0 \/ \E r \in copy.rows : r.id = Highest)
  BY <1>1, <1>3, <1>4, <1>5 DEF Rows
<1> QED BY <1>1, <1>6 DEF Known

\* What a poll takes from the copy, and how far it has then come.
LEMMA Reading ==
  ASSUME UsesTyped
  PROVE  /\ Fresh \subseteq copy.rows /\ Reread \subseteq copy.rows
         /\ Ended \subseteq Rows /\ \A e \in Ended : e.update /\ \E q \in Reread : q.id = e.id /\ q.start = e.start /\ q.stop = e.stop
         /\ \A e \in Ended : e.stop > 0
         /\ (\E q \in Reread : q.stop > 0) <=> Ended # {}
         /\ Reached \in Cursor
         /\ \A r \in Fresh : r.id <= Reached.id
         /\ Known <= Reached.id /\ Reached.id <= Highest
         /\ Reached.start = mem.cursor.start \/ \E r \in copy.rows : r.start = Reached.start
         /\ Reached.open = {r.id : r \in {q \in Fresh \cup Reread : q.stop = 0}}
<1>1. copy.rows \subseteq Rows /\ mem.cursor \in Cursor
  BY DEF UsesTyped, TypeOK, State
<1>2. Fresh \subseteq copy.rows /\ Reread \subseteq copy.rows
  BY DEF Fresh, Reread
<1>3. /\ Ended \subseteq Rows
      /\ \A e \in Ended : e.update /\ \E q \in Reread : q.id = e.id /\ q.start = e.start /\ q.stop = e.stop
      /\ \A e \in Ended : e.stop > 0
      /\ (\E q \in Reread : q.stop > 0) <=> Ended # {}
  <2> DEFINE End(q) == [q EXCEPT !.update = TRUE]
  <2>1. \A q \in Reread : /\ End(q) \in Rows /\ End(q).update /\ End(q).id = q.id
                          /\ End(q).start = q.start /\ End(q).stop = q.stop
    BY <1>1, <1>2 DEF Rows
  <2>2. \A e \in Ended : \E q \in Reread : q.stop > 0 /\ e = End(q)
    BY DEF Ended
  <2>3. \A q \in Reread : q.stop > 0 => End(q) \in Ended
    BY DEF Ended
  <2> HIDE DEF End
  <2>4. Ended \subseteq Rows
    BY <2>1, <2>2
  <2>5. \A e \in Ended : e.update /\ \E q \in Reread : q.id = e.id /\ q.start = e.start /\ q.stop = e.stop
    BY <2>1, <2>2
  <2>6. \A e \in Ended : e.stop > 0
    BY <2>1, <2>2
  <2> QED BY <2>2, <2>3, <2>4, <2>5, <2>6
<1> DEFINE ids    == {r.id : r \in Fresh \cup Ended} \cup {Known}
           starts == {r.start : r \in Fresh \cup Ended} \cup {mem.cursor.start}
<1>4. \A r \in Fresh \cup Ended : r.id \in Nat /\ r.id <= Highest /\ r.start \in Times /\ \E q \in copy.rows : q.start = r.start
  BY <1>1, <1>2, <1>3, Heights DEF Rows
<1>5. Max(ids) \in ids /\ \A x \in ids : x <= Max(ids)
  <2>1. Known \in Nat /\ Known <= Highest /\ Highest \in Nat
    BY <1>1, Heights DEF Cursor
  <2>2. ids \in SUBSET Nat /\ ids # {} /\ \A x \in ids : x <= Highest
    BY <1>4, <2>1
  <2> QED BY <2>1, <2>2, MaxOf
<1>6. Max(starts) \in starts
  <2>1. starts \in SUBSET Nat /\ starts # {} /\ \A x \in starts : x <= MaxTime
    BY <1>1, <1>4, UsesNumbered DEF Cursor, Times
  <2> QED BY <2>1, MaxOf, UsesNumbered
<1>7. Reached = [id |-> Max(ids), start |-> Max(starts), open |-> {r.id : r \in {q \in Fresh \cup Reread : q.stop = 0}}]
  BY DEF Reached
<1> HIDE DEF ids, starts
<1>8. /\ Reached.id = Max(ids) /\ Reached.start = Max(starts)
      /\ Reached.open = {r.id : r \in {q \in Fresh \cup Reread : q.stop = 0}}
  BY <1>7
<1>9. Reached.open \subseteq Nat
  BY <1>1, <1>2, <1>8 DEF Rows
<1>10. Max(ids) \in Nat /\ Max(ids) <= Highest /\ Known <= Max(ids) /\ \A r \in Fresh : r.id <= Max(ids)
  BY <1>1, <1>4, <1>5, Heights DEF ids, Cursor
<1>11. Max(starts) \in Times /\ (Max(starts) = mem.cursor.start \/ \E r \in copy.rows : r.start = Max(starts))
  BY <1>1, <1>4, <1>6 DEF starts, Cursor
<1>12. Reached \in Cursor
  <2>1. /\ Reached = [id |-> Reached.id, start |-> Reached.start, open |-> Reached.open]
        /\ Reached.id \in Nat /\ Reached.start \in Times /\ Reached.open \in SUBSET Nat
    BY <1>7, <1>8, <1>9, <1>10, <1>11
  <2> QED BY <2>1, Zenon DEF Cursor
<1> QED BY <1>2, <1>3, <1>8, <1>10, <1>11, <1>12

LEMMA UsesTypesStart == Init => UsesTyped
<1> SUFFICES ASSUME Init
             PROVE  UsesTyped
  OBVIOUS
<1>1. 0 \in Times /\ 1 \in Times /\ {} \in SUBSET Rows /\ {} \in SUBSET Nat
  BY UsesNumbered DEF Times
<1>2. Origin \in Cursor
  BY <1>1 DEF Origin, Cursor
<1>3. Nothing \in State
  BY <1>1, <1>2 DEF Nothing, State
<1>4. NoPoll \in [rows : SUBSET Rows, cursor : Cursor, copied : Times]
  BY <1>1, <1>2 DEF NoPoll
<1>5. TypeOK
  BY <1>1, <1>3, <1>4 DEF Init, TypeOK
<1>6. Numbered
  BY DEF Init, Numbered
<1> QED BY <1>5, <1>6 DEF UsesTyped

\* Windows' own steps.
WindowsMoves == Tick \/ Recreate \/ Copy \/ \E u \in Uses : Begin(u) \/ Finish(u)

LEMMA WindowsTyped ==
  ASSUME UsesTyped, WindowsMoves
  PROVE  UsesTyped' /\ UNCHANGED <<on, mem, dirty, file, poll, logged, ahead, torn>>
<1>1. UNCHANGED <<on, mem, dirty, file, poll, logged, ahead, torn>>
  BY DEF WindowsMoves, Tick, Recreate, Copy, Begin, Finish, Ours
<1>2. SUFFICES /\ now' \in Times /\ start' \in [Uses -> Times] /\ stop' \in [Uses -> Times]
               /\ row' \in [Uses -> Nat] /\ top' \in Nat /\ copy' \in [at : Times, rows : SUBSET Rows]
               /\ Numbered'
  BY <1>1 DEF UsesTyped, TypeOK
<1> USE DEF UsesTyped, TypeOK, Numbered
<1>3. CASE Tick
  BY <1>3, UsesNumbered DEF Tick, Times
<1>4. CASE Recreate
  BY <1>4 DEF Recreate, Never
<1>5. CASE Copy
  <2>1. copy' = [at |-> now, rows |-> Database]
    BY <1>5 DEF Copy, Database
  <2>2. Database \in SUBSET Rows /\ \A r \in Database : r.id <= top
    BY InDatabase DEF DatabaseHolds
  <2>3. UNCHANGED <<now, start, stop, row, top>>
    BY <1>5 DEF Copy
  <2> QED BY <2>1, <2>2, <2>3
<1>6. ASSUME NEW u \in Uses, Begin(u)
      PROVE  /\ now' \in Times /\ start' \in [Uses -> Times] /\ stop' \in [Uses -> Times]
             /\ row' \in [Uses -> Nat] /\ top' \in Nat /\ copy' \in [at : Times, rows : SUBSET Rows]
             /\ Numbered'
  <2>1. /\ start' = [start EXCEPT ![u] = now] /\ row' = [row EXCEPT ![u] = top + 1] /\ top' = top + 1
        /\ UNCHANGED <<now, stop, copy>>
    BY <1>6 DEF Begin
  <2>2. start' \in [Uses -> Times] /\ row' \in [Uses -> Nat] /\ top' \in Nat
    BY <2>1
  <2>3. \A v \in Uses : row'[v] <= top'
    BY <2>1
  <2> QED BY <2>1, <2>2, <2>3
<1>7. ASSUME NEW u \in Uses, Finish(u)
      PROVE  /\ now' \in Times /\ start' \in [Uses -> Times] /\ stop' \in [Uses -> Times]
             /\ row' \in [Uses -> Nat] /\ top' \in Nat /\ copy' \in [at : Times, rows : SUBSET Rows]
             /\ Numbered'
  BY <1>7 DEF Finish
<1> QED BY <1>3, <1>4, <1>5, <1>6, <1>7 DEF WindowsMoves

\* One row is added to what is counted.
LEMMA AddTyped ==
  ASSUME UsesTyped, NEW r \in poll.rows, Add(r)
  PROVE  /\ UsesTyped' /\ mem' = [mem EXCEPT !.open = mem'.open] /\ mem'.open \in Series
         /\ [open |-> mem.open, log |-> logged] \in Tally /\ r \in Rows
         /\ [open |-> mem'.open, log |-> logged'] = AddUse([open |-> mem.open, log |-> logged], r)
<1> DEFINE m == [open |-> mem.open, log |-> logged]
           a == AddUse(m, r)
<1>1. m \in Tally /\ r \in Rows /\ mem \in State
  BY DEF UsesTyped, TypeOK, State, Tally
<1>2. a \in Tally /\ a.open \in Series
  BY <1>1, Adding
<1>3. mem' = [mem EXCEPT !.open = a.open] /\ logged' = a.log /\ ahead' = (ahead \/ a.log # logged)
      /\ poll' = [poll EXCEPT !.rows = @ \ {r}] /\ dirty' = TRUE /\ UNCHANGED <<windows, on, file, torn>>
  BY DEF Add, Logs
<1> HIDE DEF a
<1>4. mem' \in State /\ mem'.open = a.open /\ mem' = [mem EXCEPT !.open = mem'.open]
  BY <1>1, <1>2, <1>3 DEF State
<1>5. a = [open |-> mem'.open, log |-> logged']
  BY <1>2, <1>3, <1>4 DEF Tally
<1>6. poll' \in [rows : SUBSET Rows, cursor : Cursor, copied : Times]
  BY <1>3 DEF UsesTyped, TypeOK
<1>7. logged' \in [Uses -> Nat]
  BY <1>2, <1>3 DEF Tally
<1>8. ahead' \in BOOLEAN
  BY <1>3, Zenon DEF UsesTyped, TypeOK
<1>9. UsesTyped'
  BY <1>3, <1>4, <1>6, <1>7, <1>8 DEF UsesTyped, TypeOK, Numbered, windows
<1> QED BY <1>1, <1>2, <1>4, <1>5, <1>9 DEF a

\* The other steps of the monitor.
LEMMA MonitorTyped ==
  ASSUME UsesTyped,
         Poll \/ Reach \/ Sweep \/ Save \/ TurnOn \/ TurnOff \/ Crash \/ \E r \in poll.rows : AddFails(r)
  PROVE  UsesTyped' /\ UNCHANGED windows
<1>0. UNCHANGED windows
  BY DEF Poll, Reach, Sweep, Save, TurnOn, TurnOff, Crash, AddFails, windows
<1>1. SUFFICES /\ {on', dirty', ahead', torn'} \subseteq BOOLEAN /\ {mem', file'} \subseteq State
               /\ poll' \in [rows : SUBSET Rows, cursor : Cursor, copied : Times] /\ logged' \in [Uses -> Nat]
  BY <1>0 DEF UsesTyped, TypeOK, Numbered, windows
<1>2. NoPoll \in [rows : SUBSET Rows, cursor : Cursor, copied : Times]
  BY UsesNumbered DEF NoPoll, Origin, Cursor, Times
<1>3. [mem EXCEPT !.open = NoSeries] \in State
  BY DEF UsesTyped, TypeOK, State
<1> USE DEF UsesTyped, TypeOK
<1>4. CASE Poll
  <2>1. Fresh \cup Ended \in SUBSET Rows /\ Reached \in Cursor /\ copy.at \in Times
    BY Reading
  <2>2. poll' = [rows |-> Fresh \cup Ended, cursor |-> Reached, copied |-> copy.at]
        /\ UNCHANGED <<on, mem, dirty, file, logged, ahead>> /\ torn' = (torn \/ Skips \/ Crosses)
    BY <1>4 DEF Poll
  <2>3. torn' \in BOOLEAN
    BY <2>2, Zenon
  <2> QED BY <2>1, <2>2, <2>3
<1>5. CASE Reach
  <2>1. [mem EXCEPT !.cursor = poll.cursor, !.ingested = poll.copied] \in State
    BY DEF State
  <2> QED BY <1>2, <1>5, <2>1 DEF Reach
<1>6. CASE Sweep
  <2>1. [open |-> mem.open, log |-> logged] \in Tally
    BY DEF Tally, State
  <2>2. Close([open |-> mem.open, log |-> logged]).log \in [Uses -> Nat]
    BY <2>1, Closed DEF Tally
  <2>3. ahead' \in BOOLEAN
    BY <1>6, Zenon DEF Sweep, Logs
  <2>4. torn' \in BOOLEAN
    BY <1>6, Zenon DEF Sweep
  <2> QED BY <1>3, <1>6, <2>2, <2>3, <2>4 DEF Sweep, Logs
<1>7. CASE Save \/ TurnOn \/ TurnOff
  BY <1>7 DEF Save, TurnOn, TurnOff
<1>8. CASE Crash
  <2>1. torn' \in BOOLEAN
    BY <1>8, Zenon DEF Crash
  <2> QED BY <1>2, <1>8, <2>1 DEF Crash
<1>9. ASSUME NEW r \in poll.rows, AddFails(r)
      PROVE  /\ {on', dirty', ahead', torn'} \subseteq BOOLEAN /\ {mem', file'} \subseteq State
             /\ poll' \in [rows : SUBSET Rows, cursor : Cursor, copied : Times] /\ logged' \in [Uses -> Nat]
  BY <1>2, <1>3, <1>9 DEF AddFails
<1> QED BY <1>4, <1>5, <1>6, <1>7, <1>8, <1>9

-----------------------------------------------------------------------------
\* Of rows, from an earlier use to a later.
Ordered(V) ==
  \A r, q \in V : /\ r.use = q.use => r = q
                  /\ r.use < q.use => r.id < q.id /\ r.start <= q.start /\ r.stop > 0

\* Windows' uses follow one another, and so do the numbers of their rows.
InTurn ==
  /\ now > 0
  /\ \A u \in Uses : start[u] <= now /\ (start[u] = 0 => stop[u] = 0 /\ row[u] = 0)
  /\ \A u, v \in Uses : u < v =>
       /\ start[v] > 0 => start[u] > 0 /\ start[u] <= start[v] /\ stop[u] > 0
       /\ row[u] > 0 /\ row[v] > 0 => row[u] < row[v]

\* The copy C is of the time at; what the database D still has of it, it has all of, under the same numbers.
Copied(D, C, at) ==
  /\ Ordered(C) /\ \A r \in C : r.id > 0 /\ ~r.update /\ r.start <= at
  /\ \A r \in C, d \in D : d.use = r.use => d.id = r.id /\ (d.stop = 0 => r.stop = 0)
  /\ \A r, q \in C, d \in D : d.use = r.use => \E e \in D : e.use = q.use
  /\ \A d \in D : (\A r \in C : r.use # d.use) => at <= d.start

\* Of rows, those up to a cursor's number are of its database, and the others are new.
Fits(V, K, c) ==
  \A r \in V : \/ r.id <= c.id /\ \E q \in V : c.id <= q.id
               \/ r.use \notin K /\ c.start <= r.start

\* A cursor and a time that account for the uses K: those in the copy of that time, and no later ones.
Told(D, C, at, K, c, i) ==
  /\ i <= at /\ c.start <= at /\ (i = at => \A r \in C : r.use \in K)
  /\ \A d \in D : d.use \in K => \E r \in C : r.use = d.use
  /\ Fits(D, K, c) /\ Fits(C, K, c)
  /\ \A r \in D \cup C : r.use \in K /\ r.stop = 0 => r.id \in c.open

\* What the cursor knows to be running is one use, counted in an open series that is in use.
Rest(V, o, K, c) ==
  /\ c.open # {} => o # NoSeries /\ o.inUse
  /\ \A x, y \in c.open : x = y
  /\ \A r \in V : r.use \in K /\ r.id \in c.open => o.counts[r.use] = 1

\* Of the rows to be added, q is the one that runs, and comes last.
Last(V, rows, q, N, c) ==
  /\ ~q.update /\ q.stop = 0 /\ c.open = {q.id}
  /\ \A p \in rows : ~p.update /\ (p = q \/ Before(p, q))
  /\ \A r \in V : r.use \in N /\ r.id = q.id => r.use = q.use
Working(V, o, K, N, rows, c) ==
  \/ \E q \in rows : Last(V, rows, q, N, c)
  \/ c.open = {} /\ (\A q \in rows : q.stop > 0) /\ ((\E q \in rows : q.update) => o # NoSeries)
  \/ rows = {} /\ Rest(V, o, K, c)

Seen(open, log) == {u \in Uses : Total(open, log)[u] > 0}
Once(open, log) == \A u \in Uses : Total(open, log)[u] <= 1
Coming(rows)    == {r.use : r \in {q \in rows : ~q.update}}
Views           == Database \cup copy.rows

\* A state of the monitor with no poll at work, and one with rows yet to be added.
Settled(s) ==
  /\ Once(s.open, logged) /\ Seen(s.open, logged) \subseteq Begun
  /\ Told(Database, copy.rows, copy.at, Seen(s.open, logged), s.cursor, s.ingested)
  /\ Rest(Views, s.open, Seen(s.open, logged), s.cursor)
Expected == Seen(mem.open, logged) \cup Coming(poll.rows)
NoneTwice(rows, K) == \A r, q \in rows : ~r.update /\ ~q.update => r.use \notin K /\ (r.use = q.use => r = q)
AtWork ==
  /\ mem.ingested < poll.copied /\ Once(mem.open, logged) /\ Expected \subseteq Begun
  /\ Told(Database, copy.rows, copy.at, Expected, poll.cursor, poll.copied)
  /\ NoneTwice(poll.rows, Seen(mem.open, logged))
  /\ Working(Views, mem.open, Seen(mem.open, logged), Expected, poll.rows, poll.cursor)

Apace == /\ InTurn /\ Copied(Database, copy.rows, copy.at)
         /\ copy.at <= now /\ \A r \in copy.rows : r.use \in Begun
Accounts == /\ poll = NoPoll => Settled(mem)
            /\ poll # NoPoll => AtWork
            /\ ~ahead => Settled(file)
UsesInv == /\ UsesTyped /\ Apace /\ (poll = NoPoll \/ (poll.copied > 0 /\ on))
           /\ ~torn => Accounts

LEMMA TotalsCount ==
  ASSUME TypeOK
  PROVE  Counted = Total(mem.open, logged)
BY DEF Counted, Total, Plus, Never, TypeOK

LEMMA UsesInvTold == UsesInv => UsesTold
<1> SUFFICES ASSUME UsesInv, ~torn
             PROVE  UsesTold
  BY DEF UsesTold, CountedOnce, CountedAll, InUseTold
<1>1. TypeOK /\ Counted = Total(mem.open, logged) /\ copy.rows \subseteq Rows
  BY TotalsCount DEF UsesInv, UsesTyped, TypeOK
<1>2. \A u \in Uses : Counted[u] \in Nat
  BY <1>1 DEF Total, TypeOK, State, Series
<1>3. CountedOnce
  BY <1>1 DEF UsesInv, Accounts, Settled, AtWork, Once, CountedOnce
<1>4. ASSUME mem.ingested = copy.at
      PROVE  Settled(mem)
  BY <1>1, <1>4 DEF UsesInv, Accounts, AtWork, Told, TypeOK, State, Times
<1>5. CountedAll
  <2> SUFFICES ASSUME mem.ingested = copy.at, NEW r \in copy.rows
               PROVE  Counted[r.use] = 1
    BY DEF CountedAll
  <2>1. r.use \in Seen(mem.open, logged)
    BY <1>4 DEF Settled, Told
  <2>2. r.use \in Uses /\ Counted[r.use] > 0 /\ Counted[r.use] <= 1
    BY <1>1, <1>3, <2>1 DEF Seen, CountedOnce
  <2> QED BY <1>2, <2>2
<1>6. InUseTold
  <2> SUFFICES ASSUME mem.ingested = copy.at, mem.open # NoSeries, NEW r \in copy.rows, r.stop = 0
               PROVE  mem.open.counts[r.use] = 1 /\ mem.open.inUse
    BY DEF InUseTold
  <2>1. r.use \in Seen(mem.open, logged) /\ r.id \in mem.cursor.open
    BY <1>4 DEF Settled, Told
  <2> QED BY <1>4, <2>1 DEF Settled, Rest, Views
<1> QED BY <1>3, <1>5, <1>6 DEF UsesTold

-----------------------------------------------------------------------------
\* The database E follows D: each row was there, running if it runs now, or is of none of the uses K and not
\* before s; and a database not made anew has kept its rows.
Follows(D, E, K, s) ==
  /\ \A e \in E : \/ \E d \in D : d.id = e.id /\ d.use = e.use /\ d.start = e.start /\ (e.stop = 0 => d.stop = 0)
                  \/ e.use \notin K /\ s <= e.start
  /\ E = {} \/ \A d \in D : \E e \in E : e.id = d.id /\ e.use = d.use

LEMMA ToldOn ==
  ASSUME NEW D, NEW E, NEW C, NEW at, NEW K, NEW c, NEW i, Told(D, C, at, K, c, i), Follows(D, E, K, c.start)
  PROVE  Told(E, C, at, K, c, i)
<1>1. \A e \in E : e.use \in K => \E r \in C : r.use = e.use
  BY DEF Told, Follows
<1>2. Fits(E, K, c)
  <2> SUFFICES ASSUME NEW e \in E, ~(e.use \notin K /\ c.start <= e.start)
               PROVE  e.id <= c.id /\ \E q \in E : c.id <= q.id
    BY DEF Fits
  <2>1. PICK d \in D : d.id = e.id /\ d.use = e.use /\ d.start = e.start
    BY DEF Follows
  <2>2. d.id <= c.id /\ \E q \in D : c.id <= q.id
    BY <2>1 DEF Told, Fits
  <2> QED BY <2>1, <2>2 DEF Follows
<1>3. \A r \in E \cup C : r.use \in K /\ r.stop = 0 => r.id \in c.open
  BY DEF Told, Follows
<1> QED BY <1>1, <1>2, <1>3 DEF Told

LEMMA RestOn ==
  ASSUME NEW D, NEW E, NEW C, NEW s, NEW K, NEW o, NEW c, Rest(D \cup C, o, K, c), Follows(D, E, K, s)
  PROVE  Rest(E \cup C, o, K, c)
BY DEF Rest, Follows

LEMMA WorkingOn ==
  ASSUME NEW D, NEW E, NEW C, NEW s, NEW K, NEW N, NEW o, NEW rows, NEW c,
         Working(D \cup C, o, K, N, rows, c), Follows(D, E, N, s), K \subseteq N
  PROVE  Working(E \cup C, o, K, N, rows, c)
<1>1. ASSUME NEW q \in rows, Last(D \cup C, rows, q, N, c)
      PROVE  Last(E \cup C, rows, q, N, c)
  BY <1>1 DEF Last, Follows
<1>2. ASSUME Rest(D \cup C, o, K, c)
      PROVE  Rest(E \cup C, o, K, c)
  BY <1>2 DEF Rest, Follows
<1> QED BY <1>1, <1>2 DEF Working

\* The copy is replaced by what the database holds.
LEMMA ToldCopied ==
  ASSUME NEW D, NEW C, NEW at \in Nat, NEW later \in Nat, at < later, NEW K, NEW c, NEW i \in Nat, c.start \in Nat,
         Told(D, C, at, K, c, i)
  PROVE  Told(D, D, later, K, c, i)
BY DEF Told

LEMMA RestCopied ==
  ASSUME NEW D, NEW C, NEW K, NEW o, NEW c, Rest(D \cup C, o, K, c)
  PROVE  Rest(D \cup D, o, K, c)
BY DEF Rest

LEMMA WorkingCopied ==
  ASSUME NEW D, NEW C, NEW K, NEW N, NEW o, NEW rows, NEW c, Working(D \cup C, o, K, N, rows, c)
  PROVE  Working(D \cup D, o, K, N, rows, c)
<1>1. ASSUME NEW q \in rows, Last(D \cup C, rows, q, N, c)
      PROVE  Last(D \cup D, rows, q, N, c)
  BY <1>1 DEF Last
<1> QED BY <1>1, RestCopied DEF Working

\* What Windows does to the database and the copy.
LEMMA WindowsFollow ==
  ASSUME UsesInv, WindowsMoves, NEW K \in SUBSET Begun, NEW s \in Nat, s <= copy.at
  PROVE  \/ copy' = copy /\ Follows(Database, Database', K, s)
         \/ Database' = Database /\ copy' = [at |-> now, rows |-> Database] /\ copy.at < now
<1>0. TypeOK /\ TypeOK' /\ copy.at \in Nat /\ now \in Nat /\ copy.at <= now
  BY WindowsTyped, UsesNumbered DEF UsesInv, UsesTyped, TypeOK, Apace
<1>00. TypeOK' => DatabaseHolds'
  BY InDatabase, PTL
<1>0a. DatabaseHolds /\ DatabaseHolds'
  BY <1>0, <1>00, InDatabase
<1>1. CASE Tick
  <2>1. Database' = Database /\ copy' = copy
    BY <1>1 DEF Tick, Database
  <2> QED BY <2>1 DEF Follows
<1>2. CASE Recreate
  <2>1. Database' = {} /\ copy' = copy
    BY <1>2 DEF Recreate, Database, Never
  <2> QED BY <2>1 DEF Follows
<1>3. CASE Copy
  <2>1. /\ copy.at < now /\ copy' = [at |-> now, rows |-> Database]
        /\ UNCHANGED <<now, start, stop, row, top>>
    BY <1>3 DEF Copy, Database
  <2>2. Database' = Database
    BY <2>1 DEF Database
  <2> QED BY <2>1, <2>2
<1>4. ASSUME NEW u \in Uses, Begin(u)
      PROVE  copy' = copy /\ Follows(Database, Database', K, s)
  <2>1. /\ u \notin Begun /\ copy' = copy /\ start' = [start EXCEPT ![u] = now] /\ row' = [row EXCEPT ![u] = top + 1]
        /\ stop' = stop
    BY <1>4 DEF Begin
  <2>2. row[u] = 0
    <3>1. start[u] \in Nat /\ ~(start[u] > 0)
      BY <1>0, <2>1, UsesNumbered DEF Begun, TypeOK
    <3>2. start[u] = 0
      BY <3>1
    <3> QED BY <3>2 DEF UsesInv, Apace, InTurn
  <2>3. ASSUME NEW e \in Database'
        PROVE  \/ \E d \in Database : d.id = e.id /\ d.use = e.use /\ d.start = e.start /\ (e.stop = 0 => d.stop = 0)
               \/ e.use \notin K /\ s <= e.start
    <3>1. e.use \in Uses /\ e.id = row'[e.use] /\ e.id > 0 /\ e.start = start'[e.use] /\ e.stop = stop'[e.use]
      BY <1>0, <1>0a DEF DatabaseHolds
    <3>2. CASE e.use = u
      BY <1>0, <2>1, <3>1, <3>2 DEF TypeOK
    <3>3. CASE e.use # u
      <4>1. row[e.use] > 0 /\ e.start = start[e.use] /\ e.id = row[e.use]
        BY <1>0, <2>1, <3>1, <3>3 DEF TypeOK
      <4>2. PICK d \in Database : d.use = e.use
        BY <1>0, <3>1, <4>1, <1>0a DEF DatabaseHolds
      <4>3. d.id = row[e.use] /\ d.start = start[e.use] /\ d.stop = stop[e.use]
        BY <1>0, <4>2, <1>0a DEF DatabaseHolds
      <4> QED BY <2>1, <3>1, <4>1, <4>2, <4>3
    <3> QED BY <3>2, <3>3
  <2>4. ASSUME NEW d \in Database
        PROVE  \E e \in Database' : e.id = d.id /\ e.use = d.use
    <3>1. d.use \in Uses /\ d.id = row[d.use] /\ d.id > 0
      BY <1>0, <1>0a DEF DatabaseHolds
    <3>2. d.use # u /\ row'[d.use] = row[d.use]
      BY <1>0, <2>1, <2>2, <3>1 DEF TypeOK
    <3>3. \A v \in Uses : row'[v] > 0 => \E e \in Database' : e.use = v
      BY <1>0, <1>0a DEF DatabaseHolds
    <3>4. PICK e \in Database' : e.use = d.use
      BY <3>1, <3>2, <3>3
    <3>5. e.id = row'[e.use]
      BY <1>0, <1>0a DEF DatabaseHolds
    <3> QED BY <3>1, <3>2, <3>4, <3>5
  <2> QED BY <2>1, <2>3, <2>4 DEF Follows
<1>5. ASSUME NEW u \in Uses, Finish(u)
      PROVE  copy' = copy /\ Follows(Database, Database', K, s)
  <2>1. /\ copy' = copy /\ stop' = [stop EXCEPT ![u] = now] /\ UNCHANGED <<start, row>> /\ stop[u] = 0
    BY <1>5 DEF Finish
  <2>2. ASSUME NEW e \in Database'
        PROVE  \E d \in Database : d.id = e.id /\ d.use = e.use /\ d.start = e.start /\ (e.stop = 0 => d.stop = 0)
    <3>1. e.use \in Uses /\ e.id = row[e.use] /\ e.id > 0 /\ e.start = start[e.use] /\ e.stop = stop'[e.use]
      BY <1>0, <2>1, <1>0a DEF DatabaseHolds
    <3>2. PICK d \in Database : d.use = e.use
      BY <1>0, <3>1, <1>0a DEF DatabaseHolds
    <3>3. d.id = row[e.use] /\ d.start = start[e.use] /\ d.stop = stop[e.use]
      BY <1>0, <3>2, <1>0a DEF DatabaseHolds
    <3> QED BY <1>0, <2>1, <3>1, <3>2, <3>3 DEF TypeOK
  <2>3. ASSUME NEW d \in Database
        PROVE  \E e \in Database' : e.id = d.id /\ e.use = d.use
    <3>1. d.use \in Uses /\ d.id = row[d.use] /\ d.id > 0
      BY <1>0, <1>0a DEF DatabaseHolds
    <3>2. \A v \in Uses : row'[v] > 0 => \E e \in Database' : e.use = v
      BY <1>0, <1>0a DEF DatabaseHolds
    <3>3. PICK e \in Database' : e.use = d.use
      BY <2>1, <3>1, <3>2
    <3>4. e.id = row'[e.use]
      BY <1>0, <1>0a DEF DatabaseHolds
    <3> QED BY <2>1, <3>1, <3>3, <3>4
  <2> QED BY <2>1, <2>2, <2>3 DEF Follows
<1> QED BY <1>1, <1>2, <1>3, <1>4, <1>5 DEF WindowsMoves

LEMMA CopiedOn ==
  ASSUME NEW D, NEW E, NEW C, NEW at, NEW B, Copied(D, C, at), \A r \in C : r.use \in B, Follows(D, E, B, at)
  PROVE  Copied(E, C, at)
<1>1. \A r \in C, e \in E : e.use = r.use => e.id = r.id /\ (e.stop = 0 => r.stop = 0)
  BY DEF Copied, Follows
<1>2. ASSUME NEW r \in C, NEW q \in C, NEW e \in E, e.use = r.use
      PROVE  \E f \in E : f.use = q.use
  <2>1. PICK d \in D : d.use = r.use
    BY <1>2 DEF Follows
  <2>2. PICK f \in D : f.use = q.use
    BY <2>1 DEF Copied
  <2> QED BY <1>2, <2>2 DEF Follows
<1>3. \A e \in E : (\A r \in C : r.use # e.use) => at <= e.start
  BY DEF Copied, Follows
<1> QED BY <1>1, <1>2, <1>3 DEF Copied

LEMMA DatabaseOrdered ==
  ASSUME TypeOK, InTurn
  PROVE  Ordered(Database)
<1> SUFFICES ASSUME NEW r \in Database, NEW q \in Database
             PROVE  /\ r.use = q.use => r = q
                    /\ r.use < q.use => r.id < q.id /\ r.start <= q.start /\ r.stop > 0
  BY DEF Ordered
<1>1. /\ r.use \in Uses /\ r.id = row[r.use] /\ r.id > 0 /\ r.start = start[r.use] /\ r.stop = stop[r.use]
      /\ q.use \in Uses /\ q.id = row[q.use] /\ q.id > 0 /\ q.start = start[q.use]
      /\ r.use = q.use => r = q
  BY InDatabase DEF DatabaseHolds
<1>2. start[q.use] > 0
  <2>1. start[q.use] \in Nat
    BY <1>1, UsesNumbered DEF TypeOK
  <2>2. start[q.use] # 0
    BY <1>1 DEF InTurn
  <2> QED BY <2>1, <2>2
<1>3. ASSUME r.use < q.use
      PROVE  start[r.use] <= start[q.use] /\ stop[r.use] > 0 /\ row[r.use] < row[q.use]
  BY <1>1, <1>2, <1>3 DEF InTurn
<1> QED BY <1>1, <1>3

LEMMA TurnsGoOn ==
  ASSUME UsesInv, WindowsMoves
  PROVE  InTurn'
<1>0. TypeOK /\ TypeOK' /\ InTurn /\ now \in Nat /\ Uses \subseteq Nat /\ top \in Nat /\ \A u \in Uses : row[u] <= top
  BY WindowsTyped, UsesNumbered DEF UsesInv, UsesTyped, Apace, TypeOK, Numbered
<1>0a. \A u \in Uses : start[u] \in Nat /\ stop[u] \in Nat /\ row[u] \in Nat
  BY <1>0, UsesNumbered DEF TypeOK
<1>1. CASE Tick
  BY <1>0, <1>0a, <1>1 DEF Tick, InTurn
<1>2. CASE Recreate
  BY <1>0, <1>2 DEF Recreate, Never, InTurn
<1>3. CASE Copy
  BY <1>0, <1>3 DEF Copy, InTurn
<1>4. ASSUME NEW u \in Uses, Begin(u)
      PROVE  InTurn'
  <2>1. /\ start[u] = 0 /\ (\A v \in Uses : v < u => start[v] > 0 /\ stop[v] > 0) /\ (\A v \in Uses : u < v => start[v] = 0)
        /\ start' = [start EXCEPT ![u] = now] /\ row' = [row EXCEPT ![u] = top + 1] /\ UNCHANGED <<now, stop>>
    <3>1. /\ u \notin Begun /\ Begun = 1..(u - 1) /\ \A v \in Begun : stop[v] > 0
      BY <1>4 DEF Begin
    <3>2. \A v \in Uses : v < u => v \in Begun
      BY <3>1, UsesNumbered
    <3>3. \A v \in Uses : ~(v < u) => v \notin Begun
      BY <3>1, UsesNumbered
    <3>4. \A v \in Uses : v \notin Begun => start[v] = 0
      BY <1>0a DEF Begun
    <3> QED BY <1>0, <1>4, <3>1, <3>2, <3>3, <3>4 DEF Begin, Begun
  <2>2. /\ start'[u] = now /\ row'[u] = top + 1
        /\ \A v \in Uses : v # u => start'[v] = start[v] /\ row'[v] = row[v]
    BY <1>0, <2>1 DEF TypeOK
  <2>3. now > 0
    BY <1>0 DEF InTurn
  <2>4. now' > 0 /\ \A v \in Uses : start'[v] <= now' /\ (start'[v] = 0 => stop'[v] = 0 /\ row'[v] = 0)
    BY <1>0, <2>1, <2>2, <2>3 DEF InTurn
  <2>5. ASSUME NEW v \in Uses, NEW w \in Uses, v < w
        PROVE  /\ start'[w] > 0 => start'[v] > 0 /\ start'[v] <= start'[w] /\ stop'[v] > 0
               /\ row'[v] > 0 /\ row'[w] > 0 => row'[v] < row'[w]
    <3>1. CASE w = u
      BY <1>0, <1>0a, <2>1, <2>2, <2>5, <3>1 DEF InTurn
    <3>2. CASE v = u
      BY <1>0, <1>0a, <2>1, <2>2, <2>5, <3>2 DEF InTurn
    <3>3. CASE v # u /\ w # u
      BY <1>0, <1>0a, <2>1, <2>2, <2>5, <3>3 DEF InTurn
    <3> QED BY <3>1, <3>2, <3>3
  <2> QED BY <2>4, <2>5 DEF InTurn
<1>5. ASSUME NEW u \in Uses, Finish(u)
      PROVE  InTurn'
  <2>1. start[u] > 0 /\ stop' = [stop EXCEPT ![u] = now] /\ UNCHANGED <<now, start, row>>
    BY <1>5 DEF Finish, Begun
  <2>2. now > 0
    BY <1>0 DEF InTurn
  <2>3. stop'[u] > 0 /\ \A v \in Uses : v # u => stop'[v] = stop[v]
    BY <1>0, <2>1, <2>2 DEF TypeOK
  <2> QED BY <1>0, <1>0a, <2>1, <2>3 DEF InTurn
<1> QED BY <1>1, <1>2, <1>3, <1>4, <1>5 DEF WindowsMoves

\* Windows goes on: what is accounted for stays so.
LEMMA WindowsApace ==
  ASSUME UsesInv, WindowsMoves
  PROVE  Apace'
<1>0. TypeOK /\ copy.at \in Nat /\ now \in Nat /\ Apace /\ Begun \subseteq Uses
  <2>1. TypeOK /\ Apace
    BY DEF UsesInv, UsesTyped
  <2>2. copy.at \in Times /\ now \in Times
    BY <2>1 DEF TypeOK
  <2> QED BY <2>1, <2>2, UsesNumbered DEF Begun
<1>1. InTurn'
  BY TurnsGoOn
<1>2. copy.at <= now' /\ now <= now' /\ Begun \subseteq Begun'
  <2>1. now' = now \/ now' = now + 1
    BY DEF WindowsMoves, Tick, Recreate, Copy, Begin, Finish
  <2>2. start' = start \/ \E u \in Uses : start' = [start EXCEPT ![u] = now]
    BY DEF WindowsMoves, Tick, Recreate, Copy, Begin, Finish
  <2>3. now > 0 /\ start \in [Uses -> Times]
    BY <1>0 DEF Apace, InTurn, TypeOK
  <2>4. Begun \subseteq Begun'
    BY <2>2, <2>3 DEF Begun
  <2>5. copy.at <= now
    BY <1>0 DEF Apace
  <2>6. now <= now'
    BY <1>0, <2>1
  <2>7. now' \in Nat
    BY <1>0, <2>1
  <2> QED BY <1>0, <2>4, <2>5, <2>6, <2>7
<1>3. CASE copy' = copy /\ Follows(Database, Database', Begun, copy.at)
  <2>1. Copied(Database, copy.rows, copy.at) /\ \A r \in copy.rows : r.use \in Begun
    BY <1>0 DEF Apace
  <2>1a. Copied(Database', copy.rows, copy.at)
    BY <1>3, <2>1, CopiedOn
  <2> QED BY <1>0, <1>1, <1>2, <1>3, <2>1a DEF Apace
<1>4. CASE Database' = Database /\ copy' = [at |-> now, rows |-> Database] /\ copy.at < now
  <2>1. Ordered(Database)
    BY <1>0, DatabaseOrdered DEF Apace
  <2>2. \A r \in Database : /\ r.id > 0 /\ ~r.update /\ r.start <= now /\ r.use \in Begun
    <3> TAKE r \in Database
    <3>1. r.use \in Uses /\ r.id = row[r.use] /\ r.id > 0 /\ r.start = start[r.use] /\ ~r.update
      BY <1>0, InDatabase DEF DatabaseHolds
    <3>2. start[r.use] \in Nat /\ start[r.use] <= now /\ start[r.use] # 0
      <4>1. start[r.use] \in Times /\ row[r.use] # 0
        BY <1>0, <3>1 DEF TypeOK
      <4>2. start[r.use] <= now /\ start[r.use] # 0
        BY <1>0, <3>1, <4>1 DEF Apace, InTurn
      <4> QED BY <4>1, <4>2, UsesNumbered
    <3> QED BY <3>1, <3>2 DEF Begun
  <2>3. \A r, q \in Database : r.use = q.use => r = q
    BY <2>1 DEF Ordered
  <2>4. Copied(Database, Database, now)
    BY <2>1, <2>2, <2>3 DEF Copied
  <2>5. Database' = Database /\ copy'.rows = Database /\ copy'.at = now
    BY <1>4
  <2> QED BY <1>1, <1>2, <2>2, <2>4, <2>5 DEF Apace
<1> QED BY <1>0, <1>3, <1>4, WindowsFollow DEF Apace

LEMMA WindowsSettle ==
  ASSUME UsesInv, WindowsMoves, NEW s \in State, Settled(s)
  PROVE  Once(s.open, logged) /\ Seen(s.open, logged) \subseteq Begun'
         /\ Told(Database', copy'.rows, copy'.at, Seen(s.open, logged), s.cursor, s.ingested)
         /\ Rest(Database' \cup copy'.rows, s.open, Seen(s.open, logged), s.cursor)
<1> DEFINE K == Seen(s.open, logged)
<1>0. /\ copy.at \in Nat /\ now \in Nat /\ s.cursor.start \in Nat /\ s.ingested \in Nat
      /\ K \in SUBSET Begun /\ s.cursor.start <= copy.at /\ Once(s.open, logged)
      /\ Told(Database, copy.rows, copy.at, K, s.cursor, s.ingested)
      /\ Rest(Database \cup copy.rows, s.open, K, s.cursor)
  BY UsesNumbered DEF Settled, Told, Views, UsesInv, UsesTyped, TypeOK, State, Cursor
<1> HIDE DEF K
<1>1. K \subseteq Begun'
  <2>1. start' = start \/ \E u \in Uses : start' = [start EXCEPT ![u] = now]
    BY DEF WindowsMoves, Tick, Recreate, Copy, Begin, Finish
  <2>2. now > 0 /\ start \in [Uses -> Times]
    BY DEF UsesInv, UsesTyped, TypeOK, Apace, InTurn
  <2> QED BY <1>0, <2>1, <2>2 DEF Begun
<1>2. CASE copy' = copy /\ Follows(Database, Database', K, s.cursor.start)
  BY <1>0, <1>1, <1>2, ToldOn, RestOn DEF K
<1>3. CASE Database' = Database /\ copy' = [at |-> now, rows |-> Database] /\ copy.at < now
  <2>1. Database' = Database /\ copy'.rows = Database /\ copy'.at = now
    BY <1>3
  <2>2. Told(Database, Database, now, K, s.cursor, s.ingested)
    BY <1>0, <1>3, ToldCopied
  <2>3. Rest(Database \cup Database, s.open, K, s.cursor)
    BY <1>0, RestCopied
  <2> QED BY <1>0, <1>1, <2>1, <2>2, <2>3 DEF K
<1> QED BY <1>0, <1>2, <1>3, WindowsFollow

LEMMA WindowsKeep ==
  ASSUME UsesInv, WindowsMoves
  PROVE  UsesInv'
<1>1. UsesTyped' /\ UNCHANGED <<on, mem, dirty, file, poll, logged, ahead, torn>>
  BY WindowsTyped DEF UsesInv
<1>2. Apace'
  BY WindowsApace
<1>3. SUFFICES ASSUME ~torn
               PROVE  Accounts'
  BY <1>1, <1>2 DEF UsesInv
<1>4. ASSUME NEW s \in State, Settled(s)
      PROVE  Once(s.open, logged') /\ Seen(s.open, logged') \subseteq Begun'
             /\ Told(Database', copy'.rows, copy'.at, Seen(s.open, logged'), s.cursor, s.ingested)
             /\ Rest(Views', s.open, Seen(s.open, logged'), s.cursor)
  BY <1>1, <1>4, WindowsSettle DEF Views
<1>5. mem \in State /\ file \in State
  BY DEF UsesInv, UsesTyped, TypeOK
<1>6. poll = NoPoll => Settled(mem)'
  <2> SUFFICES ASSUME poll = NoPoll
               PROVE  Settled(mem)'
    OBVIOUS
  <2>1. Settled(mem)
    BY <1>3 DEF UsesInv, Accounts
  <2> QED BY <1>1, <1>4, <1>5, <2>1 DEF Settled
<1>7. ~ahead => Settled(file)'
  <2> SUFFICES ASSUME ~ahead
               PROVE  Settled(file)'
    OBVIOUS
  <2>1. Settled(file)
    BY <1>3 DEF UsesInv, Accounts
  <2> QED BY <1>1, <1>4, <1>5, <2>1 DEF Settled
<1>8. ASSUME poll # NoPoll
      PROVE  AtWork'
  <2> DEFINE K == Seen(mem.open, logged)
             N == K \cup Coming(poll.rows)
  <2>0. /\ copy.at \in Nat /\ now \in Nat /\ poll.cursor.start \in Nat /\ poll.copied \in Nat
        /\ start \in [Uses -> Times] /\ now > 0
    BY UsesNumbered DEF UsesInv, UsesTyped, TypeOK, Cursor, Apace, InTurn
  <2>1. AtWork
    BY <1>3, <1>8 DEF UsesInv, Accounts
  <2>2. /\ mem.ingested < poll.copied /\ Once(mem.open, logged) /\ N \subseteq Begun /\ K \subseteq N
        /\ Told(Database, copy.rows, copy.at, N, poll.cursor, poll.copied) /\ NoneTwice(poll.rows, K)
        /\ Working(Database \cup copy.rows, mem.open, K, N, poll.rows, poll.cursor)
    BY <2>1 DEF AtWork, Expected, Views
  <2>3. UNCHANGED <<mem, logged, poll>>
    BY <1>1
  <2> HIDE DEF K, N
  <2>4. N \subseteq Begun'
    <3>1. start' = start \/ \E u \in Uses : start' = [start EXCEPT ![u] = now]
      BY DEF WindowsMoves, Tick, Recreate, Copy, Begin, Finish
    <3> QED BY <2>0, <2>2, <3>1 DEF Begun
  <2>5. /\ Told(Database', copy'.rows, copy'.at, N, poll.cursor, poll.copied)
        /\ Working(Database' \cup copy'.rows, mem.open, K, N, poll.rows, poll.cursor)
    <3>1. CASE copy' = copy /\ Follows(Database, Database', N, poll.cursor.start)
      BY <2>2, <3>1, ToldOn, WorkingOn
    <3>2. CASE Database' = Database /\ copy' = [at |-> now, rows |-> Database] /\ copy.at < now
      <4>1. Database' = Database /\ copy'.rows = Database /\ copy'.at = now
        BY <3>2
      <4>2. Told(Database, Database, now, N, poll.cursor, poll.copied)
        BY <2>0, <2>2, <3>2, ToldCopied
      <4>3. Working(Database \cup Database, mem.open, K, N, poll.rows, poll.cursor)
        BY <2>2, WorkingCopied
      <4> QED BY <4>1, <4>2, <4>3
    <3>3. poll.cursor.start <= copy.at
      BY <2>2 DEF Told
    <3> QED BY <2>0, <2>2, <3>1, <3>2, <3>3, WindowsFollow
  <2>6. K' = K /\ N' = N /\ Expected' = N
    BY <2>3 DEF K, N, Expected
  <2>7. K = Seen(mem.open, logged)
    BY DEF K
  <2> QED BY <2>2, <2>3, <2>4, <2>5, <2>6, <2>7 DEF AtWork, Views
<1> QED BY <1>1, <1>6, <1>7, <1>8 DEF Accounts

-----------------------------------------------------------------------------
\* The monitor's steps leave Windows alone.
LEMMA ViewsStay ==
  ASSUME UsesInv, UNCHANGED windows
  PROVE  /\ Database' = Database /\ Views' = Views /\ Begun' = Begun /\ Apace'
         /\ copy.rows' = copy.rows /\ copy.at' = copy.at
BY DEF windows, Database, Views, Begun, UsesInv, Apace, InTurn

\* So does a state that is settled, as long as the log stays.
LEMMA SettledStays ==
  ASSUME UsesInv, UNCHANGED <<windows, logged>>, NEW s, Settled(s)
  PROVE  /\ mem' = s => Settled(mem)'
         /\ file' = s => Settled(file)'
<1>1. /\ Database' = Database /\ Views' = Views /\ Begun' = Begun /\ copy.rows' = copy.rows /\ copy.at' = copy.at
      /\ logged' = logged
  BY ViewsStay
<1>2. ASSUME mem' = s
      PROVE  Settled(mem)'
  BY <1>1, <1>2 DEF Settled
<1>3. ASSUME file' = s
      PROVE  Settled(file)'
  BY <1>1, <1>3 DEF Settled
<1> QED BY <1>2, <1>3

\* Saving, the switch, a crash, and a log that cannot be written.
LEMMA SavingKeeps ==
  ASSUME UsesInv, Save \/ TurnOn \/ TurnOff \/ Crash \/ \E r \in poll.rows : AddFails(r)
  PROVE  UsesInv'
<1>1. UsesTyped' /\ UNCHANGED windows
  BY MonitorTyped DEF UsesInv
<1>2. Apace'
  BY <1>1, ViewsStay
<1>3. poll' = NoPoll
  BY DEF Save, TurnOn, TurnOff, Crash, AddFails, UsesInv
<1>4. SUFFICES ASSUME ~torn'
               PROVE  Settled(mem)' /\ (~ahead' => Settled(file)')
  BY <1>1, <1>2, <1>3 DEF UsesInv, Accounts
<1>5. CASE Save \/ TurnOn \/ TurnOff
  <2>1. /\ poll = NoPoll /\ ~torn /\ mem' = mem /\ logged' = logged
        /\ file' = mem \/ (file' = file /\ ahead' = ahead)
    BY <1>4, <1>5 DEF Save, TurnOn, TurnOff, UsesInv
  <2>2. Settled(mem) /\ (~ahead => Settled(file))
    BY <2>1 DEF UsesInv, Accounts
  <2>3. UNCHANGED <<windows, logged>>
    BY <1>1, <2>1
  <2> QED BY <2>1, <2>2, <2>3, SettledStays
<1>6. CASE Crash
  <2>1. ~torn /\ ~ahead /\ mem' = file /\ file' = file /\ UNCHANGED <<windows, logged>>
    BY <1>4, <1>6 DEF Crash
  <2>2. Settled(file)
    BY <2>1 DEF UsesInv, Accounts
  <2> QED BY <2>1, <2>2, SettledStays
<1>7. CASE \E r \in poll.rows : AddFails(r)
  BY <1>4, <1>7 DEF AddFails
<1> QED BY <1>5, <1>6, <1>7, MonitorTyped

\* A series that is over goes to the log.
LEMMA SweepKeeps ==
  ASSUME UsesInv, Sweep
  PROVE  UsesInv'
<1>1. UsesTyped' /\ UNCHANGED windows
  BY MonitorTyped DEF UsesInv
<1>2. Apace' /\ Database' = Database /\ Views' = Views /\ Begun' = Begun /\ copy.rows' = copy.rows /\ copy.at' = copy.at
  BY <1>1, ViewsStay
<1>3. poll' = poll /\ mem' = [mem EXCEPT !.open = NoSeries] /\ file' = file /\ on' = on
      /\ mem.open # NoSeries /\ ~mem.open.inUse
  BY DEF Sweep, Due
<1>4. SUFFICES ASSUME ~torn'
               PROVE  Accounts'
  BY <1>1, <1>2, <1>3 DEF UsesInv
<1> DEFINE m == [open |-> mem.open, log |-> logged]
<1>5. ~torn /\ logged' = Close(m).log /\ ahead' = (ahead \/ logged' # logged) /\ \A r \in poll.rows : ~r.update
  BY <1>4 DEF Sweep, Logs
<1>6. m \in Tally /\ mem \in State
  BY DEF UsesInv, UsesTyped, TypeOK, State, Tally
<1>7. Total(NoSeries, logged') = Total(mem.open, logged)
  BY <1>5, <1>6, Closed
<1>8. Seen(NoSeries, logged') = Seen(mem.open, logged) /\ (Once(NoSeries, logged') <=> Once(mem.open, logged))
  BY <1>7 DEF Seen, Once
<1>9. mem'.open = NoSeries /\ mem'.cursor = mem.cursor /\ mem'.ingested = mem.ingested
  BY <1>3, <1>6 DEF State
<1>10. ASSUME poll = NoPoll
       PROVE  Settled(mem)'
  <2>1. Settled(mem)
    BY <1>5, <1>10 DEF UsesInv, Accounts
  <2>2. Rest(Views, NoSeries, Seen(mem.open, logged), mem.cursor)
    BY <1>3, <2>1 DEF Settled, Rest
  <2> QED BY <1>2, <1>8, <1>9, <2>1, <2>2 DEF Settled
<1>11. ASSUME poll # NoPoll
       PROVE  AtWork'
  <2> DEFINE K == Seen(mem.open, logged)
  <2>1. AtWork
    BY <1>5, <1>11 DEF UsesInv, Accounts
  <2>2. Expected' = Expected
    BY <1>3, <1>8, <1>9 DEF Expected
  <2>3. Working(Views, NoSeries, K, Expected, poll.rows, poll.cursor)
    <3>1. Working(Views, mem.open, K, Expected, poll.rows, poll.cursor)
      BY <2>1 DEF AtWork
    <3>2. Rest(Views, mem.open, K, poll.cursor) => Rest(Views, NoSeries, K, poll.cursor)
      BY <1>3 DEF Rest
    <3> QED BY <1>5, <3>1, <3>2 DEF Working
  <2> QED BY <1>2, <1>3, <1>8, <1>9, <2>1, <2>2, <2>3 DEF AtWork
<1>12. ASSUME ~ahead'
       PROVE  Settled(file)'
  <2>1. logged' = logged /\ ~ahead
    BY <1>5, <1>12
  <2>2. Settled(file)
    BY <1>5, <2>1 DEF UsesInv, Accounts
  <2> QED BY <1>1, <1>3, <2>1, <2>2, SettledStays
<1> QED BY <1>3, <1>10, <1>11, <1>12 DEF Accounts

\* With all rows added, the place reached is kept.
LEMMA ReachKeeps ==
  ASSUME UsesInv, Reach
  PROVE  UsesInv'
<1>1. UsesTyped' /\ UNCHANGED windows
  BY MonitorTyped DEF UsesInv
<1>2. Apace' /\ Database' = Database /\ Views' = Views /\ Begun' = Begun /\ copy.rows' = copy.rows /\ copy.at' = copy.at
  BY <1>1, ViewsStay
<1>3. /\ poll.copied > 0 /\ poll.rows = {} /\ poll' = NoPoll /\ UNCHANGED <<file, logged, ahead, torn>>
      /\ mem' = [mem EXCEPT !.cursor = poll.cursor, !.ingested = poll.copied]
  BY DEF Reach
<1>4. poll # NoPoll
  BY <1>3 DEF NoPoll
<1>5. SUFFICES ASSUME ~torn
               PROVE  Settled(mem)' /\ (~ahead => Settled(file)')
  BY <1>1, <1>2, <1>3 DEF UsesInv, Accounts
<1>6. AtWork /\ (~ahead => Settled(file))
  BY <1>4, <1>5 DEF UsesInv, Accounts
<1>7. Expected = Seen(mem.open, logged)
  BY <1>3 DEF Expected, Coming
<1>8. mem'.open = mem.open /\ mem'.cursor = poll.cursor /\ mem'.ingested = poll.copied
  BY <1>3 DEF UsesInv, UsesTyped, TypeOK, State
<1>9. Rest(Views, mem.open, Seen(mem.open, logged), poll.cursor)
  BY <1>3, <1>6 DEF AtWork, Working, Rest
<1>10. Settled(mem)'
  BY <1>2, <1>3, <1>6, <1>7, <1>8, <1>9 DEF AtWork, Settled
<1>11. ~ahead => Settled(file)'
  BY <1>1, <1>3, <1>6, SettledStays
<1> QED BY <1>10, <1>11

-----------------------------------------------------------------------------
\* A row is added: it is counted, and no longer to come.
LEMMA AddKeeps ==
  ASSUME UsesInv, NEW r \in poll.rows, Add(r)
  PROVE  UsesInv'
<1> DEFINE m == [open |-> mem.open, log |-> logged]
           K == Seen(mem.open, logged)
           L == Seen(mem'.open, logged')
           remaining == poll.rows \ {r}
           o == mem'.open
           t == Total(mem.open, logged)
           w == Total(mem'.open, logged')
<1>1. /\ UsesTyped' /\ o \in Series /\ m \in Tally /\ r \in Rows
      /\ mem' = [mem EXCEPT !.open = mem'.open] /\ [open |-> mem'.open, log |-> logged'] = AddUse(m, r)
  BY AddTyped DEF UsesInv
<1>2. /\ UNCHANGED <<windows, on, file, torn>> /\ Turn(r) /\ poll' = [poll EXCEPT !.rows = @ \ {r}]
      /\ ahead' = (ahead \/ logged' # logged)
  BY DEF Add, Logs
<1>3. Apace' /\ Database' = Database /\ Views' = Views /\ Begun' = Begun /\ copy.rows' = copy.rows /\ copy.at' = copy.at
  BY <1>2, ViewsStay
<1>4. poll # NoPoll /\ poll.copied > 0 /\ on
  BY DEF UsesInv, NoPoll
<1>5. /\ poll'.rows = remaining /\ poll'.cursor = poll.cursor /\ poll'.copied = poll.copied /\ mem'.ingested = mem.ingested
      /\ poll.rows \subseteq Rows
  <2>1. mem \in State /\ poll \in [rows : SUBSET Rows, cursor : Cursor, copied : Times]
    BY DEF UsesInv, UsesTyped, TypeOK
  <2> QED BY <1>1, <1>2, <2>1 DEF State
<1>6. poll' # NoPoll /\ poll'.copied > 0 /\ on'
  BY <1>2, <1>4, <1>5 DEF NoPoll
<1>7. SUFFICES ASSUME ~torn
               PROVE  AtWork' /\ (~ahead' => Settled(file)')
  BY <1>1, <1>2, <1>3, <1>6 DEF UsesInv, Accounts
<1>8. AtWork /\ (~ahead => Settled(file))
  BY <1>4, <1>7 DEF UsesInv, Accounts
<1>9. ~ahead' => Settled(file)'
  <2> SUFFICES ASSUME ~ahead'
               PROVE  Settled(file)'
    OBVIOUS
  <2>1. logged' = logged /\ ~ahead
    BY <1>2
  <2> QED BY <1>2, <1>8, <2>1, SettledStays
<1> DEFINE N == K \cup Coming(poll.rows)
<1>10. /\ mem.ingested < poll.copied /\ (\A u \in Uses : t[u] <= 1) /\ N \subseteq Begun
       /\ Told(Database, copy.rows, copy.at, N, poll.cursor, poll.copied)
       /\ NoneTwice(poll.rows, K) /\ Working(Views, mem.open, K, N, poll.rows, poll.cursor)
  BY <1>8 DEF AtWork, Expected, Once
<1>11. /\ \A u \in Uses : t[u] \in Nat
       /\ r.use \in Uses /\ mem.open \in Series \cup {NoSeries}
       /\ o # NoSeries /\ \A u \in Uses : o.counts[u] \in Nat
  <2>1. \A u \in Uses : t[u] \in Nat
    BY <1>1 DEF Total, Tally, Series
  <2>2. o # NoSeries /\ \A u \in Uses : o.counts[u] \in Nat
    BY <1>1, UsesAssumption DEF Series
  <2> QED BY <1>1, <2>1, <2>2 DEF Rows, Tally
<1>12. r.update => mem.open # NoSeries
  BY <1>10 DEF Working, Last
<1>13. CASE r.update
  <2>1. logged' = logged /\ o.counts = mem.open.counts /\ mem.open # NoSeries
    BY <1>1, <1>12, <1>13, Adding
  <2>2. t = w /\ L = K
    BY <1>11, <2>1 DEF Total, Seen
  <2>3. Coming(remaining) = Coming(poll.rows)
    BY <1>13 DEF Coming
  <2>4. poll.cursor.open = {} /\ \A q \in remaining : q.stop > 0
    BY <1>10, <1>13 DEF Working, Last
  <2>5. Working(Views, o, L, N, remaining, poll.cursor)
    BY <1>11, <2>4 DEF Working
  <2>6. NoneTwice(remaining, L)
    BY <1>10, <2>2 DEF NoneTwice
  <2>7. Expected' = N /\ Once(mem'.open, logged')
    BY <1>5, <1>10, <2>2, <2>3 DEF Expected, Once
  <2> QED BY <1>3, <1>5, <1>9, <1>10, <2>5, <2>6, <2>7 DEF AtWork
<1>14. CASE ~r.update
  <2>1. /\ \A u \in Uses : w[u] = t[u] + (IF u = r.use THEN 1 ELSE 0)
        /\ o.inUse = (r.stop = 0)
        /\ \/ o.counts = One(r.use)
           \/ mem.open # NoSeries /\ o.counts = Plus(mem.open.counts, One(r.use))
    BY <1>1, <1>14, Adding
  <2>2. r.use \notin K /\ r.use \in N
    BY <1>10, <1>14 DEF NoneTwice, Coming
  <2>3. t[r.use] = 0
    BY <1>10, <1>11, <2>2 DEF Seen
  <2>4. (\A u \in Uses : w[u] <= 1) /\ L = K \cup {r.use}
    <3>1. \A u \in Uses : w[u] <= 1
      BY <1>10, <1>11, <2>1, <2>3
    <3>2. \A u \in Uses : w[u] > 0 <=> (t[u] > 0 \/ u = r.use)
      BY <1>11, <2>1, <2>3
    <3> QED BY <1>11, <3>1, <3>2 DEF Seen
  <2>5. \A q \in remaining : ~q.update => q.use # r.use
    BY <1>10, <1>14 DEF NoneTwice
  <2>6. Coming(poll.rows) = Coming(remaining) \cup {r.use}
    BY <1>14 DEF Coming
  <2>7. Expected' = N /\ Once(mem'.open, logged')
    BY <1>5, <2>4, <2>6 DEF Expected, Once
  <2>8. NoneTwice(remaining, L)
    BY <1>10, <2>4, <2>5 DEF NoneTwice
  <2>9. o.counts[r.use] = 1
    <3>1. CASE o.counts = One(r.use)
      BY <1>11, <3>1 DEF One, Never
    <3>2. CASE mem.open # NoSeries /\ o.counts = Plus(mem.open.counts, One(r.use))
      <4>1. mem.open.counts \in [Uses -> Nat] /\ logged \in [Uses -> Nat]
        BY <1>1, <1>11, <3>2 DEF Series, Tally
      <4>2. mem.open.counts[r.use] = 0
        <5>1. t[r.use] = logged[r.use] + mem.open.counts[r.use]
          BY <1>11, <3>2 DEF Total
        <5>2. logged[r.use] \in Nat /\ mem.open.counts[r.use] \in Nat
          BY <1>11, <4>1
        <5> QED BY <2>3, <5>1, <5>2
      <4>3. o.counts[r.use] = mem.open.counts[r.use] + 1
        <5>1. Plus(mem.open.counts, One(r.use))[r.use] = mem.open.counts[r.use] + (IF r.use = r.use THEN 1 ELSE 0)
          BY <1>11, <4>1, OneMore
        <5> QED BY <3>2, <5>1
      <4> QED BY <4>2, <4>3
    <3> QED BY <2>1, <3>1, <3>2
  <2>10. Working(Views, o, L, N, remaining, poll.cursor)
    <3>1. ASSUME NEW q \in poll.rows, Last(Views, poll.rows, q, N, poll.cursor), q # r
          PROVE  Working(Views, o, L, N, remaining, poll.cursor)
      BY <3>1 DEF Working, Last
    <3>2. ASSUME Last(Views, poll.rows, r, N, poll.cursor)
          PROVE  remaining = {} /\ Rest(Views, o, L, poll.cursor)
      <4>1. \A p \in remaining : Before(p, r) /\ Before(r, p)
        BY <1>2, <3>2 DEF Last, Turn
      <4>2. \A p \in remaining : ~Before(p, r) \/ ~Before(r, p)
        <5> TAKE p \in remaining
        <5>1. p.start \in Nat /\ r.start \in Nat /\ p.id \in Nat /\ r.id \in Nat
          BY <1>1, <1>5, UsesNumbered DEF Rows
        <5> QED BY <1>14, <5>1 DEF Before
      <4>3. L \subseteq N
        BY <2>2, <2>4
      <4> QED BY <1>11, <2>1, <2>9, <3>2, <4>1, <4>2, <4>3 DEF Last, Rest
    <3>3. ASSUME poll.cursor.open = {}, \A q \in poll.rows : q.stop > 0
          PROVE  Working(Views, o, L, N, remaining, poll.cursor)
      BY <1>11, <3>3 DEF Working
    <3> QED BY <1>10, <3>1, <3>2, <3>3 DEF Working
  <2> QED BY <1>3, <1>5, <1>9, <1>10, <2>7, <2>8, <2>10 DEF AtWork
<1> QED BY <1>13, <1>14

-----------------------------------------------------------------------------
\* What a copy holds, none of it skipped: the rows of uses that are counted are those up to the number known,
\* the others are read now, and with them the monitor has come as far as the copy.
LEMMA ReadApart ==
  ASSUME UsesTyped, Copied(Database, copy.rows, copy.at), NEW K,
         Told(Database, copy.rows, copy.at, K, mem.cursor, mem.ingested),
         \A r \in copy.rows : r.id <= Known => r.use \in K
  PROVE  /\ \A r \in copy.rows : r.id \in Nat /\ r.start \in Nat /\ r.stop \in Nat /\ r.use \in Uses /\ r.id <= Reached.id
         /\ \A r \in copy.rows : r.use \in K => r.id <= Known /\ (r.stop = 0 => r \in Reread)
         /\ Fresh = {r \in copy.rows : r.use \notin K}
         /\ copy.rows # {} => \E q \in copy.rows : q.id = Reached.id
<1>0. /\ copy.rows \subseteq Rows /\ mem.cursor.id \in Nat /\ mem.cursor.start \in Nat /\ Known \in Nat
      /\ Highest \in Nat /\ Known <= Highest /\ (mem.cursor.id <= Highest => Known = mem.cursor.id)
  <2>1. copy.rows \subseteq Rows /\ mem.cursor \in Cursor
    BY DEF UsesTyped, TypeOK, State
  <2>2. mem.cursor.id \in Nat /\ mem.cursor.start \in Nat
    BY <2>1, UsesNumbered DEF Cursor
  <2> QED BY <2>1, <2>2, Heights
<1>1. \A r \in copy.rows : r.id \in Nat /\ r.id > 0 /\ r.start \in Nat /\ r.stop \in Nat /\ r.use \in Uses /\ r.id <= Highest
  BY <1>0, UsesNumbered, Heights DEF Rows, Copied
<1>2. ASSUME NEW r \in copy.rows, r.id <= mem.cursor.id, NEW q \in copy.rows, mem.cursor.id <= q.id
      PROVE  Known = mem.cursor.id
  BY <1>0, <1>1, <1>2
<1>3. ASSUME NEW r \in copy.rows, r.use \in K
      PROVE  r.id <= Known
  BY <1>2, <1>3 DEF Told, Fits
<1>4. ASSUME NEW r \in copy.rows, r.use \notin K
      PROVE  r.id > Known /\ r.start >= mem.cursor.start
  <2>1. r.id > Known
    BY <1>0, <1>1, <1>4
  <2>2. mem.cursor.start <= r.start
    BY <1>0, <1>1, <1>2, <1>4, <2>1 DEF Told, Fits
  <2> QED BY <1>0, <1>1, <2>1, <2>2
<1>5. Fresh = {r \in copy.rows : r.use \notin K}
  BY <1>0, <1>1, <1>3, <1>4 DEF Fresh
<1>6. Reached.id \in Nat /\ Known <= Reached.id /\ Reached.id <= Highest /\ \A r \in Fresh : r.id <= Reached.id
  BY Reading DEF Cursor
<1>7. \A r \in copy.rows : r.id <= Reached.id
  BY <1>0, <1>1, <1>3, <1>5, <1>6
<1>8. copy.rows # {} => \E q \in copy.rows : q.id = Reached.id
  <2>1. ASSUME NEW r \in copy.rows
        PROVE  \E q \in copy.rows : q.id = Reached.id
    <3>1. Highest # 0
      BY <1>0, <1>1
    <3>2. PICK q \in copy.rows : q.id = Highest
      BY <3>1, Heights
    <3>3. q.id <= Reached.id
      BY <1>7
    <3> QED BY <1>0, <1>6, <3>2, <3>3
  <2> QED BY <2>1
<1>9. \A r \in copy.rows : r.use \in K /\ r.stop = 0 => r \in Reread
  BY <1>3 DEF Told, Reread
<1> QED BY <1>1, <1>3, <1>5, <1>7, <1>8, <1>9

\* Of the uses in a copy one at most runs, and it is the last.
LEMMA OneRuns ==
  ASSUME NEW C \in SUBSET Rows, Ordered(C), NEW q \in C, q.stop = 0, NEW r \in C
  PROVE  /\ r.stop = 0 => r = q
         /\ r.id = q.id => r = q
         /\ r = q \/ (r.id < q.id /\ r.start <= q.start)
<1>1. r.use \in Nat /\ q.use \in Nat /\ r.id \in Nat /\ q.id \in Nat
  BY UsesNumbered DEF Rows
<1>2. CASE r.use = q.use
  BY <1>2 DEF Ordered
<1>3. CASE r.use < q.use
  <2>1. r.id < q.id /\ r.start <= q.start /\ r.stop > 0
    BY <1>3 DEF Ordered
  <2>2. r.stop # 0 /\ r.id # q.id
    BY <1>1, <2>1
  <2> QED BY <2>1, <2>2
<1>4. CASE q.use < r.use
  <2>1. q.stop > 0
    BY <1>4 DEF Ordered
  <2> QED BY <2>1
<1> QED BY <1>1, <1>2, <1>3, <1>4

LEMMA PollKeeps ==
  ASSUME UsesInv, Poll
  PROVE  UsesInv'
<1> DEFINE K == Seen(mem.open, logged)
           C == copy.rows
           D == Database
           N == K \cup Coming(Fresh \cup Ended)
<1>1. UsesTyped' /\ UNCHANGED windows
  BY MonitorTyped DEF UsesInv
<1>2. Apace' /\ Database' = D /\ Views' = Views /\ Begun' = Begun /\ copy.rows' = C /\ copy.at' = copy.at
  BY <1>1, ViewsStay
<1>3. /\ on /\ poll = NoPoll /\ copy.at > mem.ingested /\ torn' = (torn \/ Skips \/ Crosses)
      /\ poll' = [rows |-> Fresh \cup Ended, cursor |-> Reached, copied |-> copy.at]
      /\ UNCHANGED <<windows, on, mem, file, logged, ahead>>
  BY DEF Poll
<1>4. UsesTyped /\ Copied(D, C, copy.at) /\ C \subseteq Rows /\ D \subseteq Rows /\ Ordered(C)
      /\ copy.at \in Nat /\ mem.ingested \in Nat /\ mem.cursor.start \in Nat
      /\ \A r \in C : r.use \in Begun
  <2>1. UsesTyped /\ TypeOK /\ Apace
    BY DEF UsesInv, UsesTyped
  <2>2. copy.at \in Times /\ mem.ingested \in Times /\ mem.cursor.start \in Times /\ C \subseteq Rows
    BY <2>1 DEF TypeOK, State, Cursor
  <2> QED BY <2>1, <2>2, InDatabase, UsesNumbered DEF Apace, Copied, DatabaseHolds
<1>5. poll'.copied > 0 /\ poll' # NoPoll /\ on'
  BY <1>3, <1>4 DEF NoPoll
<1>6. SUFFICES ASSUME ~torn, ~Skips, ~Crosses
               PROVE  AtWork' /\ (~ahead' => Settled(file)')
  BY <1>1, <1>2, <1>3, <1>5 DEF UsesInv, Accounts
<1>7. Settled(mem) /\ (~ahead => Settled(file))
  BY <1>3, <1>6 DEF UsesInv, Accounts
<1>8. ~ahead' => Settled(file)'
  BY <1>3, <1>7, SettledStays
<1>9. /\ Once(mem.open, logged) /\ K \subseteq Begun /\ Told(D, C, copy.at, K, mem.cursor, mem.ingested)
      /\ Rest(D \cup C, mem.open, K, mem.cursor)
  BY <1>7 DEF Settled, Views
<1>10. \A r \in C : r.id <= Known => r.use \in K
  <2>1. Counted = Total(mem.open, logged) /\ \A u \in Uses : Counted[u] \in Nat
    <3>1. TypeOK
      BY <1>4 DEF UsesTyped
    <3> QED BY <3>1, TotalsCount DEF Total, TypeOK, State, Series
  <2>2. \A r \in C : r.use \in Uses
    BY <1>4 DEF Rows
  <2>3. \A r \in C : r.id <= Known => Counted[r.use] # 0
    BY <1>6 DEF Skips
  <2> QED BY <2>1, <2>2, <2>3 DEF Seen
<1> HIDE DEF K
<1>11. /\ \A r \in C : r.id \in Nat /\ r.start \in Nat /\ r.stop \in Nat /\ r.use \in Uses /\ r.id <= Reached.id
       /\ \A r \in C : r.use \in K => r.id <= Known /\ (r.stop = 0 => r \in Reread)
       /\ Fresh = {r \in C : r.use \notin K}
       /\ C # {} => \E q \in C : q.id = Reached.id
  BY <1>4, <1>9, <1>10, ReadApart
<1>12. /\ Reread \subseteq C /\ (\A e \in Ended : e.update /\ e.stop > 0)
       /\ (\E q \in Reread : q.stop > 0) <=> Ended # {}
       /\ Reached.start = mem.cursor.start \/ \E r \in C : r.start = Reached.start
       /\ Reached.open = {r.id : r \in {q \in Fresh \cup Reread : q.stop = 0}}
  BY <1>4, Reading
<1>13. \A r \in C : ~r.update /\ r.start <= copy.at
  BY <1>4 DEF Copied
<1>14. N = K \cup {r.use : r \in C}
  <2>1. Coming(Fresh \cup Ended) = {r.use : r \in Fresh}
    BY <1>11, <1>12, <1>13 DEF Coming
  <2>2. \A r \in C : r.use \in N
    BY <1>11, <2>1
  <2> QED BY <1>11, <2>1, <2>2
<1> HIDE DEF N
<1>15. \A d \in D : d.use \in N => \E r \in C : r.use = d.use
  BY <1>9, <1>14 DEF Told
<1>16. Reached.start <= copy.at
  BY <1>9, <1>12, <1>13 DEF Told
<1>17. Fits(C, N, Reached)
  <2> SUFFICES ASSUME NEW r \in C
               PROVE  r.id <= Reached.id /\ \E q \in C : Reached.id <= q.id
    BY DEF Fits
  <2>1. PICK q \in C : q.id = Reached.id
    BY <1>11
  <2>2. q.id <= q.id
    BY <1>11
  <2> QED BY <1>11, <2>1, <2>2
<1>18. Fits(D, N, Reached)
  <2> SUFFICES ASSUME NEW d \in D
               PROVE  \/ d.id <= Reached.id /\ \E q \in D : Reached.id <= q.id
                      \/ d.use \notin N /\ Reached.start <= d.start
    BY DEF Fits
  <2>1. CASE \E r \in C : r.use = d.use
    <3>1. PICK r \in C : r.use = d.use
      BY <2>1
    <3>2. PICK q \in C : q.id = Reached.id
      BY <1>11
    <3>3. d.id = r.id
      BY <1>4, <3>1 DEF Copied
    <3>4. PICK e \in D : e.use = q.use
      BY <1>4, <3>1 DEF Copied
    <3>5. e.id = q.id /\ q.id <= q.id
      BY <1>4, <1>11, <3>4 DEF Copied
    <3> QED BY <1>11, <3>1, <3>2, <3>3, <3>5
  <2>2. CASE \A r \in C : r.use # d.use
    <3>1. d.use \notin N
      BY <1>15, <2>2
    <3>2. copy.at <= d.start
      BY <1>4, <2>2 DEF Copied
    <3>3. d.start \in Nat /\ Reached.start \in Nat
      <4>1. d.start \in Times
        BY <1>4 DEF Rows
      <4>2. Reached.start \in Nat
        BY <1>4, <1>11, <1>12
      <4> QED BY <4>1, <4>2, UsesNumbered
    <3> QED BY <1>4, <1>16, <3>1, <3>2, <3>3
  <2> QED BY <2>1, <2>2
<1>19. \A r \in C : r.stop = 0 => r \in Fresh \cup Reread
  BY <1>11
<1>20. \A r \in D \cup C : r.use \in N /\ r.stop = 0 => r.id \in Reached.open
  <2>1. \A r \in C : r.stop = 0 => r.id \in Reached.open
    BY <1>12, <1>19
  <2>2. ASSUME NEW d \in D, d.use \in N, d.stop = 0
        PROVE  d.id \in Reached.open
    <3>1. PICK r \in C : r.use = d.use
      BY <1>15, <2>2
    <3>2. d.id = r.id /\ r.stop = 0
      BY <1>4, <2>2, <3>1 DEF Copied
    <3> QED BY <2>1, <3>2
  <2> QED BY <2>1, <2>2
<1>21. Told(D, C, copy.at, N, Reached, copy.at)
  BY <1>4, <1>14, <1>15, <1>16, <1>17, <1>18, <1>20 DEF Told
<1>22. NoneTwice(Fresh \cup Ended, K)
  BY <1>4, <1>11, <1>12 DEF NoneTwice, Ordered
<1>23. \A r \in D : r.use \in N => \E q \in C : q.use = r.use /\ q.id = r.id
  BY <1>4, <1>15 DEF Copied
<1>24. Working(D \cup C, mem.open, K, N, Fresh \cup Ended, Reached)
  <2>1. ASSUME NEW q \in C, q.stop = 0
        PROVE  /\ Reached.open = {q.id}
               /\ \A r \in C : /\ (r.stop = 0 => r = q) /\ (r.id = q.id => r = q)
                               /\ (r = q \/ (r.id < q.id /\ r.start <= q.start))
    <3>1. \A r \in C : /\ (r.stop = 0 => r = q) /\ (r.id = q.id => r = q)
                       /\ (r = q \/ (r.id < q.id /\ r.start <= q.start))
      BY <1>4, <2>1, OneRuns
    <3> QED BY <1>11, <1>12, <1>19, <2>1, <3>1
  <2>2. ASSUME NEW q \in Fresh, q.stop = 0
        PROVE  Last(D \cup C, Fresh \cup Ended, q, N, Reached)
    <3>1. Ended = {} /\ q \in C
      BY <1>6, <1>11, <2>2 DEF Crosses
    <3>2. \A p \in Fresh : ~p.update /\ (p = q \/ Before(p, q))
      <4> TAKE p \in Fresh
      <4>1. p \in C /\ ~p.update /\ ~q.update /\ (p = q \/ (p.id < q.id /\ p.start <= q.start))
        BY <1>11, <1>13, <2>1, <2>2, <3>1
      <4>2. p.start \in Nat /\ q.start \in Nat
        BY <1>11, <3>1, <4>1
      <4> QED BY <4>1, <4>2 DEF Before
    <3>3. \A r \in D \cup C : r.use \in N /\ r.id = q.id => r.use = q.use
      BY <1>23, <2>1, <2>2, <3>1
    <3> QED BY <1>13, <2>1, <2>2, <3>1, <3>2, <3>3 DEF Last
  <2>3. ASSUME NEW q \in Reread, q.stop = 0
        PROVE  Fresh \cup Ended = {} /\ Rest(D \cup C, mem.open, K, Reached)
    <3>1. q \in C /\ q.id \in mem.cursor.open /\ q.id <= Known
      BY <1>12 DEF Reread
    <3>2. Reread \subseteq {q}
      <4> SUFFICES ASSUME NEW p \in Reread
                   PROVE  p = q
        OBVIOUS
      <4>1. p \in C /\ p.id \in mem.cursor.open
        BY <1>12 DEF Reread
      <4>2. p.id = q.id
        BY <1>9, <3>1, <4>1 DEF Rest
      <4> QED BY <2>1, <2>3, <3>1, <4>1, <4>2
    <3>3. Ended = {}
      BY <1>12, <2>3, <3>2
    <3>4. Fresh = {}
      <4> SUFFICES ASSUME NEW p \in Fresh
                   PROVE  FALSE
        OBVIOUS
      <4>1. p \in C /\ p.id > Known
        BY <1>11 DEF Fresh
      <4>2. Known \in Nat /\ p.id \in Nat /\ q.id \in Nat
        <5>1. mem.cursor.id \in Nat
          BY <1>4 DEF UsesTyped, TypeOK, State, Cursor
        <5> QED BY <1>4, <1>11, <3>1, <4>1, <5>1, Heights
      <4>3. p = q \/ p.id < q.id
        BY <2>1, <2>3, <3>1, <4>1
      <4> QED BY <3>1, <4>1, <4>2, <4>3
    <3>5. Reached.open = {q.id}
      BY <2>1, <2>3, <3>1
    <3> QED BY <1>9, <3>1, <3>3, <3>4, <3>5 DEF Rest
  <2>4. ASSUME \A q \in Fresh \cup Reread : q.stop # 0
        PROVE  /\ Reached.open = {} /\ \A q \in Fresh \cup Ended : q.stop > 0
               /\ (\E q \in Fresh \cup Ended : q.update) => mem.open # NoSeries
    <3>1. Reached.open = {}
      BY <1>12, <2>4
    <3>2. \A q \in Fresh : q.stop > 0 /\ ~q.update
      BY <1>11, <1>13, <2>4
    <3>3. Ended # {} => mem.open # NoSeries
      BY <1>9, <1>12 DEF Reread, Rest
    <3> QED BY <1>12, <3>1, <3>2, <3>3
  <2>5. (\E q \in Fresh : q.stop = 0) \/ (\E q \in Reread : q.stop = 0) \/ \A q \in Fresh \cup Reread : q.stop # 0
    OBVIOUS
  <2> QED BY <2>2, <2>3, <2>4, <2>5 DEF Working
<1>25. N \subseteq Begun
  BY <1>4, <1>9, <1>14
<1>26. poll'.rows = Fresh \cup Ended /\ poll'.cursor = Reached /\ poll'.copied = copy.at /\ mem' = mem /\ logged' = logged
  BY <1>3
<1>27. Expected' = N /\ Seen(mem.open, logged)' = K
  BY <1>26 DEF Expected, N, K
<1> QED BY <1>2, <1>3, <1>8, <1>9, <1>21, <1>22, <1>24, <1>25, <1>26, <1>27 DEF AtWork, Views

-----------------------------------------------------------------------------
LEMMA UsesBegin == Init => UsesInv
<1> SUFFICES ASSUME Init
             PROVE  UsesInv
  OBVIOUS
<1>1. UsesTyped /\ TypeOK
  BY UsesTypesStart DEF UsesTyped
<1>2. /\ now = 1 /\ start = [u \in Uses |-> 0] /\ stop = [u \in Uses |-> 0] /\ row = [u \in Uses |-> 0]
      /\ copy = [at |-> 0, rows |-> {}] /\ mem = Nothing /\ file = Nothing /\ poll = NoPoll /\ logged = [u \in Uses |-> 0]
  BY DEF Init
<1>3. Database = {} /\ copy.rows = {} /\ copy.at = 0
  BY <1>2 DEF Database
<1>4. InTurn
  BY <1>2 DEF InTurn
<1>5. Apace
  BY <1>2, <1>3, <1>4 DEF Apace, Copied, Ordered
<1>6. Total(NoSeries, logged) = [u \in Uses |-> 0]
  BY <1>2 DEF Total
<1>7. Seen(NoSeries, logged) = {} /\ Once(NoSeries, logged)
  BY <1>6 DEF Seen, Once
<1>8. ASSUME NEW s, s = Nothing
      PROVE  Settled(s)
  <2>1. s.open = NoSeries /\ s.cursor = Origin /\ s.ingested = 0
    BY <1>8 DEF Nothing
  <2>2. Origin.id = 0 /\ Origin.start = 0 /\ Origin.open = {}
    BY DEF Origin
  <2> QED BY <1>3, <1>7, <2>1, <2>2 DEF Settled, Told, Fits, Rest
<1> QED BY <1>1, <1>2, <1>5, <1>8 DEF UsesInv, Accounts

LEMMA UsesStep == UsesInv /\ [Next]_vars => UsesInv'
<1> SUFFICES ASSUME UsesInv, [Next]_vars
             PROVE  UsesInv'
  OBVIOUS
<1>1. CASE WindowsMoves
  BY <1>1, WindowsKeep
<1>2. CASE Poll
  BY <1>2, PollKeeps
<1>3. CASE Reach
  BY <1>3, ReachKeeps
<1>4. CASE Sweep
  BY <1>4, SweepKeeps
<1>5. CASE \E r \in poll.rows : Add(r)
  BY <1>5, AddKeeps
<1>6. CASE Save \/ TurnOn \/ TurnOff \/ Crash \/ \E r \in poll.rows : AddFails(r)
  BY <1>6, SavingKeeps
<1>7. CASE UNCHANGED vars
  BY <1>7 DEF vars, windows, UsesInv, UsesTyped, TypeOK, Numbered, Apace, InTurn, Database, Begun, Accounts, Settled,
              AtWork, Views, Expected
<1> QED BY <1>1, <1>2, <1>3, <1>4, <1>5, <1>6, <1>7 DEF Next, WindowsMoves

THEOREM UsesAreTold == Spec => []UsesTold
<1>1. Init => UsesInv
  BY UsesBegin
<1>2. UsesInv /\ [Next]_vars => UsesInv'
  BY UsesStep
<1> QED BY <1>1, <1>2, UsesInvTold, PTL DEF Spec

-----------------------------------------------------------------------------
(* The types of the records whose invariants do not say them already.      *)

LEMMA PoolTyped ==
  ASSUME PoolInv, Pool!TypeOK, [Pool!Next]_Pool!vars
  PROVE  Pool!TypeOK'
<1>1. PoolInv'
  BY PoolStep
<1>2. SUFFICES old' \subseteq Conns /\ dead' \subseteq Conns
  BY <1>1 DEF PoolInv, Buckets, Hands, Pool!TypeOK
<1> QED
  BY DEF Pool!TypeOK, Pool!Next, Pool!vars, Pool!conns, Pool!requests, Pool!Ask, Pool!AcquireIdle, Pool!AcquireNew,
         Pool!Takes, Pool!Answer, Pool!Release, Pool!Discard, Pool!Drops, Pool!HttpError, Pool!Breaks, Pool!Closes, Pool!Ages

LEMMA PoolTypes == Pool!Spec => []Pool!TypeOK
<1>1. Pool!Init => PoolInv /\ Pool!TypeOK
  BY PoolStart, RecordsAssumption DEF Pool!Init, Pool!TypeOK, Pool!Phase, Pool!PoolAssumption
<1>2. PoolInv /\ Pool!TypeOK /\ [Pool!Next]_Pool!vars => PoolInv' /\ Pool!TypeOK'
  BY PoolStep, PoolTyped
<1> QED BY <1>1, <1>2, PTL DEF Pool!Spec

LEMMA ListTyped == List!TypeOK /\ [List!Next]_List!vars => List!TypeOK'
<1> SUFFICES ASSUME List!TypeOK, [List!Next]_List!vars
             PROVE  List!TypeOK'
  OBVIOUS
<1> USE DEF List!TypeOK, List!lists, List!removal, List!threads, List!Goes, List!SaveList
<1>1. ASSUME NEW t \in List!Threads, NEW as \in SUBSET Bundles, NEW p \in {"save", "merge"}, List!Begins(t, p, as)
      PROVE  List!TypeOK'
  <2>1. met' \in BOOLEAN /\ lone' \in BOOLEAN
    BY <1>1, Zenon DEF List!Begins
  <2> QED BY <1>1, <2>1 DEF List!Begins
<1>2. ASSUME NEW t \in List!Threads, NEW as \in SUBSET Bundles, List!Read(t, as) \/ List!Report(t, as)
      PROVE  List!TypeOK'
  BY <1>1, <1>2 DEF List!Read, List!Report
<1>3. ASSUME NEW t \in List!Threads, List!Note(t) \/ List!AskRemoved(t)
      PROVE  List!TypeOK'
  <2>1. CASE List!Note(t)
    BY <2>1 DEF List!Note
  <2>2. CASE List!AskRemoved(t)
    BY <2>2 DEF List!AskRemoved
  <2> QED BY <1>3, <2>1, <2>2
<1>4. ASSUME NEW t \in List!Threads, NEW ok \in BOOLEAN,
             List!Merge(t, ok) \/ List!Prune(t, ok) \/ List!Save(t, ok) \/ List!Drop(t, ok)
      PROVE  List!TypeOK'
  <2>1. CASE List!Merge(t, ok)
    BY <2>1 DEF List!Merge
  <2>2. CASE List!Prune(t, ok)
    BY <2>2 DEF List!Prune
  <2>3. CASE List!Save(t, ok)
    BY <2>3 DEF List!Save
  <2>4. CASE List!Drop(t, ok)
    BY <2>4 DEF List!Drop
  <2> QED BY <1>4, <2>1, <2>2, <2>3, <2>4
<1>5. ASSUME NEW ok \in BOOLEAN, List!Unreached(ok)
      PROVE  List!TypeOK'
  <2>1. removedFile' \in {removed, removedFile}
    BY <1>5 DEF List!Unreached
  <2> QED BY <1>5, <2>1 DEF List!Unreached
<1>6. CASE List!Restart
  <2> DEFINE under == {gone[t] : t \in {u \in List!Threads : place[u] = "note"}}
  <2>1. \A g \in under : g \subseteq Bundles
    OBVIOUS
  <2>2. UNION under \subseteq Bundles
    BY <2>1
  <2>3. missing' = missing \cup (removed \ removedFile) \cup (removedFile \ removed) \cup UNION under
    BY <1>6 DEF List!Restart
  <2> HIDE DEF under
  <2>4. missing' \subseteq Bundles
    BY <2>2, <2>3
  <2>5. /\ place' = [t \in List!Threads |-> "idle"] /\ told' = [t \in List!Threads |-> {}]
        /\ gone' = [t \in List!Threads |-> {}] /\ found' = foundFile /\ removed' = removedFile
        /\ UNCHANGED <<foundFile, ever, removedFile, met>> /\ lone' = FALSE /\ settled' = FALSE
    BY <1>6 DEF List!Restart
  <2> QED BY <2>4, <2>5
<1>7. CASE UNCHANGED List!vars
  BY <1>7 DEF List!vars
<1> QED BY <1>2, <1>3, <1>4, <1>5, <1>6, <1>7 DEF List!Next

LEMMA ListTypes == List!Spec => []List!TypeOK
<1>1. List!Init => List!TypeOK
  BY DEF List!Init, List!TypeOK
<1> QED BY <1>1, ListTyped, PTL DEF List!Spec

\* A result of no capture shows nothing; so an incident has the time of a capture.
Plain(r) == r.at = 0 => r.seen = [k \in Keys |-> "not_seen"]
Fine(d) == Store(d) /\ Controls!IsData(d) /\ \A a \in DOMAIN d.apps : Plain(d.apps[a].result)

LEMMA EntryTyped ==
  ASSUME NEW app \in Apps, NEW w \in Controls!Choices, NEW r \in Controls!Results, Plain(r)
  PROVE  /\ Controls!Evaluated(w, r) \in Controls!Entries
         /\ Controls!Incident(app, Controls!Evaluated(w, r)) \subseteq Controls!Incidents
<1> DEFINE e == Controls!Evaluated(w, r)
           ks == Controls!Against(e)
<1>0. r.at \in Nat /\ r.at <= MaxResults /\ MaxResults \in Nat
  BY RecordsAssumption DEF Controls!Results, Controls!ControlsAssumption
<1>1. \A k \in Keys : w[k] \in Controls!Wishes /\ r.seen[k] \in Controls!Seen
  BY DEF Controls!Choices, Controls!Results
<1>2. \A k \in Keys : Controls!Verdict(w[k], r.seen[k]) \in Controls!Verdicts
  BY <1>1 DEF Controls!Verdict, Controls!Verdicts, Controls!Wishes, Controls!Seen
<1>3. e = [desired |-> w, result |-> r, verdict |-> [k \in Keys |-> Controls!Verdict(w[k], r.seen[k])]]
  BY DEF Controls!Evaluated
<1>4. e \in Controls!Entries
  BY <1>2, <1>3 DEF Controls!Entries
<1>5. ks # {} => r.at > 0
  <2> SUFFICES ASSUME r.at = 0
               PROVE  ks = {}
    BY <1>0
  <2>1. \A k \in Keys : Controls!Verdict(w[k], r.seen[k]) # "violation"
    BY <1>1 DEF Plain, Controls!Verdict, Controls!Wishes
  <2> QED BY <1>3, <2>1 DEF Controls!Against
<1>6. ks \subseteq Keys /\ e.result.at = r.at
  BY <1>3 DEF Controls!Against
<1>7. ks # {} => r.at \in 1..MaxResults
  BY <1>0, <1>5
<1>8. Controls!Incident(app, e) = IF ks = {} THEN {} ELSE {[app |-> app, at |-> r.at, keys |-> ks]}
  BY <1>6 DEF Controls!Incident
<1> HIDE DEF e, ks
<1>9. Controls!Incident(app, e) \subseteq Controls!Incidents
  BY <1>6, <1>7, <1>8 DEF Controls!Incidents
<1> QED BY <1>4, <1>9 DEF e

LEMMA EntryFields ==
  ASSUME NEW e \in Controls!Entries
  PROVE  e.desired \in Controls!Choices /\ e.result \in Controls!Results
BY DEF Controls!Entries

\* What is kept of a list is part of it, in its order.
LEMMA NewestPart ==
  ASSUME NEW list, NEW g \in Controls!Newest(list)
  PROVE  /\ DOMAIN g \subseteq DOMAIN list /\ \A i \in DOMAIN g : g[i] = list[i]
         /\ Controls!Cardinality(DOMAIN g) <= MaxIncidents
         /\ DOMAIN g # DOMAIN list => Controls!Cardinality(DOMAIN g) = MaxIncidents
         /\ \A i \in DOMAIN g, j \in DOMAIN list \ DOMAIN g : list[i] >= list[j]
<1>1. PICK part \in SUBSET DOMAIN list :
        /\ Controls!Cardinality(part) <= MaxIncidents
        /\ part # DOMAIN list => Controls!Cardinality(part) = MaxIncidents
        /\ \A i \in part, j \in DOMAIN list \ part : list[i] >= list[j]
        /\ g = [i \in part |-> list[i]]
  BY DEF Controls!Newest
<1>2. DOMAIN g = part
  BY <1>1
<1> QED BY <1>1, <1>2

\* A store of which the apps are typed, and whose incidents are the newest of typed ones.
LEMMA ListFine ==
  ASSUME NEW d, Fine(d), NEW l, Store(l), DOMAIN l.apps \subseteq Apps,
         \A a \in DOMAIN l.apps : l.apps[a] \in Controls!Entries /\ Plain(l.apps[a].result),
         NEW list, l.incidents \in Controls!Newest(list), DOMAIN list \subseteq Controls!Incidents,
         \A i \in DOMAIN list : list[i] \in 1..MaxResults
  PROVE  Fine(l)
<1>1. /\ DOMAIN l.incidents \subseteq DOMAIN list /\ \A i \in DOMAIN l.incidents : l.incidents[i] = list[i]
      /\ Controls!Cardinality(DOMAIN l.incidents) <= MaxIncidents
  BY NewestPart
<1> QED BY <1>1 DEF Fine, Controls!IsData, Store

\* The incidents of a store's last results are typed.
LEMMA LastTyped ==
  ASSUME NEW d, Fine(d)
  PROVE  Controls!Last(d) \subseteq Controls!Incidents
<1>1. ASSUME NEW a \in DOMAIN d.apps
      PROVE  Controls!Incident(a, Controls!Rejudged(d)[a]) \subseteq Controls!Incidents
  <2>1. a \in Apps /\ d.apps[a].desired \in Controls!Choices /\ d.apps[a].result \in Controls!Results
        /\ Plain(d.apps[a].result)
    BY EntryFields DEF Fine, Controls!IsData
  <2> QED BY <2>1, EntryTyped DEF Controls!Rejudged
<1> QED BY <1>1 DEF Controls!Last

LEMMA LoadedFine ==
  ASSUME NEW d, Fine(d), NEW l \in Controls!Loaded(d)
  PROVE  Fine(l)
<1> DEFINE E(a) == Controls!Evaluated(d.apps[a].desired, d.apps[a].result)
           S == DOMAIN d.incidents \cup Controls!Last(d)
           list == [i \in S |-> i.at]
<1>1. /\ Store(l) /\ DOMAIN l.apps = DOMAIN d.apps
      /\ l.apps = [a \in DOMAIN d.apps |-> E(a)] /\ l.incidents \in Controls!Newest(list)
  BY LoadedStore DEF Fine
<1>2. ASSUME NEW a \in DOMAIN d.apps
      PROVE  a \in Apps /\ l.apps[a] \in Controls!Entries /\ Plain(l.apps[a].result)
  <2>1. a \in Apps /\ d.apps[a] \in Controls!Entries /\ Plain(d.apps[a].result)
    BY <1>2 DEF Fine, Controls!IsData
  <2>2. l.apps[a] = E(a) /\ E(a).result = d.apps[a].result
    BY <1>1, EvaluatedFields
  <2> QED BY <2>1, <2>2, EntryTyped, EntryFields
<1>3. S \subseteq Controls!Incidents
  BY LastTyped DEF Fine, Controls!IsData
<1>4. DOMAIN list = S /\ \A i \in S : list[i] \in 1..MaxResults
  BY <1>3 DEF Controls!Incidents
<1> HIDE DEF list, S
<1> QED BY <1>1, <1>2, <1>3, <1>4, ListFine

LEMMA BalancedFine ==
  ASSUME NEW d, Fine(d), Judges(d)
  PROVE  Fine(Controls!Balanced(d))
<1> DEFINE b == Controls!Balanced(d)
           E(a) == Controls!Evaluated(Controls!Denied(d.apps[a].desired), d.apps[a].result)
<1>1. /\ Store(b) /\ b.applied /\ b.incidents = d.incidents /\ (d.applied => b = d)
      /\ ~d.applied => b.apps = [a \in DOMAIN d.apps |-> E(a)]
  BY BalancedStore DEF Fine
<1>2. CASE d.applied
  BY <1>1, <1>2
<1>3. CASE ~d.applied
  <2>1. ASSUME NEW a \in DOMAIN d.apps
        PROVE  b.apps[a] \in Controls!Entries /\ Plain(b.apps[a].result)
    <3>1. a \in Apps /\ d.apps[a] \in Controls!Entries /\ Plain(d.apps[a].result)
      BY <2>1 DEF Fine, Controls!IsData
    <3>2. b.apps[a] = E(a) /\ E(a).result = d.apps[a].result
      BY <1>1, <1>3, EvaluatedFields
    <3>3. Controls!Denied(d.apps[a].desired) \in Controls!Choices
      BY <3>1, EntryFields DEF Controls!Denied, Controls!Choices, Controls!Wishes
    <3> QED BY <3>1, <3>2, <3>3, EntryTyped, EntryFields
  <2>2. b.applied \in BOOLEAN
    BY <1>1 DEF Store
  <2> QED BY <1>1, <1>3, <2>1, <2>2 DEF Fine, Controls!IsData
<1> QED BY <1>2, <1>3

LEMMA WithFine ==
  ASSUME NEW d, Fine(d), NEW app \in Apps, NEW w \in Controls!Choices, NEW r \in Controls!Results, Plain(r)
  PROVE  Fine(Controls!With(d, app, Controls!Evaluated(w, r)))
<1> DEFINE e == Controls!Evaluated(w, r)
           v == Controls!With(d, app, e)
<1>1. e \in Controls!Entries /\ e.result = r
  BY EntryTyped, EvaluatedFields
<1>2. /\ Store(v) /\ v.applied = d.applied /\ v.incidents = d.incidents
      /\ DOMAIN v.apps = DOMAIN d.apps \cup {app} /\ v.apps[app] = e
      /\ \A a \in DOMAIN d.apps \ {app} : v.apps[a] = d.apps[a]
  BY WithStore DEF Fine
<1> HIDE DEF e, v
<1>3. \A a \in DOMAIN v.apps : a \in Apps /\ v.apps[a] \in Controls!Entries /\ Plain(v.apps[a].result)
  BY <1>1, <1>2 DEF Fine, Controls!IsData
<1> QED BY <1>2, <1>3 DEF Fine, Controls!IsData, v, e

LEMMA CurrentTyped ==
  ASSUME NEW d, Fine(d), NEW app
  PROVE  /\ Controls!Current(d, app).desired \in Controls!Choices
         /\ Controls!Current(d, app).result \in Controls!Results /\ Plain(Controls!Current(d, app).result)
<1>1. CASE app \in DOMAIN d.apps
  BY <1>1, EntryFields DEF Fine, Controls!IsData, Controls!Current
<1>2. CASE app \notin DOMAIN d.apps
  <2>1. Controls!Current(d, app) = [desired |-> Controls!Deny, result |-> Controls!NoResult]
    BY <1>2 DEF Controls!Current
  <2>2. 0 \in 0..MaxResults
    BY RecordsAssumption DEF Controls!ControlsAssumption
  <2>3. Controls!NoResult \in Controls!Results /\ Plain(Controls!NoResult)
    BY <2>2 DEF Controls!NoResult, Controls!Results, Controls!Seen, Plain
  <2>4. Controls!Deny \in Controls!Choices
    BY DEF Controls!Deny, Controls!Choices, Controls!Wishes
  <2> QED BY <2>1, <2>3, <2>4
<1> QED BY <1>1, <1>2

ControlsTyped == Controls!TypeOK /\ Fine(choices) /\ Fine(disk) /\ \A q \in due : Plain(q[2])

LEMMA ControlsTypesStart == Controls!Init => ControlsTyped
<1> SUFFICES ASSUME Controls!Init
             PROVE  ControlsTyped
  OBVIOUS
<1> DEFINE none == [k \in Keys |-> "monitor"]
           first == Controls!Evaluated(none, Controls!NoResult)
<1>1. 0 \in 0..MaxResults
  BY RecordsAssumption DEF Controls!ControlsAssumption
<1>2. Controls!NoResult \in Controls!Results /\ Plain(Controls!NoResult)
  BY <1>1 DEF Controls!NoResult, Controls!Results, Controls!Seen, Plain
<1>3. none \in Controls!Choices
  BY DEF Controls!Choices, Controls!Wishes
<1>4. \A app \in Apps : first \in Controls!Entries
  BY <1>2, <1>3, EntryTyped
<1>5. first.result = Controls!NoResult
  BY EvaluatedFields
<1>6. PICK older \in SUBSET Apps : disk = [apps |-> [a \in older |-> first], incidents |-> <<>>, applied |-> FALSE]
  BY DEF Controls!Init
<1>7. /\ choices = [apps |-> <<>>, incidents |-> <<>>, applied |-> FALSE] /\ chosen = <<>> /\ owed = {} /\ unclear = {}
      /\ up = FALSE /\ recorded = 0 /\ due = {} /\ late = FALSE
  BY DEF Controls!Init
<1>11. DOMAIN <<>> = {} /\ Controls!Cardinality({}) = 0 /\ MaxIncidents \in Nat
  BY FS_EmptySet, ControlsSets, RecordsAssumption DEF Controls!ControlsAssumption
<1> HIDE DEF first, none
<1>8. Fine(disk)
  BY <1>2, <1>4, <1>5, <1>6, <1>11 DEF Fine, Store, Controls!IsData
<1>9. DOMAIN choices.apps = {} /\ DOMAIN chosen = {}
  BY <1>7
<1>10. Fine(choices)
  BY <1>7, <1>9, <1>11 DEF Fine, Store, Controls!IsData
<1> QED BY <1>1, <1>7, <1>8, <1>9, <1>10 DEF ControlsTyped, Controls!TypeOK, Fine

\* A request that changes the entry of one app.
LEMMA ControlsSaved ==
  ASSUME ControlsTyped, NEW app \in Apps, NEW ok \in BOOLEAN, Controls!Saves(app, ok), Fine(choices'),
         up' \in BOOLEAN, recorded' \in 0..MaxResults, owed' \subseteq Controls!Incidents,
         due' \subseteq Apps \X Controls!Results, \A q \in due' : Plain(q[2]), late' \in BOOLEAN,
         DOMAIN chosen' \subseteq Apps, \A a \in DOMAIN chosen' : chosen'[a] \in Controls!Choices
  PROVE  ControlsTyped'
<1>1. Fine(disk')
  BY DEF Controls!Saves, ControlsTyped
<1>2. unclear' \subseteq Apps
  BY DEF Controls!Saves, ControlsTyped, Controls!TypeOK
<1> QED BY <1>1, <1>2 DEF ControlsTyped, Controls!TypeOK, Fine

LEMMA ControlsTypedOn ==
  ASSUME ControlsInv, ControlsTyped, [Controls!Next]_Controls!vars
  PROVE  ControlsTyped'
<1>0. Fine(choices) /\ Fine(disk) /\ Controls!TypeOK
  BY DEF ControlsTyped
<1>1. CASE Controls!Start
  <2>0. PICK l \in Controls!Loaded(disk) :
          \/ up' = TRUE /\ choices' = Controls!Balanced(l) /\ disk' = choices'
          \/ disk' \in {disk, l} /\ UNCHANGED <<up, choices>>
    BY <1>1 DEF Controls!Start
  <2>1. Fine(l) /\ Judges(l)
    BY <1>0, LoadedFine, LoadedStore DEF Fine
  <2>2. Fine(Controls!Balanced(l))
    BY <2>1, BalancedFine
  <2>3. UNCHANGED <<recorded, due, chosen, unclear, owed, late>>
    BY <1>1 DEF Controls!Start
  <2>4. Fine(choices') /\ Fine(disk') /\ up' \in BOOLEAN
    BY <1>0, <2>0, <2>1, <2>2 DEF Controls!TypeOK
  <2> QED BY <1>0, <2>3, <2>4 DEF ControlsTyped, Controls!TypeOK, Fine
<1>2. CASE Controls!Crash
  BY <1>0, <1>2 DEF Controls!Crash, ControlsTyped, Controls!TypeOK, Fine, Store, Controls!IsData
<1>3. ASSUME NEW a \in Apps, NEW ok \in BOOLEAN, NEW w \in Controls!Wishing, Controls!Update(a, w, ok)
      PROVE  ControlsTyped'
  <2> DEFINE before == Controls!Current(choices, a)
             new == [k \in Keys |-> IF k \in DOMAIN w THEN w[k] ELSE before.desired[k]]
  <2>1. /\ UNCHANGED <<up, recorded, owed, due, late>> /\ Controls!Saves(a, ok)
        /\ choices' = Controls!With(choices, a, Controls!Evaluated(new, before.result))
        /\ chosen' = IF ok THEN [x \in DOMAIN chosen \cup {a} |-> IF x = a THEN new ELSE chosen[x]] ELSE chosen
    BY <1>3 DEF Controls!Update
  <2>2. before.desired \in Controls!Choices /\ before.result \in Controls!Results /\ Plain(before.result)
    BY <1>0, CurrentTyped
  <2>3. new \in Controls!Choices
    <3>1. PICK s \in SUBSET Keys : w \in [s -> Controls!Wishes]
      BY DEF Controls!Wishing
    <3>2. \A k \in Keys : (IF k \in DOMAIN w THEN w[k] ELSE before.desired[k]) \in Controls!Wishes
      BY <2>2, <3>1 DEF Controls!Choices
    <3> QED BY <3>2 DEF Controls!Choices
  <2>4. Fine(choices')
    BY <1>0, <2>1, <2>2, <2>3, WithFine
  <2>5. DOMAIN chosen' \subseteq Apps /\ \A x \in DOMAIN chosen' : chosen'[x] \in Controls!Choices
    BY <1>0, <2>1, <2>3 DEF Controls!TypeOK
  <2>6. /\ up' \in BOOLEAN /\ recorded' \in 0..MaxResults /\ owed' \subseteq Controls!Incidents
        /\ due' \subseteq Apps \X Controls!Results /\ (\A q \in due' : Plain(q[2])) /\ late' \in BOOLEAN
    BY <1>0, <2>1 DEF Controls!TypeOK, ControlsTyped
  <2> QED BY <2>1, <2>4, <2>5, <2>6, ControlsSaved
<1>4. ASSUME NEW a \in Apps, NEW ok \in BOOLEAN, NEW r \in Controls!Results, Plain(r),
             NEW w \in Controls!Choices, Controls!Recorded(a, Controls!Evaluated(w, r), ok),
             due' \subseteq Apps \X Controls!Results, \A q \in due' : Plain(q[2]), late' \in BOOLEAN
      PROVE  ControlsTyped'
  <2> DEFINE e == Controls!Evaluated(w, r)
             v == Controls!With(choices, a, e)
             front == Controls!Front(choices.incidents, Controls!Incident(a, e), recorded')
  <2>1. PICK list \in Controls!Newest(front) :
          /\ choices' = [v EXCEPT !.incidents = list]
          /\ owed' = (IF ok THEN owed \cup Controls!Incident(a, e) ELSE owed)
          /\ Controls!Saves(a, ok) /\ UNCHANGED <<up, chosen>>
    BY <1>4 DEF Controls!Recorded
  <2>2. Controls!Incident(a, e) \subseteq Controls!Incidents
    BY <1>4, EntryTyped
  <2>3. Fine(v)
    BY <1>0, <1>4, WithFine
  <2>6. recorded' \in 1..MaxResults
    BY <1>0, <1>4, RecordsAssumption DEF Controls!Recorded, Controls!TypeOK, Controls!ControlsAssumption
  <2>7. DOMAIN front \subseteq Controls!Incidents /\ \A i \in DOMAIN front : front[i] \in 1..MaxResults
    BY <1>0, <2>2, <2>6 DEF Controls!Front, Fine, Controls!IsData
  <2> HIDE DEF front, v
  <2>4. Fine(choices')
    <3>1. Store(choices') /\ choices'.applied = v.applied /\ choices'.apps = v.apps /\ choices'.incidents = list
      BY <2>1, <2>3, AlsoStore DEF Fine
    <3>2. DOMAIN v.apps \subseteq Apps /\ \A x \in DOMAIN v.apps : v.apps[x] \in Controls!Entries /\ Plain(v.apps[x].result)
      BY <2>3 DEF Fine, Controls!IsData
    <3> QED BY <2>1, <2>3, <2>7, <3>1, <3>2, ListFine
  <2>5. owed' \subseteq Controls!Incidents
    BY <1>0, <2>1, <2>2 DEF Controls!TypeOK
  <2>8. /\ up' \in BOOLEAN /\ recorded' \in 0..MaxResults
        /\ DOMAIN chosen' \subseteq Apps /\ \A x \in DOMAIN chosen' : chosen'[x] \in Controls!Choices
    BY <1>0, <2>1, <2>6 DEF Controls!TypeOK
  <2> QED BY <1>4, <2>1, <2>4, <2>5, <2>8, ControlsSaved
<1>5. ASSUME NEW a \in Apps, NEW ok \in BOOLEAN, NEW s \in [Keys -> Controls!Seen], Controls!Record(a, s, ok)
      PROVE  ControlsTyped'
  <2> DEFINE r == [at |-> recorded + 1, seen |-> s]
  <2>1. recorded \in Nat /\ recorded < MaxResults /\ MaxResults \in Nat
    BY <1>0, <1>5, RecordsAssumption DEF Controls!Record, Controls!Recorded, Controls!TypeOK, Controls!ControlsAssumption
  <2>2. r.at # 0 /\ recorded + 1 \in 0..MaxResults
    BY <2>1
  <2>3. r \in Controls!Results /\ Plain(r)
    BY <2>2 DEF Controls!Results, Plain
  <2>4. Controls!Current(choices, a).desired \in Controls!Choices
    BY <1>0, CurrentTyped
  <2>5. /\ Controls!Recorded(a, Controls!Evaluated(Controls!Current(choices, a).desired, r), ok)
        /\ due' \subseteq due \cup {<<a, r>>} /\ UNCHANGED late
    BY <1>5 DEF Controls!Record
  <2> HIDE DEF r
  <2>6. due' \subseteq Apps \X Controls!Results /\ (\A q \in due' : Plain(q[2])) /\ late' \in BOOLEAN
    BY <1>0, <2>3, <2>5 DEF Controls!TypeOK, ControlsTyped
  <2> QED BY <1>4, <2>3, <2>4, <2>5, <2>6
<1>6. ASSUME NEW q \in due, NEW ok \in BOOLEAN, Controls!RecordAgain(q[1], q[2], ok)
      PROVE  ControlsTyped'
  <2>1. q[1] \in Apps /\ q[2] \in Controls!Results /\ Plain(q[2])
    BY <1>0 DEF ControlsTyped, Controls!TypeOK
  <2>2. Controls!Current(choices, q[1]).desired \in Controls!Choices
    BY <1>0, CurrentTyped
  <2>3. due' \subseteq Apps \X Controls!Results /\ \A x \in due' : Plain(x[2])
    BY <1>0, <1>6 DEF Controls!RecordAgain, Controls!TypeOK, ControlsTyped
  <2>4. late' \in BOOLEAN
    <3>1. late \in BOOLEAN /\ late' = (late \/ \E i \in DOMAIN choices.incidents : i.at > q[2].at)
      BY <1>0, <1>6 DEF Controls!RecordAgain, Controls!TypeOK
    <3> QED BY <3>1
  <2>5. Controls!Recorded(q[1], Controls!Evaluated(Controls!Current(choices, q[1]).desired, q[2]), ok)
    BY <1>6 DEF Controls!RecordAgain
  <2> QED BY <1>4, <2>1, <2>2, <2>3, <2>4, <2>5
<1>7. CASE UNCHANGED Controls!vars
  BY <1>0, <1>7 DEF Controls!vars, ControlsTyped, Controls!TypeOK, Fine, Store, Controls!IsData
<1> QED BY <1>1, <1>2, <1>3, <1>5, <1>6, <1>7 DEF Controls!Next

\* The times of results and of incidents, and the calls that put these in front, have been.
Past(d) ==
  /\ \A i \in DOMAIN d.incidents : i.at <= recorded /\ d.incidents[i] <= recorded
  /\ \A a \in DOMAIN d.apps : d.apps[a].result.at <= recorded
  /\ IsFiniteSet(DOMAIN d.incidents)

\* The incidents are in the order of their times.
InOrder(d) == \A i, j \in DOMAIN d.incidents : d.incidents[i] >= d.incidents[j] => i.at >= j.at

\* Of the incidents that were answered for, I lacks only such as are no newer than its own, which are as many
\* as are kept.
Full(I, owes) ==
  \A i \in owes \ I : Cardinality(I) = MaxIncidents /\ \A j \in I : j.at >= i.at

ListInOrder ==
  /\ Past(disk) /\ Past(choices) /\ \A q \in due : q[2].at <= recorded
  /\ ~late => /\ InOrder(disk) /\ Full(DOMAIN disk.incidents, owed)
              /\ up => InOrder(choices) /\ Full(DOMAIN choices.incidents, owed)

\* Cutting a list down to its newest keeps it full.
LEMMA CutStaysFull ==
  ASSUME NEW I, NEW new, NEW T \in SUBSET (I \cup new), NEW owes, IsFiniteSet(I \cup new),
         Cardinality(I) <= MaxIncidents, Cardinality(T) <= MaxIncidents,
         T # I \cup new => Cardinality(T) = MaxIncidents,
         \A i \in I \cup new \cup owes : i.at \in Nat,
         \A i \in T, j \in (I \cup new) \ T : i.at >= j.at,
         Full(I, owes \ new)
  PROVE  Full(T, owes)
<1>1. MaxIncidents \in Nat
  BY RecordsAssumption DEF Controls!ControlsAssumption
<1>2. IsFiniteSet(I) /\ IsFiniteSet(T) /\ Cardinality(I) \in Nat /\ Cardinality(T) \in Nat
  BY FS_Subset, FS_CardinalityType
<1> SUFFICES ASSUME NEW i \in owes \ T
             PROVE  Cardinality(T) = MaxIncidents /\ \A j \in T : j.at >= i.at
  BY DEF Full
<1>3. CASE i \in I \cup new
  BY <1>3
<1>4. CASE i \notin I \cup new
  <2>1. Cardinality(I) = MaxIncidents /\ \A j \in I : j.at >= i.at
    BY <1>4 DEF Full
  <2>2. Cardinality(T) = MaxIncidents
    <3>1. CASE T = I \cup new
      BY <1>1, <1>2, <2>1, <3>1, FS_Subset
    <3> QED BY <3>1
  <2>3. ASSUME NEW j \in T \ I
        PROVE  j.at >= i.at
    <3>1. ~(I \subseteq T)
      BY <1>2, <2>1, <2>2, <2>3, FS_Subset
    <3>2. PICK k \in I : k \notin T
      BY <3>1
    <3>3. j.at >= k.at /\ k.at >= i.at /\ j.at \in Nat /\ k.at \in Nat /\ i.at \in Nat
      BY <2>1, <2>3, <3>2
    <3> QED BY <3>3
  <2> QED BY <2>1, <2>2, <2>3
<1> QED BY <1>3, <1>4

\* An entry has one incident at most, of the time of its result.
LEMMA OneIncident ==
  ASSUME NEW a, NEW w, NEW r
  PROVE  /\ \A i \in Controls!Incident(a, Controls!Evaluated(w, r)) : i.at = r.at
         /\ IsFiniteSet(Controls!Incident(a, Controls!Evaluated(w, r)))
         /\ \E x : Controls!Incident(a, Controls!Evaluated(w, r)) \subseteq {x}
<1> DEFINE e == Controls!Evaluated(w, r)
           x == [app |-> a, at |-> e.result.at, keys |-> Controls!Against(e)]
<1>1. Controls!Incident(a, e) = IF Controls!Against(e) = {} THEN {} ELSE {x}
  BY DEF Controls!Incident
<1>2. e.result = r
  BY EvaluatedFields
<1>3. IsFiniteSet({}) /\ IsFiniteSet({x})
  BY FS_EmptySet, FS_Singleton
<1>4. x.at = r.at
  BY <1>2
<1> HIDE DEF e, x
<1> QED BY <1>1, <1>3, <1>4 DEF e

\* The incidents of a store's last results are finitely many, and of past results.
LEMMA LastPast ==
  ASSUME NEW d, Fine(d), Past(d)
  PROVE  IsFiniteSet(Controls!Last(d)) /\ \A i \in Controls!Last(d) : i.at <= recorded
<1> DEFINE D == DOMAIN d.apps
           f == [a \in D |-> Controls!Incident(a, Controls!Rejudged(d)[a])]
           R == {f[a] : a \in D}
<1>1. ASSUME NEW a \in D
      PROVE  IsFiniteSet(f[a]) /\ \A i \in f[a] : i.at <= recorded
  <2>1. f[a] = Controls!Incident(a, Controls!Evaluated(d.apps[a].desired, d.apps[a].result))
    BY DEF Controls!Rejudged
  <2>2. d.apps[a].result.at <= recorded
    BY DEF Past
  <2> HIDE DEF f
  <2> QED BY <2>1, <2>2, OneIncident
<1>2. f \in Surjection(D, R)
  BY DEF Surjection
<1>3. IsFiniteSet(D)
  <2>1. D \subseteq Apps /\ IsFiniteSet(Apps)
    BY RecordsAssumption, ControlsSets DEF Fine, Controls!IsData, Controls!ControlsAssumption
  <2> QED BY <2>1, FS_Subset
<1>4. Controls!Last(d) = UNION R
  BY DEF Controls!Last
<1> HIDE DEF f, D
<1>5. IsFiniteSet(R)
  BY <1>2, <1>3, FS_Surjection
<1>6. \A T \in R : IsFiniteSet(T)
  BY <1>1
<1>7. IsFiniteSet(UNION R)
  BY <1>5, <1>6, FS_UNION
<1> QED BY <1>1, <1>4, <1>7

\* What is loaded is in order and full, if the file is full.
LEMMA LoadedInOrder ==
  ASSUME NEW d, Fine(d), Past(d), NEW l \in Controls!Loaded(d), recorded \in Nat,
         owed \subseteq Controls!Incidents
  PROVE  /\ Past(l) /\ InOrder(l)
         /\ Full(DOMAIN d.incidents, owed) => Full(DOMAIN l.incidents, owed)
<1> DEFINE I == DOMAIN d.incidents
           new == Controls!Last(d)
           list == [i \in I \cup new |-> i.at]
           T == DOMAIN l.incidents
<1>1. /\ DOMAIN l.apps = DOMAIN d.apps /\ l.incidents \in Controls!Newest(list)
      /\ \A a \in DOMAIN d.apps : l.apps[a].result = d.apps[a].result
  BY LoadedStore DEF Fine
<1>2. DOMAIN list = I \cup new /\ \A i \in I \cup new : list[i] = i.at
  OBVIOUS
<1> HIDE DEF list
<1>3. /\ T \subseteq I \cup new /\ \A i \in T : l.incidents[i] = i.at
      /\ Cardinality(T) <= MaxIncidents /\ (T # I \cup new => Cardinality(T) = MaxIncidents)
      /\ \A i \in T, j \in (I \cup new) \ T : i.at >= j.at
  BY <1>1, <1>2, NewestPart, ControlsSets
<1>4. /\ IsFiniteSet(new) /\ IsFiniteSet(I) /\ \A i \in I \cup new : i.at <= recorded
  BY LastPast DEF Past
<1>5. IsFiniteSet(I \cup new) /\ IsFiniteSet(T)
  BY <1>3, <1>4, FS_Union, FS_Subset
<1>6. \A i \in I \cup new \cup owed : i.at \in Nat
  BY LastTyped DEF Fine, Controls!IsData, Controls!Incidents
<1>7. Cardinality(I) <= MaxIncidents
  BY ControlsSets DEF Fine, Controls!IsData
<1> HIDE DEF I, new, T
<1>8. Full(I, owed) => Full(T, owed)
  <2> SUFFICES ASSUME Full(I, owed)
               PROVE  Full(T, owed)
    OBVIOUS
  <2>1. Full(I, owed \ new)
    BY DEF Full
  <2> QED BY <1>3, <1>5, <1>6, <1>7, <2>1, CutStaysFull
<1>9. Past(l)
  BY <1>1, <1>3, <1>4, <1>5 DEF Past, T
<1>10. InOrder(l)
  BY <1>3 DEF InOrder, T
<1> QED BY <1>8, <1>9, <1>10 DEF I, T

\* The defaults leave incidents and results as they are.
LEMMA BalancedInOrder ==
  ASSUME NEW d, Fine(d), Judges(d), Past(d)
  PROVE  LET b == Controls!Balanced(d) IN Past(b) /\ b.incidents = d.incidents
<1> DEFINE b == Controls!Balanced(d)
           E(a) == Controls!Evaluated(Controls!Denied(d.apps[a].desired), d.apps[a].result)
<1>1. /\ b.incidents = d.incidents /\ (d.applied => b = d)
      /\ ~d.applied => b.apps = [a \in DOMAIN d.apps |-> E(a)]
  BY BalancedStore DEF Fine
<1>2. \A a \in DOMAIN d.apps : E(a).result = d.apps[a].result
  BY EvaluatedFields
<1> HIDE DEF E, b
<1>3. DOMAIN b.apps = DOMAIN d.apps /\ \A a \in DOMAIN d.apps : b.apps[a].result = d.apps[a].result
  BY <1>1, <1>2 DEF Fine, Store
<1> QED BY <1>1, <1>3 DEF Past, b

\* A result is recorded, in time or late.
LEMMA ListRecorded ==
  ASSUME ControlsTyped, ControlsTyped', ListInOrder, NEW a \in Apps, NEW w, NEW r \in Controls!Results, NEW ok \in BOOLEAN,
         Controls!Recorded(a, Controls!Evaluated(w, r), ok), r.at <= recorded',
         late => late', ~late' => \A i \in DOMAIN choices.incidents : i.at <= r.at,
         \A q \in due' : q[2].at <= recorded'
  PROVE  ListInOrder'
<1> DEFINE e == Controls!Evaluated(w, r)
           v == Controls!With(choices, a, e)
           I == DOMAIN choices.incidents
           new == Controls!Incident(a, e)
           list == Controls!Front(choices.incidents, new, recorded')
           T == DOMAIN choices'.incidents
<1>1. /\ up /\ UNCHANGED up /\ recorded' = recorded + 1 /\ recorded \in Nat
      /\ owed' = (IF ok THEN owed \cup new ELSE owed) /\ disk' = (IF ok THEN choices' ELSE disk)
  BY DEF Controls!Recorded, Controls!Saves, ControlsTyped, Controls!TypeOK
<1>2. PICK part \in Controls!Newest(list) : choices' = [v EXCEPT !.incidents = part]
  BY DEF Controls!Recorded
<1>3. e.result = r /\ Fine(choices)
  BY EvaluatedFields DEF ControlsTyped
<1>4. /\ Store(v) /\ DOMAIN v.apps = DOMAIN choices.apps \cup {a} /\ v.apps[a] = e
      /\ \A x \in DOMAIN choices.apps \ {a} : v.apps[x] = choices.apps[x]
  BY <1>3, WithStore DEF Fine
<1>5. /\ (\A i \in new : i.at = r.at) /\ IsFiniteSet(new)
  BY OneIncident
<1>6. /\ DOMAIN list = I \cup new
      /\ (\A i \in new : list[i] = recorded') /\ (\A j \in I \ new : list[j] = choices.incidents[j])
  BY DEF Controls!Front
<1> HIDE DEF v, e, list, new
<1>7. choices'.incidents = part /\ choices'.apps = v.apps
  BY <1>2, <1>4, AlsoStore
<1>8. /\ T \subseteq I \cup new /\ (\A i \in T : choices'.incidents[i] = list[i])
      /\ Cardinality(T) <= MaxIncidents /\ (T # I \cup new => Cardinality(T) = MaxIncidents)
      /\ \A i \in T, j \in (I \cup new) \ T : list[i] >= list[j]
  BY <1>2, <1>6, <1>7, NewestPart, ControlsSets
<1>9. /\ IsFiniteSet(I) /\ (\A i \in I : i.at <= recorded /\ choices.incidents[i] <= recorded)
      /\ \A x \in DOMAIN choices.apps : choices.apps[x].result.at <= recorded
  BY DEF ListInOrder, Past
<1>10. /\ IsFiniteSet(I \cup new) /\ IsFiniteSet(T) /\ Cardinality(I) <= MaxIncidents
  BY <1>3, <1>5, <1>8, <1>9, FS_Union, FS_Subset, ControlsSets DEF Fine, Controls!IsData
<1>11. /\ \A i \in I : i.at \in Nat /\ choices.incidents[i] \in Nat
       /\ r.at \in Nat /\ \A i \in owed : i.at \in Nat
       /\ \A x \in DOMAIN choices.apps : choices.apps[x].result.at \in Nat
  <2>1. MaxResults \in Nat
    BY RecordsAssumption DEF Controls!ControlsAssumption
  <2>2. owed \subseteq Controls!Incidents /\ I \subseteq Controls!Incidents /\ \A i \in I : choices.incidents[i] \in 1..MaxResults
    BY <1>3 DEF Fine, Controls!IsData, ControlsTyped, Controls!TypeOK
  <2>3. \A x \in DOMAIN choices.apps : choices.apps[x].result \in Controls!Results
    BY <1>3, EntryFields DEF Fine, Controls!IsData
  <2> QED BY <2>1, <2>2, <2>3 DEF Controls!Incidents, Controls!Results
<1>12. Past(choices)'
  <2>1. ASSUME NEW i \in T
        PROVE  i.at <= recorded' /\ choices'.incidents[i] <= recorded'
    <3>1. choices'.incidents[i] = list[i] /\ i \in I \cup new
      BY <1>8
    <3>2. CASE i \in new
      BY <1>1, <1>5, <1>6, <3>1, <3>2
    <3>3. CASE i \in I \ new
      <4>1. list[i] = choices.incidents[i] /\ i.at <= recorded /\ list[i] <= recorded
        BY <1>6, <1>9, <3>3
      <4>2. i.at \in Nat /\ list[i] \in Nat
        BY <1>6, <1>11, <3>3
      <4> QED BY <1>1, <3>1, <4>1, <4>2
    <3> QED BY <3>1, <3>2, <3>3
  <2>2. \A x \in DOMAIN choices'.apps : choices'.apps[x].result.at <= recorded'
    BY <1>1, <1>3, <1>4, <1>7, <1>9, <1>11
  <2> QED BY <1>10, <2>1, <2>2 DEF Past
<1>13. Past(disk)'
  <2>1. CASE ok
    BY <1>1, <1>12, <2>1 DEF Past
  <2>2. CASE ~ok
    <3>1. disk' = disk /\ Fine(disk) /\ Past(disk)
      BY <1>1, <2>2 DEF ControlsTyped, ListInOrder
    <3>2. MaxResults \in Nat
      BY RecordsAssumption DEF Controls!ControlsAssumption
    <3>3. /\ \A i \in DOMAIN disk.incidents : i.at \in Nat /\ disk.incidents[i] \in Nat
          /\ \A x \in DOMAIN disk.apps : disk.apps[x].result.at \in Nat
      <4>1. DOMAIN disk.incidents \subseteq Controls!Incidents /\ \A i \in DOMAIN disk.incidents : disk.incidents[i] \in 1..MaxResults
        BY <3>1 DEF Fine, Controls!IsData
      <4>2. \A x \in DOMAIN disk.apps : disk.apps[x].result \in Controls!Results
        BY <3>1, EntryFields DEF Fine, Controls!IsData
      <4> QED BY <3>2, <4>1, <4>2 DEF Controls!Incidents, Controls!Results
    <3>4. \A x \in Nat : x <= recorded => x <= recorded'
      BY <1>1
    <3> QED BY <3>1, <3>3, <3>4 DEF Past
  <2> QED BY <2>1, <2>2
<1>14. ASSUME ~late'
       PROVE  InOrder(choices)' /\ Full(DOMAIN choices.incidents, owed)'
  <2>1. InOrder(choices) /\ Full(I, owed) /\ InOrder(disk) /\ \A i \in I : i.at <= r.at
    BY <1>1, <1>14 DEF ListInOrder
  <2>2. ASSUME NEW i \in I \cup new, NEW j \in I \cup new, list[i] >= list[j]
        PROVE  i.at >= j.at
    <3>1. CASE i \in new
      BY <1>5, <1>11, <2>1, <3>1
    <3>2. CASE i \notin new
      <4>1. i \in I \ new /\ list[i] <= recorded /\ list[i] \in Nat
        BY <1>6, <1>9, <1>11, <3>2
      <4>2. j \notin new
        BY <1>1, <1>6, <2>2, <4>1
      <4>3. j \in I \ new /\ list[i] = choices.incidents[i] /\ list[j] = choices.incidents[j]
        BY <1>6, <4>1, <4>2
      <4> QED BY <2>1, <2>2, <4>1, <4>3 DEF InOrder
    <3> QED BY <3>1, <3>2
  <2>3. InOrder(choices)'
    BY <1>8, <2>2 DEF InOrder
  <2>4. \A i \in T, j \in (I \cup new) \ T : i.at >= j.at
    BY <1>8, <2>2
  <2>5. \A i \in I \cup new \cup owed' : i.at \in Nat
    BY <1>1, <1>5, <1>11
  <2>6. Full(I, owed' \ new)
    BY <1>1, <2>1 DEF Full
  <2> HIDE DEF I, T
  <2>7. Full(T, owed')
    BY <1>8, <1>10, <2>4, <2>5, <2>6, CutStaysFull
  <2> QED BY <2>3, <2>7 DEF T, Full
<1>15. ~late' => InOrder(disk)' /\ Full(DOMAIN disk.incidents, owed)'
  <2>1. CASE ok
    BY <1>1, <1>14, <2>1 DEF InOrder, Full
  <2>2. CASE ~ok
    BY <1>1, <2>2 DEF ListInOrder, InOrder, Full
  <2> QED BY <2>1, <2>2
<1> QED BY <1>12, <1>13, <1>14, <1>15 DEF ListInOrder

LEMMA ListInOrderStep ==
  ASSUME ControlsInv, ControlsTyped, ControlsTyped', ListInOrder, [Controls!Next]_Controls!vars
  PROVE  ListInOrder'
<1>0. /\ Fine(choices) /\ Fine(disk) /\ recorded \in Nat /\ owed \subseteq Controls!Incidents
  BY DEF ControlsTyped, Controls!TypeOK
<1>1. CASE Controls!Start
  <2>0. PICK l \in Controls!Loaded(disk) :
          \/ up' = TRUE /\ choices' = Controls!Balanced(l) /\ disk' = choices'
          \/ disk' \in {disk, l} /\ UNCHANGED <<up, choices>>
    BY <1>1 DEF Controls!Start
  <2>1. ~up /\ UNCHANGED <<recorded, due, owed, late>>
    BY <1>1 DEF Controls!Start
  <2>2. /\ Past(l) /\ InOrder(l) /\ (Full(DOMAIN disk.incidents, owed) => Full(DOMAIN l.incidents, owed))
        /\ Fine(l) /\ Judges(l)
    BY <1>0, LoadedInOrder, LoadedFine, LoadedStore DEF ListInOrder, Fine
  <2>3. Past(Controls!Balanced(l)) /\ Controls!Balanced(l).incidents = l.incidents
    BY <2>2, BalancedInOrder
  <2>4. CASE up' = TRUE /\ choices' = Controls!Balanced(l) /\ disk' = choices'
    BY <2>1, <2>2, <2>3, <2>4 DEF ListInOrder, Past, InOrder, Full
  <2>5. CASE disk' \in {disk, l} /\ UNCHANGED <<up, choices>>
    BY <2>1, <2>2, <2>5 DEF ListInOrder, Past, InOrder, Full
  <2> QED BY <2>0, <2>4, <2>5
<1>2. CASE Controls!Crash
  BY <1>2 DEF Controls!Crash, ListInOrder, Past, InOrder, Full
<1>3. ASSUME NEW a \in Apps, NEW ok \in BOOLEAN, NEW w \in Controls!Wishing, Controls!Update(a, w, ok)
      PROVE  ListInOrder'
  <2> DEFINE before == Controls!Current(choices, a)
             new == [k \in Keys |-> IF k \in DOMAIN w THEN w[k] ELSE before.desired[k]]
             e == Controls!Evaluated(new, before.result)
  <2>1. /\ up /\ UNCHANGED <<up, recorded, due, owed, late>> /\ choices' = Controls!With(choices, a, e)
        /\ disk' = IF ok THEN choices' ELSE disk
    BY <1>3 DEF Controls!Update, Controls!Saves
  <2>2. e.result = before.result
    BY EvaluatedFields
  <2>3. before.result.at <= recorded
    BY <1>0 DEF Controls!Current, Controls!NoResult, ListInOrder, Past
  <2> HIDE DEF e
  <2>4. /\ DOMAIN choices'.apps = DOMAIN choices.apps \cup {a} /\ choices'.apps[a] = e
        /\ \A x \in DOMAIN choices.apps \ {a} : choices'.apps[x] = choices.apps[x]
        /\ choices'.incidents = choices.incidents
    BY <1>0, <2>1, WithStore DEF Fine
  <2>5. Past(choices)'
    BY <2>1, <2>2, <2>3, <2>4 DEF ListInOrder, Past
  <2>6. ~late => InOrder(choices)' /\ Full(DOMAIN choices.incidents, owed)'
    BY <2>1, <2>4 DEF ListInOrder, InOrder, Full
  <2>7. CASE ok
    BY <2>1, <2>5, <2>6, <2>7 DEF ListInOrder, Past, InOrder, Full
  <2>8. CASE ~ok
    BY <2>1, <2>5, <2>6, <2>8 DEF ListInOrder, Past, InOrder, Full
  <2> QED BY <2>7, <2>8
<1>4. ASSUME NEW a \in Apps, NEW ok \in BOOLEAN, NEW s \in [Keys -> Controls!Seen], Controls!Record(a, s, ok)
      PROVE  ListInOrder'
  <2> DEFINE r == [at |-> recorded + 1, seen |-> s]
  <2>1. /\ Controls!Recorded(a, Controls!Evaluated(Controls!Current(choices, a).desired, r), ok)
        /\ due' \subseteq due \cup {<<a, r>>} /\ UNCHANGED late
    BY <1>4 DEF Controls!Record
  <2>2. /\ recorded' = recorded + 1 /\ recorded' \in 0..MaxResults /\ r.at = recorded'
    BY <2>1 DEF Controls!Recorded, ControlsTyped, Controls!TypeOK
  <2>3. r \in Controls!Results
    BY <2>2 DEF Controls!Results
  <2>4. \A i \in DOMAIN choices.incidents : i.at <= r.at
    <3>1. \A i \in DOMAIN choices.incidents : i.at \in Nat /\ i.at <= recorded
      BY <1>0 DEF ListInOrder, Past, Fine, Controls!IsData, Controls!Incidents
    <3> QED BY <1>0, <2>2, <3>1
  <2>5. \A q \in due' : q[2].at <= recorded'
    <3>1. \A q \in due : q[2].at \in Nat /\ q[2].at <= recorded
      BY DEF ListInOrder, ControlsTyped, Controls!TypeOK, Controls!Results
    <3> HIDE DEF r
    <3>2. <<a, r>>[2] = r /\ r.at = recorded' /\ recorded' \in Nat
      BY <1>0, <2>2
    <3> QED BY <1>0, <2>1, <2>2, <3>1, <3>2
  <2>6. r.at <= recorded'
    BY <1>0, <2>2
  <2> HIDE DEF r
  <2> QED BY <2>1, <2>3, <2>4, <2>5, <2>6, ListRecorded
<1>5. ASSUME NEW q \in due, NEW ok \in BOOLEAN, Controls!RecordAgain(q[1], q[2], ok)
      PROVE  ListInOrder'
  <2>1. /\ Controls!Recorded(q[1], Controls!Evaluated(Controls!Current(choices, q[1]).desired, q[2]), ok)
        /\ due' \subseteq due /\ late' = (late \/ \E i \in DOMAIN choices.incidents : i.at > q[2].at)
    BY <1>5 DEF Controls!RecordAgain
  <2>2. /\ q[1] \in Apps /\ q[2] \in Controls!Results /\ q[2].at \in Nat
        /\ \A x \in due : x[2].at \in Nat /\ x[2].at <= recorded
    BY DEF ListInOrder, ControlsTyped, Controls!TypeOK, Controls!Results
  <2>3. recorded' = recorded + 1
    BY <2>1 DEF Controls!Recorded
  <2>4. \A i \in DOMAIN choices.incidents : i.at \in Nat
    BY <1>0 DEF Fine, Controls!IsData, Controls!Incidents
  <2>5. ASSUME ~late', NEW i \in DOMAIN choices.incidents
        PROVE  i.at <= q[2].at
    <3>1. ~(i.at > q[2].at)
      BY <2>1, <2>5
    <3> QED BY <2>2, <2>4, <3>1
  <2>6. /\ (\A x \in due' : x[2].at <= recorded') /\ q[2].at <= recorded'
    BY <1>0, <2>1, <2>2, <2>3
  <2>7. late => late'
    BY <2>1
  <2> QED BY <2>1, <2>2, <2>5, <2>6, <2>7, ListRecorded
<1>6. CASE UNCHANGED Controls!vars
  BY <1>6 DEF Controls!vars, ListInOrder, Past, InOrder, Full
<1> QED BY <1>1, <1>2, <1>3, <1>4, <1>5, <1>6 DEF Controls!Next

LEMMA ListInOrderStart ==
  ASSUME Controls!Init
  PROVE  ListInOrder
<1>1. PICK older \in SUBSET Apps :
        disk = [apps |-> [a \in older |-> Controls!Evaluated([k \in Keys |-> "monitor"], Controls!NoResult)],
                incidents |-> <<>>, applied |-> FALSE]
  BY DEF Controls!Init
<1>2. /\ choices = [apps |-> <<>>, incidents |-> <<>>, applied |-> FALSE] /\ owed = {} /\ due = {} /\ recorded = 0
  BY DEF Controls!Init
<1>3. DOMAIN <<>> = {} /\ IsFiniteSet({})
  BY FS_EmptySet
<1>4. \A a \in older : disk.apps[a].result.at <= 0
  <2>1. \A a \in older : disk.apps[a].result = Controls!NoResult
    BY <1>1, EvaluatedFields
  <2> QED BY <2>1 DEF Controls!NoResult
<1>5. Past(disk) /\ Past(choices)
  BY <1>1, <1>2, <1>3, <1>4 DEF Past
<1>6. InOrder(disk) /\ InOrder(choices) /\ Full(DOMAIN disk.incidents, owed) /\ Full(DOMAIN choices.incidents, owed)
  BY <1>1, <1>2, <1>3 DEF InOrder, Full
<1> QED BY <1>2, <1>5, <1>6 DEF ListInOrder

LEMMA ControlsAlways == Controls!Spec => [](ControlsInv /\ ControlsTyped /\ ListInOrder)
<1>1. Controls!Init => ControlsInv /\ ControlsTyped /\ ListInOrder
  BY ControlsStart, ControlsTypesStart, ListInOrderStart
<1>2. ControlsTyped => ControlsDue
  BY DEF ControlsTyped, ControlsDue, Controls!TypeOK
<1>3. ControlsInv /\ ControlsTyped /\ ListInOrder /\ [Controls!Next]_Controls!vars
        => ControlsInv' /\ ControlsTyped' /\ ListInOrder'
  BY <1>2, ControlsStep, ControlsTypedOn, ListInOrderStep
<1> QED BY <1>1, <1>3, PTL DEF Controls!Spec

LEMMA ControlsTypes == Controls!Spec => []Controls!TypeOK
<1>1. ControlsTyped => Controls!TypeOK
  BY DEF ControlsTyped
<1> QED BY <1>1, ControlsAlways, PTL

\* What the user chose stands, each verdict is on the present choice and the last result, and an incident that
\* was answered for is kept until as many as are kept are as recent (privacy_control.py: load, update,
\* record_result, activate_balanced_defaults).
THEOREM ChoicesStand == Controls!Spec => []Controls!ControlsKept
<1>1. ControlsInv => Controls!ChoiceStands /\ Controls!VerdictTrue
  BY DEF ControlsInv, Holds, Judges, Controls!ChoiceStands, Controls!VerdictTrue
<1>2. ListInOrder => Controls!IncidentsKept
  BY ControlsSets DEF ListInOrder, Full, Controls!IncidentsKept
<1> QED BY <1>1, <1>2, ControlsAlways, PTL DEF Controls!ControlsKept

\* Both of the apps' stores, as the run states it.
THEOREM AppsAreKept == Controls!Spec /\ List!Spec => []AppsKept
BY ChoicesStand, RemovalsAreRemembered, PTL DEF AppsKept

\* Each record keeps its types, with no bound on its threads, processes, helpers and connections but those of
\* the constants, and whichever of them take their steps.
THEOREM RecordsAreTyped ==
  Spec /\ Mic!Spec /\ Phone!Spec /\ Controls!Spec /\ Grants!Spec /\ List!Spec /\ Pool!Spec => []TypesOK
<1>1. Init => UsesInv
  BY UsesBegin
<1>2. UsesInv /\ [Next]_vars => UsesInv'
  BY UsesStep
<1>3. UsesInv => TypeOK
  BY DEF UsesInv, UsesTyped
<1>4. Spec => []TypeOK
  BY <1>1, <1>2, <1>3, PTL DEF Spec
<1>5. Mic!Init => MicInv
  BY MicStart
<1>6. MicInv /\ [Mic!Next]_Mic!vars => MicInv'
  BY MicStep
<1>7. MicInv => Mic!TypeOK
  BY DEF MicInv
<1>8. Mic!Spec => []Mic!TypeOK
  BY <1>5, <1>6, <1>7, PTL DEF Mic!Spec
<1>9. Phone!Init => PhoneInv
  BY PhoneInit
<1>10. PhoneInv /\ [Phone!Next]_Phone!vars => PhoneInv'
  BY PhoneStep
<1>11. Phone!Spec => []Phone!TypeOK
  BY <1>9, <1>10, PhoneTypes, PTL DEF Phone!Spec
<1>12. Grants!Init => GrantsInv
  BY GrantsStart
<1>13. GrantsInv /\ [Grants!Next]_Grants!vars => GrantsInv'
  BY GrantsStep
<1>14. GrantsInv => Grants!TypeOK
  BY DEF GrantsInv
<1>15. Grants!Spec => []Grants!TypeOK
  BY <1>12, <1>13, <1>14, PTL DEF Grants!Spec
<1>16. TypeOK /\ Mic!TypeOK /\ Phone!TypeOK /\ Controls!TypeOK /\ Grants!TypeOK /\ List!TypeOK /\ Pool!TypeOK => TypesOK
  BY DEF TypesOK
<1> QED BY <1>4, <1>8, <1>11, <1>15, <1>16, ControlsTypes, ListTypes, PoolTypes, PTL

=============================================================================
