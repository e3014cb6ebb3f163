--------------------------- MODULE PrivacyControls --------------------------
(***************************************************************************)
(* What the user wants of each iPhone app's permissions, and what its      *)
(* captures showed (privacy_control.py): a choice and the last result for  *)
(* every permission, the verdict on the two, and an incident for a result  *)
(* that goes against the choice. The defaults of a new version are applied *)
(* once, at a start. Every change is saved before its request is answered. *)
(***************************************************************************)
EXTENDS Integers, FiniteSets

CONSTANTS
  Apps, Keys,    \* apps, and permissions (PERMISSION_KEYS)
  MaxIncidents,  \* the incidents that are kept; 200 in the code
  MaxResults     \* bound: the calls that record a result, which are its time

ControlsAssumption ==
  IsFiniteSet(Apps) /\ Keys # {} /\ MaxIncidents \in Nat \ {0} /\ MaxResults \in Nat

VARIABLES
  up, mem, file,   \* the engine; what it holds, and privacy-controls.json
  recorded,        \* how many calls have recorded a result
  due,             \* the results whose second call is still to come
  chosen,          \* history: chosen[a], what the user last chose and was told is saved
  unclear,         \* history: apps with a choice or a result whose save failed
  owed,            \* history: the incidents of captures whose answer said they are saved
  late             \* history: a second call came after the incident of a later result

vars == <<up, mem, file, recorded, due, chosen, unclear, owed, late>>

Wishes  == {"deny", "monitor", "allow"}
Seen    == {"not_seen", "denied", "used"}
Choices == [Keys -> Wishes]
NoResult == [at |-> 0, seen |-> [k \in Keys |-> "not_seen"]]
Results == [at : 0..MaxResults, seen : [Keys -> Seen]]
Verdicts == {"violation", "protected", "not_verified", "allowed", "observed", "not_observed"}
Entries == [desired : Choices, result : Results, verdict : [Keys -> Verdicts]]
Incidents == [app : Apps, at : 1..MaxResults, keys : SUBSET Keys]

IsData(d) ==
  /\ DOMAIN d.apps \subseteq Apps /\ \A a \in DOMAIN d.apps : d.apps[a] \in Entries
  /\ DOMAIN d.incidents \subseteq Incidents /\ \A i \in DOMAIN d.incidents : d.incidents[i] \in 1..MaxResults
  /\ Cardinality(DOMAIN d.incidents) <= MaxIncidents /\ d.applied \in BOOLEAN
TypeOK ==
  /\ up \in BOOLEAN /\ IsData(mem) /\ IsData(file) /\ recorded \in 0..MaxResults
  /\ DOMAIN chosen \subseteq Apps /\ \A a \in DOMAIN chosen : chosen[a] \in Choices
  /\ due \subseteq Apps \X Results /\ unclear \subseteq Apps /\ owed \subseteq Incidents /\ late \in BOOLEAN

-----------------------------------------------------------------------------
\* evaluate_result, build_privacy_incident.
Verdict(wish, seen) ==
  CASE wish = "deny"    -> IF seen = "used" THEN "violation" ELSE IF seen = "denied" THEN "protected" ELSE "not_verified"
    [] wish = "allow"   -> IF seen = "used" THEN "allowed" ELSE "not_observed"
    [] wish = "monitor" -> IF seen = "not_seen" THEN "not_observed" ELSE "observed"
Evaluated(desired, result) ==
  [desired |-> desired, result |-> result, verdict |-> [k \in Keys |-> Verdict(desired[k], result.seen[k])]]
Against(entry) == {k \in Keys : entry.verdict[k] = "violation"}

\* Broken on purpose (mutant): what went well is an incident too.
IncidentAlways(app, entry) == {[app |-> app, at |-> entry.result.at, keys |-> Against(entry)]}

Incident(app, entry) ==
  IF Against(entry) = {} THEN {} ELSE {[app |-> app, at |-> entry.result.at, keys |-> Against(entry)]}

Deny == [k \in Keys |-> "deny"]
With(d, app, entry) == [d EXCEPT !.apps = [a \in DOMAIN d.apps \cup {app} |-> IF a = app THEN entry ELSE d.apps[a]]]
Current(d, app) == IF app \in DOMAIN d.apps THEN d.apps[app] ELSE [desired |-> Deny, result |-> NoResult]

\* A list of incidents says of each the call that put it in front, later ones first: new ones come to the front.
Front(list, new, call) == [i \in DOMAIN list \cup new |-> IF i \in new THEN call ELSE list[i]]

\* Broken on purpose (mutant): the list keeps its end.
NewestLast(list) ==
  {[i \in kept |-> list[i]] : kept \in {s \in SUBSET DOMAIN list :
     /\ Cardinality(s) <= MaxIncidents /\ (s # DOMAIN list => Cardinality(s) = MaxIncidents)
     /\ \A i \in s, j \in DOMAIN list \ s : list[i] <= list[j]}}

\* What is kept of a list, its first MaxIncidents (of two of one call, either).
Newest(list) ==
  {[i \in kept |-> list[i]] : kept \in {s \in SUBSET DOMAIN list :
     /\ Cardinality(s) <= MaxIncidents /\ (s # DOMAIN list => Cardinality(s) = MaxIncidents)
     /\ \A i \in s, j \in DOMAIN list \ s : list[i] >= list[j]}}

Rejudged(d) == [a \in DOMAIN d.apps |-> Evaluated(d.apps[a].desired, d.apps[a].result)]
Last(d)     == UNION {Incident(a, Rejudged(d)[a]) : a \in DOMAIN d.apps}

\* Broken on purpose (mutant): the incidents are made anew from the last results.
LoadedAnew(d) == {[d EXCEPT !.apps = Rejudged(d), !.incidents = [i \in Last(d) |-> i.at]]}

\* load: each entry is judged anew, the incident of its last result is there, and incidents are sorted by time.
Loaded(d) ==
  {[d EXCEPT !.apps = Rejudged(d), !.incidents = list] :
     list \in Newest([i \in DOMAIN d.incidents \cup Last(d) |-> i.at])}

\* activate_balanced_defaults: once, what is only watched is denied.
Denied(c) == [k \in Keys |-> IF c[k] = "monitor" THEN "deny" ELSE c[k]]

\* Broken on purpose (mutants): the defaults are applied at every start; the verdicts are left as they were.
BalancedAlways(d) ==
  [d EXCEPT !.applied = TRUE,
            !.apps = [a \in DOMAIN d.apps |-> Evaluated(Denied(d.apps[a].desired), d.apps[a].result)]]
BalancedStale(d) ==
  IF d.applied THEN d
  ELSE [d EXCEPT !.applied = TRUE, !.apps = [a \in DOMAIN d.apps |-> [d.apps[a] EXCEPT !.desired = Denied(@)]]]

Balanced(d) ==
  IF d.applied THEN d
  ELSE [d EXCEPT !.applied = TRUE,
                 !.apps = [a \in DOMAIN d.apps |-> Evaluated(Denied(d.apps[a].desired), d.apps[a].result)]]

\* The file of an older version, where the user only watches an app.
Init ==
  /\ up = FALSE /\ mem = [apps |-> <<>>, incidents |-> <<>>, applied |-> FALSE]
  /\ \E old \in SUBSET Apps :
       file = [apps |-> [a \in old |-> Evaluated([k \in Keys |-> "monitor"], NoResult)], incidents |-> <<>>, applied |-> FALSE]
  /\ recorded = 0 /\ due = {} /\ chosen = <<>> /\ unclear = {} /\ owed = {} /\ late = FALSE

-----------------------------------------------------------------------------
\* The engine starts: both steps save, and the engine does not come up when a write fails.
Start ==
  /\ ~up /\ UNCHANGED <<recorded, due, chosen, unclear, owed, late>>
  /\ \E loaded \in Loaded(file) :
       \/ up' = TRUE /\ mem' = Balanced(loaded) /\ file' = mem'
       \/ file' \in {file, loaded} /\ UNCHANGED <<up, mem>>
Crash == up /\ up' = FALSE /\ due' = {} /\ UNCHANGED <<mem, file, recorded, chosen, unclear, owed, late>>

\* A write that fails leaves the change in memory, and tells the user it has not been made.
Saves(app, ok) ==
  /\ file' = IF ok THEN mem' ELSE file
  /\ unclear' = IF ok THEN unclear ELSE unclear \cup {app}

\* update: what the request does not name stays as it is.
Update(app, wishes, ok) ==
  /\ up
  /\ LET old == Current(mem, app)  new == [k \in Keys |-> IF k \in DOMAIN wishes THEN wishes[k] ELSE old.desired[k]] IN
     /\ mem' = With(mem, app, Evaluated(new, old.result))
     /\ chosen' = IF ok THEN [a \in DOMAIN chosen \cup {app} |-> IF a = app THEN new ELSE chosen[a]] ELSE chosen
  /\ Saves(app, ok) /\ UNCHANGED <<up, recorded, due, owed, late>>

\* record_result: the entry of the app, and the incident of the result, if there is one, in front of the others.
Recorded(app, entry, ok) ==
  /\ up /\ recorded < MaxResults /\ recorded' = recorded + 1
  /\ \E list \in Newest(Front(mem.incidents, Incident(app, entry), recorded')) :
       mem' = [With(mem, app, entry) EXCEPT !.incidents = list]
  /\ owed' = IF ok THEN owed \cup Incident(app, entry) ELSE owed
  /\ Saves(app, ok) /\ UNCHANGED <<up, chosen>>
\* A capture of the app is stopped. If that could be saved, the request calls again.
Record(app, seen, ok) ==
  LET result == [at |-> recorded + 1, seen |-> seen] IN
  /\ Recorded(app, Evaluated(Current(mem, app).desired, result), ok)
  /\ due' = IF ok THEN due \cup {<<app, result>>} ELSE due
  /\ UNCHANGED late
\* Its second call, with what the containment found. Other requests may have been answered since.
RecordAgain(app, result, ok) ==
  /\ <<app, result>> \in due /\ due' = due \ {<<app, result>>}
  /\ Recorded(app, Evaluated(Current(mem, app).desired, result), ok)
  /\ late' = (late \/ \E i \in DOMAIN mem.incidents : i.at > result.at)

Wishing == UNION {[s -> Wishes] : s \in SUBSET Keys}
Next ==
  \/ Start \/ Crash
  \/ \E a \in Apps, ok \in BOOLEAN :
       (\E w \in Wishing : Update(a, w, ok)) \/ (\E s \in [Keys -> Seen] : Record(a, s, ok))
  \/ \E d \in due, ok \in BOOLEAN : RecordAgain(d[1], d[2], ok)

Spec == Init /\ [][Next]_vars

-----------------------------------------------------------------------------
(* Properties.                                                             *)

\* What the user chose stands, through captures, restarts and the defaults of a new version, until the user
\* chooses again, unless a save failed.
ChoiceStands ==
  up => \A a \in DOMAIN chosen \ unclear : a \in DOMAIN mem.apps /\ mem.apps[a].desired = chosen[a]

\* A verdict is on the present choice and the last result, wherever either came from.
VerdictTrue == up => \A a \in DOMAIN mem.apps : mem.apps[a] = Evaluated(mem.apps[a].desired, mem.apps[a].result)

\* What a capture's answer said is an incident stays one, through later choices, restarts and results, until as
\* many as are kept are as recent; unless a second call put an older one in front of a later one.
IncidentsKept ==
  up /\ ~late => \A i \in owed \ DOMAIN mem.incidents :
                   /\ Cardinality(DOMAIN mem.incidents) = MaxIncidents
                   /\ \A j \in DOMAIN mem.incidents : j.at >= i.at

\* The user's choice, the verdict on it and what went against it agree, through every sequence.
ControlsKept == ChoiceStands /\ VerdictTrue /\ IncidentsKept

=============================================================================
