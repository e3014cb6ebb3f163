------------------------------ MODULE PhoneApps -----------------------------
(***************************************************************************)
(* The apps of the iPhone: the detected list of AppProfileStore (app.py),  *)
(* and what ProgramInventory remembers as removed from the phone. A sync,  *)
(* of the inventory's loop or asked for in the dashboard, makes the list   *)
(* agree with a reading of the phone; a privacy report adds what it names, *)
(* less what is known to be removed. Each store has its own lock and file. *)
(***************************************************************************)
EXTENDS Integers, FiniteSets

CONSTANTS
  Apps, Apple,   \* all apps, and those of Apple, which no reading of the phone names
  Syncs, Posts   \* threads: of the loop and of scan requests; of requests with a report

AppsAssumption == Apple \subseteq Apps /\ Syncs \cap Posts = {}

VARIABLES
  listed, listFile,      \* detectedApps, and as it is saved
  removed, removedFile,  \* removed["phone"], and as it is saved
  at,                    \* where each thread is
  held,                  \* what it has been told: a reading, or a report; then the removals it has asked for
  gone,                  \* what it has taken off the list
  ever,                  \* history: the apps that have been in the saved list
  met, slipped,          \* history: two threads were under way at once; apps whose removal a failure or an end lost
  lone, settled          \* history: the sync under way has met nobody; the last thing to happen was such a sync

lists   == <<listed, listFile, ever>>
removal == <<removed, removedFile>>
threads == <<at, held, gone>>
vars    == <<lists, removal, threads, met, slipped, lone, settled>>

Threads == Syncs \cup Posts

TypeOK ==
  /\ {listed, listFile, removed, removedFile, ever, slipped} \subseteq SUBSET Apps
  /\ at \in [Threads -> {"idle", "merge", "prune", "note", "save", "ask", "drop"}]
  /\ held \in [Threads -> SUBSET Apps] /\ gone \in [Threads -> SUBSET Apps]
  /\ {met, lone, settled} \subseteq BOOLEAN

Init ==
  /\ listed = {} /\ listFile = {} /\ removed = {} /\ removedFile = {}
  /\ at = [t \in Threads |-> "idle"] /\ held = [t \in Threads |-> {}] /\ gone = held
  /\ ever = {} /\ met = FALSE /\ slipped = {} /\ lone = FALSE /\ settled = FALSE

Busy(t)     == at[t] # "idle"
Goes(t, p)  == at' = [at EXCEPT ![t] = p]
SaveList(l, ok) ==
  /\ listed' = l /\ listFile' = (IF ok THEN l ELSE listFile) /\ ever' = ever \cup listFile'

-----------------------------------------------------------------------------
\* A thread begins, with what it was told.
Begins(t, p, told) ==
  /\ ~Busy(t) /\ Goes(t, p) /\ held' = [held EXCEPT ![t] = told] /\ UNCHANGED gone
  /\ met' = (met \/ \E u \in Threads : Busy(u)) /\ lone' = (t \in Syncs /\ \A u \in Threads : ~Busy(u))
  /\ settled' = FALSE /\ UNCHANGED <<lists, removal, slipped>>

\* sync_phone: the phone is read; apps come and go between two readings as they please. A reading with no app
\* at all changes nothing.
Read(t, as)   == t \in Syncs /\ as \cap Apple = {} /\ Begins(t, IF as = {} THEN "save" ELSE "merge", as)
Report(t, as) == t \in Posts /\ Begins(t, "merge", as)
\* Or it cannot be read, and that is saved.
Unreached(ok) ==
  /\ removedFile' = (IF ok THEN removed ELSE removedFile)
  /\ UNCHANGED <<lists, removed, threads, met, slipped, lone, settled>>

\* merge_detected. When it cannot be saved, the thread ends.
Merge(t, ok) ==
  /\ at[t] = "merge" /\ SaveList(listed \cup held[t], ok)
  /\ Goes(t, IF ~ok THEN "idle" ELSE IF t \in Syncs THEN "prune" ELSE "ask")
  /\ settled' = FALSE /\ UNCHANGED <<removal, held, gone, met, slipped, lone>>

\* Broken on purpose (mutants): Apple's own go as well; nothing goes.
PruneAll(t, ok) ==
  LET out == listed \ held[t] IN
  /\ at[t] = "prune" /\ gone' = [gone EXCEPT ![t] = IF ok THEN out ELSE {}]
  /\ IF out = {} THEN ok /\ UNCHANGED lists ELSE SaveList(listed \ out, ok)
  /\ Goes(t, IF ok THEN "note" ELSE "idle")
  /\ slipped' = (IF ok THEN slipped ELSE slipped \cup out)
  /\ UNCHANGED <<removal, held, met, lone, settled>>
PruneNone(t, ok) ==
  /\ at[t] = "prune" /\ ok /\ gone' = [gone EXCEPT ![t] = {}] /\ Goes(t, "note")
  /\ UNCHANGED <<lists, removal, held, met, slipped, lone, settled>>

\* prune_detected: what the reading does not name goes, but for Apple's own. When that cannot be saved, nobody
\* learns what went.
Prune(t, ok) ==
  LET out == (listed \ held[t]) \ Apple IN
  /\ at[t] = "prune" /\ gone' = [gone EXCEPT ![t] = IF ok THEN out ELSE {}]
  /\ IF out = {} THEN ok /\ UNCHANGED lists ELSE SaveList(listed \ out, ok)
  /\ Goes(t, IF ok THEN "note" ELSE "idle")
  /\ slipped' = (IF ok THEN slipped ELSE slipped \cup out)
  /\ UNCHANGED <<removal, held, met, lone, settled>>

\* Broken on purpose (mutants): what is back on the phone stays on record as removed; what went is not recorded.
NoteOnly(t) ==
  /\ at[t] = "note" /\ Goes(t, "save") /\ removed' = removed \cup gone[t] /\ settled' = lone
  /\ UNCHANGED <<lists, removedFile, held, gone, met, slipped, lone>>
NoteForgets(t) ==
  /\ at[t] = "note" /\ Goes(t, "save") /\ removed' = removed \ held[t] /\ settled' = lone
  /\ UNCHANGED <<lists, removedFile, held, gone, met, slipped, lone>>

\* The removals, under the inventory's lock: less what is back, and what went.
Note(t) ==
  /\ at[t] = "note" /\ Goes(t, "save") /\ removed' = (removed \ held[t]) \cup gone[t] /\ settled' = lone
  /\ UNCHANGED <<lists, removedFile, held, gone, met, slipped, lone>>
Save(t, ok) ==
  /\ at[t] = "save" /\ Goes(t, "idle") /\ removedFile' = (IF ok THEN removed ELSE removedFile)
  /\ gone' = [gone EXCEPT ![t] = {}] /\ UNCHANGED <<lists, removed, held, met, slipped, lone, settled>>

\* POST /api/apps/discovered: "do not re-list known removals": which there are, and then without them.
AskRemoved(t) ==
  /\ at[t] = "ask" /\ Goes(t, "drop") /\ held' = [held EXCEPT ![t] = removed]
  /\ UNCHANGED <<lists, removal, gone, met, slipped, lone, settled>>
Drop(t, ok) ==
  LET out == listed \cap held[t] IN
  /\ at[t] = "drop" /\ Goes(t, "idle") /\ held' = [held EXCEPT ![t] = {}]
  /\ IF out = {} THEN UNCHANGED lists ELSE SaveList(listed \ out, ok)
  /\ UNCHANGED <<removal, gone, met, slipped, lone, settled>>

-----------------------------------------------------------------------------
\* The engine ends, wherever its threads are, and starts with what is saved.
Restart ==
  /\ listed' = listFile /\ removed' = removedFile /\ at' = [t \in Threads |-> "idle"]
  /\ slipped' = slipped \cup (removed \ removedFile) \cup (removedFile \ removed)
                \cup UNION {gone[t] : t \in {u \in Threads : at[u] = "note"}}
  /\ lone' = FALSE /\ settled' = FALSE /\ gone' = [t \in Threads |-> {}] /\ held' = gone'
  /\ UNCHANGED <<listFile, ever, removedFile, met>>

Next ==
  \/ \E t \in Threads :
       \/ (\E as \in SUBSET Apps : Read(t, as) \/ Report(t, as)) \/ Note(t) \/ AskRemoved(t)
       \/ \E ok \in BOOLEAN : Merge(t, ok) \/ Prune(t, ok) \/ Save(t, ok) \/ Drop(t, ok)
  \/ (\E ok \in BOOLEAN : Unreached(ok)) \/ Restart

Spec == Init /\ [][Next]_vars

-----------------------------------------------------------------------------
(* Properties.                                                             *)

\* A sync that met nobody leaves the list and the removals right, whatever requests that met, failures and
\* ends had made of them: nothing is both, and what is listed is in the reading, or Apple's.
Repaired ==
  settled => \E t \in Syncs :
    /\ listed \cap removed = {} /\ listed \subseteq held[t] \cup Apple /\ held[t] \subseteq listed

\* What has left the list is on record as removed, so that no report lists it again, through failing saves
\* and ends: unless a failure or an end came between the two stores, or two threads met.
Remembered ==
  ~met => \A a \in ever \ slipped :
    a \in listed \/ a \in removed \/ \E t \in Threads : at[t] = "note" /\ a \in gone[t]

\* Apple's own apps, which no reading names, are never taken for removed.
AppleStays == removed \cap Apple = {} /\ \A t \in Threads : gone[t] \cap Apple = {}

AppsListed == Repaired /\ Remembered /\ AppleStays

=============================================================================
