----------------------------- MODULE MicSessions ----------------------------
(***************************************************************************)
(* Live microphone sessions (capability_monitor.py, capability_audio.py):  *)
(* every five seconds the monitor reads who holds a session on which input *)
(* device and whether it captures. A process has one series from its first *)
(* session until it ends, or has held none for half an hour; then the      *)
(* series goes to the log. A monitor that starts closes what the last one  *)
(* left open.                                                              *)
(***************************************************************************)
EXTENDS Integers, FiniteSets

CONSTANTS
  Procs,
  Pid,         \* Pid[p], the number Windows gives a process; one that ended may leave it to another
  Devices      \* 1..n, the input devices, in the order in which they are read

MicAssumption == IsFiniteSet(Devices) /\ Devices = 1..Cardinality(Devices) /\ DOMAIN Pid = Procs

VARIABLES
  \* Windows: the processes that run, those that have, and held[p][d], the session of each on each device
  alive, born, held,
  \* the monitor: "off", "on", or on with its thread dead; and its live processes
  on, live,
  \* series[p] and its copy in the file: whether there is one, with a use, in use
  series, kept,
  \* the processes with a line in the log
  lines,
  \* history: those heard capturing; left behind by the switch; taken for another; lost by a failure or a crash
  caught, left, mistaken, slipped,
  \* history: Windows is as it was when the monitor last read it, to the end
  read

windows == <<alive, born, held>>
monitor == <<on, live, series>>
history == <<caught, left, mistaken, slipped>>
vars    == <<windows, monitor, kept, lines, history, read>>

Series == {"none", "silent", "used", "inUse"}

TypeOK ==
  /\ alive \subseteq born /\ born \subseteq Procs /\ held \in [Procs -> [Devices -> {"none", "idle", "active"}]]
  /\ on \in {"off", "on", "dead"} /\ read \in BOOLEAN /\ live \subseteq Procs
  /\ {series, kept} \subseteq [Procs -> Series]
  /\ \A s \in {lines, caught, left, mistaken, slipped} : s \subseteq Procs

NoSession == [d \in Devices |-> "none"]
NoneOpen  == [p \in Procs |-> "none"]
Init ==
  /\ alive = {} /\ born = {} /\ held = [p \in Procs |-> NoSession]
  /\ on = "off" /\ live = {} /\ series = NoneOpen /\ kept = NoneOpen
  /\ lines = {} /\ caught = {} /\ left = {} /\ mistaken = {} /\ slipped = {} /\ read = FALSE

-----------------------------------------------------------------------------
(* Windows.                                                                *)

Elsewhere == read' = FALSE /\ UNCHANGED <<monitor, kept, lines, history>>
Launch(p) ==
  /\ p \notin born /\ \A q \in alive : Pid[q] # Pid[p]
  /\ alive' = alive \cup {p} /\ born' = born \cup {p} /\ UNCHANGED held /\ Elsewhere
Quit(p) ==
  /\ p \in alive /\ alive' = alive \ {p} /\ held' = [held EXCEPT ![p] = NoSession] /\ UNCHANGED born /\ Elsewhere
Session(p, d, s) ==
  /\ p \in alive /\ held' = [held EXCEPT ![p][d] = s] /\ UNCHANGED <<alive, born>> /\ Elsewhere

-----------------------------------------------------------------------------
(* The monitor.                                                            *)

\* What a read tells of: the processes that hold a session, and the one each is taken for, known under
\* its number or new.
Holders  == {p \in alive : held[p] # NoSession}
Known(p) == {q \in live : Pid[q] = Pid[p]}
TakenFor(q) == {p \in Holders : Pid[p] = Pid[q]}

Captures(p) == \E d \in Devices : held[p][d] = "active"
\* A series follows the rows of its process, one device after the other: the last row tells whether it is
\* in use.
LastActive(p) == \E d \in Devices : held[p][d] = "active" /\ \A e \in Devices : e > d => held[p][e] = "none"
Heard(s, p) ==
  CASE s = "none"                                                   -> "none"
    [] s # "none" /\ LastActive(p)                                  -> "inUse"
    [] s # "none" /\ ~LastActive(p) /\ (s = "inUse" \/ Captures(p)) -> "used"
    [] s # "none" /\ ~LastActive(p) /\ s # "inUse" /\ ~Captures(p)  -> s

\* Broken on purpose (mutant): a use that is no longer heard goes on.
EndedNever(s) == s

Ended(s) == IF s = "inUse" THEN "used" ELSE s

\* Broken on purpose (mutant): only uses that are over go to the log.
CloseEnded(gone, open) ==
  /\ series' = [p \in Procs |-> IF p \in gone THEN "none" ELSE open[p]]
  /\ lines' = lines \cup {p \in gone : open[p] \in {"used", "silent"}}

\* _close, of some: a line for each that has a series. When the log cannot be written the one in hand is gone.
Close(gone, open) ==
  /\ series' = [p \in Procs |-> IF p \in gone THEN "none" ELSE open[p]]
  /\ lines' = lines \cup {p \in gone : open[p] # "none"}

\* poll_live. A new process whose program cannot be told is passed over. Those it no longer hears it goes through
\* one by one: it leaves at a line that cannot be written, and those it has not reached stay as they were.
Poll ==
  \E named \in SUBSET {p \in Holders : Known(p) = {}} :
    LET now   == live \cup named
        seen  == {q \in now : TakenFor(q) # {}}
        fresh == [p \in Procs |-> IF p \in named THEN "silent" ELSE series[p]]
        told(reached) == [q \in Procs |-> IF q \in seen THEN Heard(fresh[q], CHOOSE p \in TakenFor(q) : TRUE)
                                           ELSE IF q \in reached THEN Ended(fresh[q]) ELSE fresh[q]]
    IN
    /\ on = "on"
    /\ \E reached \in SUBSET (now \ seen) : \E gone \in SUBSET reached :
         /\ reached \ alive \subseteq gone
         /\ \/ /\ reached = now \ seen /\ read' = TRUE
               /\ Close(gone, told(reached)) /\ UNCHANGED slipped
            \/ \E p \in gone : /\ told(reached)[p] # "none" /\ slipped' = slipped \cup {p} /\ read' = FALSE
                               /\ Close(gone \ {p}, [told(reached) EXCEPT ![p] = "none"])
         /\ live' = now \ gone /\ left' = left \ gone
    /\ caught' = caught \cup {q \in seen : series'[q] = "inUse"}
    /\ mistaken' = mistaken \cup UNION {TakenFor(q) \cup {q} : q \in {r \in seen : r \notin TakenFor(r)}}
    /\ UNCHANGED <<windows, on, kept>>

\* save, now and then.
Save == /\ on = "on" /\ kept' \in {series, kept} /\ UNCHANGED <<windows, monitor, lines, history, read>>

\* Broken on purpose (mutant): what the last life left open stays open.
TurnOnOpen ==
  /\ on = "off" /\ on' = "on" /\ left' = left \cup live /\ read' = FALSE
  /\ UNCHANGED <<windows, live, series, kept, lines, caught, mistaken, slipped>>

\* start_live_gap: what is open is closed. Nothing catches a failure of that, and the thread ends. The
\* live processes of the same object's last life stay, without their series.
TurnOn ==
  /\ on = "off"
  /\ \/ /\ on' = "on" /\ Close(Procs, series) /\ left' = left \cup live /\ UNCHANGED slipped
     \/ \E p \in Procs, some \in SUBSET Procs :
          /\ series[p] # "none" /\ p \notin some /\ on' = "dead" /\ slipped' = slipped \cup {p}
          /\ Close(some, [series EXCEPT ![p] = "none"]) /\ left' = left \cup live
  /\ read' = FALSE /\ UNCHANGED <<windows, live, kept, caught, mistaken>>
TurnOff ==
  /\ on # "off" /\ on' = "off" /\ read' = FALSE /\ kept' \in {series, kept}
  /\ UNCHANGED <<windows, live, series, lines, history>>

Crash ==
  /\ on' = "off" /\ live' = {} /\ left' = {} /\ series' = kept
  /\ slipped' = slipped \cup {p \in Procs : series[p] # kept[p]}
  /\ read' = FALSE /\ UNCHANGED <<windows, kept, lines, caught, mistaken>>

Next ==
  \/ \E p \in Procs : Launch(p) \/ Quit(p) \/ \E d \in Devices, s \in {"none", "idle", "active"} : Session(p, d, s)
  \/ Poll \/ Save \/ TurnOn \/ TurnOff \/ Crash

Spec == Init /\ [][Next]_vars

-----------------------------------------------------------------------------
(* Properties.                                                             *)

\* "Whether it is capturing now": each read leaves in use exactly the series of the live processes that
\* capture; unless the switch was off in between, another process had the number, or
\* a process captures on one device and is idle on the next (only the last one read counts).
Torn(p)     == Captures(p) /\ \E d \in Devices : held[p][d] = "idle"
CapturingTold ==
  read => \A p \in live \ (left \cup mistaken) :
            Torn(p) \/ (series[p] = "inUse" <=> p \in alive /\ Captures(p))

\* A process heard capturing is never forgotten: it is in an open series or in the log, through restarts,
\* switches and long absences, unless a failure or a crash lost it.
Recorded == caught \subseteq lines \cup {p \in Procs : series[p] # "none"} \cup slipped

\* "Closes sessions that were not closed": while the monitor works no series is open but of a process it
\* watches.
OpenIsLive == on = "on" => \A p \in Procs \ live : series[p] = "none"

\* Who captures is said, and who has captured is on record.
SessionsTold == CapturingTold /\ Recorded /\ OpenIsLive

=============================================================================
