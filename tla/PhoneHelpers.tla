---------------------------- MODULE PhoneHelpers ----------------------------
(***************************************************************************)
(* The helper processes that listen to the iPhone (app.py): a capture      *)
(* session runs two of them until the user stops it and its logs are       *)
(* analysed (PrivacyCaptureManager); the evidence monitor's thread keeps   *)
(* one running over USB while its switch is on (IPhoneEvidenceMonitor).    *)
(* A helper may end at any time, and outlives the engine that started it.  *)
(***************************************************************************)
EXTENDS Integers, FiniteSets

CONSTANTS
  Helpers,     \* 1..n, the processes, in the order in which they are started; bound: n of them
  Sessions,    \* 1..n, the capture sessions; bound: n of them
  None         \* 0

HelpersAssumption ==
  /\ IsFiniteSet(Helpers) /\ Helpers = 1..Cardinality(Helpers)
  /\ IsFiniteSet(Sessions) /\ Sessions = 1..Cardinality(Sessions) /\ None = 0

VARIABLES
  alive, used,     \* the helpers that run, and how many have been started
  procs, session,  \* the capture manager: its processes, and its session
  begun, results,  \* how many sessions have begun, and those with a result in the privacy controls
  worker, child,   \* the evidence worker: where it is, and the process it started
  listed,          \* the process others see, to terminate it
  stop, hired,     \* its stop event, and whether its list of workers has one
  dropped,         \* history: sessions whose helpers had ended by themselves when another start was asked
                   \* for, which worked or failed, and those of an engine that ended
  strayed          \* history: helpers left behind by an engine that ended or a worker that failed, and those
                   \* that were about to be started, or not yet listed, when the switch went off

capture  == <<procs, session, begun, results, dropped>>
evidence == <<worker, child, listed, stop, hired>>
vars     == <<alive, used, capture, evidence, strayed>>

TypeOK ==
  /\ alive \subseteq 1..used /\ used \in 0..Cardinality(Helpers)
  /\ procs \subseteq 1..used /\ session \in 0..begun /\ begun \in 0..Cardinality(Sessions)
  /\ results \subseteq 1..begun /\ dropped \subseteq 1..begun /\ strayed \subseteq 1..used
  /\ worker \in {"none", "loop", "command", "spawned", "reading", "break", "waiting"}
  /\ {child, listed} \subseteq 0..used /\ {stop, hired} \subseteq BOOLEAN

Init ==
  /\ alive = {} /\ used = 0 /\ procs = {} /\ session = None /\ begun = 0 /\ results = {}
  /\ worker = "none" /\ child = None /\ listed = None /\ stop = FALSE /\ hired = FALSE
  /\ dropped = {} /\ strayed = {}

-----------------------------------------------------------------------------
(* The capture manager. Each request holds its lock throughout.            *)

Room(n) == used + n <= Cardinality(Helpers)
Idle == procs \cap alive = {}

\* start: two helpers that still run after a second. The session of helpers that ended is replaced.
Begin ==
  /\ Idle /\ Room(2) /\ begun < Cardinality(Sessions)
  /\ used' = used + 2 /\ procs' = {used + 1, used + 2} /\ alive' = alive \cup procs'
  /\ begun' = begun + 1 /\ session' = begun + 1
  /\ dropped' = dropped \cup ({session} \ {None}) /\ UNCHANGED <<results, evidence, strayed>>

\* Broken on purpose (mutants): what a failed start has started goes on.
BeginHalfLeaves ==
  /\ Idle /\ Room(1) /\ used' = used + 1 /\ procs' = {used + 1} /\ alive' = alive \cup procs'
  /\ UNCHANGED <<session, begun, results, dropped, evidence, strayed>>
BeginLeaves ==
  /\ Idle /\ Room(2) /\ used' = used + 2 /\ procs' = {} /\ dropped' = dropped \cup ({session} \ {None})
  /\ alive' = alive \cup {used + 1} /\ UNCHANGED <<session, begun, results, evidence, strayed>>

\* The second cannot be started: the first is ended, and the session stays that of the one before.
BeginHalf ==
  /\ Idle /\ Room(1) /\ used' = used + 1 /\ procs' = {used + 1}
  /\ UNCHANGED <<alive, session, begun, results, dropped, evidence, strayed>>

\* The first cannot be started: no process is left of the session before.
BeginNone ==
  /\ Idle /\ procs' = {} /\ dropped' = dropped \cup ({session} \ {None})
  /\ UNCHANGED <<alive, used, session, begun, results, evidence, strayed>>

\* One has ended within the second: the other is ended, and neither is kept.
BeginFails ==
  /\ Idle /\ Room(2) /\ used' = used + 2 /\ procs' = {} /\ dropped' = dropped \cup ({session} \ {None})
  /\ UNCHANGED <<alive, session, begun, results, evidence, strayed>>

\* Broken on purpose (mutant): the session is given up before its logs are read.
StopForgets ==
  /\ procs # {} /\ session # None /\ alive' = alive \ procs /\ procs' = {} /\ session' = None
  /\ results' \in {results, results \cup {session}}
  /\ UNCHANGED <<used, begun, dropped, evidence, strayed>>

\* stop: the helpers are ended, their logs analysed and the result stored; either may fail, and it may be
\* asked again.
Stop ==
  /\ procs # {} /\ session # None /\ alive' = alive \ procs
  /\ \/ results' = results \cup {session} /\ procs' = {} /\ session' = None
     \/ UNCHANGED <<results, procs, session>>
  /\ UNCHANGED <<used, begun, dropped, evidence, strayed>>

-----------------------------------------------------------------------------
(* The evidence monitor.                                                   *)

\* Switch.set: a new stop event; start, unless its list of workers has one, which nothing ever empties.
TurnOn ==
  /\ stop \/ ~hired
  /\ stop' = FALSE /\ hired' = TRUE /\ worker' = IF hired THEN worker ELSE "loop"
  /\ UNCHANGED <<alive, used, capture, child, listed, strayed>>

\* Broken on purpose (mutant): the worker is told to stop, and its process is left to it.
TurnOffOnly ==
  /\ hired /\ ~stop /\ stop' = TRUE
  /\ strayed' = strayed \cup (IF worker = "spawned" THEN {child} ELSE {})
  /\ UNCHANGED <<alive, used, capture, worker, child, listed, hired>>

\* shutdown: the process it sees is terminated. One that is started but not yet listed is not.
TurnOff ==
  /\ hired /\ ~stop /\ stop' = TRUE /\ alive' = alive \ {listed}
  /\ strayed' = strayed \cup (IF worker = "spawned" THEN {child} ELSE {})
  /\ UNCHANGED <<used, capture, worker, child, listed, hired>>

\* The worker looks at its stop event, and for the helper's command.
Look ==
  /\ worker = "loop" /\ worker' = (IF stop THEN "none" ELSE "command")
  /\ UNCHANGED <<alive, used, capture, child, listed, stop, hired, strayed>>
\* The helper is started, whatever has become of the switch since; or there is none, or it cannot be.
Spawn ==
  /\ worker = "command"
  /\ \/ /\ Room(1) /\ used' = used + 1 /\ child' = used + 1 /\ alive' = alive \cup {used + 1} /\ worker' = "spawned"
        /\ strayed' = strayed \cup (IF stop THEN {used + 1} ELSE {})
     \/ worker' = "waiting" /\ UNCHANGED <<alive, used, child, strayed>>
  /\ UNCHANGED <<capture, listed, stop, hired>>
Register ==
  /\ worker = "spawned" /\ worker' = "reading" /\ listed' = child
  /\ UNCHANGED <<alive, used, capture, child, stop, hired, strayed>>
\* A line: the worker leaves its loop when it is to stop, and when it cannot store what it was told.
Line ==
  /\ worker = "reading" /\ child \in alive
  /\ \/ stop /\ worker' = "break" /\ UNCHANGED <<child, listed, strayed>>
     \/ ~stop /\ worker' = "waiting" /\ child' = None /\ listed' = None /\ strayed' = strayed \cup {child}
  /\ UNCHANGED <<alive, used, capture, stop, hired>>
\* Its output has ended, or the worker stops to read: it waits for the helper's end, three seconds at most. Then
\* what was listed no longer is.
Done ==
  /\ \/ worker \in {"reading", "break"} /\ child \notin alive /\ worker' = IF stop THEN "none" ELSE "waiting"
     \/ worker = "break" /\ child \in alive /\ worker' = "waiting"
  /\ child' = None /\ listed' = None /\ strayed' = strayed \cup ({child} \cap alive)
  /\ UNCHANGED <<alive, used, capture, stop, hired>>
Retry ==
  /\ worker = "waiting" /\ worker' = "loop" /\ UNCHANGED <<alive, used, capture, child, listed, stop, hired, strayed>>

-----------------------------------------------------------------------------
\* A helper ends by itself: the phone is unplugged, or it has nobody to write to.
Ends(h) == h \in alive /\ alive' = alive \ {h} /\ UNCHANGED <<used, capture, evidence, strayed>>
\* The engine ends, by a crash or a handoff, and starts again. Its helpers go on.
Crash ==
  /\ procs' = {} /\ session' = None /\ dropped' = dropped \cup ({session} \ {None})
  /\ worker' = "none" /\ child' = None /\ listed' = None /\ stop' = FALSE /\ hired' = FALSE
  /\ strayed' = strayed \cup alive /\ UNCHANGED <<alive, used, begun, results>>

Next ==
  \/ Begin \/ BeginNone \/ BeginHalf \/ BeginFails \/ Stop
  \/ TurnOn \/ TurnOff \/ Look \/ Spawn \/ Register \/ Line \/ Done \/ Retry
  \/ (\E h \in Helpers : Ends(h)) \/ Crash

Spec == Init /\ [][Next]_vars

-----------------------------------------------------------------------------
(* Properties.                                                             *)

\* A helper that listens to the phone is in somebody's hand, who can end it, unless it strayed: the
\* engine ended, its worker failed, or its switch went off before it was listed.
NoOrphan == alive \subseteq procs \cup ({child} \cap 1..used) \cup strayed

\* "Off leaves no trace": with the switch off a helper of its worker only runs if it strayed: one the worker
\* was about to start or to list when the switch went off, or had lost before.
OffIsOff == stop => alive \subseteq procs \cup strayed

\* While a capture runs its session can be stopped.
StopFinds == procs \cap alive # {} => session # None

\* A session that began has a result, or one can still be had, unless its helpers had ended by themselves when
\* another start was asked for, or the engine ended.
ResultKept == \A s \in 1..begun : s \in results \cup dropped \/ (session = s /\ procs # {})

\* A helper never outlives whoever started it, and a capture never loses what it was for.
HelpersHeld == NoOrphan /\ OffIsOff /\ StopFinds /\ ResultKept

=============================================================================
