--------------------------- MODULE CapabilityUses ---------------------------
(***************************************************************************)
(* The record of who used a capability (capability_monitor.py), for one    *)
(* program: from Windows' history, a database a task copies every five     *)
(* minutes, and from live microphone sessions. Uses less than a gap apart  *)
(* are one series; a series that ended is appended to a log, at once; the  *)
(* open series and the place reached in the history are saved now and      *)
(* then. A copy is read at once and its rows are added one by one, while   *)
(* Windows goes on. What is not needed for the counting (identities,       *)
(* durations, the registry's last use) is left out.                        *)
(***************************************************************************)
EXTENDS Integers, FiniteSets, FiniteSetsExt

CONSTANTS
  Uses,        \* 1..n, the program's uses, in the order in which they start
  Gap,         \* MERGE_GAP_SECONDS
  MaxTime,     \* bound: the clock
  NoSeries

Times  == 0..MaxTime
Series == [counts : [Uses -> Nat], lastStart : Times, lastStop : Times, inUse : BOOLEAN]
Cursor == [id : Nat, start : Times, open : SUBSET Nat]
State  == [open : Series \cup {NoSeries}, cursor : Cursor, ingested : Times]
Rows   == [id : Nat, use : Uses, start : Times, stop : Times, update : BOOLEAN]

ASSUME UsesAssumption ==
  /\ IsFiniteSet(Uses) /\ Uses = 1..Cardinality(Uses)
  /\ Gap \in Nat /\ MaxTime \in Nat \ {0} /\ NoSeries \notin Series

VARIABLES
  \* Windows: the clock, each use's start and end, its row in the database as it now is (0: none)
  now, start, stop, row, top,
  \* the copy the task made: when, and what it holds
  copy,
  \* the monitor: whether it is on, its open series and its place in the history, both as saved, and of a
  \* poll at work the rows not yet added, the place it will have reached and the copy's time (0: none at work)
  on, mem, dirty, file, poll,
  \* how often each use is counted in the log
  logged,
  \* history: a series was logged since the last save; the log and the state parted, rows were lost or crossed,
  \* or the series of a use was closed before its end was handled
  ahead, torn

windows == <<now, start, stop, row, top, copy>>
vars    == <<windows, on, mem, dirty, file, poll, logged, ahead, torn>>

TypeOK ==
  /\ now \in Times /\ start \in [Uses -> Times] /\ stop \in [Uses -> Times] /\ row \in [Uses -> Nat] /\ top \in Nat
  /\ copy \in [at : Times, rows : SUBSET Rows]
  /\ {on, dirty, ahead, torn} \subseteq BOOLEAN
  /\ {mem, file} \subseteq State /\ poll \in [rows : SUBSET Rows, cursor : Cursor, copied : Times]
  /\ logged \in [Uses -> Nat]

Origin  == [id |-> 0, start |-> 0, open |-> {}]
Nothing == [open |-> NoSeries, cursor |-> Origin, ingested |-> 0]
NoPoll  == [rows |-> {}, cursor |-> Origin, copied |-> 0]
Init ==
  /\ now = 1 /\ start = [u \in Uses |-> 0] /\ stop = [u \in Uses |-> 0]
  /\ row = [u \in Uses |-> 0] /\ top = 0 /\ copy = [at |-> 0, rows |-> {}]
  /\ on = FALSE /\ mem = Nothing /\ dirty = FALSE /\ file = Nothing /\ poll = NoPoll
  /\ logged = [u \in Uses |-> 0] /\ ahead = FALSE /\ torn = FALSE

Never == [u \in Uses |-> 0]
Plus(f, g) == [u \in Uses |-> f[u] + g[u]]

-----------------------------------------------------------------------------
(* Windows, and the copying task. A program's uses do not overlap.         *)

Begun == {u \in Uses : start[u] > 0}
Ours  == UNCHANGED <<on, mem, dirty, file, poll, logged, ahead, torn>>
Tick == now < MaxTime /\ now' = now + 1 /\ UNCHANGED <<start, stop, row, top, copy>> /\ Ours
Begin(u) ==
  /\ u \notin Begun /\ Begun = 1..(u - 1) /\ \A v \in Begun : stop[v] > 0
  /\ start' = [start EXCEPT ![u] = now] /\ row' = [row EXCEPT ![u] = top + 1] /\ top' = top + 1
  /\ UNCHANGED <<now, stop, copy>> /\ Ours
Finish(u) ==
  /\ u \in Begun /\ stop[u] = 0 /\ stop' = [stop EXCEPT ![u] = now]
  /\ UNCHANGED <<now, start, row, top, copy>> /\ Ours
\* The database is made anew, and its row numbers start over.
Recreate ==
  /\ top > 0 /\ top' = 0 /\ row' = Never /\ UNCHANGED <<now, start, stop, copy>> /\ Ours
Copy ==
  /\ copy.at < now
  /\ copy' = [at |-> now, rows |-> {[id |-> row[u], use |-> u, start |-> start[u], stop |-> stop[u], update |-> FALSE] :
                                      u \in {v \in Uses : row[v] > 0}}]
  /\ UNCHANGED <<now, start, stop, row, top>> /\ Ours

-----------------------------------------------------------------------------
(* What the monitor makes of it.                                           *)

\* read_history: the rows after the cursor, and those that have ended since they were read.
Highest == Max({r.id : r \in copy.rows} \cup {0})
Known   == IF Highest < mem.cursor.id THEN 0 ELSE mem.cursor.id

\* Broken on purpose (mutant): the last row read is read again.
FreshAgain == {r \in copy.rows : r.id >= Known /\ (Known = 0 => r.start >= mem.cursor.start)}

Fresh   == {r \in copy.rows : r.id > Known /\ (Known = 0 => r.start >= mem.cursor.start)}

Reread  == {r \in copy.rows : r.id \in mem.cursor.open /\ r.id <= Known}
Ended   == {[r EXCEPT !.update = TRUE] : r \in {q \in Reread : q.stop > 0}}
Reached == [id    |-> Max({r.id : r \in Fresh \cup Ended} \cup {Known}),
            start |-> Max({r.start : r \in Fresh \cup Ended} \cup {mem.cursor.start}),
            open  |-> {r.id : r \in {q \in Fresh \cup Reread : q.stop = 0}}]

\* add_use, to [open, log]: the end of a use already counted; one more of the series; or a new series.
One(u) == [Never EXCEPT ![u] = 1]
LastOf(s) == Max({s.lastStart, s.lastStop})

\* Broken on purpose (mutant): a series that ended is not written to the log.
CloseSilently(m) == [m EXCEPT !.open = NoSeries]

Close(m) == [open |-> NoSeries, log |-> IF m.open = NoSeries THEN m.log ELSE Plus(m.log, m.open.counts)]

\* Broken on purpose (mutant): one more use leaves the series as it was, in use or not.
JoinedAsBefore(s, r) ==
  [s EXCEPT !.counts = Plus(@, One(r.use)), !.lastStart = Max({@, r.start}), !.lastStop = Max({@, r.stop})]

Joined(s, r) ==
  [counts |-> Plus(s.counts, One(r.use)), lastStart |-> Max({s.lastStart, r.start}),
   lastStop |-> Max({s.lastStop, r.stop}), inUse |-> r.stop = 0]

Joins(m, r) == m.open # NoSeries /\ r.start - LastOf(m.open) <= Gap
AddUse(m, r) ==
  IF r.update /\ m.open # NoSeries
  THEN [m EXCEPT !.open.lastStop = Max({@, r.stop}), !.open.inUse = FALSE]
  ELSE IF Joins(m, r)
  THEN [m EXCEPT !.open = Joined(@, r)]
  ELSE [Close(m) EXCEPT !.open = [counts |-> One(r.use), lastStart |-> r.start, lastStop |-> r.stop,
                                  inUse |-> r.stop = 0]]
\* sweep, once the copy is late enough to hold any use that would join the series.
Due(open, at) == open # NoSeries /\ ~open.inUse /\ at - LastOf(open) > Gap

Logs(log) == logged' = log /\ ahead' = (ahead \/ log # logged)

Counted == Plus(logged, IF mem.open = NoSeries THEN Never ELSE mem.open.counts)
\* Rows of a database made anew take the numbers of rows already read, and are not read themselves.
Skips   == \E r \in copy.rows : r.id <= Known /\ Counted[r.use] = 0
\* A use runs, and the end of the one before it, in the same copy, is handled after it.
Crosses == Ended # {} /\ \E r \in Fresh : r.stop = 0

\* poll_history reads a copy not yet read.
Poll ==
  /\ on /\ poll = NoPoll /\ copy.at > mem.ingested
  /\ poll' = [rows |-> Fresh \cup Ended, cursor |-> Reached, copied |-> copy.at]
  /\ torn' = (torn \/ Skips \/ Crosses)
  /\ UNCHANGED <<windows, on, mem, dirty, file, logged, ahead>>

\* Its rows are added one by one: the new ones by start, then the ends.
Before(r, q) ==
  \/ ~r.update /\ q.update
  \/ ~r.update /\ ~q.update /\ (r.start < q.start \/ (r.start = q.start /\ r.id < q.id))
  \/ r.update /\ q.update /\ r.id < q.id
Turn(r) == \A q \in poll.rows \ {r} : Before(r, q)

Add(r) ==
  /\ Turn(r) /\ poll' = [poll EXCEPT !.rows = @ \ {r}]
  /\ LET m == AddUse([open |-> mem.open, log |-> logged], r) IN
     mem' = [mem EXCEPT !.open = m.open] /\ Logs(m.log)
  /\ dirty' = TRUE /\ UNCHANGED <<windows, on, file, torn>>

\* The log cannot be written when a row ends the open series: that one is gone, the poll is given up, and
\* the rows before it are counted again at the next.
AddFails(r) ==
  /\ Turn(r) /\ mem.open # NoSeries /\ ~r.update /\ ~Joins([open |-> mem.open, log |-> logged], r)
  /\ mem' = [mem EXCEPT !.open = NoSeries] /\ poll' = NoPoll
  /\ torn' = TRUE /\ UNCHANGED <<windows, on, dirty, file, logged, ahead>>

\* Only then is the place reached kept.
Reach ==
  /\ poll.copied > 0 /\ poll.rows = {} /\ poll' = NoPoll
  /\ mem' = [mem EXCEPT !.cursor = poll.cursor, !.ingested = poll.copied]
  /\ dirty' = TRUE /\ UNCHANGED <<windows, on, file, logged, ahead, torn>>

\* After a poll, and after a request that changes a permission, which comes at any time, between two rows too;
\* a program whose file is not identified is not swept. The end of a use of the series may still be to come.
Sweep ==
  /\ on /\ Due(mem.open, copy.at)
  /\ mem' = [mem EXCEPT !.open = NoSeries]
  /\ \/ /\ Logs(Close([open |-> mem.open, log |-> logged]).log) /\ dirty' = TRUE
        /\ torn' = (torn \/ \E r \in poll.rows : r.update)
     \/ torn' = TRUE /\ UNCHANGED <<dirty, logged, ahead>>
  /\ UNCHANGED <<windows, on, file, poll>>

\* save, every minute: the mark is cleared before the file is written.
Save ==
  /\ on /\ poll = NoPoll /\ dirty /\ dirty' = FALSE
  /\ \/ file' = mem /\ ahead' = FALSE
     \/ UNCHANGED <<file, ahead>>
  /\ UNCHANGED <<windows, on, mem, poll, logged, torn>>

\* The switch, which waits for a poll at work (for three seconds: one that takes longer is left out); and the
\* engine's process, which may end at any time.
TurnOn == ~on /\ on' = TRUE /\ UNCHANGED <<windows, mem, dirty, file, poll, logged, ahead, torn>>
TurnOff ==
  /\ on /\ poll = NoPoll /\ on' = FALSE /\ dirty' = FALSE
  /\ \/ ~dirty /\ UNCHANGED <<file, ahead>>
     \/ dirty /\ file' = mem /\ ahead' = FALSE
     \/ dirty /\ UNCHANGED <<file, ahead>>
  /\ UNCHANGED <<windows, mem, poll, logged, torn>>
Crash ==
  /\ on' = FALSE /\ mem' = file /\ poll' = NoPoll /\ dirty' = FALSE /\ ahead' = FALSE /\ torn' = (torn \/ ahead)
  /\ UNCHANGED <<windows, file, logged>>

Next ==
  \/ Tick \/ Recreate \/ Copy \/ \E u \in Uses : Begin(u) \/ Finish(u)
  \/ \E r \in poll.rows : Add(r) \/ AddFails(r)
  \/ Poll \/ Reach \/ Sweep \/ Save \/ TurnOn \/ TurnOff \/ Crash

Spec == Init /\ [][Next]_vars

-----------------------------------------------------------------------------
(* Properties.                                                             *)

\* The log and the open series count every use that was read once, "nothing is hidden" and nothing doubled,
\* through overlapping copies, ends written later into rows already read, a database made anew, restarts
\* and crashes; unless the engine crashed with a series logged since the last save, the log could not be
\* written, a request's sweep closed a series before the end of one of its uses was handled, or a use began and
\* the one before it ended between two copies (Crosses): that one's end then marks the running use as over, and
\* its own end may find the series closed and count it again.
CountedOnce == ~torn => \A u \in Uses : Counted[u] <= 1
CountedAll  == ~torn => \A r \in copy.rows : mem.ingested = copy.at => Counted[r.use] = 1

\* A series that is not in use holds no use that goes on in the copy that was read.
InUseTold ==
  ~torn /\ mem.ingested = copy.at /\ mem.open # NoSeries =>
    \A r \in copy.rows : r.stop = 0 => mem.open.counts[r.use] = 1 /\ mem.open.inUse

\* What the log says of the uses is what there was.
UsesTold == CountedOnce /\ CountedAll /\ InUseTold

=============================================================================
