------------------------------ MODULE Studies ------------------------------
(***************************************************************************)
(* The classifier's engine (DomainClassificationEngine): threads that      *)
(* observe domains and ask for studies of them, its workers, its file and  *)
(* the thread that writes it. Everything under the engine's lock is one    *)
(* step; between them a caller holds what it is about to queue, and a      *)
(* worker the domain it studies.                                           *)
(***************************************************************************)
EXTENDS DomainEntry, Sequences, SequencesExt

CONSTANTS
  Handlers,  \* DNS handlers: each asks for a study of what it has resolved
  Requests,  \* dashboard requests for studies
  Workers,   \* BACKGROUND_ANALYSIS_WORKERS of them
  Hints,     \* the colours a label or a page may suggest
  Stopper    \* the None that ends a worker

Callers == Handlers \cup Requests

ASSUME StudiesAssumption ==
  /\ IsFiniteSet(Callers) /\ Handlers \cap Requests = {} /\ IsFiniteSet(Workers) /\ Hints \subseteq Colours
  /\ Stopper \notin Domains

VARIABLES
  mem,       \* data["domains"]
  disk,      \* the file
  dirty,     \* _dirty
  unsaved,   \* history: the last write a caller asked for failed, and it was told
  pending,   \* domains queued or being studied
  jobs,      \* the queue of the workers
  hand,      \* hand[c]: the domains caller c is yet to schedule, and the one it is about to queue
  work,      \* work[w]: where worker w is, and its domain
  flusher,   \* the flusher's thread is alive
  stopping,  \* the stopping event
  up         \* the process runs

entries == <<mem, disk, dirty, unsaved>>
queues  == <<pending, jobs, hand, work>>
vars    == <<mem, disk, dirty, unsaved, pending, jobs, hand, work, flusher, stopping, up>>

Empty  == [d \in Domains |-> Blank]
NoHand == [todo |-> {}, force |-> FALSE, put |-> Stopper]
AtTop  == [at |-> "top", job |-> Stopper]

TypeOK ==
  /\ mem \in [Domains -> Entry] /\ disk \in [Domains -> Entry]
  /\ {dirty, unsaved, flusher, stopping, up} \subseteq BOOLEAN
  /\ pending \subseteq Domains /\ jobs \in Seq(Domains \cup {Stopper})
  /\ hand \in [Callers -> [todo : SUBSET Domains, force : BOOLEAN, put : Domains \cup {Stopper}]]
  /\ work \in [Workers -> [at : {"top", "get", "study", "discard", "gone"}, job : Domains \cup {Stopper}]]

Init ==
  /\ mem = Empty /\ disk = Empty /\ dirty = FALSE /\ unsaved = FALSE
  /\ pending = {} /\ jobs = <<>> /\ hand = [c \in Callers |-> NoHand]
  /\ work = [w \in Workers |-> AtTop]
  /\ flusher = FALSE /\ stopping = FALSE /\ up = TRUE

-----------------------------------------------------------------------------
(* The file. *)

MarkDirty ==
  /\ dirty' = TRUE
  /\ flusher' = (flusher \/ ~stopping)
  /\ UNCHANGED <<disk, unsaved>>

\* _save_locked, called by one who is told when it fails: the mark is gone all the same.
Save ==
  /\ dirty' = FALSE
  /\ \E ok \in BOOLEAN : disk' = (IF ok THEN mem' ELSE disk) /\ unsaved' = ~ok
  /\ UNCHANGED flusher

\* A change is written later; what only counts (hits) need not be.
Noted == \/ MarkDirty
         \/ mem' = mem /\ UNCHANGED <<disk, dirty, unsaved, flusher>>

Put(d, e) == mem' = [mem EXCEPT ![d] = e]
Others    == UNCHANGED <<queues, stopping, up>>

\* Broken on purpose (mutant): a write that fails is taken for one that was done.
FlushForgets(ok) ==
  /\ dirty /\ UNCHANGED mem
  /\ dirty' = FALSE /\ disk' = (IF ok THEN mem ELSE disk) /\ UNCHANGED unsaved

Flush(ok) ==
  /\ dirty /\ UNCHANGED mem
  /\ IF ok THEN disk' = mem /\ dirty' = FALSE /\ unsaved' = FALSE
     ELSE UNCHANGED <<disk, dirty, unsaved>>

\* Broken on purpose (mutant): a write that fails ends the thread.
FlusherEnds ==
  /\ up /\ flusher
  /\ \/ \E ok \in BOOLEAN : Flush(ok)
     \/ ~dirty /\ UNCHANGED entries
  /\ flusher' = (~stopping /\ ~dirty')
  /\ Others

\* The flusher wakes every few seconds, writes, and looks whether the engine stops.
Flusher ==
  /\ up /\ flusher
  /\ \/ \E ok \in BOOLEAN : Flush(ok)
     \/ ~dirty /\ UNCHANGED entries
  /\ flusher' = ~stopping
  /\ Others

-----------------------------------------------------------------------------
(* Callers. *)

Idle(c) == up /\ hand[c] = NoHand

Sees(d, app, hint) == (\E new \in BOOLEAN : Put(d, Observed(d, mem[d], app, hint, new))) /\ Noted

\* A query was answered. What is still preliminary is to be studied.
Query(c, d) ==
  /\ Idle(c) /\ Sees(d, {}, "green")
  /\ hand' = IF mem'[d].stage = "preliminary" THEN [hand EXCEPT ![c].todo = {d}] ELSE hand
  /\ UNCHANGED <<pending, jobs, work, stopping, up>>

\* The iPhone's evidence names an app, the user's rule a label: no study is asked for.
Sighting(d, app, hint) == up /\ Sees(d, app, hint) /\ Others

\* request_analysis: of one domain, known or not, or of all that are known.
Request(c, ds, force) ==
  /\ Idle(c)
  /\ hand' = [hand EXCEPT ![c] = [todo |-> ds, force |-> force, put |-> Stopper]]
  /\ UNCHANGED <<entries, pending, jobs, work, flusher, stopping, up>>
RequestAll(c, force) ==
  Request(c, {d \in Domains : Known(mem[d]) /\ (force \/ mem[d].stage # "studied")}, force)

Schedule(c, d) ==
  LET wanted == (hand[c].force \/ mem[d].stage # "studied") /\ d \notin pending
      rest   == [hand[c] EXCEPT !.todo = @ \ {d}]
      done   == IF rest.todo = {} THEN NoHand ELSE rest
  IN
  /\ up /\ hand[c].put = Stopper /\ d \in hand[c].todo
  /\ IF Known(mem[d]) THEN UNCHANGED <<entries, flusher>> ELSE Put(d, NewEntry) /\ MarkDirty
  /\ hand' = [hand EXCEPT ![c] = IF wanted THEN [rest EXCEPT !.put = d] ELSE done]
  /\ pending' = IF wanted THEN pending \cup {d} ELSE pending
  /\ UNCHANGED <<jobs, work, stopping, up>>

Enqueue(c) ==
  /\ up /\ hand[c].put # Stopper
  /\ jobs' = Append(jobs, hand[c].put)
  /\ hand' = [hand EXCEPT ![c] = IF @.todo = {} THEN NoHand ELSE [@ EXCEPT !.put = Stopper]]
  /\ UNCHANGED <<entries, pending, work, flusher, stopping, up>>

\* mark_privacy_evidence and set_reviewed_category write at once, apply_ai_verdict does not.
Evidence(d) == up /\ (\E new \in BOOLEAN : Put(d, Confirmed(mem[d], new))) /\ Save /\ Others
Category(d, kind) == up /\ Known(mem[d]) /\ Put(d, [mem[d] EXCEPT !.kind = kind]) /\ Save /\ Others
Review(d, colour) ==
  up /\ (\E new \in BOOLEAN : Put(d, Verdict(d, mem[d], colour, new))) /\ MarkDirty /\ Others

Reclassify ==
  /\ up
  /\ \E new \in BOOLEAN : mem' = [d \in Domains |-> Reclassified(d, mem[d], new)]
  /\ Save /\ Others
Defer == up /\ mem' = [d \in Domains |-> Deferred(mem[d])] /\ Save /\ Others

-----------------------------------------------------------------------------
(* Workers. *)

At(w, p)      == up /\ work[w].at = p
GoTo(w, p, d) == work' = [work EXCEPT ![w] = [at |-> p, job |-> d]]

Look(w) ==
  /\ At(w, "top") /\ GoTo(w, IF stopping THEN "gone" ELSE "get", Stopper)
  /\ UNCHANGED <<entries, pending, jobs, hand, flusher, stopping, up>>
Get(w) ==
  /\ At(w, "get") /\ jobs # <<>>
  /\ GoTo(w, IF Head(jobs) = Stopper THEN "gone" ELSE "study", Head(jobs))
  /\ jobs' = Tail(jobs)
  /\ UNCHANGED <<entries, pending, hand, flusher, stopping, up>>

\* The study of the public page, seconds long and without the lock, and what is made of it.
Analyze(w, result) ==
  /\ At(w, "study")
  /\ \E new \in BOOLEAN : LET d == work[w].job IN Put(d, Analyzed(d, mem[d], result, new))
  /\ MarkDirty /\ GoTo(w, "discard", work[w].job)
  /\ UNCHANGED <<pending, jobs, hand, stopping, up>>
\* Broken on purpose (mutants): the domain stays pending; the worker ends.
RaisePending(w) ==
  /\ At(w, "study") /\ GoTo(w, "top", Stopper)
  /\ UNCHANGED <<entries, pending, jobs, hand, flusher, stopping, up>>
RaiseEnds(w) ==
  /\ At(w, "study") /\ GoTo(w, "gone", Stopper)
  /\ pending' = pending \ {work[w].job}
  /\ UNCHANGED <<entries, jobs, hand, flusher, stopping, up>>

\* It raises: one that cannot be studied never stops the worker.
Raise(w) ==
  /\ At(w, "study") /\ GoTo(w, "discard", work[w].job)
  /\ UNCHANGED <<entries, pending, jobs, hand, flusher, stopping, up>>

Discard(w) ==
  /\ At(w, "discard") /\ GoTo(w, "top", Stopper)
  /\ pending' = pending \ {work[w].job}
  /\ UNCHANGED <<entries, jobs, hand, flusher, stopping, up>>

Worker(w) == Look(w) \/ Get(w) \/ (\E r \in Hints \cup {"failed"} : Analyze(w, r)) \/ Raise(w) \/ Discard(w)

-----------------------------------------------------------------------------
(* The end of the process, and its start. *)

Stop ==
  /\ up /\ ~stopping /\ stopping' = TRUE
  /\ jobs' = jobs \o [i \in 1..Cardinality(Workers) |-> Stopper]
  /\ UNCHANGED <<entries, pending, hand, work, flusher, up>>

\* The memory of a process that is gone is what it left on the disk.
Gone ==
  /\ up' = FALSE /\ mem' = disk' /\ dirty' = FALSE /\ unsaved' = FALSE /\ flusher' = FALSE
  /\ pending' = {} /\ jobs' = <<>> /\ hand' = [c \in Callers |-> NoHand]
  /\ work' = [w \in Workers |-> AtTop] /\ stopping' = FALSE

\* shutdown waits two seconds for each thread, then writes, and the process ends.
Exit ==
  /\ up /\ stopping
  /\ \E ok \in BOOLEAN : disk' = (IF dirty /\ ok THEN mem ELSE disk)
  /\ Gone
Crash == up /\ UNCHANGED disk /\ Gone

\* _load, which puts the file aside when its own save fails, and bootstrap, with the domains of
\* the policy and its labels, those of the apps' profiles, and the evidence of the saved sessions;
\* its save must succeed, or nothing starts.
Loaded(new) == [d \in Domains |-> Reloaded(d, disk[d], new)]
Noticed(d, e, named, hint, new) == Observed(d, Observed(d, e, {}, hint, new), named, "green", new)
Start(seen, proven) ==
  /\ ~up
  /\ \E new, ok \in BOOLEAN, named \in [seen -> SUBSET Apps], hint \in [seen -> Hints \cup {"green"}] :
       LET l == Loaded(new)
           b == [d \in Domains |-> LET e == IF d \in seen THEN Noticed(d, l[d], named[d], hint[d], new) ELSE l[d]
                                   IN  IF d \in proven THEN Confirmed(e, new) ELSE e]
       IN  \/ up' = TRUE /\ mem' = b /\ disk' = b
           \/ up' = FALSE /\ disk' = (IF l = disk THEN disk ELSE IF ok THEN l ELSE Empty) /\ mem' = disk'
  /\ UNCHANGED <<dirty, unsaved, queues, flusher, stopping>>

Next ==
  \/ \E d \in Domains :
       \/ \E c \in Handlers : Query(c, d)
       \/ \E c \in Requests, force \in BOOLEAN : Request(c, {d}, force)
       \/ \E c \in Callers : Schedule(c, d)
       \/ (\E a \in Apps : Sighting(d, {a}, "green")) \/ \E h \in Hints : Sighting(d, {}, h)
  \/ \E c \in Callers : Enqueue(c)
  \/ \E c \in Requests, force \in BOOLEAN : RequestAll(c, force)
  \/ \E d \in Domains : \/ Evidence(d)
                        \/ \E kind \in {"tracking", "telemetry"} : Category(d, kind)
                        \/ \E colour \in Colours : Review(d, colour)
  \/ Reclassify \/ Defer
  \/ \E w \in Workers : Worker(w)
  \/ Flusher \/ Stop \/ Exit \/ Crash
  \/ \E seen, proven \in SUBSET Domains : Start(seen, proven)

Spec == Init /\ [][Next]_vars

-----------------------------------------------------------------------------
(* Properties. *)

\* schedule, get, analyze and discard take the lock one at a time: a pending domain is in one
\* place, about to be queued, queued or in a worker's hands, and what is there is pending; a
\* study that raises leaves none behind.
Places(d) ==
  Cardinality({c \in Callers : hand[c].put = d}) + Cardinality({i \in DOMAIN jobs : jobs[i] = d})
  + Cardinality({w \in Workers : work[w].job = d})
PendingInOnePlace == \A d \in Domains : Places(d) = IF d \in pending THEN 1 ELSE 0

\* What memory has and the file has not will be written, or its caller was told that it failed.
NothingUnmarked == up /\ mem # disk => dirty \/ unsaved

\* "Local red evidence is never downgraded" (reclassify_all), nor "a locally pinned red item" by the
\* model's rule (apply_ai_verdict), nor by a purpose, a study, sharing or a start: as long as
\* the line is among the evidence kept, no step but a deferral, or a crash that loses it, lowers
\* it. For what the reviewed catalogue has no colour for: a forced study of another puts the
\* catalogue's colour over the evidence.
LocalRedStands ==
  [][\A d \in Domains : LocalRed(mem[d]) /\ mem'[d].kept["local"] > 0 /\ ~Catalogued(d) => mem'[d].risk = "red"]_vars

\* A colour goes down by the model's verdict, a purpose that needs the domain, a rebuild of all or
\* the catalogue, and by nothing that is observed, studied or loaded.
LowersOnly ==
  [][\A d \in Domains :
       \/ Order[mem'[d].risk] >= Order[mem[d].risk] \/ Catalogued(d) \/ Reclassify \/ Defer \/ ~up'
       \/ mem'[d].verdict = mem'[d].risk
       \/ \E a \in mem'[d].apps : d \in Expected[a]]_vars

\* "The verdict is always fully saved": a review in memory stays until another, over a rebuild, a
\* deferral and a clean end; one on the disk, over a crash.
ReviewKept ==
  [][\A d \in Domains : mem[d].verdict # "none" /\ mem'[d].verdict = "none" => ~up \/ (~up' /\ (dirty \/ unsaved))]_vars

\* Nothing falls between two places: a study that is asked for is in exactly one hand, a change is on
\* the disk or marked, whatever raises, fails or ends in between.
NothingLost == PendingInOnePlace /\ NothingUnmarked

\* What a session of the user's proved, and what the model ruled, outlive every rule, study, save and
\* restart, and no rule that may not lower a colour does.
ColoursStand == LocalRedStands /\ LowersOnly /\ ReviewKept

=============================================================================
