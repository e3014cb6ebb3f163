-------------------------------- MODULE Court -------------------------------
(***************************************************************************)
(* The reviews of the phone's domains (ai_reviewer.py) and the court that  *)
(* rules on them. A review is a thread: Cycle, the automatic one, every    *)
(* two minutes; Panel, the background one the user starts and stops; Named *)
(* ones, asked by name (POST /api/ai/review). It first puts the domains    *)
(* that already have a reading before the court, then deals the others to  *)
(* its Workers in batches. A batch is read by a writer and put before the  *)
(* court: the jurors, then, when it is time and the judge may be asked,    *)
(* the judge. Any provider may answer for some domains of a call only, or  *)
(* for none. Each critical section or call is a step.                      *)
(***************************************************************************)
EXTENDS ReviewMemory, Sequences, SequencesExt

CONSTANTS
  Cycle, Panel, Named,   \* the two reviews, and a set of them
  Workers, Crew,         \* Crew[w]: the review that worker w works for
  BatchSize,             \* domains read in one call
  JudgeBatch,            \* JUDGE_BATCH: domains put before the judge in one call
  NoDomain

Reviews == {Cycle, Panel} \cup Named
Threads == Reviews \cup Workers
Owner(t) == IF t \in Workers THEN Crew[t] ELSE t

ASSUME CourtAssumption ==
  /\ Cycle # Panel /\ {Cycle, Panel} \cap Named = {}
  /\ Workers \cap Reviews = {} /\ Crew \in [Workers -> Reviews]
  /\ BatchSize \in Nat \ {0} /\ JudgeBatch \in Nat \ {0} /\ Gather \in Nat
  /\ NoDomain \notin Domains /\ IsFiniteSet(Domains) /\ IsFiniteSet(Named)

VARIABLES
  stage,      \* stage[d]: the saved verdict awaits nothing yet, the jury, the judge, or is ruled
  needs,      \* domains whose saved verdict carries a note for the user (needsSession)
  aged,       \* domains whose saved jury verdict is an hour old (juryAt)
  notes,      \* the judge's open notes (judge-notes.json)
  running,    \* a background review runs
  stopped,    \* stop_flag
  again,      \* the background review is to take up what is reviewed, too: its scope
  at,         \* where each thread is
  targets,    \* targets[r]: what review r is about
  done,       \* done[r]: what it has finalised (applied)
  queue,      \* queue[r]: batches not taken, each with the times it came back empty
  case,       \* case[t]: the court session of thread t
  session,    \* the domain of a ruling of the user being stored
  mixed       \* history: domains that two of them had in hand at once

Rank   == [none |-> 0, jury |-> 1, judge |-> 2, ruled |-> 3]
Stages == DOMAIN Rank
Phase  == {"idle", "look", "askLook", "pick", "open", "deal", "join", "off", "loop", "read",
           "single", "jury", "weigh", "due", "askDue", "call", "judge", "close", "store"}

\* tries: empty answers so far. left: yet to be read. read: the domains with a reading.
\* saved, heard: with a jury verdict, kept or fresh. ask: what is yet to be put before the
\* judge. ruled, noted: what he ruled on, and where he left a note.
NoCase == [ds |-> {}, tries |-> 0, left |-> {}, read |-> {}, saved |-> {}, heard |-> {},
           ask |-> {}, ruled |-> {}, noted |-> {}]

shared == <<stage, needs, aged, notes>>
flags  == <<running, stopped, again>>
lists  == <<targets, done, queue>>
state  == <<memory, shared, flags, at, lists, case, session>>
vars   == <<state, mixed>>

\* Verdicts and notes of earlier runs are kept; the jury verdicts are of unknown age.
Init ==
  /\ MemoryInit
  /\ stage \in [Domains -> Stages]
  /\ notes \in SUBSET {d \in Domains : stage[d] = "ruled"} /\ needs = notes
  /\ aged \in SUBSET {d \in Domains : stage[d] = "judge"}
  /\ running = FALSE /\ stopped = FALSE /\ again = FALSE
  /\ at = [t \in Threads |-> IF t \in Workers THEN "off" ELSE "idle"]
  /\ targets = [r \in Reviews |-> {}] /\ done = [r \in Reviews |-> {}]
  /\ queue = [r \in Reviews |-> <<>>]
  /\ case = [t \in Threads |-> NoCase]
  /\ session = NoDomain /\ mixed = {}

Goto(t, phase)  == at' = [at EXCEPT ![t] = phase]
File(t, c)      == case' = [case EXCEPT ![t] = c]
Pending(d)      == stage[d] \in {"jury", "judge"}

-----------------------------------------------------------------------------
(* A review starts.                                                        *)

\* cycle: not next to a background review.
StartCycle ==
  /\ at[Cycle] = "idle" /\ ~running
  /\ Goto(Cycle, "look")
  /\ UNCHANGED <<memory, shared, flags, lists, case, session>>

\* start_background: the scope is of what is not reviewed ("unreviewed", "weak"), or of all ("all",
\* "red").
StartPanel ==
  /\ at[Panel] = "idle" /\ ~running
  /\ running' = TRUE /\ stopped' = FALSE /\ again' \in BOOLEAN
  /\ Goto(Panel, "look")
  /\ UNCHANGED <<memory, shared, lists, case, session>>

StartNamed(r) ==
  /\ at[r] = "idle"
  /\ \E ds \in SUBSET Domains \ {{}} : targets' = [targets EXCEPT ![r] = ds]
  /\ Goto(r, "open")
  /\ UNCHANGED <<memory, shared, flags, done, queue, case, session>>

\* sonnet_ready: when a probe is due, the judge is tried with a small call.
Probing == [look |-> "askLook", due |-> "askDue"]
Tried   == [look |-> "pick", askLook |-> "pick", due |-> "call", askDue |-> "call"]

Probe(t) ==
  /\ at[t] \in {"look", "due"}
  /\ Goto(t, IF ProbeDue THEN Probing[at[t]] ELSE Tried[at[t]])
  /\ UNCHANGED <<memory, shared, flags, lists, case, session>>

Probed(t, ok) ==
  /\ at[t] \in {"askLook", "askDue"}
  /\ SonnetProbed(ok)
  /\ Goto(t, Tried[at[t]])
  /\ UNCHANGED <<rest, capped, held, shared, flags, lists, case, session>>

\* judge_due: a full batch, or one that has waited an hour.
JudgeDue(ds, old) == ds # {} /\ (Cardinality(ds) >= JudgeBatch \/ old # {})

AwaitJudge == {d \in Domains : stage[d] = "judge"}

Unreviewed ==
  LET due == JudgeDue(AwaitJudge, AwaitJudge \cap aged)
  IN  {d \in Domains \ rest :
         \/ stage[d] = "none"
         \/ stage[d] = "jury"  /\ judge = "ready"
         \/ stage[d] = "judge" /\ judge = "ready" /\ due}

\* candidates: all there is for the automatic review; for the background one what its scope lets
\* through (by category in "weak", by colour in "red"), cut at its limit.
Candidates(r) ==
  IF r = Cycle THEN {Unreviewed}
  ELSE SUBSET (IF again THEN Domains \ rest ELSE Unreviewed)

\* What the list holds is reviewed, unless the cycle holds it back to gather more.
Pick(r) ==
  /\ at[r] = "pick"
  /\ \E ds \in Candidates(r) :
       /\ IF r = Cycle /\ ds # {} THEN Hold(ds) ELSE UNCHANGED held
       /\ IF ds = {} \/ (r = Cycle /\ ~Enough(ds))
          THEN /\ Goto(r, "idle")
               /\ running' = (running /\ r # Panel)
               /\ UNCHANGED targets
          ELSE /\ targets' = [targets EXCEPT ![r] = ds]
               /\ Goto(r, "open")
               /\ UNCHANGED running
  /\ UNCHANGED <<rest, judge, probeDue, capped, shared, stopped, again, done, queue, case, session>>

-----------------------------------------------------------------------------
(* review_domains.                                                         *)

\* Broken on purpose (mutant): the jury verdict of a kept reading is dropped with the rest.
OpenAnew(r) ==
  LET waiting == {d \in targets[r] : Pending(d)}
  IN  /\ at[r] = "open"
      /\ targets' = [targets EXCEPT ![r] = @ \ waiting]
      /\ IF waiting = {}
         THEN Goto(r, "deal") /\ UNCHANGED case
         ELSE Goto(r, "jury") /\ File(r, [NoCase EXCEPT !.ds = waiting, !.read = waiting])
      /\ UNCHANGED <<memory, shared, flags, done, queue, session>>

\* What awaits the court is put before it at once, with its kept reading.
Open(r) ==
  LET waiting == {d \in targets[r] : Pending(d)}
  IN  /\ at[r] = "open"
      /\ targets' = [targets EXCEPT ![r] = @ \ waiting]
      /\ IF waiting = {}
         THEN Goto(r, "deal") /\ UNCHANGED case
         ELSE /\ Goto(r, "jury")
              /\ File(r, [NoCase EXCEPT !.ds = waiting, !.read = waiting,
                                        !.saved = waiting \cap AwaitJudge])
      /\ UNCHANGED <<memory, shared, flags, done, queue, session>>

\* The rest, in any order, in batches; as many workers as it takes.
Batches(ds) ==
  {f \in [1 .. (Cardinality(ds) + BatchSize - 1) \div BatchSize -> SUBSET ds \ {{}}] :
     /\ UNION {f[i] : i \in DOMAIN f} = ds
     /\ \A i \in DOMAIN f : Cardinality(f[i]) <= BatchSize
     /\ \A i, j \in DOMAIN f : i # j => f[i] \cap f[j] = {}}

Deal(r) ==
  /\ at[r] = "deal"
  /\ \E f \in Batches(targets[r]) :
       queue' = [queue EXCEPT ![r] = [i \in DOMAIN f |-> [ds |-> f[i], tries |-> 0]]]
  /\ at' = [t \in Threads |-> IF t = r THEN "join"
                              ELSE IF t \in Workers /\ Crew[t] = r THEN "loop" ELSE at[t]]
  /\ UNCHANGED <<memory, shared, flags, targets, done, case, session>>

\* Broken on purpose (mutant): a batch is read before it is taken off the list.
TakeAndLeave(w) ==
  LET r == Crew[w]
  IN  /\ at[w] = "loop"
      /\ IF stopped \/ queue[r] = <<>>
         THEN Goto(w, "off") /\ UNCHANGED <<queue, case>>
         ELSE /\ queue' = [queue EXCEPT ![r] = IF Len(@) > 1 THEN Tail(@) ELSE @]
              /\ File(w, [NoCase EXCEPT !.ds = Head(queue[r]).ds, !.left = Head(queue[r]).ds,
                                        !.tries = Head(queue[r]).tries])
              /\ Goto(w, "read")
      /\ UNCHANGED <<memory, shared, flags, targets, done, session>>

\* consume: under queue_lock.
Take(w) ==
  LET r == Crew[w]
  IN  /\ at[w] = "loop"
      /\ IF stopped \/ queue[r] = <<>>
         THEN Goto(w, "off") /\ UNCHANGED <<queue, case>>
         ELSE /\ queue' = [queue EXCEPT ![r] = Tail(@)]
              /\ File(w, [NoCase EXCEPT !.ds = Head(queue[r]).ds, !.left = Head(queue[r]).ds,
                                        !.tries = Head(queue[r]).tries])
              /\ Goto(w, "read")
      /\ UNCHANGED <<memory, shared, flags, targets, done, session>>

\* review_batch: a writer answers for some; what he left out is asked again, one by one.
Read(w, some) ==
  /\ at[w] = "read" /\ some # {} /\ some \subseteq case[w].ds
  /\ File(w, [case[w] EXCEPT !.read = some, !.left = @ \ some])
  /\ Goto(w, "single")
  /\ UNCHANGED <<memory, shared, flags, lists, session>>

\* Broken on purpose (mutant): the batch goes back as long as nobody answers.
GiveBackAlways(w) ==
  LET r == Crew[w]
  IN  /\ at[w] = "read"
      /\ queue' = [queue EXCEPT ![r] = Append(@, [ds |-> case[w].ds, tries |-> case[w].tries + 1])]
      /\ File(w, NoCase) /\ Goto(w, "loop")
      /\ UNCHANGED <<memory, shared, flags, targets, done, session>>

\* Nobody answers: the batch goes back to the end, twice, if a provider may be free again.
GiveBack(w) ==
  LET r == Crew[w]
  IN  /\ at[w] = "read" /\ case[w].tries < 2
      /\ queue' = [queue EXCEPT ![r] = Append(@, [ds |-> case[w].ds, tries |-> case[w].tries + 1])]
      /\ File(w, NoCase) /\ Goto(w, "loop")
      /\ UNCHANGED <<memory, shared, flags, targets, done, session>>

\* Or it is given up: at the third time, or with no capacity. An answer without a valid verdict
\* counts as empty too, but its domains are then asked one by one.
GiveUp(w, garbled) ==
  /\ at[w] = "read"
  /\ IF garbled THEN Goto(w, "single") /\ UNCHANGED case
                ELSE Goto(w, "loop") /\ File(w, NoCase)
  /\ UNCHANGED <<memory, shared, flags, lists, session>>

Single(w) ==
  LET c == case[w]
  IN  /\ at[w] = "single"
      /\ IF c.left = {} \/ stopped
         THEN /\ Goto(w, IF c.read = {} THEN "loop" ELSE "jury")
              /\ File(w, IF c.read = {} THEN NoCase ELSE [c EXCEPT !.ds = c.read, !.left = {}])
         ELSE /\ \E d \in c.left, answer \in BOOLEAN :
                   File(w, [c EXCEPT !.left = @ \ {d}, !.read = IF answer THEN @ \cup {d} ELSE @])
              /\ UNCHANGED at
      /\ UNCHANGED <<memory, shared, flags, lists, session>>

-----------------------------------------------------------------------------
(* decide_batch: the court.                                                *)

\* _jury: nobody is asked twice. Silence, when it is of a daily limit, is remembered.
Jury(t, some, daily) ==
  LET c == case[t]
  IN  /\ at[t] = "jury" /\ some \subseteq c.read \ c.saved
      /\ daily => some = {} /\ c.read # c.saved
      /\ capped' = IF some # {} THEN FALSE ELSE capped \/ daily
      /\ File(t, [c EXCEPT !.heard = some])
      /\ Goto(t, "weigh")
      /\ UNCHANGED <<rest, judge, probeDue, held, shared, flags, lists, session>>

\* Those with a jury verdict, kept or fresh, go to the judge together when their time has come.
Weigh(t) ==
  LET c   == case[t]
      ask == c.saved \cup c.heard
  IN  /\ at[t] = "weigh"
      /\ IF JudgeDue(ask, c.saved \cap aged)
         THEN Goto(t, "due") /\ File(t, [c EXCEPT !.ask = ask])
         ELSE Goto(t, "close") /\ UNCHANGED case
      /\ UNCHANGED <<memory, shared, flags, lists, session>>

\* The next batch of them is put before him, unless he may not be asked.
Call(t) ==
  /\ at[t] = "call"
  /\ Goto(t, IF judge = "ready" /\ case[t].ask # {} THEN "judge" ELSE "close")
  /\ UNCHANGED <<memory, shared, flags, lists, case, session>>

\* What may be put before him in one call.
Docket(c) ==
  {ds \in SUBSET c.ask : ds = c.ask \/ Cardinality(ds) = JudgeBatch}
    \ {ds \in SUBSET c.ask : Cardinality(ds) > JudgeBatch}

\* _judge: his answer, with a note on some.
Judge(t, asked, some, noted) ==
  LET c == case[t]
  IN  /\ at[t] = "judge" /\ asked \in Docket(c)
      /\ some \subseteq asked /\ some # {} /\ noted \subseteq some
      /\ SonnetAnswered
      /\ File(t, [c EXCEPT !.ask = @ \ asked, !.ruled = @ \cup some, !.noted = @ \cup noted])
      /\ Goto(t, "due")
      /\ UNCHANGED <<rest, capped, held, shared, flags, lists, session>>

\* He does not answer, or with no valid verdict. The rest is his only if he may be asked again.
NoJudge(t, asked, daily) ==
  LET c == case[t]
  IN  /\ at[t] = "judge" /\ asked \in Docket(c)
      /\ SonnetFailed(daily)
      /\ File(t, [c EXCEPT !.ask = @ \ asked])
      /\ Goto(t, "due")
      /\ UNCHANGED <<rest, capped, held, shared, flags, lists, session>>

\* Broken on purpose (mutant): a note is only ever added.
KeepNotes(t) ==
  LET c == case[t]
  IN  /\ at[t] = "close"
      /\ notes' = notes \cup c.noted
      /\ File(t, [c EXCEPT !.left = c.ds])
      /\ Goto(t, "store")
      /\ UNCHANGED <<memory, stage, needs, aged, flags, lists, session>>

\* court_verdict: a ruling opens a note on its domain, or closes it.
Rule(t) ==
  LET c == case[t]
  IN  /\ at[t] = "close"
      /\ notes' = (notes \ c.ruled) \cup c.noted
      /\ File(t, [c EXCEPT !.left = c.ds])
      /\ Goto(t, "store")
      /\ UNCHANGED <<memory, stage, needs, aged, flags, lists, session>>

Reached(c, d) == IF d \in c.ruled THEN "ruled"
                 ELSE IF d \in c.saved \cup c.heard THEN "judge" ELSE "jury"

\* _finalize: the verdict is saved over whatever is saved now.
Store(t, d) ==
  LET c    == case[t]
      over == c.left = {d}
  IN  /\ at[t] = "store" /\ d \in c.left
      /\ stage' = [stage EXCEPT ![d] = Reached(c, d)]
      /\ needs' = IF d \in c.noted THEN needs \cup {d} ELSE needs \ {d}
      /\ aged'  = IF d \in c.saved \ c.ruled THEN aged ELSE aged \ {d}
      /\ done'  = [done EXCEPT ![Owner(t)] = @ \cup {d}]
      /\ File(t, IF over THEN NoCase ELSE [c EXCEPT !.left = @ \ {d}])
      /\ IF ~over THEN UNCHANGED at ELSE Goto(t, IF t \in Workers THEN "loop" ELSE "deal")
      /\ UNCHANGED <<memory, notes, flags, targets, queue, session>>

\* Every worker is back: what was not ruled on rests, but not after a stop.
End(r) ==
  /\ at[r] = "join" /\ \A w \in Workers : Crew[w] = r => at[w] = "off"
  /\ Remember(done[r], IF stopped THEN {} ELSE targets[r] \ done[r])
  /\ targets' = [targets EXCEPT ![r] = {}] /\ done' = [done EXCEPT ![r] = {}]
  /\ queue'   = [queue EXCEPT ![r] = <<>>]
  /\ running' = (running /\ r # Panel)
  /\ Goto(r, "idle")
  /\ UNCHANGED <<judge, probeDue, capped, held, shared, stopped, again, case, session>>

CourtStep(t) ==
  \/ Probe(t) \/ (\E ok \in BOOLEAN : Probed(t, ok))
  \/ \E some \in SUBSET case[t].read, daily \in BOOLEAN : Jury(t, some, daily)
  \/ Weigh(t) \/ Call(t) \/ Rule(t)
  \/ \E asked \in Docket(case[t]) :
       \/ \E some \in SUBSET asked : \E noted \in SUBSET some : Judge(t, asked, some, noted)
       \/ \E daily \in BOOLEAN : NoJudge(t, asked, daily)
  \/ \E d \in case[t].left : Store(t, d)

WorkerStep(w) ==
  \/ CourtStep(w) \/ Take(w) \/ GiveBack(w) \/ Single(w)
  \/ \E some \in SUBSET case[w].ds : Read(w, some)
  \/ \E garbled \in BOOLEAN : GiveUp(w, garbled)

ReviewStep(r) == CourtStep(r) \/ Pick(r) \/ Open(r) \/ Deal(r) \/ End(r)

-----------------------------------------------------------------------------
(* Meanwhile: the user, and time.                                          *)

Stop == /\ ~stopped /\ stopped' = TRUE
        /\ UNCHANGED <<memory, shared, running, again, at, lists, case, session>>

\* POST session-verdicts: the note is closed, then the ruling is saved.
OpenSession(d) ==
  /\ session = NoDomain /\ session' = d
  /\ notes' = notes \ {d}
  /\ UNCHANGED <<memory, stage, needs, aged, flags, at, lists, case>>

CloseSession ==
  /\ session # NoDomain /\ session' = NoDomain
  /\ stage' = [stage EXCEPT ![session] = "ruled"]
  /\ needs' = needs \ {session} /\ aged' = aged \ {session}
  /\ UNCHANGED <<memory, notes, flags, at, lists, case>>

\* The PC's court asks the same judge, and tells the same memory of it.
PCJudge ==
  /\ SonnetAnswered \/ \E daily \in BOOLEAN : SonnetFailed(daily)
  /\ UNCHANGED <<rest, capped, held, shared, flags, at, lists, case, session>>

Age(d) ==
  /\ stage[d] = "judge" /\ d \notin aged
  /\ aged' = aged \cup {d}
  /\ UNCHANGED <<memory, stage, needs, notes, flags, at, lists, case, session>>

Tick == Clock /\ UNCHANGED <<shared, flags, at, lists, case, session>>

Step ==
  \/ StartCycle \/ StartPanel \/ (\E r \in Named : StartNamed(r))
  \/ (\E r \in Reviews : ReviewStep(r)) \/ (\E w \in Workers : WorkerStep(w))
  \/ Stop \/ (\E d \in Domains : OpenSession(d)) \/ CloseSession
  \/ PCJudge \/ (\E d \in Domains : Age(d)) \/ Tick

\* Domains that two reviews, or a review and the user, have in hand.
Contested ==
  {d \in Domains :
     Cardinality({r \in Reviews : d \in targets[r] \cup case[r].ds})
       + (IF session = d THEN 1 ELSE 0) > 1}

Next == Step /\ mixed' = mixed \cup Contested'

Spec == Init /\ [][Next]_vars

-----------------------------------------------------------------------------
(* Properties.                                                             *)

TypeOK ==
  /\ MemoryType
  /\ stage \in [Domains -> Stages]
  /\ needs \subseteq Domains /\ aged \subseteq Domains /\ notes \subseteq Domains
  /\ running \in BOOLEAN /\ stopped \in BOOLEAN /\ again \in BOOLEAN
  /\ at \in [Threads -> Phase]
  /\ targets \in [Reviews -> SUBSET Domains] /\ done \in [Reviews -> SUBSET Domains]
  /\ \A r \in Reviews : \A i \in DOMAIN queue[r] :
       queue[r][i].ds \subseteq Domains /\ queue[r][i].tries \in 0 .. 2
  /\ \A t \in Threads : \A f \in DOMAIN NoCase \ {"tries"} : case[t][f] \subseteq Domains
  /\ session \in Domains \cup {NoDomain} /\ mixed \subseteq Domains

\* However the workers of a review take, lose and give back its batches, no domain is with two
\* of them, nor with one and on the list, nor on the list when it has been ruled on.
InOneHand ==
  \A w \in Workers :
    LET r    == Crew[w]
        list == UNION {queue[r][i].ds : i \in DOMAIN queue[r]}
    IN  /\ case[w].ds \cap list = {}
        /\ done[r] \cap targets[r] \cap list = {}
        /\ \A v \in Workers \ {w} : Crew[v] = r => case[v].ds \cap case[w].ds = {}

\* The reviews whose user asks for what is ruled already: by name, or by the scope.
Asked == Named \cup {r \in {Panel} : again}

\* What a domain has reached it keeps: a jury verdict is not asked for twice and no ruling is
\* taken back, whatever provider fails in between, unless a review that has it is to take up
\* what is ruled. Where two reviews had the domain in hand at once there is no such promise.
NoStepBack ==
  [][\A d \in Domains \ mixed' :
       \/ Rank[stage'[d]] >= Rank[stage[d]]
       \/ \E r \in Asked : d \in targets[r]]_vars

\* The tray asks the user for exactly the domains whose ruling carries a note, but for those
\* being stored, and those two reviews had in hand at once.
NotesTrue ==
  \A d \in Domains \ (mixed \cup {session}) :
    (stage[d] = "ruled" /\ \A t \in Threads : d \notin case[t].ds) => (d \in notes <=> d \in needs)

=============================================================================
