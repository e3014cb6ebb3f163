----------------------------- MODULE CourtProofs ---------------------------
(***************************************************************************)
(* Proofs about the reviews of the phone's domains: no domain is in two    *)
(* hands, no verdict is taken back, and the notes are those of the rulings *)
(* saved, for any domains, reviews and workers.                            *)
(***************************************************************************)
EXTENDS Court, FiniteSetTheorems, TLAPS

-----------------------------------------------------------------------------
(* Who has what: the phases of a review and of a worker, their cases, the  *)
(* batches of a list.                                                      *)

InCourt     == {"jury", "weigh", "due", "askDue", "call", "judge", "close", "store"}
Starting    == {"idle", "look", "askLook", "pick", "open"}
ReviewPhase == Starting \cup {"deal", "join"} \cup InCourt
WorkerPhase == {"off", "loop", "read", "single"} \cup InCourt
Free        == Starting \cup {"deal", "join", "off", "loop"}

Cases == [ds : SUBSET Domains, tries : 0..2, left : SUBSET Domains, read : SUBSET Domains, saved : SUBSET Domains,
          heard : SUBSET Domains, ask : SUBSET Domains, ruled : SUBSET Domains, noted : SUBSET Domains]
Batch == [ds : SUBSET Domains, tries : 0..2]

\* All of a case is of its domains, a note is of a ruling; while it is read, nothing is judged.
Proper(c)   == /\ c \in Cases
               /\ c.left \subseteq c.ds /\ c.read \subseteq c.ds /\ c.saved \subseteq c.ds /\ c.heard \subseteq c.ds
               /\ c.ask \subseteq c.ds /\ c.ruled \subseteq c.ds /\ c.noted \subseteq c.ruled
Unjudged(c) == c.saved = {} /\ c.heard = {} /\ c.ask = {} /\ c.ruled = {} /\ c.noted = {}

HandsTyped ==
  /\ at \in [Threads -> Phase] /\ case \in [Threads -> Cases]
  /\ targets \in [Reviews -> SUBSET Domains] /\ done \in [Reviews -> SUBSET Domains]
  /\ queue \in [Reviews -> Seq(Batch)]

Settled ==
  /\ \A r \in Reviews : at[r] \in ReviewPhase
  /\ \A w \in Workers : at[w] \in WorkerPhase
  /\ \A t \in Threads : /\ Proper(case[t])
                        /\ at[t] \in Free => case[t] = NoCase
                        /\ at[t] \in {"read", "single"} => Unjudged(case[t])

\* A list is dealt while its review waits, of what is not finalised; each batch of other domains.
Dealt ==
  \A r \in Reviews :
    /\ at[r] # "join" => queue[r] = <<>> /\ \A w \in Workers : Crew[w] = r => at[w] = "off"
    /\ \A i \in DOMAIN queue[r] : queue[r][i].ds \subseteq targets[r] \ done[r]
    /\ \A i, j \in DOMAIN queue[r] : i # j => queue[r][i].ds \cap queue[r][j].ds = {}

\* A worker has what its review is about, and no other has; before it stores, none of it is finalised.
Held0 ==
  \A w \in Workers :
    /\ case[w].ds \subseteq targets[Crew[w]]
    /\ \A i \in DOMAIN queue[Crew[w]] : case[w].ds \cap queue[Crew[w]][i].ds = {}
    /\ \A v \in Workers \ {w} : Crew[v] = Crew[w] => case[v].ds \cap case[w].ds = {}
    /\ at[w] # "store" => case[w].ds \cap done[Crew[w]] = {}

\* What a review puts before the court itself is not dealt.
Own ==
  \A r \in Reviews :
    /\ case[r].ds \cap targets[r] = {}
    /\ at[r] # "join" => done[r] \cap targets[r] = {}
    /\ at[r] \in Starting => done[r] = {}

HandsInv == HandsTyped /\ Settled /\ Dealt /\ Held0 /\ Own

LEMMA CourtBounds ==
  /\ \A w \in Workers : w \in Threads /\ w \notin Reviews /\ Crew[w] \in Reviews
  /\ \A r \in Reviews : r \in Threads /\ r \notin Workers
  /\ Threads = Reviews \cup Workers
  /\ IsFiniteSet(Reviews) /\ NoDomain \notin Domains
<1>1. IsFiniteSet({Cycle, Panel} \cup Named)
  <2>1. IsFiniteSet(Named) /\ IsFiniteSet({Cycle})
    BY CourtAssumption, FS_Singleton
  <2>2. IsFiniteSet({Cycle} \cup {Panel})
    BY <2>1, FS_AddElement
  <2>3. {Cycle} \cup {Panel} = {Cycle, Panel}
    OBVIOUS
  <2>4. IsFiniteSet({Cycle, Panel})
    BY <2>2, <2>3
  <2> QED BY <2>1, <2>4, FS_Union
<1> QED BY <1>1, CourtAssumption DEF Threads, Reviews

LEMMA NoCaseIs ==
  /\ NoCase \in Cases /\ Proper(NoCase) /\ Unjudged(NoCase) /\ NoCase.ds = {} /\ NoCase.left = {}
BY DEF NoCase, Cases, Proper, Unjudged

LEMMA HandsInvOneHand ==
  ASSUME HandsInv
  PROVE  InOneHand
<1> SUFFICES ASSUME NEW w \in Workers
             PROVE  LET r    == Crew[w]
                        list == UNION {queue[r][i].ds : i \in DOMAIN queue[r]}
                    IN  /\ case[w].ds \cap list = {}
                        /\ done[r] \cap targets[r] \cap list = {}
                        /\ \A v \in Workers \ {w} : Crew[v] = r => case[v].ds \cap case[w].ds = {}
  BY DEF InOneHand
<1>1. Crew[w] \in Reviews
  BY CourtBounds
<1>2. \A d \in UNION {queue[Crew[w]][i].ds : i \in DOMAIN queue[Crew[w]]} :
        \E i \in DOMAIN queue[Crew[w]] : d \in queue[Crew[w]][i].ds
  OBVIOUS
<1>3. case[w].ds \cap UNION {queue[Crew[w]][i].ds : i \in DOMAIN queue[Crew[w]]} = {}
  BY <1>2 DEF HandsInv, Held0
<1>4. done[Crew[w]] \cap UNION {queue[Crew[w]][i].ds : i \in DOMAIN queue[Crew[w]]} = {}
  BY <1>1, <1>2 DEF HandsInv, Dealt
<1> QED BY <1>3, <1>4 DEF HandsInv, Held0

LEMMA HandsStart ==
  ASSUME Init
  PROVE  HandsInv
<1>1. /\ \A r \in Reviews : at[r] = "idle" /\ targets[r] = {} /\ done[r] = {} /\ queue[r] = <<>>
      /\ \A w \in Workers : at[w] = "off"
      /\ \A t \in Threads : case[t] = NoCase
  BY CourtBounds DEF Init
<1>2. HandsTyped
  <2>1. at \in [Threads -> Phase] /\ case \in [Threads -> Cases]
    BY NoCaseIs DEF Init, Phase
  <2>2. <<>> \in Seq(Batch)
    OBVIOUS
  <2> QED BY <2>1, <2>2 DEF HandsTyped, Init
<1>3. Settled
  BY <1>1, NoCaseIs, CourtBounds DEF Settled, ReviewPhase, WorkerPhase, Starting
<1>4. Dealt /\ Own
  BY <1>1, NoCaseIs, CourtBounds DEF Dealt, Own
<1>5. Held0
  BY <1>1, NoCaseIs, CourtBounds DEF Held0
<1> QED BY <1>2, <1>3, <1>4, <1>5 DEF HandsInv

-----------------------------------------------------------------------------
(* A thread goes on with its case, or is through with it.                  *)

LEMMA TurnIs ==
  ASSUME HandsTyped, NEW t \in Threads, NEW p \in Phase, NEW c \in Cases,
         at' = [at EXCEPT ![t] = p], case' = [case EXCEPT ![t] = c]
  PROVE  /\ at' \in [Threads -> Phase] /\ case' \in [Threads -> Cases]
         /\ at'[t] = p /\ case'[t] = c
         /\ \A u \in Threads \ {t} : at'[u] = at[u] /\ case'[u] = case[u]
<1>1. at \in [Threads -> Phase] /\ case \in [Threads -> Cases]
  BY DEF HandsTyped
<1> QED BY <1>1

\* Where a thread may go from where it is.
Turns(t, p, c) ==
  /\ t \in Reviews => p \in ReviewPhase /\ (p = "join" <=> at[t] = "join") /\ (p \in Starting => at[t] \in Starting)
  /\ t \in Workers => p \in WorkerPhase /\ at[t] # "off"
  /\ Proper(c) /\ c.ds \subseteq case[t].ds
  /\ p \in Free => c = NoCase
  /\ p \in {"read", "single"} => Unjudged(c)

LEMMA TurnKeeps ==
  ASSUME HandsInv, NEW t \in Threads, NEW p, NEW c, Turns(t, p, c), at[t] = "store" => p = "store",
         at' = [at EXCEPT ![t] = p], case' = [case EXCEPT ![t] = c], UNCHANGED <<targets, done, queue>>
  PROVE  HandsInv'
<1>1. p \in Phase /\ c \in Cases
  BY CourtBounds DEF Turns, Proper, Phase, ReviewPhase, WorkerPhase, Starting, InCourt
<1>2. /\ at' \in [Threads -> Phase] /\ case' \in [Threads -> Cases]
      /\ at'[t] = p /\ case'[t] = c
      /\ \A u \in Threads \ {t} : at'[u] = at[u] /\ case'[u] = case[u]
  BY <1>1, TurnIs DEF HandsInv
<1>3. HandsTyped'
  BY <1>2 DEF HandsInv, HandsTyped
<1>4. Settled'
  BY <1>2, CourtBounds DEF HandsInv, Settled, Turns
<1>5. Dealt'
  <2>1. \A r \in Reviews : at'[r] = "join" <=> at[r] = "join"
    BY <1>2, CourtBounds DEF Turns
  <2>2. \A w \in Workers : at[w] = "off" => at'[w] = "off"
    BY <1>2, CourtBounds DEF Turns
  <2> QED BY <2>1, <2>2 DEF HandsInv, Dealt
<1>6. Held0'
  <2>1. \A w \in Workers : case'[w].ds \subseteq case[w].ds
    BY <1>2, CourtBounds DEF Turns
  <2>2. \A w \in Workers : at'[w] # "store" => at[w] # "store"
    BY <1>2, CourtBounds
  <2> QED BY <2>1, <2>2 DEF HandsInv, Held0
<1>7. Own'
  BY <1>2, CourtBounds DEF HandsInv, Own, Turns
<1> QED BY <1>3, <1>4, <1>5, <1>6, <1>7 DEF HandsInv

-----------------------------------------------------------------------------
(* The steps of the court.                                                 *)


\* A thread asks, weighs, puts before the judge, or rules.
LEMMA CaseTurn ==
  ASSUME HandsInv, NEW t \in Threads, NEW p, NEW c, Proper(c), c.ds = case[t].ds,
         p \in InCourt, at[t] \in InCourt, at[t] = "store" => p = "store",
         at' = [at EXCEPT ![t] = p], case' = [case EXCEPT ![t] = c], UNCHANGED <<targets, done, queue>>
  PROVE  HandsInv'
<1>1. Turns(t, p, c)
  BY DEF Turns, InCourt, Starting, ReviewPhase, WorkerPhase, Free
<1> QED BY <1>1, TurnKeeps

\* One that keeps its case.
LEMMA SameCase ==
  ASSUME HandsInv, NEW t \in Threads
  PROVE  /\ case[t] \in Cases /\ Proper(case[t]) /\ case = [case EXCEPT ![t] = case[t]]
         /\ at[t] \in Free => case[t] = NoCase
BY DEF HandsInv, HandsTyped, Settled

LEMMA ProbeHands ==
  ASSUME HandsInv, NEW t \in Threads, Probe(t) \/ \E ok \in BOOLEAN : Probed(t, ok)
  PROVE  HandsInv'
<1>1. UNCHANGED <<targets, done, queue, case>>
  BY DEF Probe, Probed, lists
<1>2. \/ at[t] = "look" /\ \E p \in {"askLook", "pick"} : at' = [at EXCEPT ![t] = p]
      \/ at[t] = "askLook" /\ at' = [at EXCEPT ![t] = "pick"]
      \/ at[t] = "due" /\ \E p \in {"askDue", "call"} : at' = [at EXCEPT ![t] = p]
      \/ at[t] = "askDue" /\ at' = [at EXCEPT ![t] = "call"]
  BY DEF Probe, Probed, Goto, Probing, Tried
<1>3. PICK c : c = case[t]
  OBVIOUS
<1>4. case' = [case EXCEPT ![t] = c] /\ Proper(c)
  BY <1>1, <1>3, SameCase
<1>5. CASE at[t] \in {"look", "askLook"} /\ \E p \in {"askLook", "pick"} : at' = [at EXCEPT ![t] = p]
  <2>1. PICK p \in {"askLook", "pick"} : at' = [at EXCEPT ![t] = p]
    BY <1>5
  <2>2. t \in Reviews /\ t \notin Workers
    BY <1>5, CourtBounds DEF HandsInv, Settled, WorkerPhase, InCourt
  <2>3. c = NoCase
    BY <1>3, <1>5, SameCase DEF Free, Starting
  <2>4. Turns(t, p, c)
    BY <1>3, <1>4, <1>5, <2>2, <2>3 DEF Turns, ReviewPhase, Starting, InCourt, Free
  <2> QED BY <1>1, <1>4, <1>5, <2>1, <2>4, TurnKeeps
<1>6. CASE at[t] \in {"due", "askDue"} /\ \E p \in {"askDue", "call"} : at' = [at EXCEPT ![t] = p]
  <2>1. PICK p \in {"askDue", "call"} : at' = [at EXCEPT ![t] = p]
    BY <1>6
  <2> QED BY <1>1, <1>3, <1>4, <1>6, <2>1, CaseTurn DEF InCourt
<1> QED BY <1>2, <1>5, <1>6

\* What the fields of a case become.
LEMMA HeardEdit ==
  ASSUME NEW c, Proper(c), NEW s \in SUBSET c.ds
  PROVE  Proper([c EXCEPT !.heard = s]) /\ [c EXCEPT !.heard = s].ds = c.ds
<1>1. c \in Cases /\ s \in SUBSET Domains
  BY DEF Proper, Cases
<1> QED BY <1>1 DEF Proper, Cases

LEMMA AskEdit ==
  ASSUME NEW c, Proper(c), NEW s \in SUBSET c.ds
  PROVE  Proper([c EXCEPT !.ask = s]) /\ [c EXCEPT !.ask = s].ds = c.ds
<1>1. c \in Cases /\ s \in SUBSET Domains
  BY DEF Proper, Cases
<1> QED BY <1>1 DEF Proper, Cases

LEMMA LeftEdit ==
  ASSUME NEW c, Proper(c), NEW s \in SUBSET c.ds
  PROVE  Proper([c EXCEPT !.left = s]) /\ [c EXCEPT !.left = s].ds = c.ds
<1>1. c \in Cases /\ s \in SUBSET Domains
  BY DEF Proper, Cases
<1> QED BY <1>1 DEF Proper, Cases

RuledCase(c, a, s, n) == [c EXCEPT !.ask = a, !.ruled = c.ruled \cup s, !.noted = c.noted \cup n]
LEMMA RuledEdit ==
  ASSUME NEW c, Proper(c), NEW a \in SUBSET c.ds, NEW s \in SUBSET c.ds, NEW n \in SUBSET s
  PROVE  Proper(RuledCase(c, a, s, n)) /\ RuledCase(c, a, s, n).ds = c.ds
<1>1. c \in Cases /\ a \in SUBSET Domains /\ s \in SUBSET Domains /\ n \in SUBSET Domains
  BY DEF Proper, Cases
<1>2. RuledCase(c, a, s, n) \in Cases
  BY <1>1 DEF Cases, RuledCase
<1> QED BY <1>1, <1>2 DEF Proper, Cases, RuledCase

LEMMA JuryHands ==
  ASSUME HandsInv, NEW t \in Threads,
         \/ \E some \in SUBSET case[t].read, daily \in BOOLEAN : Jury(t, some, daily)
         \/ Weigh(t) \/ Call(t) \/ Rule(t)
  PROVE  HandsInv'
<1>1. UNCHANGED <<targets, done, queue>>
  BY DEF Jury, Weigh, Call, Rule, lists
<1>2. PICK k : k = case[t] /\ Proper(k) /\ case = [case EXCEPT ![t] = k]
  BY SameCase
<1>3. CASE \E some \in SUBSET case[t].read, daily \in BOOLEAN : Jury(t, some, daily)
  <2>1. PICK some : some \in SUBSET k.read /\ \E daily \in BOOLEAN : Jury(t, some, daily)
    BY <1>2, <1>3
  <2>2. at[t] = "jury" /\ at' = [at EXCEPT ![t] = "weigh"] /\ case' = [case EXCEPT ![t] = [k EXCEPT !.heard = some]]
    BY <1>2, <2>1 DEF Jury, Goto, File
  <2>3. PICK c : c = [k EXCEPT !.heard = some] /\ Proper(c) /\ c.ds = k.ds
    <3>1. some \in SUBSET k.ds
      BY <1>2, <2>1 DEF Proper
    <3> QED BY <1>2, <3>1, HeardEdit
  <2> QED BY <1>1, <1>2, <2>2, <2>3, CaseTurn DEF InCourt
<1>4. CASE Weigh(t)
  <2>1. at[t] = "weigh" /\ \/ at' = [at EXCEPT ![t] = "close"] /\ UNCHANGED case
                           \/ /\ at' = [at EXCEPT ![t] = "due"]
                              /\ case' = [case EXCEPT ![t] = [k EXCEPT !.ask = k.saved \cup k.heard]]
    BY <1>2, <1>4 DEF Weigh, Goto, File
  <2>2. PICK c : c = [k EXCEPT !.ask = k.saved \cup k.heard] /\ Proper(c) /\ c.ds = k.ds
    <3>1. k.saved \cup k.heard \in SUBSET k.ds
      BY <1>2 DEF Proper
    <3> QED BY <1>2, <3>1, AskEdit
  <2>3. CASE at' = [at EXCEPT ![t] = "close"] /\ UNCHANGED case
    BY <1>1, <1>2, <2>1, <2>3, CaseTurn DEF InCourt
  <2>4. CASE at' = [at EXCEPT ![t] = "due"] /\ case' = [case EXCEPT ![t] = c]
    BY <1>1, <1>2, <2>1, <2>2, <2>4, CaseTurn DEF InCourt
  <2> QED BY <2>1, <2>2, <2>3, <2>4
<1>5. CASE Call(t)
  <2>1. at[t] = "call" /\ UNCHANGED case /\ \E p \in {"judge", "close"} : at' = [at EXCEPT ![t] = p]
    BY <1>5 DEF Call, Goto
  <2>2. PICK p \in {"judge", "close"} : at' = [at EXCEPT ![t] = p]
    BY <2>1
  <2> QED BY <1>1, <1>2, <2>1, <2>2, CaseTurn DEF InCourt
<1>6. CASE Rule(t)
  <2>1. at[t] = "close" /\ at' = [at EXCEPT ![t] = "store"] /\ case' = [case EXCEPT ![t] = [k EXCEPT !.left = k.ds]]
    BY <1>2, <1>6 DEF Rule, Goto, File
  <2>2. PICK c : c = [k EXCEPT !.left = k.ds] /\ Proper(c) /\ c.ds = k.ds
    <3>1. k.ds \in SUBSET k.ds
      OBVIOUS
    <3> QED BY <1>2, <3>1, LeftEdit
  <2> QED BY <1>1, <1>2, <2>1, <2>2, CaseTurn DEF InCourt
<1> QED BY <1>3, <1>4, <1>5, <1>6

LEMMA JudgeHands ==
  ASSUME HandsInv, NEW t \in Threads, NEW asked \in Docket(case[t]),
         \/ \E some \in SUBSET asked : \E noted \in SUBSET some : Judge(t, asked, some, noted)
         \/ \E daily \in BOOLEAN : NoJudge(t, asked, daily)
  PROVE  HandsInv'
<1>1. UNCHANGED <<targets, done, queue>>
  BY DEF Judge, NoJudge, lists
<1>2. PICK k : k = case[t] /\ Proper(k) /\ case = [case EXCEPT ![t] = k]
  BY SameCase
<1>3. asked \subseteq k.ds
  BY <1>2 DEF Docket, Proper
<1>4. CASE \E some \in SUBSET asked : \E noted \in SUBSET some : Judge(t, asked, some, noted)
  <2>1. PICK some \in SUBSET asked : \E noted \in SUBSET some : Judge(t, asked, some, noted)
    BY <1>4
  <2>2. PICK noted \in SUBSET some : Judge(t, asked, some, noted)
    BY <2>1
  <2>3. PICK c : c = RuledCase(k, k.ask \ asked, some, noted) /\ Proper(c) /\ c.ds = k.ds
    <3>1. k.ask \ asked \in SUBSET k.ds /\ some \in SUBSET k.ds
      BY <1>2, <1>3 DEF Proper
    <3> QED BY <1>2, <3>1, RuledEdit
  <2>4. at[t] = "judge" /\ at' = [at EXCEPT ![t] = "due"] /\ case' = [case EXCEPT ![t] = c]
    BY <1>2, <2>2, <2>3 DEF Judge, Goto, File, RuledCase
  <2> QED BY <1>1, <1>2, <2>3, <2>4, CaseTurn DEF InCourt
<1>5. CASE \E daily \in BOOLEAN : NoJudge(t, asked, daily)
  <2>1. PICK c : c = [k EXCEPT !.ask = k.ask \ asked] /\ Proper(c) /\ c.ds = k.ds
    <3>1. k.ask \ asked \in SUBSET k.ds
      BY <1>2 DEF Proper
    <3> QED BY <1>2, <3>1, AskEdit
  <2>2. at[t] = "judge" /\ at' = [at EXCEPT ![t] = "due"] /\ case' = [case EXCEPT ![t] = c]
    BY <1>2, <1>5, <2>1 DEF NoJudge, Goto, File
  <2> QED BY <1>1, <1>2, <2>1, <2>2, CaseTurn DEF InCourt
<1> QED BY <1>4, <1>5

\* A verdict is finalised; with the last one the thread is through.
LEMMA StoreHands ==
  ASSUME HandsInv, NEW t \in Threads, NEW d \in case[t].left, Store(t, d)
  PROVE  HandsInv'
<1> DEFINE over == case[t].left = {d}
<1>1. at[t] = "store" /\ UNCHANGED <<targets, queue>> /\ done' = [done EXCEPT ![Owner(t)] = @ \cup {d}]
  BY DEF Store
<1>2. PICK k : k = case[t] /\ Proper(k) /\ case = [case EXCEPT ![t] = k]
  BY SameCase
<1>3. d \in k.ds /\ d \in Domains
  BY <1>2 DEF Proper, Cases
<1>4. PICK c : /\ c = IF over THEN NoCase ELSE [k EXCEPT !.left = k.left \ {d}]
               /\ Proper(c) /\ c.ds \subseteq k.ds
  <2>1. k.left \ {d} \in SUBSET k.ds
    BY <1>2 DEF Proper
  <2> QED BY <1>2, <2>1, LeftEdit, NoCaseIs
<1>5. PICK p : p = IF ~over THEN "store" ELSE IF t \in Workers THEN "loop" ELSE "deal"
  OBVIOUS
<1>6. at' = [at EXCEPT ![t] = p] /\ case' = [case EXCEPT ![t] = c]
  <2>1. case' = [case EXCEPT ![t] = c]
    BY <1>2, <1>4 DEF Store, File
  <2>2. CASE over
    <3>1. at' = [at EXCEPT ![t] = IF t \in Workers THEN "loop" ELSE "deal"]
      BY <2>2, Zenon DEF Store, Goto
    <3>2. p = IF t \in Workers THEN "loop" ELSE "deal"
      BY <1>5, <2>2
    <3> QED BY <2>1, <3>1, <3>2
  <2>3. CASE ~over
    <3>1. at' = at
      BY <2>3, Zenon DEF Store
    <3>2. p = "store" /\ at \in [Threads -> Phase]
      BY <1>5, <2>3 DEF HandsInv, HandsTyped
    <3> QED BY <1>1, <2>1, <3>1, <3>2
  <2> QED BY <2>1, <2>2, <2>3
<1>7. /\ over => c = NoCase /\ p \in {"loop", "deal"}
      /\ ~over => p = "store"
      /\ t \in Workers => p \in {"store", "loop"}
      /\ t \in Reviews => p \in {"store", "deal"}
  BY <1>4, <1>5, CourtBounds
<1> HIDE DEF over
<1>8. p \in Phase /\ c \in Cases
  BY <1>4, <1>7, CourtBounds DEF Proper, Phase
<1>9. /\ at' \in [Threads -> Phase] /\ case' \in [Threads -> Cases]
      /\ at'[t] = p /\ case'[t] = c
      /\ \A u \in Threads \ {t} : at'[u] = at[u] /\ case'[u] = case[u]
  BY <1>6, <1>8, TurnIs DEF HandsInv
<1>10. PICK r \in Reviews : r = Owner(t) /\ (t \in Reviews => r = t) /\ (t \in Workers => r = Crew[t])
  BY CourtBounds DEF Owner
<1>11. done' \in [Reviews -> SUBSET Domains] /\ done'[r] = done[r] \cup {d} /\ \A s \in Reviews \ {r} : done'[s] = done[s]
  BY <1>1, <1>3, <1>10 DEF HandsInv, HandsTyped
<1>12. HandsTyped'
  BY <1>1, <1>9, <1>11 DEF HandsInv, HandsTyped
<1>13. Settled'
  <2>1. p \in Free => c = NoCase
    BY <1>7 DEF Free, Starting
  <2>2. p \notin {"read", "single"} /\ (t \in Reviews => p \in ReviewPhase) /\ (t \in Workers => p \in WorkerPhase)
    BY <1>7 DEF ReviewPhase, WorkerPhase, InCourt
  <2> QED BY <1>4, <1>9, <2>1, <2>2, CourtBounds DEF HandsInv, Settled
<1>14. ASSUME NEW w \in Workers, Crew[w] = r, w # t
       PROVE  d \notin case[w].ds
  <2>1. CASE t \in Workers
    BY <1>2, <1>3, <1>10, <1>14, <2>1 DEF HandsInv, Held0
  <2>2. CASE t \in Reviews
    <3>1. at[w] = "off"
      BY <1>1, <1>10, <1>14, <2>2 DEF HandsInv, Dealt
    <3>2. case[w] = NoCase
      BY <3>1, CourtBounds DEF HandsInv, Settled, Free
    <3> QED BY <3>2, NoCaseIs
  <2> QED BY <2>1, <2>2, CourtBounds
<1>15. ASSUME NEW i \in DOMAIN queue[r]
       PROVE  d \notin queue[r][i].ds
  <2>1. CASE t \in Workers
    BY <1>2, <1>3, <1>10, <2>1 DEF HandsInv, Held0
  <2>2. CASE t \in Reviews
    BY <1>1, <1>10, <2>2 DEF HandsInv, Dealt
  <2> QED BY <2>1, <2>2, CourtBounds
<1>16. Dealt'
  <2>1. \A s \in Reviews : at'[s] = "join" <=> at[s] = "join"
    BY <1>1, <1>7, <1>9, CourtBounds
  <2>2. \A w \in Workers : at'[w] = "off" <=> at[w] = "off"
    BY <1>1, <1>7, <1>9, CourtBounds
  <2>3. \A s \in Reviews : \A i \in DOMAIN queue[s] : queue[s][i].ds \subseteq targets[s] \ done'[s]
    BY <1>11, <1>15 DEF HandsInv, Dealt
  <2> QED BY <1>1, <2>1, <2>2, <2>3 DEF HandsInv, Dealt
<1>17. Held0'
  <2>1. \A w \in Workers : case'[w].ds \subseteq case[w].ds
    BY <1>2, <1>4, <1>9, CourtBounds
  <2>2. ASSUME NEW w \in Workers, at'[w] # "store"
        PROVE  case'[w].ds \cap done'[Crew[w]] = {}
    <3>1. CASE w = t
      BY <1>7, <1>9, <2>2, <3>1, NoCaseIs
    <3>2. CASE w # t
      <4>1. at[w] # "store" /\ case'[w] = case[w] /\ Crew[w] \in Reviews
        BY <1>9, <2>2, <3>2, CourtBounds
      <4>2. case[w].ds \cap done[Crew[w]] = {}
        BY <4>1 DEF HandsInv, Held0
      <4> QED BY <1>11, <1>14, <3>2, <4>1, <4>2
    <3> QED BY <3>1, <3>2
  <2> QED BY <1>1, <2>1, <2>2 DEF HandsInv, Held0
<1>18. Own'
  <2>1. \A s \in Reviews : case'[s].ds \subseteq case[s].ds
    BY <1>2, <1>4, <1>9, CourtBounds
  <2>2. \A s \in Reviews : (at'[s] = "join" <=> at[s] = "join") /\ (at'[s] \in Starting => at[s] \in Starting)
    BY <1>1, <1>7, <1>9, CourtBounds DEF Starting
  <2>3. ASSUME t \in Reviews
        PROVE  d \notin targets[r] /\ at'[r] \notin Starting
    BY <1>2, <1>3, <1>7, <1>9, <1>10, <2>3 DEF HandsInv, Own, Starting
  <2>4. ASSUME t \in Workers
        PROVE  at[r] = "join"
    BY <1>1, <1>10, <2>4 DEF HandsInv, Dealt
  <2>5. at[r] = "join" => at'[r] \notin Starting
    BY <2>2 DEF Starting
  <2> QED BY <1>1, <1>11, <2>1, <2>2, <2>3, <2>4, <2>5, CourtBounds DEF HandsInv, Own
<1> QED BY <1>12, <1>13, <1>16, <1>17, <1>18 DEF HandsInv

-----------------------------------------------------------------------------
(* The steps of a worker.                                                  *)

LEMMA Taken ==
  ASSUME NEW q \in Seq(Batch), q # <<>>
  PROVE  /\ Tail(q) \in Seq(Batch) /\ Head(q) \in Batch /\ Head(q) = q[1] /\ 1 \in DOMAIN q
         /\ \A i \in DOMAIN Tail(q) : i + 1 \in DOMAIN q /\ i + 1 # 1 /\ i \in Int /\ Tail(q)[i] = q[i + 1]
<1>1. Tail(q) \in Seq(Batch) /\ Head(q) \in Batch /\ Len(q) \in Nat \ {0} /\ Len(Tail(q)) = Len(q) - 1
  OBVIOUS
<1>2. DOMAIN q = 1..Len(q) /\ DOMAIN Tail(q) = 1..(Len(q) - 1)
  BY <1>1
<1>3. \A i \in 1..(Len(q) - 1) : Tail(q)[i] = q[i + 1]
  OBVIOUS
<1>4. Head(q) = q[1]
  OBVIOUS
<1> QED BY <1>1, <1>2, <1>3, <1>4

LEMMA Returned ==
  ASSUME NEW q \in Seq(Batch), NEW b \in Batch
  PROVE  /\ Append(q, b) \in Seq(Batch)
         /\ \A i \in DOMAIN Append(q, b) :
              (i \in DOMAIN q /\ Append(q, b)[i] = q[i]) \/ (i = Len(q) + 1 /\ Append(q, b)[i] = b)
<1>1. Append(q, b) \in Seq(Batch) /\ Len(q) \in Nat /\ Len(Append(q, b)) = Len(q) + 1
  OBVIOUS
<1>2. DOMAIN q = 1..Len(q) /\ DOMAIN Append(q, b) = 1..(Len(q) + 1)
  BY <1>1
<1>3. \A i \in 1..Len(q) : Append(q, b)[i] = q[i]
  OBVIOUS
<1>4. Append(q, b)[Len(q) + 1] = b
  OBVIOUS
<1>5. \A i \in 1..(Len(q) + 1) : i \in 1..Len(q) \/ i = Len(q) + 1
  BY <1>1
<1> QED BY <1>1, <1>2, <1>3, <1>4, <1>5

\* What a worker at work knows of its review.
LEMMA AtWork ==
  ASSUME HandsInv, NEW w \in Workers, at[w] # "off"
  PROVE  Crew[w] \in Reviews /\ at[Crew[w]] = "join" /\ Crew[w] # w
BY CourtBounds DEF HandsInv, Dealt

LEMMA TakeHands ==
  ASSUME HandsInv, NEW w \in Workers, Take(w)
  PROVE  HandsInv'
<1>1. at[w] = "loop" /\ UNCHANGED <<targets, done>>
  BY DEF Take
<1>2. w \in Threads /\ w \notin Reviews /\ case[w] = NoCase
  BY <1>1, CourtBounds, SameCase DEF Free
<1>3. CASE stopped \/ queue[Crew[w]] = <<>>
  <2>1. at' = [at EXCEPT ![w] = "off"] /\ UNCHANGED queue /\ case' = case
    BY <1>3, Zenon DEF Take, Goto
  <2>2. case' = [case EXCEPT ![w] = NoCase] /\ Turns(w, "off", NoCase)
    BY <1>1, <1>2, <2>1, SameCase, NoCaseIs DEF Turns, WorkerPhase, Free
  <2> QED BY <1>1, <1>2, <2>1, <2>2, TurnKeeps
<1>4. CASE ~(stopped \/ queue[Crew[w]] = <<>>)
  <2>1. PICK r \in Reviews : r = Crew[w] /\ at[r] = "join"
    BY <1>1, AtWork
  <2>2. PICK q \in Seq(Batch) : q = queue[r] /\ q # <<>>
    BY <1>4, <2>1 DEF HandsInv, HandsTyped
  <2>3. PICK b \in Batch : b = Head(q)
    BY <2>2, Taken
  <2>4. PICK c : c = [NoCase EXCEPT !.ds = b.ds, !.left = b.ds, !.tries = b.tries]
    OBVIOUS
  <2>5. /\ queue' = [queue EXCEPT ![r] = Tail(q)] /\ at' = [at EXCEPT ![w] = "read"]
        /\ case' = [case EXCEPT ![w] = c]
    BY <1>4, <2>1, <2>2, <2>3, <2>4 DEF Take, File, Goto
  <2>6. Proper(c) /\ Unjudged(c) /\ c.ds = b.ds
    <3>1. c \in Cases /\ c.ds = b.ds /\ c.left = b.ds
      BY <2>3, <2>4 DEF NoCase, Cases, Batch
    <3>2. c.read = {} /\ c.saved = {} /\ c.heard = {} /\ c.ask = {} /\ c.ruled = {} /\ c.noted = {}
      BY <2>4 DEF NoCase
    <3> QED BY <3>1, <3>2 DEF Proper, Unjudged
  <2>7. PICK s \in Seq(Batch) : s = Tail(q)
    BY <2>2, Taken
  <2>8. queue' \in [Reviews -> Seq(Batch)] /\ queue'[r] = s /\ \A u \in Reviews \ {r} : queue'[u] = queue[u]
    BY <2>5, <2>7 DEF HandsInv, HandsTyped
  <2>9. /\ at' \in [Threads -> Phase] /\ case' \in [Threads -> Cases]
        /\ at'[w] = "read" /\ case'[w] = c
        /\ \A u \in Threads \ {w} : at'[u] = at[u] /\ case'[u] = case[u]
    <3>1. "read" \in Phase /\ c \in Cases
      BY <2>6 DEF Phase, Proper
    <3> QED BY <1>2, <2>5, <3>1, TurnIs DEF HandsInv
  <2>10. /\ \A i \in DOMAIN s : i + 1 \in DOMAIN q /\ i + 1 # 1 /\ i \in Int /\ s[i] = q[i + 1]
         /\ b = q[1] /\ 1 \in DOMAIN q
    BY <2>2, <2>3, <2>7, Taken
  <2>11. /\ b.ds \subseteq targets[r] \ done[r]
         /\ \A i \in DOMAIN s : s[i].ds \cap b.ds = {} /\ s[i].ds \subseteq targets[r] \ done[r]
         /\ \A i, j \in DOMAIN s : i # j => s[i].ds \cap s[j].ds = {}
    <3>1. /\ \A i \in DOMAIN q : q[i].ds \subseteq targets[r] \ done[r]
          /\ \A i, j \in DOMAIN q : i # j => q[i].ds \cap q[j].ds = {}
      BY <2>2 DEF HandsInv, Dealt
    <3>2. \A i, j \in DOMAIN s : i # j => i + 1 # j + 1
      BY <2>10
    <3>3. \A i \in DOMAIN s : s[i].ds \cap b.ds = {} /\ s[i].ds \subseteq targets[r] \ done[r]
      BY <2>10, <3>1
    <3>4. ASSUME NEW i \in DOMAIN s, NEW j \in DOMAIN s, i # j
          PROVE  s[i].ds \cap s[j].ds = {}
      <4>1. PICK m \in DOMAIN q : m = i + 1
        BY <2>10
      <4>2. PICK n \in DOMAIN q : n = j + 1
        BY <2>10
      <4>3. m # n /\ s[i] = q[m] /\ s[j] = q[n]
        BY <2>10, <3>2, <3>4, <4>1, <4>2
      <4> QED BY <3>1, <4>3
    <3> QED BY <2>10, <3>1, <3>3, <3>4
  <2>12. HandsTyped'
    BY <1>1, <2>8, <2>9 DEF HandsInv, HandsTyped
  <2>13. Settled'
    <3>1. "read" \in WorkerPhase /\ "read" \notin Free
      BY DEF WorkerPhase, Free, Starting
    <3> QED BY <1>2, <2>6, <2>9, <3>1, CourtBounds DEF HandsInv, Settled
  <2>14. Dealt'
    <3>1. \A u \in Reviews : at'[u] = at[u]
      BY <1>2, <2>9, CourtBounds
    <3>2. \A v \in Workers : at'[v] = "off" <=> at[v] = "off"
      BY <1>1, <2>9, CourtBounds
    <3> QED BY <1>1, <2>1, <2>8, <2>11, <3>1, <3>2 DEF HandsInv, Dealt
  <2>15. Held0'
    <3> SUFFICES ASSUME NEW v \in Workers
                 PROVE  /\ case'[v].ds \subseteq targets'[Crew[v]]
                        /\ \A i \in DOMAIN queue'[Crew[v]] : case'[v].ds \cap queue'[Crew[v]][i].ds = {}
                        /\ \A u \in Workers \ {v} : Crew[u] = Crew[v] => case'[u].ds \cap case'[v].ds = {}
                        /\ at'[v] # "store" => case'[v].ds \cap done'[Crew[v]] = {}
      BY DEF Held0
    <3>1. ASSUME NEW u \in Workers \ {w}, Crew[u] = r
          PROVE  case'[u] = case[u] /\ case[u].ds \cap b.ds = {} /\ \A i \in DOMAIN s : case[u].ds \cap s[i].ds = {}
      <4>1. case'[u] = case[u]
        BY <2>9, <3>1, CourtBounds
      <4>2. \A i \in DOMAIN q : case[u].ds \cap q[i].ds = {}
        BY <2>2, <3>1 DEF HandsInv, Held0
      <4>3. case[u].ds \cap b.ds = {}
        BY <2>10, <4>2
      <4>4. ASSUME NEW i \in DOMAIN s
            PROVE  case[u].ds \cap s[i].ds = {}
        <5>1. PICK m \in DOMAIN q : s[i] = q[m]
          BY <2>10
        <5> QED BY <4>2, <5>1
      <4> QED BY <4>1, <4>3, <4>4
    <3>2. CASE v = w
      BY <1>1, <2>1, <2>6, <2>8, <2>9, <2>11, <3>1, <3>2
    <3>3. CASE v # w
      <4>1. case'[v] = case[v] /\ at'[v] = at[v] /\ Crew[v] \in Reviews
        BY <2>9, <3>3, CourtBounds
      <4>2. \A i \in DOMAIN queue'[Crew[v]] : case'[v].ds \cap queue'[Crew[v]][i].ds = {}
        BY <2>8, <3>1, <3>3, <4>1 DEF HandsInv, Held0
      <4>3. ASSUME NEW u \in Workers \ {v}, Crew[u] = Crew[v]
            PROVE  case'[u].ds \cap case'[v].ds = {}
        <5>1. CASE u = w
          BY <2>1, <2>6, <2>9, <3>1, <3>3, <4>1, <4>3, <5>1
        <5>2. CASE u # w
          BY <2>9, <4>1, <4>3, <5>2, CourtBounds DEF HandsInv, Held0
        <5> QED BY <5>1, <5>2
      <4> QED BY <1>1, <4>1, <4>2, <4>3 DEF HandsInv, Held0
    <3> QED BY <3>2, <3>3
  <2>16. Own'
    <3>1. \A u \in Reviews : at'[u] = at[u] /\ case'[u] = case[u]
      BY <1>2, <2>9, CourtBounds
    <3> QED BY <1>1, <3>1 DEF HandsInv, Own
  <2> QED BY <2>12, <2>13, <2>14, <2>15, <2>16 DEF HandsInv
<1> QED BY <1>3, <1>4

LEMMA GiveBackHands ==
  ASSUME HandsInv, NEW w \in Workers, GiveBack(w)
  PROVE  HandsInv'
<1>1. at[w] = "read" /\ case[w].tries < 2 /\ UNCHANGED <<targets, done>>
  BY DEF GiveBack
<1>2. w \in Threads /\ w \notin Reviews
  BY CourtBounds
<1>3. PICK r \in Reviews : r = Crew[w] /\ at[r] = "join"
  BY <1>1, AtWork
<1>4. PICK q \in Seq(Batch) : q = queue[r]
  BY DEF HandsInv, HandsTyped
<1>5. PICK b \in Batch : b = [ds |-> case[w].ds, tries |-> case[w].tries + 1] /\ b.ds = case[w].ds
  <2>1. case[w].ds \in SUBSET Domains /\ case[w].tries \in 0..2
    BY <1>2 DEF HandsInv, HandsTyped, Cases
  <2>2. case[w].tries + 1 \in 0..2
    BY <1>1, <2>1
  <2>3. PICK ds : ds = case[w].ds
    OBVIOUS
  <2>4. PICK tries : tries = case[w].tries + 1
    OBVIOUS
  <2>5. [ds |-> ds, tries |-> tries] \in Batch
    BY <2>1, <2>2, <2>3, <2>4 DEF Batch
  <2> QED BY <2>3, <2>4, <2>5
<1>6. PICK s \in Seq(Batch) : s = Append(q, b)
  BY Returned
<1>7. /\ queue' = [queue EXCEPT ![r] = s] /\ at' = [at EXCEPT ![w] = "loop"]
      /\ case' = [case EXCEPT ![w] = NoCase]
  BY <1>3, <1>4, <1>5, <1>6 DEF GiveBack, File, Goto
<1>8. queue' \in [Reviews -> Seq(Batch)] /\ queue'[r] = s /\ \A u \in Reviews \ {r} : queue'[u] = queue[u]
  BY <1>7 DEF HandsInv, HandsTyped
<1>9. /\ at' \in [Threads -> Phase] /\ case' \in [Threads -> Cases]
      /\ at'[w] = "loop" /\ case'[w] = NoCase
      /\ \A u \in Threads \ {w} : at'[u] = at[u] /\ case'[u] = case[u]
  <2>1. "loop" \in Phase
    BY DEF Phase
  <2> QED BY <1>2, <1>7, <2>1, NoCaseIs, TurnIs DEF HandsInv
<1>10. \A i \in DOMAIN s : (i \in DOMAIN q /\ s[i] = q[i]) \/ (i = Len(q) + 1 /\ s[i] = b)
  BY <1>6, Returned
<1>11. /\ b.ds \subseteq targets[r] \ done[r]
       /\ \A i \in DOMAIN q : q[i].ds \cap b.ds = {}
  BY <1>1, <1>3, <1>4, <1>5 DEF HandsInv, Held0
<1>12. /\ \A i \in DOMAIN s : s[i].ds \subseteq targets[r] \ done[r]
       /\ \A i, j \in DOMAIN s : i # j => s[i].ds \cap s[j].ds = {}
  BY <1>4, <1>10, <1>11 DEF HandsInv, Dealt
<1>13. HandsTyped'
  BY <1>1, <1>8, <1>9 DEF HandsInv, HandsTyped
<1>14. Settled'
  <2>1. "loop" \in WorkerPhase /\ "loop" \notin {"read", "single"}
    BY DEF WorkerPhase
  <2> QED BY <1>2, <1>9, <2>1, NoCaseIs, CourtBounds DEF HandsInv, Settled
<1>15. Dealt'
  <2>1. \A u \in Reviews : at'[u] = at[u]
    BY <1>2, <1>9, CourtBounds
  <2>2. \A v \in Workers : at'[v] = "off" <=> at[v] = "off"
    BY <1>1, <1>9, CourtBounds
  <2> QED BY <1>1, <1>3, <1>8, <1>12, <2>1, <2>2 DEF HandsInv, Dealt
<1>16. Held0'
  <2>1. ASSUME NEW v \in Workers \ {w}, Crew[v] = r, NEW i \in DOMAIN s
        PROVE  case[v].ds \cap s[i].ds = {}
    BY <1>3, <1>4, <1>5, <1>10, <2>1 DEF HandsInv, Held0
  <2>2. ASSUME NEW v \in Workers \ {w}
        PROVE  case'[v] = case[v] /\ at'[v] = at[v] /\ Crew[v] \in Reviews
    BY <1>9, CourtBounds
  <2>3. ASSUME NEW v \in Workers, NEW i \in DOMAIN queue'[Crew[v]]
        PROVE  case'[v].ds \cap queue'[Crew[v]][i].ds = {}
    <3>1. CASE v = w
      BY <1>9, <3>1, NoCaseIs
    <3>2. CASE v # w /\ Crew[v] = r
      BY <1>8, <2>1, <2>2, <2>3, <3>2
    <3>3. CASE v # w /\ Crew[v] # r
      <4>1. case'[v] = case[v] /\ queue'[Crew[v]] = queue[Crew[v]]
        BY <1>8, <2>2, <3>3
      <4> QED BY <2>3, <4>1 DEF HandsInv, Held0
    <3> QED BY <3>1, <3>2, <3>3
  <2>4. \A v \in Workers : case'[v].ds \subseteq case[v].ds
    BY <1>9, <2>2, NoCaseIs
  <2>5. \A v \in Workers : at'[v] # "store" => at[v] # "store"
    BY <1>1, <2>2
  <2> QED BY <1>1, <2>3, <2>4, <2>5 DEF HandsInv, Held0
<1>17. Own'
  <2>1. \A u \in Reviews : at'[u] = at[u] /\ case'[u] = case[u]
    BY <1>2, <1>9, CourtBounds
  <2> QED BY <1>1, <2>1 DEF HandsInv, Own
<1> QED BY <1>13, <1>14, <1>15, <1>16, <1>17 DEF HandsInv

\* A writer reads for some, and then one by one; or not at all.
LEMMA ReadHands ==
  ASSUME HandsInv, NEW w \in Workers,
         \/ \E some \in SUBSET case[w].ds : Read(w, some)
         \/ (\E garbled \in BOOLEAN : GiveUp(w, garbled)) \/ Single(w)
  PROVE  HandsInv'
<1>1. UNCHANGED <<targets, done, queue>> /\ at[w] \in {"read", "single"} /\ w \in Threads /\ w \notin Reviews
  BY CourtBounds DEF Read, GiveUp, Single, lists
<1>2. PICK k : k = case[w] /\ Proper(k) /\ case = [case EXCEPT ![w] = k]
  BY <1>1, SameCase
<1>3. Unjudged(k) /\ k \in Cases
  BY <1>1, <1>2 DEF HandsInv, Settled, Proper
<1>4. ASSUME NEW p \in {"loop", "read", "single", "jury"}, NEW c, Proper(c), c.ds \subseteq k.ds,
             p = "loop" => c = NoCase, Unjudged(c),
             at' = [at EXCEPT ![w] = p], case' = [case EXCEPT ![w] = c]
      PROVE  HandsInv'
  <2>1. Turns(w, p, c)
    BY <1>1, <1>2, <1>4 DEF Turns, WorkerPhase, InCourt, Free, Starting
  <2> QED BY <1>1, <1>4, <2>1, TurnKeeps
<1>5. CASE \E some \in SUBSET case[w].ds : Read(w, some)
  <2>1. PICK some : some \in SUBSET k.ds /\ Read(w, some)
    BY <1>2, <1>5
  <2>2. PICK c : c = [k EXCEPT !.read = some, !.left = k.left \ some]
    OBVIOUS
  <2>3. Proper(c) /\ c.ds = k.ds /\ Unjudged(c)
    <3>1. k.left \ some \in SUBSET Domains /\ some \in SUBSET Domains
      BY <1>3, <2>1 DEF Cases
    <3>2. c \in Cases
      BY <1>3, <2>2, <3>1 DEF Cases
    <3> QED BY <1>2, <1>3, <2>1, <2>2, <3>2 DEF Proper, Unjudged, Cases
  <2>4. at' = [at EXCEPT ![w] = "single"] /\ case' = [case EXCEPT ![w] = c]
    BY <1>2, <2>1, <2>2 DEF Read, Goto, File
  <2> QED BY <1>4, <2>3, <2>4
<1>6. CASE \E garbled \in BOOLEAN : GiveUp(w, garbled)
  <2>1. \/ at' = [at EXCEPT ![w] = "single"] /\ case' = case
        \/ at' = [at EXCEPT ![w] = "loop"] /\ case' = [case EXCEPT ![w] = NoCase]
    BY <1>6 DEF GiveUp, Goto, File
  <2>2. {} \subseteq k.ds
    OBVIOUS
  <2> QED BY <1>2, <1>3, <1>4, <2>1, <2>2, NoCaseIs
<1>7. CASE Single(w)
  <2>1. CASE k.left = {} \/ stopped
    <3>1. /\ at' = [at EXCEPT ![w] = IF k.read = {} THEN "loop" ELSE "jury"]
          /\ case' = [case EXCEPT ![w] = IF k.read = {} THEN NoCase ELSE [k EXCEPT !.ds = k.read, !.left = {}]]
      BY <1>2, <1>7, <2>1 DEF Single, Goto, File
    <3>2. PICK c : c = [k EXCEPT !.ds = k.read, !.left = {}]
      OBVIOUS
    <3>3. Proper(c) /\ c.ds \subseteq k.ds /\ Unjudged(c)
      BY <1>2, <1>3, <3>2 DEF Proper, Cases, Unjudged
    <3>4. {} \subseteq k.ds
      OBVIOUS
    <3>5. CASE k.read = {}
      BY <1>4, <3>1, <3>4, <3>5, NoCaseIs
    <3>6. CASE k.read # {}
      BY <1>4, <3>1, <3>2, <3>3, <3>6
    <3> QED BY <3>5, <3>6
  <2>2. CASE ~(k.left = {} \/ stopped)
    <3>1. PICK d \in k.left, answer \in BOOLEAN :
            case' = [case EXCEPT ![w] = [k EXCEPT !.left = k.left \ {d}, !.read = IF answer THEN k.read \cup {d} ELSE k.read]]
      BY <1>2, <1>7, <2>2 DEF Single, File
    <3>2. PICK read : read = IF answer THEN k.read \cup {d} ELSE k.read
      OBVIOUS
    <3>3. PICK c : c = [k EXCEPT !.left = k.left \ {d}, !.read = read]
      OBVIOUS
    <3>4. read \subseteq k.ds /\ k.left \ {d} \subseteq k.ds
      BY <1>2, <3>1, <3>2 DEF Proper
    <3>5. Proper(c) /\ c.ds = k.ds /\ Unjudged(c)
      BY <1>2, <1>3, <3>3, <3>4 DEF Proper, Cases, Unjudged
    <3>6. at[w] = "single" /\ at' = at /\ at \in [Threads -> Phase]
      BY <1>2, <1>7, <2>2 DEF Single, HandsInv, HandsTyped
    <3>7. at' = [at EXCEPT ![w] = "single"] /\ case' = [case EXCEPT ![w] = c]
      BY <1>1, <3>1, <3>2, <3>3, <3>6
    <3> QED BY <1>4, <3>5, <3>7
  <2> QED BY <2>1, <2>2
<1> QED BY <1>5, <1>6, <1>7

-----------------------------------------------------------------------------
(* The steps of a review.                                                  *)

\* The workers of a review that does not wait are off, with nothing.
LEMMA CrewIsOff ==
  ASSUME HandsInv, NEW r \in Reviews, at[r] # "join" \/ \A w \in Workers : Crew[w] = r => at[w] = "off"
  PROVE  \A w \in Workers : Crew[w] = r => at[w] = "off" /\ case[w] = NoCase
<1> SUFFICES ASSUME NEW w \in Workers, Crew[w] = r
             PROVE  at[w] = "off" /\ case[w] = NoCase
  OBVIOUS
<1>1. at[w] = "off"
  BY DEF HandsInv, Dealt
<1> QED BY <1>1, CourtBounds, SameCase DEF Free

\* It may have its list anew while it does not wait for a worker.
LEMMA OwnTurn ==
  ASSUME HandsInv, NEW r \in Reviews, NEW p \in ReviewPhase \ {"join"}, NEW c, NEW ds \in SUBSET Domains,
         at[r] # "join", Proper(c), p \in Free => c = NoCase, c.ds \cap ds = {}, done[r] \cap ds = {},
         p \in Starting => done[r] = {},
         at' = [at EXCEPT ![r] = p], case' = [case EXCEPT ![r] = c], targets' = [targets EXCEPT ![r] = ds],
         UNCHANGED <<done, queue>>
  PROVE  HandsInv'
<1>1. r \in Threads /\ r \notin Workers /\ p \in Phase /\ c \in Cases /\ p \notin {"read", "single"}
  BY CourtBounds DEF Proper, Phase, ReviewPhase, Starting, InCourt
<1>2. /\ at' \in [Threads -> Phase] /\ case' \in [Threads -> Cases]
      /\ at'[r] = p /\ case'[r] = c
      /\ \A u \in Threads \ {r} : at'[u] = at[u] /\ case'[u] = case[u]
  BY <1>1, TurnIs DEF HandsInv
<1>3. targets' \in [Reviews -> SUBSET Domains] /\ targets'[r] = ds /\ \A u \in Reviews \ {r} : targets'[u] = targets[u]
  BY DEF HandsInv, HandsTyped
<1>4. \A w \in Workers : w \in Threads \ {r} /\ at'[w] = at[w] /\ case'[w] = case[w]
  BY <1>1, <1>2, CourtBounds
<1>5. \A u \in Reviews : at'[u] = "join" <=> at[u] = "join"
  BY <1>2, CourtBounds
<1>6. HandsTyped'
  BY <1>2, <1>3 DEF HandsInv, HandsTyped
<1>7. Settled'
  BY <1>1, <1>2, CourtBounds DEF HandsInv, Settled
<1>8. queue[r] = <<>> /\ DOMAIN queue[r] = {}
  BY DEF HandsInv, Dealt
<1>9. Dealt'
  <2>1. \A u \in Reviews : \A i \in DOMAIN queue[u] : queue[u][i].ds \subseteq targets'[u] \ done[u]
    BY <1>3, <1>8 DEF HandsInv, Dealt
  <2> QED BY <1>4, <1>5, <2>1 DEF HandsInv, Dealt
<1>10. Held0'
  <2>1. ASSUME NEW w \in Workers
        PROVE  case[w].ds \subseteq targets'[Crew[w]]
    <3>1. CASE Crew[w] = r
      BY <3>1, CrewIsOff, NoCaseIs
    <3>2. CASE Crew[w] # r
      BY <1>3, <3>2, CourtBounds DEF HandsInv, Held0
    <3> QED BY <3>1, <3>2
  <2> QED BY <1>4, <2>1 DEF HandsInv, Held0
<1>11. Own'
  BY <1>2, <1>3, CourtBounds DEF HandsInv, Own
<1> QED BY <1>6, <1>7, <1>9, <1>10, <1>11 DEF HandsInv

LEMMA StartHands ==
  ASSUME HandsInv, StartCycle \/ StartPanel \/ \E r \in Named : StartNamed(r)
  PROVE  HandsInv'
<1>1. ASSUME NEW r \in Reviews, at[r] = "idle", at' = [at EXCEPT ![r] = "look"],
             UNCHANGED <<case, targets, done, queue>>
      PROVE  HandsInv'
  <2>1. r \in Threads /\ r \notin Workers
    BY CourtBounds
  <2>2. case[r] = NoCase /\ case' = [case EXCEPT ![r] = NoCase]
    BY <1>1, <2>1, SameCase DEF Free, Starting
  <2>3. Turns(r, "look", NoCase)
    BY <1>1, <2>1, <2>2, NoCaseIs DEF Turns, ReviewPhase, Starting
  <2> QED BY <1>1, <2>1, <2>2, <2>3, TurnKeeps
<1>2. Cycle \in Reviews /\ Panel \in Reviews /\ Named \subseteq Reviews
  BY DEF Reviews
<1>3. CASE StartCycle
  BY <1>1, <1>2, <1>3 DEF StartCycle, Goto, lists
<1>4. CASE StartPanel
  BY <1>1, <1>2, <1>4 DEF StartPanel, Goto, lists
<1>5. CASE \E r \in Named : StartNamed(r)
  <2>1. PICK r \in Named : StartNamed(r)
    BY <1>5
  <2>2. at[r] = "idle" /\ r \in Reviews /\ r \in Threads
    BY <1>2, <2>1, CourtBounds DEF StartNamed
  <2>3. PICK ds \in SUBSET Domains : targets' = [targets EXCEPT ![r] = ds]
    BY <2>1 DEF StartNamed
  <2>4. at' = [at EXCEPT ![r] = "open"] /\ UNCHANGED <<case, done, queue>>
    BY <2>1 DEF StartNamed, Goto
  <2>5. case' = [case EXCEPT ![r] = NoCase] /\ done[r] = {}
    BY <2>2, <2>4, SameCase DEF Free, Starting, HandsInv, Own
  <2>6. "open" \in ReviewPhase \ {"join"}
    BY DEF ReviewPhase, Starting
  <2>7. NoCase.ds \cap ds = {} /\ done[r] \cap ds = {}
    BY <2>5, NoCaseIs
  <2> QED BY <2>2, <2>3, <2>4, <2>5, <2>6, <2>7, NoCaseIs, OwnTurn
<1> QED BY <1>3, <1>4, <1>5

LEMMA PickHands ==
  ASSUME HandsInv, NEW r \in Reviews, Pick(r)
  PROVE  HandsInv'
<1>1. at[r] = "pick" /\ UNCHANGED <<case, done, queue>> /\ r \in Threads
  BY CourtBounds DEF Pick
<1>2. case' = [case EXCEPT ![r] = NoCase] /\ done[r] = {}
  BY <1>1, SameCase DEF Free, Starting, HandsInv, Own
<1>3. \/ at' = [at EXCEPT ![r] = "idle"] /\ UNCHANGED targets
      \/ /\ at' = [at EXCEPT ![r] = "open"]
         /\ \E ds \in Candidates(r) : targets' = [targets EXCEPT ![r] = ds]
  BY DEF Pick, Goto
<1>4. PICK p \in {"idle", "open"} : at' = [at EXCEPT ![r] = p]
  BY <1>3
<1>5. PICK ds \in SUBSET Domains : targets' = [targets EXCEPT ![r] = ds]
  <2>1. \A ds \in Candidates(r) : ds \in SUBSET Domains
    BY DEF Candidates, Unreviewed
  <2>2. targets[r] \in SUBSET Domains /\ targets = [targets EXCEPT ![r] = targets[r]]
    BY DEF HandsInv, HandsTyped
  <2> QED BY <1>3, <2>1, <2>2
<1>6. p \in ReviewPhase \ {"join"}
  BY DEF ReviewPhase, Starting
<1>7. NoCase.ds \cap ds = {} /\ done[r] \cap ds = {}
  BY <1>2, NoCaseIs
<1> QED BY <1>1, <1>2, <1>4, <1>5, <1>6, <1>7, NoCaseIs, OwnTurn

LEMMA OpenHands ==
  ASSUME HandsInv, NEW r \in Reviews, Open(r)
  PROVE  HandsInv'
<1>1. at[r] = "open" /\ UNCHANGED <<done, queue>> /\ r \in Threads
  BY CourtBounds DEF Open
<1>2. case[r] = NoCase /\ done[r] = {}
  BY <1>1, SameCase DEF Free, Starting, HandsInv, Own
<1>3. PICK waiting : waiting = {d \in targets[r] : Pending(d)}
  OBVIOUS
<1>4. PICK ds \in SUBSET Domains : ds = targets[r] \ waiting
  BY DEF HandsInv, HandsTyped
<1>5. targets' = [targets EXCEPT ![r] = ds] /\ waiting \subseteq targets[r] /\ targets[r] \in SUBSET Domains
  BY <1>3, <1>4 DEF Open, HandsInv, HandsTyped
<1>6. CASE waiting = {}
  <2>1. at' = [at EXCEPT ![r] = "deal"] /\ UNCHANGED case
    BY <1>3, <1>6 DEF Open, Goto
  <2>2. case' = [case EXCEPT ![r] = NoCase]
    BY <1>1, <1>2, <2>1, SameCase
  <2>3. "deal" \in ReviewPhase \ {"join"} /\ "deal" \notin Starting
    BY DEF ReviewPhase, Starting
  <2>4. NoCase.ds \cap ds = {} /\ done[r] \cap ds = {}
    BY <1>2, NoCaseIs
  <2> QED BY <1>1, <1>2, <1>5, <2>1, <2>2, <2>3, <2>4, NoCaseIs, OwnTurn
<1>7. CASE waiting # {}
  <2>1. PICK saved : saved = waiting \cap AwaitJudge
    OBVIOUS
  <2>2. PICK c : c = [NoCase EXCEPT !.ds = waiting, !.read = waiting, !.saved = saved]
    OBVIOUS
  <2>3. at' = [at EXCEPT ![r] = "jury"] /\ case' = [case EXCEPT ![r] = c]
    BY <1>3, <1>7, <2>1, <2>2 DEF Open, Goto, File
  <2>4. Proper(c) /\ c.ds = waiting
    <3>1. waiting \in SUBSET Domains /\ saved \in SUBSET waiting
      BY <1>5, <2>1
    <3>2. c.ds = waiting /\ c.tries = 0 /\ c.left = {} /\ c.read = waiting /\ c.saved = saved
      BY <2>2 DEF NoCase
    <3>3. c.heard = {} /\ c.ask = {} /\ c.ruled = {} /\ c.noted = {}
      BY <2>2 DEF NoCase
    <3>4. c \in Cases
      <4>1. PICK k \in Cases : k = NoCase
        BY NoCaseIs
      <4>2. saved \in SUBSET Domains
        BY <3>1
      <4>3. c = [k EXCEPT !.ds = waiting, !.read = waiting, !.saved = saved]
        BY <2>2, <4>1
      <4> QED BY <3>1, <4>1, <4>2, <4>3 DEF Cases
    <3> QED BY <3>1, <3>2, <3>3, <3>4 DEF Proper
  <2>5. "jury" \in ReviewPhase \ {"join"} /\ "jury" \notin Starting /\ "jury" \notin Free
    BY DEF ReviewPhase, Starting, InCourt, Free
  <2>6. c.ds \cap ds = {} /\ done[r] \cap ds = {}
    BY <1>2, <1>4, <2>4
  <2> QED BY <1>1, <1>2, <1>5, <2>3, <2>4, <2>5, <2>6, OwnTurn
<1> QED BY <1>6, <1>7

\* The batches it deals are of its list, and each of other domains.
LEMMA BatchesAre ==
  ASSUME NEW ds \in SUBSET Domains, NEW f \in Batches(ds)
  PROVE  /\ \E n \in Nat : DOMAIN f = 1..n
         /\ \A i \in DOMAIN f : f[i] \subseteq ds
         /\ \A i, j \in DOMAIN f : i # j => f[i] \cap f[j] = {}
<1>1. PICK n : n = (Cardinality(ds) + BatchSize - 1) \div BatchSize
  OBVIOUS
<1>2. f \in [1 .. n -> SUBSET ds \ {{}}] /\ \A i, j \in DOMAIN f : i # j => f[i] \cap f[j] = {}
  BY <1>1, Zenon DEF Batches
<1>3. n \in Nat
  <2>1. IsFiniteSet(ds)
    BY CourtAssumption, FS_Subset
  <2>2. PICK k \in Nat : k = Cardinality(ds)
    BY <2>1, FS_CardinalityType
  <2>3. PICK b \in Nat \ {0} : b = BatchSize
    BY CourtAssumption
  <2>4. k + b - 1 \in Nat /\ n = (k + b - 1) \div b
    BY <1>1, <2>2, <2>3
  <2> QED BY <2>3, <2>4
<1> QED BY <1>2, <1>3

LEMMA DealHands ==
  ASSUME HandsInv, NEW r \in Reviews, Deal(r)
  PROVE  HandsInv'
<1>1. at[r] = "deal" /\ UNCHANGED <<targets, done, case>> /\ r \in Threads /\ r \notin Workers
  BY CourtBounds DEF Deal
<1>2. case[r] = NoCase /\ done[r] \cap targets[r] = {} /\ targets[r] \in SUBSET Domains
  BY <1>1, SameCase DEF Free, HandsInv, Own, HandsTyped
<1>3. PICK f \in Batches(targets[r]) : queue' = [queue EXCEPT ![r] = [i \in DOMAIN f |-> [ds |-> f[i], tries |-> 0]]]
  BY DEF Deal
<1>4. PICK q : q = [i \in DOMAIN f |-> [ds |-> f[i], tries |-> 0]]
  OBVIOUS
<1>5. /\ DOMAIN q = DOMAIN f /\ \A i \in DOMAIN q : q[i].ds = f[i] /\ q[i].ds \subseteq targets[r]
      /\ \A i, j \in DOMAIN q : i # j => q[i].ds \cap q[j].ds = {}
  BY <1>2, <1>4, BatchesAre
<1>6. q \in Seq(Batch)
  <2>1. PICK n \in Nat : DOMAIN f = 1..n
    BY <1>2, BatchesAre
  <2>2. \A i \in 1..n : f[i] \in SUBSET Domains
    BY <1>2, <2>1, BatchesAre
  <2>3. \A i \in 1..n : [ds |-> f[i], tries |-> 0] \in Batch
    BY <2>2 DEF Batch
  <2>4. q \in [1..n -> Batch]
    BY <1>4, <2>1, <2>3
  <2> QED BY <2>4
<1>7. queue' \in [Reviews -> Seq(Batch)] /\ queue'[r] = q /\ \A u \in Reviews \ {r} : queue'[u] = queue[u]
  BY <1>3, <1>4, <1>6 DEF HandsInv, HandsTyped
<1>8. /\ at'[r] = "join"
      /\ \A u \in Reviews \ {r} : at'[u] = at[u]
      /\ \A w \in Workers : at'[w] = IF Crew[w] = r THEN "loop" ELSE at[w]
      /\ at' \in [Threads -> Phase]
  <2>1. at' = [t \in Threads |-> IF t = r THEN "join" ELSE IF t \in Workers /\ Crew[t] = r THEN "loop" ELSE at[t]]
    BY DEF Deal
  <2>2. "join" \in Phase /\ "loop" \in Phase /\ at \in [Threads -> Phase]
    BY DEF Phase, HandsInv, HandsTyped
  <2> QED BY <1>1, <2>1, <2>2, CourtBounds
<1>9. \A w \in Workers : Crew[w] = r => at[w] = "off" /\ case[w] = NoCase
  BY <1>1, CrewIsOff
<1>10. HandsTyped'
  BY <1>1, <1>7, <1>8 DEF HandsInv, HandsTyped
<1>11. Settled'
  <2>1. "join" \in ReviewPhase /\ "loop" \in WorkerPhase /\ {"join", "loop"} \cap {"read", "single"} = {}
    BY DEF ReviewPhase, WorkerPhase
  <2>2. \A u \in Reviews : at'[u] \in ReviewPhase /\ (at'[u] = at[u] \/ (u = r /\ at'[u] = "join"))
    BY <1>8, <2>1 DEF HandsInv, Settled
  <2>3. \A w \in Workers : at'[w] \in WorkerPhase /\ (at'[w] = at[w] \/ (case[w] = NoCase /\ at'[w] = "loop"))
    BY <1>8, <1>9, <2>1 DEF HandsInv, Settled
  <2>4. ASSUME NEW t \in Threads
        PROVE  /\ Proper(case[t]) /\ (at'[t] \in Free => case[t] = NoCase)
               /\ at'[t] \in {"read", "single"} => Unjudged(case[t])
    BY <1>2, <2>1, <2>2, <2>3, CourtBounds DEF HandsInv, Settled
  <2> QED BY <1>1, <2>2, <2>3, <2>4 DEF Settled
<1>12. Dealt'
  <2>1. ASSUME NEW u \in Reviews, at'[u] # "join"
        PROVE  queue'[u] = <<>> /\ \A w \in Workers : Crew[w] = u => at'[w] = "off"
    BY <1>7, <1>8, <2>1 DEF HandsInv, Dealt
  <2>2. \A u \in Reviews : \A i \in DOMAIN queue'[u] : queue'[u][i].ds \subseteq targets[u] \ done[u]
    BY <1>2, <1>5, <1>7 DEF HandsInv, Dealt
  <2>3. \A u \in Reviews : \A i, j \in DOMAIN queue'[u] : i # j => queue'[u][i].ds \cap queue'[u][j].ds = {}
    BY <1>5, <1>7 DEF HandsInv, Dealt
  <2> QED BY <1>1, <2>1, <2>2, <2>3 DEF Dealt
<1>13. Held0'
  <2>1. ASSUME NEW w \in Workers
        PROVE  \A i \in DOMAIN queue'[Crew[w]] : case[w].ds \cap queue'[Crew[w]][i].ds = {}
    <3>1. CASE Crew[w] = r
      BY <1>9, <3>1, NoCaseIs
    <3>2. CASE Crew[w] # r
      BY <1>7, <3>2, CourtBounds DEF HandsInv, Held0
    <3> QED BY <3>1, <3>2
  <2>2. ASSUME NEW w \in Workers, at'[w] # "store"
        PROVE  case[w].ds \cap done[Crew[w]] = {}
    <3>1. CASE Crew[w] = r
      BY <1>9, <3>1, NoCaseIs
    <3>2. CASE Crew[w] # r
      BY <1>8, <2>2, <3>2 DEF HandsInv, Held0
    <3> QED BY <3>1, <3>2
  <2> QED BY <1>1, <2>1, <2>2 DEF HandsInv, Held0
<1>14. Own'
  <2>1. \A u \in Reviews : (at'[u] # "join" => at[u] # "join") /\ (at'[u] \in Starting => at[u] \in Starting)
    BY <1>8 DEF Starting
  <2> QED BY <1>1, <2>1 DEF HandsInv, Own
<1> QED BY <1>10, <1>11, <1>12, <1>13, <1>14 DEF HandsInv

LEMMA EndHands ==
  ASSUME HandsInv, NEW r \in Reviews, End(r)
  PROVE  HandsInv'
<1>1. at[r] = "join" /\ UNCHANGED case /\ r \in Threads /\ r \notin Workers
  BY CourtBounds DEF End
<1>2. at' = [at EXCEPT ![r] = "idle"] /\ targets' = [targets EXCEPT ![r] = {}]
  BY DEF End, Goto
<1>3. done' = [done EXCEPT ![r] = {}] /\ queue' = [queue EXCEPT ![r] = <<>>]
  BY DEF End
<1>4. /\ targets' \in [Reviews -> SUBSET Domains] /\ targets'[r] = {}
      /\ \A u \in Reviews \ {r} : targets'[u] = targets[u]
  BY <1>2 DEF HandsInv, HandsTyped
<1>5. /\ done' \in [Reviews -> SUBSET Domains] /\ done'[r] = {}
      /\ \A u \in Reviews \ {r} : done'[u] = done[u]
  BY <1>3 DEF HandsInv, HandsTyped
<1>6. /\ queue' \in [Reviews -> Seq(Batch)] /\ queue'[r] = <<>>
      /\ \A u \in Reviews \ {r} : queue'[u] = queue[u]
  <2>1. <<>> \in Seq(Batch)
    OBVIOUS
  <2> QED BY <1>3, <2>1 DEF HandsInv, HandsTyped
<1>7. at' \in [Threads -> Phase] /\ at'[r] = "idle" /\ \A u \in Threads \ {r} : at'[u] = at[u]
  <2>1. "idle" \in Phase
    BY DEF Phase
  <2> QED BY <1>1, <1>2, <2>1 DEF HandsInv, HandsTyped
<1>8. \A w \in Workers : Crew[w] = r => at[w] = "off" /\ case[w] = NoCase
  BY CrewIsOff DEF End
<1>9. \A w \in Workers : at'[w] = at[w]
  BY <1>1, <1>7, CourtBounds
<1>10. case[r] = NoCase
  BY <1>1, SameCase DEF Free
<1>11. HandsTyped'
  BY <1>1, <1>4, <1>5, <1>6, <1>7 DEF HandsInv, HandsTyped
<1>12. Settled'
  <2>1. "idle" \in ReviewPhase /\ "idle" \notin {"read", "single"}
    BY DEF ReviewPhase, Starting
  <2> QED BY <1>1, <1>7, <1>10, <2>1, CourtBounds DEF HandsInv, Settled
<1>13. Dealt'
  <2>1. ASSUME NEW u \in Reviews, at'[u] # "join"
        PROVE  queue'[u] = <<>> /\ \A w \in Workers : Crew[w] = u => at'[w] = "off"
    <3>1. CASE u = r
      BY <1>6, <1>8, <1>9, <3>1
    <3>2. CASE u # r
      BY <1>6, <1>7, <1>9, <2>1, <3>2, CourtBounds DEF HandsInv, Dealt
    <3> QED BY <3>1, <3>2
  <2>2. ASSUME NEW u \in Reviews, NEW i \in DOMAIN queue'[u]
        PROVE  queue'[u][i].ds \subseteq targets'[u] \ done'[u]
    <3>1. CASE u = r
      BY <1>6, <2>2, <3>1
    <3>2. CASE u # r
      <4>1. queue'[u] = queue[u] /\ targets'[u] = targets[u] /\ done'[u] = done[u]
        BY <1>4, <1>5, <1>6, <3>2
      <4> QED BY <2>2, <4>1 DEF HandsInv, Dealt
    <3> QED BY <3>1, <3>2
  <2>3. \A u \in Reviews : \A i, j \in DOMAIN queue'[u] : i # j => queue'[u][i].ds \cap queue'[u][j].ds = {}
    BY <1>6 DEF HandsInv, Dealt
  <2> QED BY <2>1, <2>2, <2>3 DEF Dealt
<1>14. Held0'
  <2>1. ASSUME NEW w \in Workers
        PROVE  /\ case[w].ds \subseteq targets'[Crew[w]]
               /\ \A i \in DOMAIN queue'[Crew[w]] : case[w].ds \cap queue'[Crew[w]][i].ds = {}
               /\ at'[w] # "store" => case[w].ds \cap done'[Crew[w]] = {}
    <3>1. CASE Crew[w] = r
      BY <1>8, <3>1, NoCaseIs
    <3>2. CASE Crew[w] # r
      BY <1>4, <1>5, <1>6, <1>9, <3>2, CourtBounds DEF HandsInv, Held0
    <3> QED BY <3>1, <3>2
  <2> QED BY <1>1, <2>1 DEF HandsInv, Held0
<1>15. Own'
  <2>1. ASSUME NEW u \in Reviews
        PROVE  /\ case[u].ds \cap targets'[u] = {}
               /\ at'[u] # "join" => done'[u] \cap targets'[u] = {}
               /\ at'[u] \in Starting => done'[u] = {}
    <3>1. CASE u = r
      BY <1>4, <1>5, <3>1
    <3>2. CASE u # r
      BY <1>4, <1>5, <1>7, <3>2, CourtBounds DEF HandsInv, Own
    <3> QED BY <3>1, <3>2
  <2> QED BY <1>1, <2>1 DEF Own
<1> QED BY <1>11, <1>12, <1>13, <1>14, <1>15 DEF HandsInv

-----------------------------------------------------------------------------
(* Every step.                                                             *)

LEMMA HandsRest ==
  ASSUME HandsInv, UNCHANGED <<at, lists, case>>
  PROVE  HandsInv'
<1>1. at' = at /\ case' = case /\ targets' = targets /\ done' = done /\ queue' = queue
  BY DEF lists
<1>2. HandsTyped' /\ Settled'
  BY <1>1 DEF HandsInv, HandsTyped, Settled
<1>3. Dealt'
  BY <1>1 DEF HandsInv, Dealt
<1>4. Held0' /\ Own'
  BY <1>1 DEF HandsInv, Held0, Own
<1> QED BY <1>2, <1>3, <1>4 DEF HandsInv

LEMMA CourtHands ==
  ASSUME HandsInv, NEW t \in Threads, CourtStep(t)
  PROVE  HandsInv'
<1>1. \/ Probe(t) \/ (\E ok \in BOOLEAN : Probed(t, ok))
      \/ (\E some \in SUBSET case[t].read, daily \in BOOLEAN : Jury(t, some, daily)) \/ Weigh(t) \/ Call(t) \/ Rule(t)
      \/ (\E asked \in Docket(case[t]) :
           \/ \E some \in SUBSET asked : \E noted \in SUBSET some : Judge(t, asked, some, noted)
           \/ \E daily \in BOOLEAN : NoJudge(t, asked, daily))
      \/ \E d \in case[t].left : Store(t, d)
  BY Zenon DEF CourtStep
<1> QED BY <1>1, ProbeHands, JuryHands, JudgeHands, StoreHands

LEMMA HandsKept ==
  ASSUME HandsInv, [Next]_vars
  PROVE  HandsInv'
<1>1. ASSUME NEW r \in Reviews, ReviewStep(r)
      PROVE  HandsInv'
  <2>1. r \in Threads
    BY CourtBounds
  <2> QED BY <1>1, <2>1, CourtHands, PickHands, OpenHands, DealHands, EndHands DEF ReviewStep
<1>2. ASSUME NEW w \in Workers, WorkerStep(w)
      PROVE  HandsInv'
  <2>1. w \in Threads
    BY CourtBounds
  <2> QED BY <1>2, <2>1, CourtHands, TakeHands, GiveBackHands, ReadHands DEF WorkerStep
<1>3. CASE StartCycle \/ StartPanel \/ \E r \in Named : StartNamed(r)
  BY <1>3, StartHands
<1>4. CASE Stop \/ (\E d \in Domains : OpenSession(d)) \/ CloseSession \/ PCJudge \/ (\E d \in Domains : Age(d)) \/ Tick
  BY <1>4, HandsRest DEF Stop, OpenSession, CloseSession, PCJudge, Age, Tick
<1>5. CASE UNCHANGED vars
  BY <1>5, HandsRest DEF vars, state
<1> QED BY <1>1, <1>2, <1>3, <1>4, <1>5 DEF Next, Step

\* However many workers a review has, and however its batches are taken, given back and given up,
\* no domain is with two of them, or with one and on the list, or on the list once it is finalised.
THEOREM OneHand == Spec => []InOneHand
<1>1. Init => HandsInv
  BY HandsStart
<1>2. HandsInv /\ [Next]_vars => HandsInv'
  BY HandsKept
<1>3. HandsInv => InOneHand
  BY HandsInvOneHand
<1> QED BY <1>1, <1>2, <1>3, PTL DEF Spec

-----------------------------------------------------------------------------
(* What is saved, and what is remembered.                                  *)

SavedTyped ==
  /\ stage \in [Domains -> Stages]
  /\ needs \subseteq Domains /\ aged \subseteq Domains /\ notes \subseteq Domains
FlagsTyped ==
  /\ running \in BOOLEAN /\ stopped \in BOOLEAN /\ again \in BOOLEAN
  /\ session \in Domains \cup {NoDomain}

TypeInv == HandsInv /\ MemoryType /\ SavedTyped /\ FlagsTyped /\ mixed \subseteq Domains

LEMMA ReachedIs ==
  ASSUME NEW c, NEW d
  PROVE  Reached(c, d) \in Stages /\ (Reached(c, d) = "ruled" <=> d \in c.ruled)
BY DEF Reached, Stages, Rank

LEMMA TypeInvTypes ==
  ASSUME TypeInv
  PROVE  TypeOK
<1>1. \A r \in Reviews : \A i \in DOMAIN queue[r] : queue[r][i].ds \subseteq Domains /\ queue[r][i].tries \in 0 .. 2
  <2> SUFFICES ASSUME NEW r \in Reviews, NEW i \in DOMAIN queue[r]
               PROVE  queue[r][i].ds \subseteq Domains /\ queue[r][i].tries \in 0 .. 2
    OBVIOUS
  <2>1. PICK q \in Seq(Batch) : q = queue[r]
    BY DEF TypeInv, HandsInv, HandsTyped
  <2>2. q[i] \in Batch
    BY <2>1
  <2> QED BY <2>1, <2>2 DEF Batch
<1>2. \A t \in Threads : \A f \in DOMAIN NoCase \ {"tries"} : case[t][f] \subseteq Domains
  <2> SUFFICES ASSUME NEW t \in Threads, NEW f \in DOMAIN NoCase \ {"tries"}
               PROVE  case[t][f] \subseteq Domains
    OBVIOUS
  <2>1. case[t] \in Cases
    BY DEF TypeInv, HandsInv, HandsTyped
  <2>2. f \in {"ds", "left", "read", "saved", "heard", "ask", "ruled", "noted"}
    BY DEF NoCase
  <2> QED BY <2>1, <2>2 DEF Cases
<1> QED BY <1>1, <1>2 DEF TypeOK, TypeInv, HandsInv, HandsTyped, SavedTyped, FlagsTyped

LEMMA TypeStart ==
  ASSUME Init
  PROVE  TypeInv
<1>1. HandsInv
  BY HandsStart
<1>2. MemoryType
  BY DEF Init, MemoryInit, MemoryType
<1>3. SavedTyped
  BY DEF Init, SavedTyped
<1>4. FlagsTyped /\ mixed \subseteq Domains
  BY DEF Init, FlagsTyped
<1> QED BY <1>1, <1>2, <1>3, <1>4 DEF TypeInv

\* The memory takes note of the judge, of the jurors and of what failed; and time passes.
LEMMA MemoryKept ==
  ASSUME TypeInv, Step
  PROVE  MemoryType'
<1> USE DEF TypeInv
<1>1. ASSUME UNCHANGED memory
      PROVE  MemoryType'
  BY <1>1 DEF MemoryType, memory
<1>2. ASSUME UNCHANGED <<rest, capped, held>>, judge' \in {"ready", "backoff", "capped"}, probeDue' \in BOOLEAN
      PROVE  MemoryType'
  BY <1>2 DEF MemoryType
<1>3. \A daily \in BOOLEAN : SonnetFailed(daily) => judge' \in {"ready", "backoff", "capped"} /\ probeDue' \in BOOLEAN
  BY DEF SonnetFailed
<1>4. SonnetAnswered => judge' \in {"ready", "backoff", "capped"} /\ probeDue' \in BOOLEAN
  BY DEF SonnetAnswered
<1>5. \A ok \in BOOLEAN : SonnetProbed(ok) => judge' \in {"ready", "backoff", "capped"} /\ probeDue' \in BOOLEAN
  BY DEF SonnetProbed, MemoryType
<1>6. ASSUME NEW t \in Threads, CourtStep(t)
      PROVE  MemoryType'
  <2>1. CASE Probe(t) \/ Weigh(t) \/ Call(t) \/ Rule(t) \/ \E d \in case[t].left : Store(t, d)
    BY <1>1, <2>1 DEF Probe, Weigh, Call, Rule, Store
  <2>2. CASE \E ok \in BOOLEAN : Probed(t, ok)
    BY <1>2, <1>5, <2>2 DEF Probed
  <2>3. CASE \E some \in SUBSET case[t].read, daily \in BOOLEAN : Jury(t, some, daily)
    <3>1. capped' \in BOOLEAN /\ UNCHANGED <<rest, judge, probeDue, held>>
      BY <2>3 DEF Jury, MemoryType
    <3> QED BY <3>1 DEF MemoryType
  <2>4. CASE \E asked \in Docket(case[t]) :
               \/ \E some \in SUBSET asked : \E noted \in SUBSET some : Judge(t, asked, some, noted)
               \/ \E daily \in BOOLEAN : NoJudge(t, asked, daily)
    BY <1>2, <1>3, <1>4, <2>4 DEF Judge, NoJudge
  <2> QED BY <1>6, <2>1, <2>2, <2>3, <2>4, Zenon DEF CourtStep
<1>7. ASSUME NEW w \in Workers, WorkerStep(w)
      PROVE  MemoryType'
  <2>1. CASE Take(w) \/ GiveBack(w) \/ Single(w) \/ (\E some \in SUBSET case[w].ds : Read(w, some))
               \/ \E garbled \in BOOLEAN : GiveUp(w, garbled)
    BY <1>1, <2>1 DEF Take, GiveBack, Single, Read, GiveUp
  <2> QED BY <1>6, <1>7, <2>1, CourtBounds DEF WorkerStep
<1>8. ASSUME NEW r \in Reviews, ReviewStep(r)
      PROVE  MemoryType'
  <2>1. CASE Pick(r)
    <3>1. UNCHANGED <<rest, judge, probeDue, capped>> /\ (held' = held \/ \E ds : Hold(ds))
      BY <2>1 DEF Pick
    <3>2. \A ds : Ages(ds) \in [Domains -> {"out", "new", "old"}]
      BY DEF Ages, MemoryType
    <3>3. held' \in [Domains -> {"out", "new", "old"}]
      BY <3>1, <3>2 DEF Hold, MemoryType
    <3> QED BY <3>1, <3>3 DEF MemoryType
  <2>2. CASE Open(r) \/ Deal(r)
    BY <1>1, <2>2 DEF Open, Deal
  <2>3. CASE End(r)
    <3>1. UNCHANGED <<judge, probeDue, capped, held>> /\ targets[r] \in SUBSET Domains
      BY <2>3 DEF End, HandsInv, HandsTyped
    <3>2. rest' \subseteq Domains
      BY <2>3, <3>1 DEF End, Remember, MemoryType
    <3> QED BY <3>1, <3>2 DEF MemoryType
  <2> QED BY <1>6, <1>8, <2>1, <2>2, <2>3, CourtBounds DEF ReviewStep
<1>9. CASE StartCycle \/ StartPanel \/ (\E r \in Named : StartNamed(r)) \/ Stop
             \/ (\E d \in Domains : OpenSession(d)) \/ CloseSession \/ \E d \in Domains : Age(d)
  BY <1>1, <1>9 DEF StartCycle, StartPanel, StartNamed, Stop, OpenSession, CloseSession, Age
<1>10. CASE PCJudge
  BY <1>2, <1>3, <1>4, <1>10 DEF PCJudge
<1>11. CASE Tick
  <2>1. CASE QuarterPassed \/ BackoffOver \/ Midnight
    BY <2>1 DEF QuarterPassed, BackoffOver, Midnight, MemoryType
  <2>2. CASE \E d \in Domains : RestOver(d) \/ HeldAnHour(d)
    BY <2>2 DEF RestOver, HeldAnHour, MemoryType
  <2> QED BY <1>11, <2>1, <2>2 DEF Tick, Clock
<1> QED BY <1>7, <1>8, <1>9, <1>10, <1>11 DEF Step

\* Who writes what is saved: a court that rules and stores, a ruling of the user, and time.
LEMMA WhoSaves ==
  ASSUME Step
  PROVE  \/ UNCHANGED shared /\ UNCHANGED session
         \/ \E t \in Threads : Rule(t) \/ \E d \in case[t].left : Store(t, d)
         \/ (\E d \in Domains : OpenSession(d)) \/ CloseSession \/ \E d \in Domains : Age(d)
<1>1. ASSUME NEW t \in Threads, CourtStep(t)
      PROVE  \/ UNCHANGED shared /\ UNCHANGED session
             \/ Rule(t) \/ \E d \in case[t].left : Store(t, d)
  <2>1. CASE Probe(t) \/ Weigh(t) \/ Call(t) \/ (\E ok \in BOOLEAN : Probed(t, ok))
               \/ \E some \in SUBSET case[t].read, daily \in BOOLEAN : Jury(t, some, daily)
    BY <2>1 DEF Probe, Weigh, Call, Probed, Jury
  <2>2. CASE \E asked \in Docket(case[t]) :
               \/ \E some \in SUBSET asked : \E noted \in SUBSET some : Judge(t, asked, some, noted)
               \/ \E daily \in BOOLEAN : NoJudge(t, asked, daily)
    BY <2>2 DEF Judge, NoJudge
  <2> QED BY <1>1, <2>1, <2>2, Zenon DEF CourtStep
<1>2. ASSUME NEW w \in Workers, WorkerStep(w)
      PROVE  (UNCHANGED shared /\ UNCHANGED session) \/ CourtStep(w)
  BY <1>2 DEF WorkerStep, Take, GiveBack, Single, Read, GiveUp
<1>3. ASSUME NEW r \in Reviews, ReviewStep(r)
      PROVE  (UNCHANGED shared /\ UNCHANGED session) \/ CourtStep(r)
  BY <1>3 DEF ReviewStep, Pick, Open, Deal, End
<1>4. CASE StartCycle \/ StartPanel \/ (\E r \in Named : StartNamed(r)) \/ Stop \/ PCJudge \/ Tick
  BY <1>4 DEF StartCycle, StartPanel, StartNamed, Stop, PCJudge, Tick
<1> QED BY <1>1, <1>2, <1>3, <1>4, CourtBounds DEF Step

\* What a court that stores leaves.
LEMMA StoreIs ==
  ASSUME TypeInv, NEW t \in Threads, NEW d \in case[t].left, Store(t, d)
  PROVE  /\ d \in Domains /\ d \in case[t].ds /\ at[t] = "store"
         /\ stage' \in [Domains -> Stages]
         /\ \A e \in Domains \ {d} : stage'[e] = stage[e] /\ (e \in needs' <=> e \in needs)
         /\ stage'[d] = "ruled" <=> d \in case[t].ruled
         /\ d \in needs' <=> d \in case[t].noted
         /\ needs' \subseteq Domains /\ aged' \subseteq Domains /\ notes' = notes /\ session' = session
<1>1. d \in Domains /\ d \in case[t].ds
  BY SameCase DEF TypeInv, Proper, Cases
<1>2. PICK k : k = Reached(case[t], d)
  OBVIOUS
<1>3. k \in Stages /\ (k = "ruled" <=> d \in case[t].ruled)
  BY <1>2, ReachedIs
<1>4. stage' = [stage EXCEPT ![d] = k] /\ at[t] = "store" /\ notes' = notes /\ session' = session
  BY <1>2 DEF Store
<1>5. needs' = IF d \in case[t].noted THEN needs \cup {d} ELSE needs \ {d}
  BY DEF Store
<1>6. aged' = aged \/ aged' = aged \ {d}
  BY DEF Store
<1>7. stage \in [Domains -> Stages] /\ needs \subseteq Domains /\ aged \subseteq Domains
  BY DEF TypeInv, SavedTyped
<1> QED BY <1>1, <1>3, <1>4, <1>5, <1>6, <1>7

LEMMA SavedKept ==
  ASSUME TypeInv, Step
  PROVE  SavedTyped'
<1> USE DEF TypeInv
<1>1. CASE UNCHANGED shared
  BY <1>1 DEF SavedTyped, shared
<1>2. CASE \E t \in Threads : Rule(t)
  <2>1. PICK t \in Threads : Rule(t)
    BY <1>2
  <2>2. case[t].noted \subseteq Domains
    BY SameCase DEF Cases
  <2> QED BY <2>1, <2>2 DEF Rule, SavedTyped
<1>3. CASE \E t \in Threads : \E d \in case[t].left : Store(t, d)
  <2>1. PICK t \in Threads : \E d \in case[t].left : Store(t, d)
    BY <1>3
  <2>2. PICK d \in case[t].left : Store(t, d)
    BY <2>1
  <2> QED BY <2>2, StoreIs DEF SavedTyped
<1>4. CASE \E d \in Domains : OpenSession(d)
  BY <1>4 DEF OpenSession, SavedTyped
<1>5. CASE CloseSession
  <2>1. session \in Domains /\ "ruled" \in Stages
    BY <1>5 DEF CloseSession, FlagsTyped, Stages, Rank
  <2> QED BY <1>5, <2>1 DEF CloseSession, SavedTyped
<1>6. CASE \E d \in Domains : Age(d)
  BY <1>6 DEF Age, SavedTyped
<1> QED BY <1>1, <1>2, <1>3, <1>4, <1>5, <1>6, WhoSaves

\* The flags of the reviews, and the ruling of the user.
LEMMA FlagsKept ==
  ASSUME TypeInv, Step
  PROVE  FlagsTyped'
<1>1. session' \in Domains \cup {NoDomain}
  BY WhoSaves DEF TypeInv, FlagsTyped, Rule, Store, OpenSession, CloseSession, Age
<1>2. running' \in BOOLEAN /\ stopped' \in BOOLEAN /\ again' \in BOOLEAN
  <2>1. running \in BOOLEAN /\ stopped \in BOOLEAN /\ again \in BOOLEAN
    BY DEF TypeInv, FlagsTyped
  <2>2. ASSUME NEW t \in Threads, CourtStep(t)
        PROVE  UNCHANGED flags
    <3>1. CASE \E asked \in Docket(case[t]) :
                 \/ \E some \in SUBSET asked : \E noted \in SUBSET some : Judge(t, asked, some, noted)
                 \/ \E daily \in BOOLEAN : NoJudge(t, asked, daily)
      BY <3>1 DEF Judge, NoJudge
    <3>2. CASE Probe(t) \/ Weigh(t) \/ Call(t) \/ Rule(t) \/ (\E ok \in BOOLEAN : Probed(t, ok))
                 \/ (\E some \in SUBSET case[t].read, daily \in BOOLEAN : Jury(t, some, daily))
                 \/ \E d \in case[t].left : Store(t, d)
      BY <3>2 DEF Probe, Weigh, Call, Probed, Jury, Rule, Store
    <3> QED BY <2>2, <3>1, <3>2, Zenon DEF CourtStep
  <2>3. ASSUME NEW w \in Workers, WorkerStep(w)
        PROVE  UNCHANGED flags
    BY <2>2, <2>3, CourtBounds DEF WorkerStep, Take, GiveBack, Single, Read, GiveUp
  <2>4. ASSUME NEW r \in Reviews, Pick(r) \/ End(r)
        PROVE  UNCHANGED <<stopped, again>> /\ (running' = (running /\ r # Panel) \/ running' = running)
    <3>1. CASE Pick(r)
      <4>1. UNCHANGED <<stopped, again>>
        BY <3>1, Zenon DEF Pick
      <4>2. running' = (running /\ r # Panel) \/ running' = running
        BY <3>1, Zenon DEF Pick
      <4> QED BY <4>1, <4>2
    <3>2. CASE End(r)
      BY <3>2, Zenon DEF End
    <3> QED BY <2>4, <3>1, <3>2
  <2>5. ASSUME NEW r \in Reviews, ReviewStep(r)
        PROVE  running' \in BOOLEAN /\ stopped' \in BOOLEAN /\ again' \in BOOLEAN
    BY <2>1, <2>2, <2>4, <2>5, CourtBounds DEF ReviewStep, Open, Deal, flags
  <2>6. CASE StartCycle \/ StartPanel \/ (\E r \in Named : StartNamed(r)) \/ Stop \/ PCJudge \/ Tick
               \/ (\E d \in Domains : OpenSession(d)) \/ CloseSession \/ \E d \in Domains : Age(d)
    BY <2>1, <2>6 DEF StartCycle, StartPanel, StartNamed, Stop, PCJudge, Tick, OpenSession, CloseSession, Age, flags
  <2> QED BY <2>1, <2>3, <2>5, <2>6 DEF Step, flags
<1> QED BY <1>1, <1>2 DEF FlagsTyped

LEMMA TypeKept ==
  ASSUME TypeInv, [Next]_vars
  PROVE  TypeInv'
<1>1. HandsInv'
  BY HandsKept DEF TypeInv
<1>2. CASE Next
  <2>1. Step /\ mixed' = mixed \cup Contested'
    BY <1>2 DEF Next
  <2>2. mixed' \subseteq Domains
    BY <2>1 DEF Contested, TypeInv
  <2> QED BY <1>1, <2>1, <2>2, MemoryKept, SavedKept, FlagsKept DEF TypeInv
<1>3. CASE UNCHANGED vars
  <2>1. UNCHANGED memory /\ UNCHANGED shared /\ UNCHANGED <<running, stopped, again, session, mixed>>
    BY <1>3 DEF vars, state, flags
  <2> QED BY <1>1, <2>1 DEF TypeInv, MemoryType, SavedTyped, FlagsTyped, memory, shared
<1> QED BY <1>2, <1>3

\* The reviews, the verdicts and the memory of them are what TypeOK says.
THEOREM CourtTyped == Spec => []TypeOK
<1>1. Init => TypeInv
  BY TypeStart
<1>2. TypeInv /\ [Next]_vars => TypeInv'
  BY TypeKept
<1>3. TypeInv => TypeOK
  BY TypeInvTypes
<1> QED BY <1>1, <1>2, <1>3, PTL DEF Spec

-----------------------------------------------------------------------------
(* The notes of the judge.                                                 *)

Storing(t, d) == at[t] = "store" /\ d \in case[t].left

\* A note stands for what is saved; while a ruling is stored, for that; while the user's is, for none.
NotesOf(d) ==
  /\ (d # session /\ stage[d] = "ruled" /\ \A t \in Threads : ~Storing(t, d)) => (d \in notes <=> d \in needs)
  /\ \A t \in Threads : Storing(t, d) /\ d \in case[t].ruled => (d \in notes <=> d \in case[t].noted)
  /\ session = d => d \notin notes

NotesInv == TypeInv /\ Contested \subseteq mixed /\ \A d \in Domains \ mixed : NotesOf(d)

\* What no two have in hand has one review at most, and none while the user rules on it.
LEMMA NotContested ==
  ASSUME NEW d \in Domains \ Contested
  PROVE  /\ \A r, s \in Reviews : d \in targets[r] \cup case[r].ds /\ d \in targets[s] \cup case[s].ds => r = s
         /\ session = d => \A r \in Reviews : d \notin targets[r] \cup case[r].ds
<1>1. PICK H : H = {r \in Reviews : d \in targets[r] \cup case[r].ds}
  OBVIOUS
<1>2. PICK s \in {0, 1} : s = IF session = d THEN 1 ELSE 0
  OBVIOUS
<1>3. ~(Cardinality(H) + s > 1)
  BY <1>1, <1>2 DEF Contested
<1>4. IsFiniteSet(H)
  BY <1>1, CourtBounds, FS_Subset
<1>5. PICK n \in Nat : n = Cardinality(H)
  BY <1>4, FS_CardinalityType
<1>6. n + s <= 1
  BY <1>3, <1>5
<1>7. ASSUME NEW r \in H
      PROVE  n >= 1 /\ Cardinality({r}) = 1 /\ IsFiniteSet({r})
  <2>1. IsFiniteSet({r}) /\ Cardinality({r}) = 1
    BY FS_Singleton
  <2>2. Cardinality({r}) <= Cardinality(H)
    BY <1>4, FS_Subset
  <2> QED BY <1>5, <2>1, <2>2
<1>8. ASSUME NEW r \in H, NEW u \in H, r # u
      PROVE  n >= 2
  <2>1. IsFiniteSet({r} \cup {u}) /\ Cardinality({r} \cup {u}) = 2
    <3>1. IsFiniteSet({r}) /\ Cardinality({r}) = 1 /\ u \notin {r}
      BY <1>8, FS_Singleton
    <3>2. Cardinality({r} \cup {u}) = Cardinality({r}) + 1
      BY <3>1, FS_AddElement
    <3> QED BY <3>1, <3>2, FS_AddElement
  <2>2. Cardinality({r} \cup {u}) <= Cardinality(H)
    BY <1>4, FS_Subset
  <2> QED BY <1>5, <2>1, <2>2
<1>9. ASSUME NEW r \in Reviews, NEW u \in Reviews, d \in targets[r] \cup case[r].ds, d \in targets[u] \cup case[u].ds
      PROVE  r = u
  BY <1>1, <1>2, <1>6, <1>8, <1>9
<1>10. ASSUME session = d, NEW r \in Reviews, d \in targets[r] \cup case[r].ds
       PROVE  FALSE
  <2>1. s = 1 /\ r \in H
    BY <1>1, <1>2, <1>10
  <2>2. n >= 1
    BY <1>7, <2>1
  <2> QED BY <1>6, <2>1, <2>2
<1> QED BY <1>9, <1>10

\* So one thread at most has it in its case.
LEMMA OneCase ==
  ASSUME HandsInv, NEW d \in Domains \ Contested
  PROVE  /\ \A t, u \in Threads : d \in case[t].ds /\ d \in case[u].ds => t = u
         /\ \A t \in Threads : d \in case[t].ds => session # d
<1>1. \A t \in Threads : d \in case[t].ds => Owner(t) \in Reviews /\ d \in targets[Owner(t)] \cup case[Owner(t)].ds
  BY CourtBounds DEF HandsInv, Held0, Owner
<1>2. \A t \in Threads : d \in case[t].ds => session # d
  BY <1>1, NotContested
<1>3. ASSUME NEW t \in Threads, NEW u \in Threads, d \in case[t].ds, d \in case[u].ds
      PROVE  t = u
  <2>1. PICK r \in Reviews : r = Owner(t) /\ r = Owner(u)
    BY <1>1, <1>3, NotContested
  <2>2. CASE t \in Reviews /\ u \in Reviews
    BY <2>1, <2>2, CourtBounds DEF Owner
  <2>3. CASE t \in Workers /\ u \in Workers
    BY <1>3, <2>1, <2>3 DEF HandsInv, Held0, Owner
  <2>4. CASE t \in Reviews /\ u \in Workers
    <3>1. t = r /\ Crew[u] = r
      BY <2>1, <2>4, CourtBounds DEF Owner
    <3> QED BY <1>3, <2>4, <3>1 DEF HandsInv, Held0, Own
  <2>5. CASE u \in Reviews /\ t \in Workers
    <3>1. u = r /\ Crew[t] = r
      BY <2>1, <2>5, CourtBounds DEF Owner
    <3> QED BY <1>3, <2>5, <3>1 DEF HandsInv, Held0, Own
  <2> QED BY <2>2, <2>3, <2>4, <2>5, CourtBounds
<1> QED BY <1>2, <1>3

LEMMA OneCaseThen ==
  ASSUME NEW d
  PROVE  HandsInv' /\ d \in Domains \ Contested' => \A t \in Threads : d \in case'[t].ds => session' # d
<1>1. HandsInv /\ d \in Domains \ Contested => \A t \in Threads : d \in case[t].ds => session # d
  BY OneCase
<1>2. (HandsInv /\ d \in Domains \ Contested => \A t \in Threads : d \in case[t].ds => session # d)'
  BY <1>1, PTL
<1> QED BY <1>2

LEMMA NotesSame ==
  ASSUME NEW d, NotesOf(d), stage'[d] = stage[d], d \in needs' <=> d \in needs, d \in notes' <=> d \in notes,
         session' = d <=> session = d,
         \A t \in Threads : Storing(t, d)' <=> Storing(t, d),
         \A t \in Threads : Storing(t, d) => case'[t].ruled = case[t].ruled /\ case'[t].noted = case[t].noted
  PROVE  NotesOf(d)'
BY DEF NotesOf

\* Only a court that rules comes to store, and it stores until it is through.
LEMMA OthersStoreOn ==
  ASSUME HandsInv, Step
  PROVE  \/ \E t \in Threads : Rule(t) \/ \E d \in case[t].left : Store(t, d)
         \/ \A t \in Threads : (at'[t] = "store" \/ at[t] = "store") => at'[t] = at[t] /\ case'[t] = case[t]
<1> DEFINE On == \A t \in Threads : (at'[t] = "store" \/ at[t] = "store") => at'[t] = at[t] /\ case'[t] = case[t]
<1>1. at \in [Threads -> Phase] /\ case \in [Threads -> Cases]
  BY DEF HandsInv, HandsTyped
<1>2. ASSUME NEW t \in Threads, NEW p, at[t] # "store", p # "store", at' = [at EXCEPT ![t] = p],
             case' = case \/ \E c : case' = [case EXCEPT ![t] = c]
      PROVE  On
  BY <1>1, <1>2
<1>3. ASSUME UNCHANGED <<at, case>>
      PROVE  On
  BY <1>3
<1> HIDE DEF On
<1>4. ASSUME NEW t \in Threads, CourtStep(t), ~Rule(t), ~\E d \in case[t].left : Store(t, d)
      PROVE  On
  <2>1. CASE Probe(t) \/ \E ok \in BOOLEAN : Probed(t, ok)
    <3>1. at[t] # "store" /\ case' = case /\ \E p \in {"askLook", "askDue", "pick", "call"} : at' = [at EXCEPT ![t] = p]
      BY <2>1 DEF Probe, Probed, Goto, Probing, Tried
    <3> QED BY <1>2, <3>1
  <2>2. CASE (\E some \in SUBSET case[t].read, daily \in BOOLEAN : Jury(t, some, daily)) \/ Weigh(t) \/ Call(t)
    <3>1. /\ at[t] # "store" /\ \E p \in {"weigh", "due", "close", "judge"} : at' = [at EXCEPT ![t] = p]
          /\ case' = case \/ \E c : case' = [case EXCEPT ![t] = c]
      BY <2>2 DEF Jury, Weigh, Call, Goto, File
    <3> QED BY <1>2, <3>1
  <2>3. CASE \E asked \in Docket(case[t]) :
               \/ \E some \in SUBSET asked : \E noted \in SUBSET some : Judge(t, asked, some, noted)
               \/ \E daily \in BOOLEAN : NoJudge(t, asked, daily)
    <3>1. at[t] # "store" /\ at' = [at EXCEPT ![t] = "due"] /\ \E c : case' = [case EXCEPT ![t] = c]
      BY <2>3 DEF Judge, NoJudge, Goto, File
    <3> QED BY <1>2, <3>1
  <2> QED BY <1>4, <2>1, <2>2, <2>3, Zenon DEF CourtStep
<1>5. ASSUME NEW w \in Workers, WorkerStep(w), ~Rule(w), ~\E d \in case[w].left : Store(w, d)
      PROVE  On
  <2>1. CASE Take(w) \/ GiveBack(w) \/ (\E some \in SUBSET case[w].ds : Read(w, some))
               \/ \E garbled \in BOOLEAN : GiveUp(w, garbled)
    <3>1. /\ at[w] # "store" /\ \E p \in {"off", "read", "loop", "single"} : at' = [at EXCEPT ![w] = p]
          /\ case' = case \/ \E c : case' = [case EXCEPT ![w] = c]
      BY <2>1 DEF Take, GiveBack, Read, GiveUp, Goto, File
    <3> QED BY <1>2, <3>1, CourtBounds
  <2>2. CASE Single(w)
    <3>1. at[w] = "single" /\ \E c : case' = [case EXCEPT ![w] = c]
      BY <2>2 DEF Single, File
    <3>2. at' = at \/ \E p \in {"loop", "jury"} : at' = [at EXCEPT ![w] = p]
      BY <2>2 DEF Single, Goto
    <3>3. at = [at EXCEPT ![w] = "single"]
      BY <1>1, <3>1
    <3> QED BY <1>2, <3>1, <3>2, <3>3, CourtBounds
  <2> QED BY <1>4, <1>5, <2>1, <2>2, CourtBounds DEF WorkerStep
<1>6. ASSUME NEW r \in Reviews, ReviewStep(r), ~Rule(r), ~\E d \in case[r].left : Store(r, d)
      PROVE  On
  <2>1. CASE Pick(r) \/ Open(r) \/ End(r)
    <3>1. /\ at[r] # "store" /\ \E p \in {"idle", "open", "deal", "jury"} : at' = [at EXCEPT ![r] = p]
          /\ case' = case \/ \E c : case' = [case EXCEPT ![r] = c]
      BY <2>1 DEF Pick, Open, End, Goto, File
    <3> QED BY <1>2, <3>1, CourtBounds
  <2>2. CASE Deal(r)
    <3>1. at[r] = "deal" /\ case' = case
      BY <2>2 DEF Deal
    <3>2. \A w \in Workers : Crew[w] = r => at[w] = "off"
      BY <3>1, CrewIsOff
    <3>3. \A t \in Threads : at'[t] = IF t = r THEN "join" ELSE IF t \in Workers /\ Crew[t] = r THEN "loop" ELSE at[t]
      BY <2>2 DEF Deal
    <3>4. \A t \in Threads : (at'[t] = "store" \/ at[t] = "store") => at'[t] = at[t]
      BY <3>1, <3>2, <3>3
    <3> QED BY <3>1, <3>4 DEF On
  <2> QED BY <1>4, <1>6, <2>1, <2>2, CourtBounds DEF ReviewStep
<1>7. ASSUME StartCycle \/ StartPanel \/ \E r \in Named : StartNamed(r)
      PROVE  On
  <2>1. PICK r \in Reviews : at[r] = "idle" /\ case' = case /\ \E p \in {"look", "open"} : at' = [at EXCEPT ![r] = p]
    BY <1>7 DEF StartCycle, StartPanel, StartNamed, Goto, Reviews
  <2> QED BY <1>2, <2>1, CourtBounds
<1>8. ASSUME Stop \/ (\E d \in Domains : OpenSession(d)) \/ CloseSession \/ PCJudge \/ (\E d \in Domains : Age(d)) \/ Tick
      PROVE  On
  BY <1>3, <1>8 DEF Stop, OpenSession, CloseSession, PCJudge, Age, Tick
<1>9. On \/ \E t \in Threads : Rule(t) \/ \E d \in case[t].left : Store(t, d)
  <2> SUFFICES ASSUME \A t \in Threads : ~Rule(t) /\ ~\E d \in case[t].left : Store(t, d)
               PROVE  On
    OBVIOUS
  <2>1. CASE \E r \in Reviews : ReviewStep(r)
    BY <1>6, <2>1, CourtBounds
  <2>2. CASE \E w \in Workers : WorkerStep(w)
    BY <1>5, <2>2, CourtBounds
  <2> QED BY <1>7, <1>8, <2>1, <2>2 DEF Step
<1> QED BY <1>9 DEF On

LEMMA StoreMoves ==
  ASSUME TypeInv, NEW t \in Threads, NEW d \in case[t].left, Store(t, d)
  PROVE  /\ \A u \in Threads \ {t} : at'[u] = at[u] /\ case'[u] = case[u]
         /\ at'[t] = "store" => /\ case'[t].left = case[t].left \ {d}
                                /\ case'[t].ruled = case[t].ruled /\ case'[t].noted = case[t].noted
         /\ at'[t] # "store" => case[t].left = {d}
<1>1. at \in [Threads -> Phase] /\ case \in [Threads -> Cases] /\ at[t] = "store"
  BY DEF TypeInv, HandsInv, HandsTyped, Store
<1>2. PICK k \in Cases : k = case[t]
  BY <1>1
<1>3. CASE k.left = {d}
  <2>1. case' = [case EXCEPT ![t] = NoCase]
    BY <1>2, <1>3, Zenon DEF Store, File
  <2>2. at' = [at EXCEPT ![t] = IF t \in Workers THEN "loop" ELSE "deal"]
    BY <1>2, <1>3, Zenon DEF Store, Goto
  <2> QED BY <1>1, <1>2, <1>3, <2>1, <2>2
<1>4. CASE k.left # {d}
  <2>1. case' = [case EXCEPT ![t] = [k EXCEPT !.left = k.left \ {d}]]
    BY <1>2, <1>4 DEF Store, File
  <2>2. at' = at
    BY <1>2, <1>4, Zenon DEF Store
  <2>3. PICK c : c = [k EXCEPT !.left = k.left \ {d}]
    OBVIOUS
  <2>4. c.left = k.left \ {d} /\ c.ruled = k.ruled /\ c.noted = k.noted
    BY <2>3 DEF Cases
  <2>5. case'[t] = c /\ \A u \in Threads \ {t} : case'[u] = case[u]
    BY <1>1, <2>1, <2>3
  <2> QED BY <1>1, <1>2, <2>2, <2>4, <2>5
<1> QED BY <1>3, <1>4

\* A court rules: it opens and closes the notes of its own domains, and is to store them.
LEMMA RuleNotes ==
  ASSUME TypeInv, NEW t \in Threads, Rule(t), NEW d \in Domains \ Contested, NotesOf(d)
  PROVE  NotesOf(d)'
<1>1. at[t] = "close" /\ notes' = (notes \ case[t].ruled) \cup case[t].noted /\ Proper(case[t])
  BY SameCase DEF Rule, TypeInv
<1>2. stage' = stage /\ needs' = needs /\ session' = session
  BY DEF Rule
<1>3. /\ at'[t] = "store" /\ case'[t].left = case[t].ds
      /\ case'[t].ruled = case[t].ruled /\ case'[t].noted = case[t].noted
      /\ \A u \in Threads \ {t} : at'[u] = at[u] /\ case'[u] = case[u]
  <2>1. PICK k \in Cases : k = case[t]
    BY <1>1 DEF Proper
  <2>2. PICK c : c = [k EXCEPT !.left = k.ds]
    OBVIOUS
  <2>3. c.left = k.ds /\ c.ruled = k.ruled /\ c.noted = k.noted
    BY <2>2 DEF Cases
  <2>4. at \in [Threads -> Phase] /\ case \in [Threads -> Cases]
    BY DEF TypeInv, HandsInv, HandsTyped
  <2>5. at' = [at EXCEPT ![t] = "store"] /\ case' = [case EXCEPT ![t] = c]
    BY <2>1, <2>2 DEF Rule, Goto, File
  <2> QED BY <2>1, <2>3, <2>4, <2>5
<1>4. CASE d \in case[t].ds
  <2>1. session # d /\ \A u \in Threads \ {t} : d \notin case[u].ds
    BY <1>4, OneCase DEF TypeInv
  <2>2. \A u \in Threads \ {t} : ~Storing(u, d)'
    <3>1. \A u \in Threads : case[u].left \subseteq case[u].ds
      BY SameCase DEF TypeInv, Proper
    <3> QED BY <1>3, <2>1, <3>1 DEF Storing
  <2>3. Storing(t, d)'
    BY <1>3, <1>4 DEF Storing
  <2>4. d \in case[t].ruled => (d \in notes' <=> d \in case[t].noted)
    BY <1>1 DEF Proper
  <2> QED BY <1>2, <1>3, <2>1, <2>2, <2>3, <2>4 DEF NotesOf
<1>5. CASE d \notin case[t].ds
  <2>1. d \in notes' <=> d \in notes
    BY <1>1, <1>5 DEF Proper
  <2>2. ~Storing(t, d) /\ ~Storing(t, d)'
    BY <1>1, <1>3, <1>5 DEF Storing
  <2>3. \A u \in Threads : Storing(u, d)' <=> Storing(u, d)
    BY <1>3, <2>2 DEF Storing
  <2>4. \A u \in Threads : Storing(u, d) => case'[u].ruled = case[u].ruled /\ case'[u].noted = case[u].noted
    BY <1>3, <2>2
  <2> QED BY <1>2, <2>1, <2>3, <2>4, NotesSame
<1> QED BY <1>4, <1>5

\* What it stores of a ruling carries the note the ruling left.
LEMMA StoreNotes ==
  ASSUME TypeInv, NEW t \in Threads, NEW e \in case[t].left, Store(t, e), NEW d \in Domains \ Contested, NotesOf(d)
  PROVE  NotesOf(d)'
<1>1. /\ e \in Domains /\ e \in case[t].ds /\ at[t] = "store" /\ notes' = notes /\ session' = session
      /\ \A f \in Domains \ {e} : stage'[f] = stage[f] /\ (f \in needs' <=> f \in needs)
      /\ stage'[e] = "ruled" <=> e \in case[t].ruled
      /\ e \in needs' <=> e \in case[t].noted
  BY StoreIs
<1>2. /\ \A u \in Threads \ {t} : at'[u] = at[u] /\ case'[u] = case[u]
      /\ at'[t] = "store" => /\ case'[t].left = case[t].left \ {e}
                             /\ case'[t].ruled = case[t].ruled /\ case'[t].noted = case[t].noted
      /\ at'[t] # "store" => case[t].left = {e}
  BY StoreMoves
<1>3. CASE d = e
  <2>1. Storing(t, d)
    BY <1>1, <1>3 DEF Storing
  <2>2. session # d /\ \A u \in Threads \ {t} : d \notin case[u].ds
    BY <1>1, <1>3, OneCase DEF TypeInv
  <2>3. \A u \in Threads : ~Storing(u, d)'
    <3>1. \A u \in Threads : case[u].left \subseteq case[u].ds
      BY SameCase DEF TypeInv, Proper
    <3>2. ~Storing(t, d)'
      BY <1>2, <1>3 DEF Storing
    <3> QED BY <1>2, <2>2, <3>1, <3>2 DEF Storing
  <2>4. d \in case[t].ruled => (d \in notes' <=> d \in needs')
    BY <1>1, <1>3, <2>1 DEF NotesOf
  <2>5. stage'[d] = "ruled" => d \in case[t].ruled
    BY <1>1, <1>3
  <2> QED BY <1>1, <2>2, <2>3, <2>4, <2>5 DEF NotesOf
<1>4. CASE d # e
  <2>1. Storing(t, d)' <=> Storing(t, d)
    BY <1>1, <1>2, <1>4 DEF Storing
  <2>2. \A u \in Threads : Storing(u, d)' <=> Storing(u, d)
    BY <1>2, <2>1 DEF Storing
  <2>3. \A u \in Threads : Storing(u, d) => case'[u].ruled = case[u].ruled /\ case'[u].noted = case[u].noted
    <3>1. Storing(t, d) => at'[t] = "store"
      BY <1>2, <1>4 DEF Storing
    <3> QED BY <1>2, <3>1
  <2>4. stage'[d] = stage[d] /\ (d \in needs' <=> d \in needs)
    BY <1>1, <1>4
  <2> QED BY <1>1, <2>2, <2>3, <2>4, NotesSame
<1> QED BY <1>3, <1>4

\* The user rules: first the note is closed, then the ruling is saved.
LEMMA SessionNotes ==
  ASSUME TypeInv, NEW d \in Domains \ Contested, d \notin Contested', HandsInv', NotesOf(d),
         CloseSession \/ \E e \in Domains : OpenSession(e)
  PROVE  NotesOf(d)'
<1>1. at' = at /\ case' = case
  BY DEF CloseSession, OpenSession
<1>2. \A u \in Threads : Storing(u, d)' <=> Storing(u, d)
  BY <1>1 DEF Storing
<1>3. d # NoDomain /\ \A u \in Threads : case[u].left \subseteq case[u].ds
  BY CourtBounds, SameCase DEF TypeInv, Proper
<1>4. CASE CloseSession
  <2>1. notes' = notes /\ session' = NoDomain /\ session \in Domains
    BY <1>4 DEF CloseSession, TypeInv, FlagsTyped
  <2>2. PICK s \in Domains : s = session
    BY <2>1
  <2>3. stage' = [stage EXCEPT ![s] = "ruled"] /\ needs' = needs \ {s}
    BY <1>4, <2>2 DEF CloseSession
  <2>4. CASE d = s
    <3>1. d \notin notes' /\ d \notin needs'
      BY <2>1, <2>2, <2>3, <2>4 DEF NotesOf
    <3>2. \A u \in Threads : ~Storing(u, d)
      BY <1>3, <2>2, <2>4, OneCase DEF Storing, TypeInv
    <3> QED BY <1>2, <1>3, <2>1, <3>1, <3>2 DEF NotesOf
  <2>5. CASE d # s
    <3>1. stage'[d] = stage[d] /\ (d \in needs' <=> d \in needs)
      BY <2>3, <2>5 DEF TypeInv, SavedTyped
    <3> QED BY <1>1, <1>2, <1>3, <2>1, <2>2, <2>5, <3>1, NotesSame
  <2> QED BY <2>4, <2>5
<1>5. CASE \E e \in Domains : OpenSession(e)
  <2>1. PICK e \in Domains : OpenSession(e)
    BY <1>5
  <2>2. session = NoDomain /\ session' = e /\ notes' = notes \ {e} /\ stage' = stage /\ needs' = needs
    BY <2>1 DEF OpenSession, shared
  <2>3. CASE d = e
    <3>1. \A u \in Threads : d \notin case'[u].ds
      BY <2>2, <2>3, OneCaseThen
    <3>2. \A u \in Threads : ~Storing(u, d)'
      BY <1>1, <1>3, <3>1 DEF Storing
    <3> QED BY <2>2, <2>3, <3>2 DEF NotesOf
  <2>4. CASE d # e
    BY <1>1, <1>2, <1>3, <2>2, <2>4, NotesSame
  <2> QED BY <2>3, <2>4
<1> QED BY <1>4, <1>5

LEMMA NotesKept ==
  ASSUME NotesInv, [Next]_vars
  PROVE  NotesInv'
<1>1. TypeInv' /\ HandsInv'
  BY TypeKept DEF NotesInv, TypeInv
<1>2. CASE Next
  <2>1. Step /\ mixed' = mixed \cup Contested'
    BY <1>2 DEF Next
  <2>2. Contested' \subseteq mixed'
    BY <2>1
  <2> SUFFICES ASSUME NEW d \in Domains \ mixed'
               PROVE  NotesOf(d)'
    BY <1>1, <2>2 DEF NotesInv
  <2>3. TypeInv /\ HandsInv /\ d \in Domains \ Contested /\ d \notin Contested' /\ NotesOf(d)
    BY <2>1 DEF NotesInv, TypeInv
  <2>4. CASE \E t \in Threads : Rule(t)
    BY <2>3, <2>4, RuleNotes
  <2>5. CASE \E t \in Threads : \E e \in case[t].left : Store(t, e)
    BY <2>3, <2>5, StoreNotes
  <2>6. CASE CloseSession \/ \E e \in Domains : OpenSession(e)
    BY <1>1, <2>3, <2>6, SessionNotes
  <2>7. CASE \A t \in Threads : (at'[t] = "store" \/ at[t] = "store") => at'[t] = at[t] /\ case'[t] = case[t]
    <3>1. \A t \in Threads : Storing(t, d)' <=> Storing(t, d)
      BY <2>7 DEF Storing
    <3>2. \A t \in Threads : Storing(t, d) => case'[t].ruled = case[t].ruled /\ case'[t].noted = case[t].noted
      BY <2>7 DEF Storing
    <3>3. CASE UNCHANGED <<stage, needs, notes, session>>
      BY <2>3, <3>1, <3>2, <3>3, NotesSame
    <3>4. UNCHANGED <<stage, needs, notes, session>> \/ (\E t \in Threads : Rule(t) \/ \E e \in case[t].left : Store(t, e))
            \/ CloseSession \/ \E e \in Domains : OpenSession(e)
      BY <2>1, WhoSaves DEF shared, Age
    <3> QED BY <2>4, <2>5, <2>6, <3>3, <3>4
  <2> QED BY <2>1, <2>3, <2>4, <2>5, <2>7, OthersStoreOn
<1>3. CASE UNCHANGED vars
  <2>1. UNCHANGED <<at, targets, case, session, mixed, stage, needs, notes>>
    BY <1>3 DEF vars, state, lists, shared
  <2>2. Contested' = Contested
    BY <2>1 DEF Contested
  <2>3. ASSUME NEW d \in Domains \ mixed'
        PROVE  NotesOf(d)'
    <3>1. NotesOf(d) /\ \A t \in Threads : Storing(t, d)' <=> Storing(t, d)
      BY <2>1, <2>3 DEF NotesInv, Storing
    <3> QED BY <2>1, <3>1, NotesSame
  <2> QED BY <1>1, <2>1, <2>2, <2>3 DEF NotesInv
<1> QED BY <1>2, <1>3

LEMMA NotesStart ==
  ASSUME Init
  PROVE  NotesInv
<1>1. TypeInv
  BY TypeStart
<1>2. needs = notes /\ session = NoDomain /\ \A t \in Threads : at[t] # "store"
  BY CourtBounds DEF Init
<1>3. \A r \in Reviews : targets[r] = {} /\ case[r].ds = {}
  BY NoCaseIs, CourtBounds DEF Init
<1>4. Contested = {}
  <2> SUFFICES ASSUME NEW d \in Contested
               PROVE  FALSE
    OBVIOUS
  <2>1. d \in Domains /\ d # session
    BY <1>2, CourtBounds DEF Contested
  <2>2. PICK H : H = {r \in Reviews : d \in targets[r] \cup case[r].ds}
    OBVIOUS
  <2>3. Cardinality(H) = 0
    <3>1. H = {}
      BY <1>3, <2>2
    <3> QED BY <3>1, FS_EmptySet
  <2>4. Cardinality(H) + (IF session = d THEN 1 ELSE 0) > 1
    BY <2>2 DEF Contested
  <2> QED BY <2>1, <2>2, <2>3, <2>4
<1>5. \A d \in Domains \ mixed : NotesOf(d)
  BY <1>2, CourtBounds DEF NotesOf, Storing
<1> QED BY <1>1, <1>4, <1>5 DEF NotesInv

LEMMA NotesInvTrue ==
  ASSUME NotesInv
  PROVE  NotesTrue
<1> SUFFICES ASSUME NEW d \in Domains \ (mixed \cup {session}), stage[d] = "ruled",
                    \A t \in Threads : d \notin case[t].ds
             PROVE  d \in notes <=> d \in needs
  BY DEF NotesTrue
<1>1. \A t \in Threads : case[t].left \subseteq case[t].ds
  BY SameCase DEF NotesInv, TypeInv, Proper
<1>2. \A t \in Threads : ~Storing(t, d)
  BY <1>1 DEF Storing
<1> QED BY <1>2 DEF NotesInv, NotesOf

\* The open notes are those of the rulings that are saved: however the reviews, their workers and
\* the user interleave, but for a domain that two of them had in hand at once.
THEOREM NotesStand == Spec => []NotesTrue
<1>1. Init => NotesInv
  BY NotesStart
<1>2. NotesInv /\ [Next]_vars => NotesInv'
  BY NotesKept
<1>3. NotesInv => NotesTrue
  BY NotesInvTrue
<1> QED BY <1>1, <1>2, <1>3, PTL DEF Spec

-----------------------------------------------------------------------------
(* No verdict is taken back.                                               *)

\* A review that has no list yet.
Before == {"idle", "look", "askLook", "pick"}

\* What a review is about, but one that is to take up what is ruled, has no verdict, or none that
\* rules; what it puts before the court itself has the verdict it had when the review was opened,
\* until it is stored. Before it has a list, a review is about nothing.
StandsOf(d) ==
  /\ \A r \in Reviews : at[r] \in Before => d \notin targets[r]
  /\ \A r \in Reviews \ Asked : d \in targets[r] \ done[r] =>
       stage[d] # "ruled" /\ (at[r] \notin Starting => stage[d] = "none")
  /\ \A r \in Reviews : d \in case[r].ds /\ (at[r] = "store" => d \in case[r].left) =>
       Pending(d) /\ (stage[d] = "judge" <=> d \in case[r].saved)
  /\ \A w \in Workers : Storing(w, d) => d \notin done[Crew[w]]

StandsInv == TypeInv /\ Contested \subseteq mixed /\ \A d \in Domains \ mixed : StandsOf(d)

\* A review, or its worker, goes on with what it is about, or drops it.
GoesOn(r) ==
  /\ \/ targets'[r] = {}
     \/ /\ targets'[r] = targets[r] /\ done'[r] = done[r] /\ (at'[r] \in Starting <=> at[r] \in Starting)
        /\ at'[r] \in Before => at[r] \in Before
  /\ case'[r].ds = {} \/ (case'[r].ds = case[r].ds /\ case'[r].saved = case[r].saved)
  /\ done'[r] \subseteq done[r]

\* Goes on to store, if it was storing.
StoresOn(t) == (at'[t] = "store" \/ at[t] = "store") => at'[t] = at[t] /\ case'[t] = case[t]

LEMMA StandsSame ==
  ASSUME HandsInv, NEW d, StandsOf(d), stage'[d] = stage[d],
         \A r \in Reviews : GoesOn(r), \A t \in Threads : StoresOn(t),
         again' = again \/ at[Panel] \in Before
  PROVE  StandsOf(d)'
<1>0. \A r \in Reviews : at'[r] \in Before => d \notin targets'[r]
  BY DEF StandsOf, GoesOn
<1>1. ASSUME NEW r \in Reviews \ Asked', d \in targets'[r] \ done'[r]
      PROVE  stage'[d] # "ruled" /\ (at'[r] \notin Starting => stage'[d] = "none")
  <2>1. d \in targets[r]
    BY <1>1 DEF GoesOn
  <2>2. r \notin Asked
    BY <1>1, <2>1 DEF StandsOf, Asked
  <2> QED BY <1>1, <2>2 DEF StandsOf, GoesOn
<1>2. ASSUME NEW r \in Reviews, d \in case'[r].ds, at'[r] = "store" => d \in case'[r].left
      PROVE  Pending(d)' /\ (stage'[d] = "judge" <=> d \in case'[r].saved)
  <2>1. case'[r].ds = case[r].ds /\ case'[r].saved = case[r].saved
    BY <1>2 DEF GoesOn
  <2>2. at[r] = "store" => d \in case[r].left
    BY <1>2, CourtBounds DEF StoresOn
  <2> QED BY <1>2, <2>1, <2>2 DEF StandsOf, Pending
<1>3. ASSUME NEW w \in Workers, Storing(w, d)'
      PROVE  d \notin done'[Crew[w]]
  <2>1. w \in Threads /\ Crew[w] \in Reviews
    BY CourtBounds
  <2>2. Storing(w, d)
    BY <1>3, <2>1 DEF Storing, StoresOn
  <2> QED BY <2>1, <2>2 DEF StandsOf, GoesOn
<1> QED BY <1>0, <1>1, <1>2, <1>3 DEF StandsOf

\* Every step but those that begin, rule and store is such a step.
LEMMA ReviewsGoOn ==
  ASSUME HandsInv, Step
  PROVE  \/ \E t \in Threads : Rule(t) \/ \E d \in case[t].left : Store(t, d)
         \/ \E r \in Reviews : Pick(r) \/ Open(r)
         \/ \E r \in Named : StartNamed(r)
         \/ \A r \in Reviews : GoesOn(r)
<1> DEFINE On == \A r \in Reviews : GoesOn(r)
<1>1. at \in [Threads -> Phase] /\ case \in [Threads -> Cases]
  BY DEF HandsInv, HandsTyped
<1>2. ASSUME UNCHANGED <<targets, done>>, NEW t \in Threads, NEW p, NEW c,
             t \in Reviews => /\ p \in Starting <=> at[t] \in Starting
                              /\ p \in Before => at[t] \in Before
                              /\ c.ds = {} \/ (c.ds = case[t].ds /\ c.saved = case[t].saved),
             at' = [at EXCEPT ![t] = p], case' = [case EXCEPT ![t] = c]
      PROVE  On
  <2>1. at'[t] = p /\ case'[t] = c /\ \A u \in Threads \ {t} : at'[u] = at[u] /\ case'[u] = case[u]
    BY <1>1, <1>2
  <2> SUFFICES ASSUME NEW r \in Reviews
               PROVE  GoesOn(r)
    OBVIOUS
  <2>2. CASE r = t
    BY <1>2, <2>1, <2>2 DEF GoesOn
  <2>3. CASE r # t
    BY <1>2, <2>1, <2>3, CourtBounds DEF GoesOn
  <2> QED BY <2>2, <2>3
<1>3. ASSUME UNCHANGED <<at, case, targets, done>>
      PROVE  On
  BY <1>3 DEF GoesOn
<1> HIDE DEF On
<1>4. ASSUME NEW t \in Threads, CourtStep(t), ~Rule(t), ~\E d \in case[t].left : Store(t, d)
      PROVE  On
  <2>1. PICK k \in Cases : k = case[t] /\ case = [case EXCEPT ![t] = k]
    BY <1>1
  <2>2. CASE Probe(t) \/ \E ok \in BOOLEAN : Probed(t, ok)
    <3>1. UNCHANGED <<targets, done, case>> /\ at[t] \in {"look", "askLook", "due", "askDue"}
      BY <2>2 DEF Probe, Probed, lists
    <3>2. \E p : /\ at' = [at EXCEPT ![t] = p] /\ (p \in Starting <=> at[t] \in Starting)
                 /\ p \in Before => at[t] \in Before
      BY <2>2, <3>1 DEF Probe, Probed, Goto, Probing, Tried, Starting, Before
    <3> QED BY <1>2, <2>1, <3>1, <3>2
  <2>3. CASE (\E some \in SUBSET case[t].read, daily \in BOOLEAN : Jury(t, some, daily)) \/ Weigh(t) \/ Call(t)
    <3>1. UNCHANGED <<targets, done>> /\ at[t] \notin Starting
      BY <2>3 DEF Jury, Weigh, Call, lists, Starting
    <3>2. \E p \in {"weigh", "due", "close", "judge"} : at' = [at EXCEPT ![t] = p]
      BY <2>3 DEF Jury, Weigh, Call, Goto
    <3>3. \E c : case' = [case EXCEPT ![t] = c] /\ c.ds = k.ds /\ c.saved = k.saved
      <4>1. \A s : [k EXCEPT !.heard = s].ds = k.ds /\ [k EXCEPT !.heard = s].saved = k.saved
        BY DEF Cases
      <4>2. \A s : [k EXCEPT !.ask = s].ds = k.ds /\ [k EXCEPT !.ask = s].saved = k.saved
        BY DEF Cases
      <4>3. \/ case' = case
            \/ \E s : case' = [case EXCEPT ![t] = [k EXCEPT !.heard = s]]
            \/ \E s : case' = [case EXCEPT ![t] = [k EXCEPT !.ask = s]]
        BY <2>1, <2>3 DEF Jury, Weigh, Call, File
      <4>4. CASE case' = case
        BY <2>1, <4>4
      <4>5. CASE \E s : case' = [case EXCEPT ![t] = [k EXCEPT !.heard = s]]
        <5>1. PICK s : case' = [case EXCEPT ![t] = [k EXCEPT !.heard = s]]
          BY <4>5
        <5>2. PICK c : c = [k EXCEPT !.heard = s]
          OBVIOUS
        <5> QED BY <4>1, <5>1, <5>2
      <4>6. CASE \E s : case' = [case EXCEPT ![t] = [k EXCEPT !.ask = s]]
        <5>1. PICK s : case' = [case EXCEPT ![t] = [k EXCEPT !.ask = s]]
          BY <4>6
        <5>2. PICK c : c = [k EXCEPT !.ask = s]
          OBVIOUS
        <5> QED BY <4>2, <5>1, <5>2
      <4> QED BY <4>3, <4>4, <4>5, <4>6
    <3>4. \A p \in {"weigh", "due", "close", "judge"} : p \notin Starting /\ p \notin Before
      BY DEF Starting, Before
    <3> QED BY <1>2, <2>1, <3>1, <3>2, <3>3, <3>4
  <2>4. CASE \E asked \in Docket(case[t]) :
               \/ \E some \in SUBSET asked : \E noted \in SUBSET some : Judge(t, asked, some, noted)
               \/ \E daily \in BOOLEAN : NoJudge(t, asked, daily)
    <3>1. UNCHANGED <<targets, done>> /\ at[t] \notin Starting /\ at' = [at EXCEPT ![t] = "due"]
          /\ "due" \notin Starting /\ "due" \notin Before
      BY <2>4 DEF Judge, NoJudge, lists, Starting, Before, Goto
    <3>2. \E c : case' = [case EXCEPT ![t] = c] /\ c.ds = k.ds /\ c.saved = k.saved
      <4>1. \A s : [k EXCEPT !.ask = s].ds = k.ds /\ [k EXCEPT !.ask = s].saved = k.saved
        BY DEF Cases
      <4>2. PICK asked \in Docket(case[t]) :
              \/ \E some \in SUBSET asked : \E noted \in SUBSET some : Judge(t, asked, some, noted)
              \/ \E daily \in BOOLEAN : NoJudge(t, asked, daily)
        BY <2>4
      <4>4. CASE \E some \in SUBSET asked : \E noted \in SUBSET some : Judge(t, asked, some, noted)
        <5>1. PICK some \in SUBSET asked : \E noted \in SUBSET some : Judge(t, asked, some, noted)
          BY <4>4
        <5>2. PICK noted \in SUBSET some : Judge(t, asked, some, noted)
          BY <5>1
        <5>3. PICK c : c = RuledCase(k, k.ask \ asked, some, noted)
          OBVIOUS
        <5>4. case' = [case EXCEPT ![t] = c]
          BY <2>1, <5>2, <5>3 DEF Judge, File, RuledCase
        <5>5. c.ds = k.ds /\ c.saved = k.saved
          BY <5>3 DEF RuledCase, Cases
        <5> QED BY <5>4, <5>5
      <4>5. CASE \E daily \in BOOLEAN : NoJudge(t, asked, daily)
        <5>1. PICK c : c = [k EXCEPT !.ask = k.ask \ asked]
          OBVIOUS
        <5>2. case' = [case EXCEPT ![t] = c]
          BY <2>1, <4>5, <5>1 DEF NoJudge, File
        <5> QED BY <4>1, <5>1, <5>2
      <4> QED BY <4>2, <4>4, <4>5
    <3> QED BY <1>2, <2>1, <3>1, <3>2
  <2> QED BY <1>4, <2>2, <2>3, <2>4, Zenon DEF CourtStep
<1>5. ASSUME NEW w \in Workers, WorkerStep(w), ~Rule(w), ~\E d \in case[w].left : Store(w, d)
      PROVE  On
  <2>1. CASE Take(w) \/ GiveBack(w) \/ Single(w) \/ (\E some \in SUBSET case[w].ds : Read(w, some))
               \/ \E garbled \in BOOLEAN : GiveUp(w, garbled)
    <3>1. UNCHANGED <<targets, done>> /\ w \in Threads /\ w \notin Reviews
      BY <2>1, CourtBounds DEF Take, GiveBack, Single, Read, GiveUp, lists
    <3>2. at' = at \/ \E p : at' = [at EXCEPT ![w] = p]
      BY <2>1 DEF Take, GiveBack, Single, Read, GiveUp, Goto
    <3>3. case' = case \/ \E c : case' = [case EXCEPT ![w] = c]
      BY <2>1 DEF Take, GiveBack, Single, Read, GiveUp, File
    <3>4. at = [at EXCEPT ![w] = at[w]] /\ case = [case EXCEPT ![w] = case[w]]
      BY <1>1, <3>1
    <3> QED BY <1>2, <3>1, <3>2, <3>3, <3>4
  <2> QED BY <1>4, <1>5, <2>1, CourtBounds DEF WorkerStep
<1>6. ASSUME NEW r \in Reviews, ReviewStep(r), ~Rule(r), ~(\E d \in case[r].left : Store(r, d)), ~Pick(r), ~Open(r)
      PROVE  On
  <2>1. CASE Deal(r)
    <3>1. UNCHANGED <<targets, done, case>> /\ at[r] = "deal"
      BY <2>1 DEF Deal
    <3>2. \A s \in Reviews : at'[s] = IF s = r THEN "join" ELSE at[s]
      BY <2>1, CourtBounds DEF Deal
    <3>3. \A s \in Reviews : /\ at'[s] \in Starting <=> at[s] \in Starting
                             /\ at'[s] \in Before => at[s] \in Before
      BY <3>1, <3>2 DEF Starting, Before
    <3> QED BY <3>1, <3>3 DEF On, GoesOn
  <2>2. CASE End(r)
    <3>1. UNCHANGED case /\ targets' = [targets EXCEPT ![r] = {}] /\ done' = [done EXCEPT ![r] = {}]
      BY <2>2 DEF End
    <3>2. targets'[r] = {} /\ done'[r] = {} /\ \A s \in Reviews \ {r} : targets'[s] = targets[s] /\ done'[s] = done[s]
      BY <3>1 DEF HandsInv, HandsTyped
    <3>3. \A s \in Reviews \ {r} : at'[s] = at[s]
      BY <1>1, <2>2, CourtBounds DEF End, Goto
    <3> QED BY <3>1, <3>2, <3>3 DEF On, GoesOn
  <2> QED BY <1>4, <1>6, <2>1, <2>2, CourtBounds DEF ReviewStep
<1>7. ASSUME StartCycle \/ StartPanel
      PROVE  On
  <2>1. PICK r \in Reviews : at[r] = "idle" /\ at' = [at EXCEPT ![r] = "look"] /\ UNCHANGED <<case, targets, done>>
    BY <1>7 DEF StartCycle, StartPanel, Goto, Reviews, lists
  <2>2. /\ {"look", "idle"} \subseteq Starting \cap Before
        /\ case = [case EXCEPT ![r] = case[r]] /\ r \in Threads
    BY <1>1, CourtBounds DEF Starting, Before
  <2> QED BY <1>2, <2>1, <2>2
<1>8. ASSUME Stop \/ (\E d \in Domains : OpenSession(d)) \/ CloseSession \/ PCJudge \/ (\E d \in Domains : Age(d)) \/ Tick
      PROVE  On
  BY <1>3, <1>8 DEF Stop, OpenSession, CloseSession, PCJudge, Age, Tick, lists
<1>9. \/ On
      \/ \E t \in Threads : Rule(t) \/ \E d \in case[t].left : Store(t, d)
      \/ \E r \in Reviews : Pick(r) \/ Open(r)
      \/ \E r \in Named : StartNamed(r)
  <2> SUFFICES ASSUME \A t \in Threads : ~Rule(t) /\ ~\E d \in case[t].left : Store(t, d),
                      \A r \in Reviews : ~Pick(r) /\ ~Open(r), \A r \in Named : ~StartNamed(r)
               PROVE  On
    OBVIOUS
  <2>1. ASSUME \E r \in Reviews : ReviewStep(r)
        PROVE  On
    BY <1>6, <2>1, CourtBounds
  <2>2. ASSUME \E w \in Workers : WorkerStep(w)
        PROVE  On
    BY <1>5, <2>2, CourtBounds
  <2> QED BY <1>7, <1>8, <2>1, <2>2 DEF Step
<1> QED BY <1>9 DEF On

\* A review begins with what has no verdict, or awaits the court; that it puts before the court.
LEMMA PickStands ==
  ASSUME TypeInv, NEW r \in Reviews, Pick(r), NEW d \in Domains, StandsOf(d)
  PROVE  StandsOf(d)'
<1>1. PICK ds \in Candidates(r) :
        /\ at[r] = "pick" /\ UNCHANGED <<case, done, stage, again>>
        /\ \/ at' = [at EXCEPT ![r] = "idle"] /\ UNCHANGED targets
           \/ at' = [at EXCEPT ![r] = "open"] /\ targets' = [targets EXCEPT ![r] = ds]
  BY DEF Pick, Goto, shared
<1>2. \A t \in Threads : (at'[t] = "store" <=> at[t] = "store") /\ (at'[t] \in Starting <=> at[t] \in Starting)
  BY <1>1 DEF TypeInv, HandsInv, HandsTyped, Starting
<1>3. d \in ds /\ r \notin Asked => stage[d] # "ruled"
  <2>1. r \notin Asked => r = Cycle \/ (r = Panel /\ ~again)
    BY DEF Asked, Reviews
  <2>2. r \notin Asked => ds \subseteq Unreviewed
    BY <1>1, <2>1, CourtAssumption DEF Candidates
  <2> QED BY <2>2 DEF Unreviewed
<1>4. \A s \in Reviews : d \in targets'[s] => d \in targets[s] \/ (s = r /\ d \in ds)
  BY <1>1 DEF TypeInv, HandsInv, HandsTyped
<1>5. at'[r] \in Starting
  BY <1>1, <1>2, CourtBounds DEF Starting
<1>6. ASSUME NEW s \in Reviews \ Asked', d \in targets'[s] \ done'[s]
      PROVE  stage'[d] # "ruled" /\ (at'[s] \notin Starting => stage'[d] = "none")
  <2>1. s \notin Asked
    BY <1>1 DEF Asked
  <2> QED BY <1>1, <1>2, <1>3, <1>4, <1>5, <1>6, <2>1, CourtBounds DEF StandsOf
<1>7. \A s \in Reviews : d \in case'[s].ds /\ (at'[s] = "store" => d \in case'[s].left) =>
        Pending(d)' /\ (stage'[d] = "judge" <=> d \in case'[s].saved)
  BY <1>1, <1>2, CourtBounds DEF StandsOf, Pending
<1>8. \A w \in Workers : Storing(w, d)' => d \notin done'[Crew[w]]
  BY <1>1, <1>2, CourtBounds DEF StandsOf, Storing
<1>9. ASSUME NEW s \in Reviews, at'[s] \in Before
      PROVE  d \notin targets'[s]
  <2>1. at'[s] = IF s = r THEN at'[r] ELSE at[s]
    BY <1>1, CourtBounds DEF TypeInv, HandsInv, HandsTyped
  <2>2. CASE at' = [at EXCEPT ![r] = "idle"] /\ UNCHANGED targets
    BY <1>1, <1>9, <2>1, <2>2 DEF StandsOf, Before
  <2>3. CASE at' = [at EXCEPT ![r] = "open"] /\ targets' = [targets EXCEPT ![r] = ds]
    <3>1. at'[r] = "open" /\ \A u \in Reviews \ {r} : targets'[u] = targets[u]
      BY <1>1, <2>3, CourtBounds DEF TypeInv, HandsInv, HandsTyped
    <3> QED BY <1>9, <2>1, <3>1 DEF StandsOf, Before
  <2> QED BY <1>1, <2>2, <2>3
<1> QED BY <1>6, <1>7, <1>8, <1>9 DEF StandsOf

LEMMA OpenStands ==
  ASSUME TypeInv, NEW r \in Reviews, Open(r), NEW d \in Domains, StandsOf(d)
  PROVE  StandsOf(d)'
<1>1. PICK waiting : waiting = {e \in targets[r] : Pending(e)}
  OBVIOUS
<1>2. at[r] = "open" /\ UNCHANGED <<done, stage, again>> /\ targets' = [targets EXCEPT ![r] = targets[r] \ waiting]
  BY <1>1 DEF Open, shared, flags
<1>3. targets'[r] = targets[r] \ waiting /\ \A s \in Reviews \ {r} : targets'[s] = targets[s]
  BY <1>2 DEF TypeInv, HandsInv, HandsTyped
<1>4. r \in Threads /\ case[r] = NoCase /\ at \in [Threads -> Phase] /\ case \in [Threads -> Cases] /\ r \notin Workers
  BY <1>2, CourtBounds, SameCase DEF Free, Starting, TypeInv, HandsInv, HandsTyped
<1>5. \/ case' = case
      \/ case'[r].ds = waiting /\ case'[r].saved = waiting \cap AwaitJudge /\ \A u \in Threads \ {r} : case'[u] = case[u]
  <2>1. CASE waiting = {}
    BY <1>1, <2>1, Zenon DEF Open
  <2>2. CASE waiting # {}
    <3>1. PICK k \in Cases : k = NoCase
      BY NoCaseIs
    <3>2. PICK saved : saved = waiting \cap AwaitJudge
      OBVIOUS
    <3>3. PICK c : c = [k EXCEPT !.ds = waiting, !.read = waiting, !.saved = saved]
      OBVIOUS
    <3>4. c.ds = waiting /\ c.saved = saved
      BY <3>3 DEF Cases
    <3>5. case' = [case EXCEPT ![r] = c]
      BY <1>1, <2>2, <3>1, <3>2, <3>3 DEF Open, File
    <3> QED BY <1>4, <3>2, <3>4, <3>5
  <2> QED BY <2>1, <2>2
<1>6. at'[r] \in {"deal", "jury"} /\ \A u \in Threads \ {r} : at'[u] = at[u]
  BY <1>4 DEF Open, Goto
<1>7. \A t \in Threads : at'[t] = "store" <=> at[t] = "store"
  BY <1>2, <1>6
<1>8. \A e \in Domains : stage[e] \in Stages /\ (stage[e] # "ruled" /\ ~Pending(e) => stage[e] = "none")
  BY DEF TypeInv, SavedTyped, Stages, Rank, Pending
<1>9. ASSUME NEW s \in Reviews \ Asked', d \in targets'[s] \ done'[s]
      PROVE  stage'[d] # "ruled" /\ (at'[s] \notin Starting => stage'[d] = "none")
  <2>0. s \notin Asked
    BY <1>2 DEF Asked
  <2>1. CASE s = r
    <3>1. d \in targets[r] \ done[r] /\ d \notin waiting
      BY <1>2, <1>3, <1>9, <2>1
    <3>2. stage[d] # "ruled" /\ ~Pending(d)
      BY <1>1, <1>9, <2>0, <2>1, <3>1 DEF StandsOf
    <3> QED BY <1>2, <1>8, <3>2
  <2>2. CASE s # r
    BY <1>2, <1>3, <1>6, <1>9, <2>0, <2>2, CourtBounds DEF StandsOf
  <2> QED BY <2>1, <2>2
<1>10. ASSUME NEW s \in Reviews, d \in case'[s].ds, at'[s] = "store" => d \in case'[s].left
       PROVE  Pending(d)' /\ (stage'[d] = "judge" <=> d \in case'[s].saved)
  <2>1. CASE case'[s] = case[s]
    BY <1>2, <1>7, <1>10, <2>1, CourtBounds DEF StandsOf, Pending
  <2>2. CASE s = r /\ case'[r].ds = waiting /\ case'[r].saved = waiting \cap AwaitJudge
    <3>1. d \in waiting
      BY <1>10, <2>2
    <3>2. Pending(d)
      BY <1>1, <3>1
    <3>3. d \in AwaitJudge <=> stage[d] = "judge"
      BY DEF AwaitJudge
    <3> QED BY <1>2, <2>2, <3>1, <3>2, <3>3 DEF Pending
  <2> QED BY <1>5, <2>1, <2>2, CourtBounds
<1>11. \A w \in Workers : Storing(w, d)' => d \notin done'[Crew[w]]
  <2>1. \A w \in Workers : case'[w] = case[w]
    BY <1>4, <1>5, CourtBounds
  <2> QED BY <1>2, <1>7, <2>1, CourtBounds DEF StandsOf, Storing
<1>12. \A s \in Reviews : at'[s] \in Before => d \notin targets'[s]
  BY <1>3, <1>6, CourtBounds DEF StandsOf, Before
<1> QED BY <1>9, <1>10, <1>11, <1>12 DEF StandsOf

LEMMA NamedStands ==
  ASSUME TypeInv, NEW r \in Named, StartNamed(r), NEW d \in Domains, StandsOf(d)
  PROVE  StandsOf(d)'
<1>1. r \in Reviews /\ r \in Threads
  BY CourtBounds DEF Reviews
<1>2. UNCHANGED <<case, done, stage>> /\ at[r] = "idle" /\ Asked' = Asked
  BY DEF StartNamed, shared, flags, Asked
<1>3. \A s \in Reviews \ {r} : targets'[s] = targets[s]
  BY DEF StartNamed, TypeInv, HandsInv, HandsTyped
<1>4. at'[r] = "open" /\ \A u \in Threads \ {r} : at'[u] = at[u]
  BY <1>1 DEF StartNamed, Goto, TypeInv, HandsInv, HandsTyped
<1>5. \A t \in Threads : at'[t] = "store" <=> at[t] = "store"
  BY <1>2, <1>4
<1>6. \A s \in Reviews \ Asked' : d \in targets'[s] \ done'[s] =>
        stage'[d] # "ruled" /\ (at'[s] \notin Starting => stage'[d] = "none")
  BY <1>2, <1>3, <1>4, CourtBounds DEF StandsOf, Asked
<1>7. \A s \in Reviews : d \in case'[s].ds /\ (at'[s] = "store" => d \in case'[s].left) =>
        Pending(d)' /\ (stage'[d] = "judge" <=> d \in case'[s].saved)
  BY <1>2, <1>5, CourtBounds DEF StandsOf, Pending
<1>8. \A w \in Workers : Storing(w, d)' => d \notin done'[Crew[w]]
  BY <1>2, <1>5, CourtBounds DEF StandsOf, Storing
<1>9. \A s \in Reviews : at'[s] \in Before => d \notin targets'[s]
  BY <1>3, <1>4, CourtBounds DEF StandsOf, Before
<1> QED BY <1>6, <1>7, <1>8, <1>9 DEF StandsOf

\* A court that comes to store has finalised nothing of its case.
LEMMA RuleStands ==
  ASSUME TypeInv, NEW t \in Threads, Rule(t), NEW d \in Domains, StandsOf(d)
  PROVE  StandsOf(d)'
<1>1. at[t] = "close" /\ UNCHANGED <<targets, done, stage>> /\ Asked' = Asked
  BY DEF Rule, lists, flags, Asked
<1>2. /\ at'[t] = "store" /\ case'[t].left = case[t].ds /\ case'[t].ds = case[t].ds /\ case'[t].saved = case[t].saved
      /\ \A u \in Threads \ {t} : at'[u] = at[u] /\ case'[u] = case[u]
  <2>1. at \in [Threads -> Phase] /\ case \in [Threads -> Cases]
    BY DEF TypeInv, HandsInv, HandsTyped
  <2>2. PICK k \in Cases : k = case[t]
    BY <2>1
  <2>3. PICK c : c = [k EXCEPT !.left = k.ds]
    OBVIOUS
  <2>4. c.left = k.ds /\ c.ds = k.ds /\ c.saved = k.saved
    BY <2>3 DEF Cases
  <2>5. at' = [at EXCEPT ![t] = "store"] /\ case' = [case EXCEPT ![t] = c]
    BY <2>2, <2>3 DEF Rule, Goto, File
  <2> QED BY <2>1, <2>2, <2>4, <2>5
<1>3. \A s \in Reviews \ Asked' : d \in targets'[s] \ done'[s] =>
        stage'[d] # "ruled" /\ (at'[s] \notin Starting => stage'[d] = "none")
  <2>1. \A s \in Reviews : at'[s] \in Starting <=> at[s] \in Starting
    BY <1>1, <1>2, CourtBounds DEF Starting
  <2> QED BY <1>1, <2>1 DEF StandsOf
<1>4. ASSUME NEW s \in Reviews, d \in case'[s].ds, at'[s] = "store" => d \in case'[s].left
      PROVE  Pending(d)' /\ (stage'[d] = "judge" <=> d \in case'[s].saved)
  <2>1. case'[s].ds = case[s].ds /\ case'[s].saved = case[s].saved /\ (at[s] = "store" => d \in case[s].left)
    BY <1>1, <1>2, <1>4, CourtBounds
  <2> QED BY <1>1, <1>4, <2>1 DEF StandsOf, Pending
<1>5. ASSUME NEW w \in Workers, Storing(w, d)'
      PROVE  d \notin done'[Crew[w]]
  <2>1. CASE w = t
    BY <1>1, <1>2, <1>5, <2>1 DEF TypeInv, HandsInv, Held0, Storing
  <2>2. CASE w # t
    BY <1>1, <1>2, <1>5, <2>2, CourtBounds DEF StandsOf, Storing
  <2> QED BY <2>1, <2>2
<1>6. \A s \in Reviews : at'[s] \in Before => d \notin targets'[s]
  BY <1>1, <1>2, CourtBounds DEF StandsOf, Before
<1> QED BY <1>3, <1>4, <1>5, <1>6 DEF StandsOf

\* What is stored is with nobody else.
LEMMA StoreStands ==
  ASSUME TypeInv, NEW t \in Threads, NEW e \in case[t].left, Store(t, e), NEW d \in Domains \ Contested, StandsOf(d)
  PROVE  StandsOf(d)'
<1>1. /\ e \in Domains /\ e \in case[t].ds /\ at[t] = "store"
      /\ \A f \in Domains \ {e} : stage'[f] = stage[f]
  BY StoreIs
<1>2. /\ \A u \in Threads \ {t} : at'[u] = at[u] /\ case'[u] = case[u]
      /\ at'[t] = "store" => case'[t].left = case[t].left \ {e}
      /\ at'[t] # "store" => case[t].left = {e}
  BY StoreMoves
<1>3. /\ targets' = targets
      /\ \A r \in Reviews \ {Owner(t)} : done'[r] = done[r]
      /\ done'[Owner(t)] = done[Owner(t)] \cup {e} /\ Owner(t) \in Reviews
  <2>1. PICK r \in Reviews : r = Owner(t)
    BY CourtBounds DEF Owner
  <2>2. done' = [done EXCEPT ![r] = done[r] \cup {e}] /\ targets' = targets
    BY <2>1 DEF Store
  <2> QED BY <2>1, <2>2 DEF TypeInv, HandsInv, HandsTyped
<1>4. /\ at'[t] # "store" => case'[t].ds = {} /\ at'[t] \in {"loop", "deal"}
      /\ at'[t] = "store" => case'[t].ds = case[t].ds /\ case'[t].saved = case[t].saved
  <2>1. at \in [Threads -> Phase] /\ case \in [Threads -> Cases]
    BY DEF TypeInv, HandsInv, HandsTyped
  <2>2. PICK k \in Cases : k = case[t]
    BY <2>1
  <2>3. CASE k.left = {e}
    <3>1. case' = [case EXCEPT ![t] = NoCase]
      BY <2>2, <2>3, Zenon DEF Store, File
    <3>2. at' = [at EXCEPT ![t] = IF t \in Workers THEN "loop" ELSE "deal"]
      BY <2>2, <2>3, Zenon DEF Store, Goto
    <3> QED BY <2>1, <3>1, <3>2, NoCaseIs
  <2>4. CASE k.left # {e}
    <3>1. PICK c : c = [k EXCEPT !.left = k.left \ {e}]
      OBVIOUS
    <3>2. case' = [case EXCEPT ![t] = c]
      BY <2>2, <2>4, <3>1 DEF Store, File
    <3>3. at' = at
      BY <2>2, <2>4, Zenon DEF Store
    <3>4. c.ds = k.ds /\ c.saved = k.saved
      BY <3>1 DEF Cases
    <3> QED BY <1>1, <2>1, <2>2, <3>2, <3>3, <3>4
  <2> QED BY <2>3, <2>4
<1>5. \A s \in Reviews : at'[s] \in Starting <=> at[s] \in Starting
  BY <1>1, <1>2, <1>4, CourtBounds DEF Starting
<1>8. Asked' = Asked
  BY DEF Store, flags, Asked
<1>9. \A s \in Reviews : at'[s] \in Before => d \notin targets'[s]
  BY <1>1, <1>2, <1>3, <1>4, CourtBounds DEF StandsOf, Before
<1>6. CASE d = e
  <2>1. \A u \in Threads \ {t} : d \notin case[u].ds
    BY <1>1, <1>6, OneCase DEF TypeInv
  <2>2. \A s \in Reviews \ {Owner(t)} : d \notin targets[s]
    <3>1. d \in targets[Owner(t)] \cup case[Owner(t)].ds
      BY <1>1, <1>6, CourtBounds DEF Owner, TypeInv, HandsInv, Held0
    <3> QED BY <1>3, <3>1, NotContested
  <2>3. \A s \in Reviews : d \notin targets'[s] \ done'[s]
    BY <1>3, <1>6, <2>2
  <2>4. \A u \in Threads : d \in case'[u].ds => u = t /\ at'[u] = "store" /\ d \notin case'[u].left
    BY <1>2, <1>4, <1>6, <2>1
  <2>5. \A u \in Threads : ~Storing(u, d)'
    <3>1. \A u \in Threads \ {t} : case[u].left \subseteq case[u].ds
      BY SameCase DEF TypeInv, Proper
    <3> QED BY <1>2, <1>6, <2>1, <3>1 DEF Storing
  <2>6. \A s \in Reviews : ~(d \in case'[s].ds /\ (at'[s] = "store" => d \in case'[s].left))
    BY <2>4, CourtBounds
  <2> QED BY <1>9, <2>3, <2>5, <2>6, CourtBounds DEF StandsOf
<1>7. CASE d # e
  <2>1. stage'[d] = stage[d] /\ \A s \in Reviews : d \in done'[s] <=> d \in done[s]
    BY <1>1, <1>3, <1>7
  <2>2. \A s \in Reviews \ Asked' : d \in targets'[s] \ done'[s] =>
          stage'[d] # "ruled" /\ (at'[s] \notin Starting => stage'[d] = "none")
    BY <1>3, <1>5, <1>8, <2>1 DEF StandsOf
  <2>3. ASSUME NEW s \in Reviews, d \in case'[s].ds, at'[s] = "store" => d \in case'[s].left
        PROVE  Pending(d)' /\ (stage'[d] = "judge" <=> d \in case'[s].saved)
    <3>1. case'[s].ds = case[s].ds /\ case'[s].saved = case[s].saved /\ (at[s] = "store" => d \in case[s].left)
      BY <1>1, <1>2, <1>4, <1>7, <2>3, CourtBounds
    <3> QED BY <2>1, <2>3, <3>1 DEF StandsOf, Pending
  <2>4. ASSUME NEW w \in Workers, Storing(w, d)'
        PROVE  d \notin done'[Crew[w]]
    <3>1. Storing(w, d)
      BY <1>1, <1>2, <2>4, CourtBounds DEF Storing
    <3> QED BY <2>1, <3>1, CourtBounds DEF StandsOf
  <2> QED BY <1>9, <2>2, <2>3, <2>4 DEF StandsOf
<1> QED BY <1>6, <1>7

LEMMA SessionStands ==
  ASSUME TypeInv, CloseSession, NEW d \in Domains \ Contested, StandsOf(d)
  PROVE  StandsOf(d)'
<1>1. UNCHANGED <<at, case, targets, done, again>> /\ stage' = [stage EXCEPT ![session] = "ruled"]
  BY DEF CloseSession, lists, flags
<1>2. CASE d = session
  <2>1. \A r \in Reviews : d \notin targets[r] \cup case[r].ds
    BY <1>2, NotContested
  <2>2. \A w \in Workers : Storing(w, d)' <=> Storing(w, d)
    BY <1>1 DEF Storing
  <2> QED BY <1>1, <2>1, <2>2 DEF StandsOf, Asked
<1>3. CASE d # session
  <2>1. stage'[d] = stage[d]
    BY <1>1, <1>3 DEF TypeInv, SavedTyped
  <2>2. \A r \in Reviews : GoesOn(r)
    BY <1>1 DEF GoesOn
  <2>3. \A t \in Threads : StoresOn(t)
    BY <1>1 DEF StoresOn
  <2> QED BY <1>1, <2>1, <2>2, <2>3, StandsSame DEF TypeInv
<1> QED BY <1>2, <1>3

\* Only what is stored changes.
LEMMA WhoRules ==
  ASSUME Step
  PROVE  stage' = stage \/ CloseSession \/ \E t \in Threads : \E d \in case[t].left : Store(t, d)
BY WhoSaves DEF shared, Rule, OpenSession, Age

\* The scope is chosen when the background review starts.
LEMMA WhoAsks ==
  ASSUME Step, again' # again
  PROVE  at[Panel] \in Before
<1>1. ASSUME NEW t \in Threads, CourtStep(t) PROVE again' = again
  <2>1. CASE \E asked \in Docket(case[t]) :
               \/ \E some \in SUBSET asked : \E noted \in SUBSET some : Judge(t, asked, some, noted)
               \/ \E daily \in BOOLEAN : NoJudge(t, asked, daily)
    BY <2>1 DEF Judge, NoJudge, flags
  <2>2. CASE Probe(t) \/ Weigh(t) \/ Call(t) \/ Rule(t) \/ (\E ok \in BOOLEAN : Probed(t, ok))
               \/ (\E some \in SUBSET case[t].read, daily \in BOOLEAN : Jury(t, some, daily))
               \/ \E d \in case[t].left : Store(t, d)
    BY <2>2 DEF Probe, Weigh, Call, Probed, Jury, Rule, Store, flags
  <2> QED BY <1>1, <2>1, <2>2, Zenon DEF CourtStep
<1>2. ASSUME NEW w \in Workers, WorkerStep(w) PROVE again' = again
  BY <1>1, <1>2, CourtBounds DEF WorkerStep, Take, GiveBack, Single, Read, GiveUp, flags
<1>3. ASSUME NEW r \in Reviews, ReviewStep(r) PROVE again' = again
  <2>1. CASE Pick(r) \/ End(r)
    BY <2>1, Zenon DEF Pick, End
  <2>2. CASE Open(r) \/ Deal(r)
    BY <2>2 DEF Open, Deal, flags
  <2> QED BY <1>1, <1>3, <2>1, <2>2, CourtBounds DEF ReviewStep
<1>4. CASE StartCycle \/ (\E r \in Named : StartNamed(r)) \/ Stop \/ PCJudge \/ Tick
             \/ (\E d \in Domains : OpenSession(d)) \/ CloseSession \/ \E d \in Domains : Age(d)
  BY <1>4 DEF StartCycle, StartNamed, Stop, PCJudge, Tick, OpenSession, CloseSession, Age, flags
<1>5. CASE StartPanel
  BY <1>5 DEF StartPanel, Before
<1> QED BY <1>2, <1>3, <1>4, <1>5 DEF Step

LEMMA StandsKept ==
  ASSUME StandsInv, [Next]_vars
  PROVE  StandsInv'
<1>1. TypeInv'
  BY TypeKept DEF StandsInv
<1>2. CASE Next
  <2>1. Step /\ mixed' = mixed \cup Contested'
    BY <1>2 DEF Next
  <2> SUFFICES ASSUME NEW d \in Domains \ mixed'
               PROVE  StandsOf(d)'
    BY <1>1, <2>1 DEF StandsInv
  <2>2. TypeInv /\ HandsInv /\ d \in Domains \ Contested /\ StandsOf(d)
    BY <2>1 DEF StandsInv, TypeInv
  <2>3. CASE \E t \in Threads : Rule(t) \/ \E e \in case[t].left : Store(t, e)
    BY <2>2, <2>3, RuleStands, StoreStands
  <2>4. CASE \E r \in Reviews : Pick(r) \/ Open(r)
    BY <2>2, <2>4, PickStands, OpenStands
  <2>5. CASE \E r \in Named : StartNamed(r)
    BY <2>2, <2>5, NamedStands
  <2>6. CASE CloseSession
    BY <2>2, <2>6, SessionStands
  <2>7. CASE stage' = stage /\ (\A r \in Reviews : GoesOn(r)) /\ \A t \in Threads : StoresOn(t)
    BY <2>1, <2>2, <2>7, StandsSame, WhoAsks
  <2>8. \/ \E t \in Threads : Rule(t) \/ \E e \in case[t].left : Store(t, e)
        \/ \A t \in Threads : StoresOn(t)
    BY <2>1, <2>2, OthersStoreOn DEF StoresOn
  <2> QED BY <2>1, <2>2, <2>3, <2>4, <2>5, <2>6, <2>7, <2>8, ReviewsGoOn, WhoRules
<1>3. CASE UNCHANGED vars
  <2>1. UNCHANGED <<at, targets, done, case, session, mixed, stage, again>>
    BY <1>3 DEF vars, state, lists, shared, flags
  <2>2. Contested' = Contested
    BY <2>1 DEF Contested
  <2>3. (\A r \in Reviews : GoesOn(r)) /\ \A t \in Threads : StoresOn(t)
    BY <2>1 DEF GoesOn, StoresOn
  <2> QED BY <1>1, <2>1, <2>2, <2>3, StandsSame DEF StandsInv, TypeInv
<1> QED BY <1>2, <1>3

LEMMA StandsStart ==
  ASSUME Init
  PROVE  StandsInv
<1>1. TypeInv /\ Contested \subseteq mixed
  BY NotesStart DEF NotesInv
<1>2. \A r \in Reviews : targets[r] = {} /\ case[r].ds = {}
  BY NoCaseIs, CourtBounds DEF Init
<1>3. \A w \in Workers : at[w] # "store"
  BY CourtBounds DEF Init
<1> QED BY <1>1, <1>2, <1>3 DEF StandsInv, StandsOf, Storing

\* A verdict that is stored goes on from the one that was saved.
LEMMA StoreRises ==
  ASSUME TypeInv, NEW t \in Threads, NEW d \in case[t].left, Store(t, d), StandsOf(d)
  PROVE  Rank[stage'[d]] >= Rank[stage[d]] \/ \E r \in Asked : d \in targets[r]
<1>1. d \in Domains /\ d \in case[t].ds /\ at[t] = "store" /\ stage[d] \in Stages
  BY StoreIs DEF TypeInv, SavedTyped
<1>2. PICK k \in Stages : k = Reached(case[t], d)
  BY ReachedIs
<1>3. stage'[d] = k
  BY <1>1, <1>2 DEF Store, TypeInv, SavedTyped
<1>4. /\ Rank["none"] = 0 /\ Rank["jury"] = 1 /\ Rank["judge"] = 2 /\ Rank["ruled"] = 3
      /\ k \in {"ruled", "judge", "jury"}
  BY <1>2 DEF Rank, Reached
<1>5. CASE t \in Reviews
  <2>1. Pending(d) /\ (stage[d] = "judge" <=> d \in case[t].saved)
    BY <1>1, <1>5 DEF StandsOf
  <2>2. d \in case[t].saved => k \in {"ruled", "judge"}
    BY <1>2 DEF Reached
  <2>3. stage[d] = "jury" \/ (stage[d] = "judge" /\ k \in {"ruled", "judge"})
    BY <2>1, <2>2 DEF Pending
  <2> QED BY <1>3, <1>4, <2>3
<1>6. CASE t \in Workers
  <2>1. d \in targets[Crew[t]] /\ Crew[t] \in Reviews /\ d \notin done[Crew[t]]
    BY <1>1, <1>6, CourtBounds DEF TypeInv, HandsInv, Held0, StandsOf, Storing
  <2>2. at[Crew[t]] \notin Starting
    BY <1>1, <1>6, AtWork DEF TypeInv, Starting
  <2>3. Crew[t] \in Asked \/ stage[d] = "none"
    BY <2>1, <2>2 DEF StandsOf
  <2> QED BY <1>3, <1>4, <2>1, <2>3
<1> QED BY <1>5, <1>6, CourtBounds

LEMMA Rises ==
  ASSUME StandsInv, [Next]_vars, NEW d \in Domains \ mixed'
  PROVE  Rank[stage'[d]] >= Rank[stage[d]] \/ \E r \in Asked : d \in targets[r]
<1>1. TypeInv /\ stage \in [Domains -> Stages] /\ \A k \in Stages : Rank[k] \in 0..3
  BY DEF StandsInv, TypeInv, SavedTyped, Stages, Rank
<1>2. CASE stage'[d] = stage[d]
  BY <1>1, <1>2
<1>3. CASE Next
  <2>1. Step /\ StandsOf(d)
    BY <1>3 DEF Next, StandsInv
  <2>2. CASE CloseSession
    <3>1. stage'[d] = stage[d] \/ stage'[d] = "ruled"
      BY <1>1, <2>2 DEF CloseSession
    <3>2. Rank["ruled"] = 3 /\ Rank[stage[d]] \in 0..3
      BY <1>1 DEF Rank
    <3> QED BY <1>2, <3>1, <3>2
  <2>3. CASE \E t \in Threads : \E e \in case[t].left : Store(t, e)
    <3>1. PICK t \in Threads : \E e \in case[t].left : Store(t, e)
      BY <2>3
    <3>2. PICK e \in case[t].left : Store(t, e)
      BY <3>1
    <3>3. CASE d = e
      BY <1>1, <2>1, <3>2, <3>3, StoreRises
    <3>4. CASE d # e
      BY <1>1, <1>2, <3>2, <3>4, StoreIs
    <3> QED BY <3>3, <3>4
  <2> QED BY <1>2, <2>1, <2>2, <2>3, WhoRules
<1>4. CASE UNCHANGED vars
  BY <1>2, <1>4 DEF vars, state, shared
<1> QED BY <1>3, <1>4

\* What a domain has reached it keeps, whatever provider fails in between, for any number of
\* reviews and workers: where it was in one hand only, and no review that has it is to take up what
\* is ruled (ai_reviewer.py: candidates, start_background, review_domains, decide_batch).
THEOREM VerdictsStand == Spec => NoStepBack
<1>1. Init => StandsInv
  BY StandsStart
<1>2. StandsInv /\ [Next]_vars => StandsInv'
  BY StandsKept
<1>3. StandsInv /\ [Next]_vars => [\A d \in Domains \ mixed' :
                                     \/ Rank[stage'[d]] >= Rank[stage[d]]
                                     \/ \E r \in Asked : d \in targets[r]]_vars
  BY Rises
<1> QED BY <1>1, <1>2, <1>3, PTL DEF Spec, NoStepBack
=============================================================================
