---------------------------- MODULE StudiesProofs --------------------------
(***************************************************************************)
(* Proofs about the classifier's engine: no study is lost or done twice,   *)
(* no change goes unmarked, and no rule lowers a colour it may not lower,  *)
(* for any domains, catalogue, apps, callers and workers.                  *)
(***************************************************************************)
EXTENDS Studies, FiniteSetTheorems, TLAPS

-----------------------------------------------------------------------------
(* Studies: where a pending domain is.                                     *)

Job == Domains \cup {Stopper}
QueuesTyped ==
  /\ pending \subseteq Domains /\ jobs \in Seq(Job)
  /\ hand \in [Callers -> [todo : SUBSET Domains, force : BOOLEAN, put : Job]]
  /\ work \in [Workers -> [at : {"top", "get", "study", "discard", "gone"}, job : Job]]
  /\ \A w \in Workers : work[w].at \in {"top", "get", "gone"} => work[w].job = Stopper

\* A domain is in at most one hand, one place of the queue, one worker's hands, and in one of the three.
OneEach ==
  /\ \A c, e \in Callers : hand[c].put = hand[e].put => hand[c].put = Stopper \/ c = e
  /\ \A i, j \in DOMAIN jobs : jobs[i] = jobs[j] => jobs[i] = Stopper \/ i = j
  /\ \A v, w \in Workers : work[v].job = work[w].job => work[v].job = Stopper \/ v = w
Apart ==
  /\ \A c \in Callers, i \in DOMAIN jobs : hand[c].put = jobs[i] => jobs[i] = Stopper
  /\ \A c \in Callers, w \in Workers : hand[c].put = work[w].job => work[w].job = Stopper
  /\ \A i \in DOMAIN jobs, w \in Workers : jobs[i] = work[w].job => work[w].job = Stopper
Marked ==
  \A d \in Domains :
    d \in pending <=> \/ \E c \in Callers : hand[c].put = d
                      \/ \E i \in DOMAIN jobs : jobs[i] = d
                      \/ \E w \in Workers : work[w].job = d

QueueInv == QueuesTyped /\ OneEach /\ Apart /\ Marked

LEMMA Single ==
  ASSUME NEW S, IsFiniteSet(S), NEW T \in SUBSET S, \A x, y \in T : x = y
  PROVE  Cardinality(T) = IF T = {} THEN 0 ELSE 1
<1>1. CASE T = {}
  BY <1>1, FS_EmptySet
<1>2. CASE T # {}
  <2>1. PICK x \in T : T = {x}
    BY <1>2
  <2> QED BY <1>2, <2>1, FS_Singleton
<1> QED BY <1>1, <1>2

LEMMA QueueInvPlaces ==
  ASSUME QueueInv
  PROVE  PendingInOnePlace
<1> SUFFICES ASSUME NEW d \in Domains
             PROVE  Places(d) = IF d \in pending THEN 1 ELSE 0
  BY DEF PendingInOnePlace
<1> DEFINE Hands == {c \in Callers : hand[c].put = d}
           Slots == {i \in DOMAIN jobs : jobs[i] = d}
           Busy  == {w \in Workers : work[w].job = d}
<1>1. d # Stopper /\ IsFiniteSet(Callers) /\ IsFiniteSet(Workers)
  BY StudiesAssumption
<1>2. IsFiniteSet(DOMAIN jobs)
  <2>1. Len(jobs) \in Nat /\ DOMAIN jobs = 1..Len(jobs)
    BY DEF QueueInv, QueuesTyped
  <2> QED BY <2>1, FS_Interval
<1>3. Cardinality(Hands) = IF Hands = {} THEN 0 ELSE 1
  <2>1. \A x, y \in Hands : x = y
    BY <1>1 DEF QueueInv, OneEach
  <2>2. Hands \in SUBSET Callers
    OBVIOUS
  <2> HIDE DEF Hands
  <2> QED BY <1>1, <2>1, <2>2, Single
<1>4. Cardinality(Slots) = IF Slots = {} THEN 0 ELSE 1
  <2>1. \A x, y \in Slots : x = y
    BY <1>1 DEF QueueInv, OneEach
  <2>2. Slots \in SUBSET DOMAIN jobs
    OBVIOUS
  <2> HIDE DEF Slots
  <2> QED BY <1>2, <2>1, <2>2, Single
<1>5. Cardinality(Busy) = IF Busy = {} THEN 0 ELSE 1
  <2>1. \A x, y \in Busy : x = y
    BY <1>1 DEF QueueInv, OneEach
  <2>2. Busy \in SUBSET Workers
    OBVIOUS
  <2> HIDE DEF Busy
  <2> QED BY <1>1, <2>1, <2>2, Single
<1>6. /\ Hands = {} \/ Slots = {} 
      /\ Hands = {} \/ Busy = {}
      /\ Slots = {} \/ Busy = {}
  BY <1>1 DEF QueueInv, Apart
<1>7. d \in pending <=> Hands # {} \/ Slots # {} \/ Busy # {}
  BY DEF QueueInv, Marked
<1>8. Places(d) = Cardinality(Hands) + Cardinality(Slots) + Cardinality(Busy)
  BY DEF Places
<1> HIDE DEF Hands, Slots, Busy
<1> QED BY <1>3, <1>4, <1>5, <1>6, <1>7, <1>8

\* A step that leaves everything where it is.
LEMMA InPlace ==
  ASSUME QueueInv, QueuesTyped', UNCHANGED <<pending, jobs>>,
         \A c \in Callers : hand'[c].put = hand[c].put,
         \A w \in Workers : work'[w].job = work[w].job
  PROVE  QueueInv'
<1>1. OneEach'
  BY DEF QueueInv, OneEach
<1>2. Apart'
  BY DEF QueueInv, Apart
<1>3. Marked'
  BY DEF QueueInv, Marked
<1> QED BY <1>1, <1>2, <1>3 DEF QueueInv

\* What changes of one caller, or of one worker.
LEMMA OneHand ==
  ASSUME QueuesTyped, NEW c \in Callers,
         NEW h \in [todo : SUBSET Domains, force : BOOLEAN, put : Job], hand' = [hand EXCEPT ![c] = h]
  PROVE  /\ hand' \in [Callers -> [todo : SUBSET Domains, force : BOOLEAN, put : Job]]
         /\ hand'[c] = h /\ \A e \in Callers \ {c} : hand'[e] = hand[e]
<1>1. ASSUME NEW kinds, hand \in [Callers -> kinds], h \in kinds
      PROVE  hand' \in [Callers -> kinds] /\ hand'[c] = h /\ \A e \in Callers \ {c} : hand'[e] = hand[e]
  BY <1>1
<1> QED BY <1>1 DEF QueuesTyped

LEMMA OneWorker ==
  ASSUME QueuesTyped, NEW w \in Workers, NEW p \in {"top", "get", "study", "discard", "gone"}, NEW d \in Job,
         p \in {"top", "get", "gone"} => d = Stopper, GoTo(w, p, d)
  PROVE  /\ work' \in [Workers -> [at : {"top", "get", "study", "discard", "gone"}, job : Job]]
         /\ \A v \in Workers : work'[v].at \in {"top", "get", "gone"} => work'[v].job = Stopper
         /\ work'[w].job = d /\ \A v \in Workers \ {w} : work'[v] = work[v]
<1> DEFINE one == [at |-> p, job |-> d]
<1>1. one \in [at : {"top", "get", "study", "discard", "gone"}, job : Job] /\ one.at = p /\ one.job = d
  OBVIOUS
<1>2. work' = [work EXCEPT ![w] = one]
  BY DEF GoTo
<1> HIDE DEF one
<1>3. ASSUME NEW kinds, work \in [Workers -> kinds], one \in kinds
      PROVE  work' \in [Workers -> kinds] /\ work'[w] = one /\ \A v \in Workers \ {w} : work'[v] = work[v]
  BY <1>2, <1>3
<1>4. /\ work' \in [Workers -> [at : {"top", "get", "study", "discard", "gone"}, job : Job]]
      /\ work'[w] = one /\ \A v \in Workers \ {w} : work'[v] = work[v]
  BY <1>1, <1>3 DEF QueuesTyped
<1> QED BY <1>1, <1>4 DEF QueuesTyped

-----------------------------------------------------------------------------
(* Each step moves a domain on, and loses none.                            *)

LEMMA EmptyHand == NoHand \in [todo : SUBSET Domains, force : BOOLEAN, put : Job] /\ NoHand.put = Stopper
BY DEF NoHand, Job

\* A caller with nothing to queue gets a list, or is through with it.
LEMMA ListKeeps ==
  ASSUME QueueInv, NEW c \in Callers,
         NEW h \in [todo : SUBSET Domains, force : BOOLEAN, put : Job], h.put = Stopper, hand[c].put = Stopper,
         hand' = [hand EXCEPT ![c] = h], UNCHANGED <<pending, jobs, work>>
  PROVE  QueueInv'
<1>1. /\ hand' \in [Callers -> [todo : SUBSET Domains, force : BOOLEAN, put : Job]]
      /\ \A e \in Callers : hand'[e].put = hand[e].put
  BY OneHand DEF QueueInv
<1>2. QueuesTyped'
  BY <1>1 DEF QueueInv, QueuesTyped
<1> QED BY <1>1, <1>2, InPlace

LEMMA QueryKeeps ==
  ASSUME QueueInv, NEW c \in Callers, NEW d \in Domains, Query(c, d)
  PROVE  QueueInv'
<1>1. CASE UNCHANGED hand
  <2>1. UNCHANGED <<pending, jobs, hand, work>>
    BY <1>1 DEF Query
  <2>2. QueuesTyped'
    BY <2>1 DEF QueueInv, QueuesTyped
  <2> QED BY <2>1, <2>2, InPlace
<1>2. CASE hand' = [hand EXCEPT ![c].todo = {d}]
  <2>1. hand[c] = NoHand /\ UNCHANGED <<pending, jobs, work>>
    BY DEF Query, Idle
  <2> DEFINE h == [NoHand EXCEPT !.todo = {d}]
  <2>2. h \in [todo : SUBSET Domains, force : BOOLEAN, put : Job] /\ h.put = Stopper
    BY DEF NoHand, Job
  <2>3. hand' = [hand EXCEPT ![c] = h]
    BY <1>2, <2>1
  <2> HIDE DEF h
  <2> QED BY <2>1, <2>2, <2>3, EmptyHand, ListKeeps
<1> QED BY <1>1, <1>2 DEF Query

LEMMA RequestKeeps ==
  ASSUME QueueInv, NEW c \in Callers, NEW ds \in SUBSET Domains, NEW force \in BOOLEAN, Request(c, ds, force)
  PROVE  QueueInv'
<1> DEFINE h == [todo |-> ds, force |-> force, put |-> Stopper]
<1>1. h \in [todo : SUBSET Domains, force : BOOLEAN, put : Job] /\ h.put = Stopper
  BY DEF Job
<1>2. hand[c].put = Stopper /\ hand' = [hand EXCEPT ![c] = h] /\ UNCHANGED <<pending, jobs, work>>
  BY EmptyHand DEF Request, Idle
<1> HIDE DEF h
<1> QED BY <1>1, <1>2, ListKeeps

\* Looked at under the lock: not wanted, or pending and in the caller's hand.
LEMMA ScheduleKeeps ==
  ASSUME QueueInv, NEW c \in Callers, NEW d \in Domains, Schedule(c, d)
  PROVE  QueueInv'
<1> DEFINE rest   == [hand[c] EXCEPT !.todo = @ \ {d}]
           held   == [rest EXCEPT !.put = d]
<1>1. hand[c] \in [todo : SUBSET Domains, force : BOOLEAN, put : Job] /\ hand[c].put = Stopper
  BY DEF QueueInv, QueuesTyped, Schedule
<1>2. rest \in [todo : SUBSET Domains, force : BOOLEAN, put : Job] /\ rest.put = Stopper
  BY <1>1
<1>3. held \in [todo : SUBSET Domains, force : BOOLEAN, put : Job] /\ held.put = d
  BY <1>1, <1>2 DEF Job
<1>4. UNCHANGED <<jobs, work>>
  BY DEF Schedule
<1>5. \/ pending' = pending /\ \E h \in {rest, NoHand} : hand' = [hand EXCEPT ![c] = h]
      \/ d \notin pending /\ pending' = pending \cup {d} /\ hand' = [hand EXCEPT ![c] = held]
  BY DEF Schedule
<1> HIDE DEF rest, held
<1>6. CASE pending' = pending /\ \E h \in {rest, NoHand} : hand' = [hand EXCEPT ![c] = h]
  BY <1>1, <1>2, <1>4, <1>6, EmptyHand, ListKeeps
<1>7. CASE d \notin pending /\ pending' = pending \cup {d} /\ hand' = [hand EXCEPT ![c] = held]
  <2>1. /\ hand' \in [Callers -> [todo : SUBSET Domains, force : BOOLEAN, put : Job]]
        /\ hand'[c].put = d /\ \A e \in Callers \ {c} : hand'[e].put = hand[e].put
    BY <1>3, <1>7, OneHand DEF QueueInv
  <2>2. QueuesTyped'
    BY <1>4, <1>7, <2>1 DEF QueueInv, QueuesTyped
  <2>3. /\ \A e \in Callers : hand[e].put # d
        /\ \A i \in DOMAIN jobs : jobs[i] # d
        /\ \A w \in Workers : work[w].job # d
    BY <1>7 DEF QueueInv, Marked
  <2>4. OneEach'
    BY <1>4, <2>1, <2>3 DEF QueueInv, OneEach
  <2>5. Apart'
    BY <1>4, <2>1, <2>3 DEF QueueInv, Apart
  <2>6. Marked'
    BY <1>1, <1>4, <1>7, <2>1, StudiesAssumption DEF QueueInv, Marked
  <2> QED BY <2>2, <2>4, <2>5, <2>6 DEF QueueInv
<1> QED BY <1>5, <1>6, <1>7

\* It goes from the hand to the end of the queue.
LEMMA EnqueueKeeps ==
  ASSUME QueueInv, NEW c \in Callers, Enqueue(c)
  PROVE  QueueInv'
<1> DEFINE rest == [hand[c] EXCEPT !.put = Stopper]
<1>1. hand[c] \in [todo : SUBSET Domains, force : BOOLEAN, put : Job]
  BY DEF QueueInv, QueuesTyped
<1>2. rest \in [todo : SUBSET Domains, force : BOOLEAN, put : Job] /\ rest.put = Stopper
  BY <1>1 DEF Job
<1>3. PICK h \in {rest, NoHand} : hand' = [hand EXCEPT ![c] = h]
  BY DEF Enqueue
<1> HIDE DEF rest
<1>4. PICK d \in Domains : d = hand[c].put
  BY <1>1 DEF Enqueue, Job
<1>5. jobs' = Append(jobs, d) /\ UNCHANGED <<pending, work>> /\ jobs \in Seq(Job) /\ d \in Job
  BY <1>4 DEF Enqueue, QueueInv, QueuesTyped, Job
<1>6. /\ jobs' \in Seq(Job) /\ Len(jobs) \in Nat /\ DOMAIN jobs = 1..Len(jobs)
      /\ DOMAIN jobs' = 1..(Len(jobs) + 1) /\ jobs'[Len(jobs) + 1] = d
      /\ \A i \in DOMAIN jobs : jobs'[i] = jobs[i]
  BY <1>5
<1>7. \A i \in DOMAIN jobs' : i \in DOMAIN jobs \/ (i = Len(jobs) + 1 /\ i \notin DOMAIN jobs)
  BY <1>6
<1>8. \A i \in DOMAIN jobs : i \in DOMAIN jobs'
  BY <1>6
<1>9. Len(jobs) + 1 \in DOMAIN jobs'
  BY <1>6
<1>10. h.put = Stopper /\ h \in [todo : SUBSET Domains, force : BOOLEAN, put : Job]
  BY <1>2, <1>3, EmptyHand
<1>11. /\ hand' \in [Callers -> [todo : SUBSET Domains, force : BOOLEAN, put : Job]]
       /\ hand'[c].put = Stopper /\ \A e \in Callers \ {c} : hand'[e].put = hand[e].put
  BY <1>3, <1>10, OneHand DEF QueueInv
<1>12. QueuesTyped'
  BY <1>5, <1>6, <1>11 DEF QueueInv, QueuesTyped
<1>13. /\ \A e \in Callers \ {c} : hand'[e].put # d
       /\ \A i \in DOMAIN jobs : jobs[i] # d
       /\ \A w \in Workers : work[w].job # d
       /\ d # Stopper
  BY <1>4, <1>11, StudiesAssumption DEF QueueInv, OneEach, Apart
<1>14. \A i \in DOMAIN jobs' : jobs'[i] = d => i = Len(jobs) + 1
  BY <1>6, <1>7, <1>13
<1>15. OneEach'
  <2>1. \A i, j \in DOMAIN jobs' : jobs'[i] = jobs'[j] => jobs'[i] = Stopper \/ i = j
    BY <1>6, <1>7, <1>14 DEF QueueInv, OneEach
  <2> QED BY <1>5, <1>11, <2>1 DEF QueueInv, OneEach
<1>16. Apart'
  <2>1. \A e \in Callers, i \in DOMAIN jobs' : hand'[e].put = jobs'[i] => jobs'[i] = Stopper
    BY <1>6, <1>7, <1>11, <1>13 DEF QueueInv, Apart
  <2>2. \A e \in Callers, w \in Workers : hand'[e].put = work'[w].job => work'[w].job = Stopper
    BY <1>5, <1>11 DEF QueueInv, Apart
  <2>3. \A i \in DOMAIN jobs', w \in Workers : jobs'[i] = work'[w].job => work'[w].job = Stopper
    BY <1>5, <1>6, <1>7, <1>13 DEF QueueInv, Apart
  <2> QED BY <2>1, <2>2, <2>3 DEF Apart
<1>17. Marked'
  <2> SUFFICES ASSUME NEW a \in Domains
               PROVE  a \in pending' <=> \/ \E e \in Callers : hand'[e].put = a
                                         \/ \E i \in DOMAIN jobs' : jobs'[i] = a
                                         \/ \E w \in Workers : work'[w].job = a
    BY DEF Marked
  <2>1. CASE a = d
    BY <1>4, <1>5, <1>6, <1>9, <2>1 DEF QueueInv, Marked
  <2>2. CASE a # d
    <3>1. (\E e \in Callers : hand'[e].put = a) <=> \E e \in Callers : hand[e].put = a
      BY <1>4, <1>11, <2>2, StudiesAssumption
    <3>2. (\E i \in DOMAIN jobs' : jobs'[i] = a) <=> \E i \in DOMAIN jobs : jobs[i] = a
      BY <1>6, <1>7, <1>8, <2>2
    <3> QED BY <1>5, <3>1, <3>2 DEF QueueInv, Marked
  <2> QED BY <2>1, <2>2
<1> QED BY <1>12, <1>15, <1>16, <1>17 DEF QueueInv

\* From the head of the queue to the worker, whether a domain or the end.
LEMMA GetKeeps ==
  ASSUME QueueInv, NEW w \in Workers, Get(w)
  PROVE  QueueInv'
<1>1. jobs # <<>> /\ jobs \in Seq(Job) /\ jobs' = Tail(jobs) /\ UNCHANGED <<pending, hand>> /\ work[w].job = Stopper
  BY DEF Get, At, QueueInv, QueuesTyped
<1>2. /\ jobs' \in Seq(Job) /\ Len(jobs) \in Nat \ {0} /\ DOMAIN jobs = 1..Len(jobs)
      /\ DOMAIN jobs' = 1..(Len(jobs) - 1) /\ Head(jobs) = jobs[1] /\ Head(jobs) \in Job
      /\ \A i \in DOMAIN jobs' : jobs'[i] = jobs[i + 1]
  BY <1>1
<1>3. \A i \in DOMAIN jobs' : i + 1 \in DOMAIN jobs /\ i + 1 # 1 /\ i \in Int
  BY <1>2
<1>4. \A i \in DOMAIN jobs : i = 1 \/ \E k \in DOMAIN jobs' : i = k + 1
  <2>1. ASSUME NEW i \in DOMAIN jobs, i # 1
        PROVE  i - 1 \in DOMAIN jobs' /\ i = (i - 1) + 1
    BY <1>2, <2>1
  <2> QED BY <2>1
<1>5. 1 \in DOMAIN jobs
  BY <1>2
<1>6. PICK d \in Job : d = Head(jobs)
  BY <1>2
<1>7. GoTo(w, IF d = Stopper THEN "gone" ELSE "study", d)
  BY <1>6 DEF Get
<1>8. /\ work' \in [Workers -> [at : {"top", "get", "study", "discard", "gone"}, job : Job]]
      /\ \A v \in Workers : work'[v].at \in {"top", "get", "gone"} => work'[v].job = Stopper
      /\ work'[w].job = d /\ \A v \in Workers \ {w} : work'[v] = work[v]
  <2>1. CASE d = Stopper
    BY <1>7, <2>1, OneWorker DEF QueueInv
  <2>2. CASE d # Stopper
    BY <1>7, <2>2, OneWorker DEF QueueInv
  <2> QED BY <2>1, <2>2
<1>9. QueuesTyped'
  BY <1>1, <1>2, <1>8 DEF QueueInv, QueuesTyped
<1>10. \A i \in DOMAIN jobs' : jobs'[i] = d => d = Stopper
  BY <1>2, <1>3, <1>5, <1>6 DEF QueueInv, OneEach
<1>11. \A v \in Workers \ {w} : work[v].job = d => d = Stopper
  BY <1>2, <1>5, <1>6 DEF QueueInv, Apart
<1>12. \A c \in Callers : hand[c].put = d => d = Stopper
  BY <1>2, <1>5, <1>6 DEF QueueInv, Apart
<1>13. OneEach'
  <2>1. \A i, j \in DOMAIN jobs' : jobs'[i] = jobs'[j] => jobs'[i] = Stopper \/ i = j
    BY <1>2, <1>3 DEF QueueInv, OneEach
  <2>2. \A u, v \in Workers : work'[u].job = work'[v].job => work'[u].job = Stopper \/ u = v
    BY <1>8, <1>11 DEF QueueInv, OneEach
  <2> QED BY <1>1, <2>1, <2>2 DEF QueueInv, OneEach
<1>14. Apart'
  <2>1. \A e \in Callers, i \in DOMAIN jobs' : hand'[e].put = jobs'[i] => jobs'[i] = Stopper
    BY <1>1, <1>2, <1>3 DEF QueueInv, Apart
  <2>2. \A e \in Callers, v \in Workers : hand'[e].put = work'[v].job => work'[v].job = Stopper
    BY <1>1, <1>8, <1>12 DEF QueueInv, Apart
  <2>3. \A i \in DOMAIN jobs', v \in Workers : jobs'[i] = work'[v].job => work'[v].job = Stopper
    BY <1>2, <1>3, <1>8, <1>10 DEF QueueInv, Apart
  <2> QED BY <2>1, <2>2, <2>3 DEF Apart
<1>15. Marked'
  <2> SUFFICES ASSUME NEW a \in Domains
               PROVE  a \in pending' <=> \/ \E e \in Callers : hand'[e].put = a
                                         \/ \E i \in DOMAIN jobs' : jobs'[i] = a
                                         \/ \E v \in Workers : work'[v].job = a
    BY DEF Marked
  <2>1. a # Stopper
    BY StudiesAssumption
  <2>2. CASE a = d
    <3>1. a \in pending
      BY <1>2, <1>5, <1>6, <2>2 DEF QueueInv, Marked
    <3> QED BY <1>1, <1>8, <2>2, <3>1
  <2>3. CASE a # d
    <3>1. (\E v \in Workers : work'[v].job = a) <=> \E v \in Workers : work[v].job = a
      BY <1>1, <1>8, <2>1, <2>3
    <3>2. (\E i \in DOMAIN jobs' : jobs'[i] = a) <=> \E i \in DOMAIN jobs : jobs[i] = a
      BY <1>2, <1>3, <1>4, <1>6, <2>3
    <3> QED BY <1>1, <3>1, <3>2 DEF QueueInv, Marked
  <2> QED BY <2>2, <2>3
<1> QED BY <1>9, <1>13, <1>14, <1>15 DEF QueueInv

\* A worker that looks whether the engine stops, or is at work, keeps its domain.
LEMMA WorkerKeeps ==
  ASSUME QueueInv, NEW w \in Workers, UNCHANGED <<pending, jobs, hand>>,
         \/ /\ work[w].at \in {"top", "get", "gone"}
            /\ \E p \in {"top", "get", "gone"} : GoTo(w, p, Stopper)
         \/ \E p \in {"study", "discard"} : GoTo(w, p, work[w].job)
  PROVE  QueueInv'
<1>1. PICK d \in Job : d = work[w].job
  BY DEF QueueInv, QueuesTyped
<1>2. \E p \in {"top", "get", "study", "discard", "gone"} :
        (p \in {"top", "get", "gone"} => d = Stopper) /\ GoTo(w, p, d)
  BY <1>1 DEF QueueInv, QueuesTyped
<1>3. /\ work' \in [Workers -> [at : {"top", "get", "study", "discard", "gone"}, job : Job]]
      /\ \A v \in Workers : work'[v].at \in {"top", "get", "gone"} => work'[v].job = Stopper
      /\ work'[w].job = d /\ \A v \in Workers \ {w} : work'[v] = work[v]
  BY <1>2, OneWorker DEF QueueInv
<1>4. QueuesTyped'
  BY <1>3 DEF QueueInv, QueuesTyped
<1> QED BY <1>1, <1>3, <1>4, InPlace

\* It is through, whatever came of the study.
LEMMA DiscardKeeps ==
  ASSUME QueueInv, NEW w \in Workers, Discard(w)
  PROVE  QueueInv'
<1>1. UNCHANGED <<jobs, hand>> /\ pending' = pending \ {work[w].job} /\ GoTo(w, "top", Stopper)
  BY DEF Discard
<1>2. /\ work' \in [Workers -> [at : {"top", "get", "study", "discard", "gone"}, job : Job]]
      /\ \A v \in Workers : work'[v].at \in {"top", "get", "gone"} => work'[v].job = Stopper
      /\ work'[w].job = Stopper /\ \A v \in Workers \ {w} : work'[v] = work[v]
  <2>1. Stopper \in Job
    BY DEF Job
  <2> QED BY <1>1, <2>1, OneWorker DEF QueueInv
<1>3. QueuesTyped'
  BY <1>1, <1>2 DEF QueueInv, QueuesTyped
<1>4. OneEach' /\ Apart'
  BY <1>1, <1>2 DEF QueueInv, OneEach, Apart
<1>5. Marked'
  <2> SUFFICES ASSUME NEW a \in Domains
               PROVE  a \in pending' <=> \/ \E e \in Callers : hand'[e].put = a
                                         \/ \E i \in DOMAIN jobs' : jobs'[i] = a
                                         \/ \E v \in Workers : work'[v].job = a
    BY DEF Marked
  <2>1. a # Stopper
    BY StudiesAssumption
  <2>2. CASE a = work[w].job
    BY <1>1, <1>2, <2>1, <2>2 DEF QueueInv, OneEach, Apart
  <2>3. CASE a # work[w].job
    <3>1. (\E v \in Workers : work'[v].job = a) <=> \E v \in Workers : work[v].job = a
      BY <1>2, <2>1, <2>3
    <3> QED BY <1>1, <2>3, <3>1 DEF QueueInv, Marked
  <2> QED BY <2>2, <2>3
<1> QED BY <1>3, <1>4, <1>5 DEF QueueInv

\* The ends of the workers go behind what is queued.
LEMMA StopKeeps ==
  ASSUME QueueInv, Stop
  PROVE  QueueInv'
<1> DEFINE ends == [i \in 1..Cardinality(Workers) |-> Stopper]
<1>1. jobs' = jobs \o ends /\ UNCHANGED <<pending, hand, work>> /\ jobs \in Seq(Job)
  BY DEF Stop, QueueInv, QueuesTyped
<1>2. ends \in Seq(Job) /\ \A i \in DOMAIN ends : ends[i] = Stopper
  <2>1. Cardinality(Workers) \in Nat /\ Stopper \in Job
    BY FS_CardinalityType, StudiesAssumption DEF Job
  <2> QED BY <2>1
<1> HIDE DEF ends
<1>3. /\ jobs' \in Seq(Job) /\ Len(jobs) \in Nat /\ Len(ends) \in Nat
      /\ DOMAIN jobs = 1..Len(jobs) /\ DOMAIN ends = 1..Len(ends) /\ DOMAIN jobs' = 1..(Len(jobs) + Len(ends))
      /\ \A i \in DOMAIN jobs' : jobs'[i] = IF i <= Len(jobs) THEN jobs[i] ELSE ends[i - Len(jobs)]
  BY <1>1, <1>2
<1>4. \A i \in DOMAIN jobs : i \in DOMAIN jobs' /\ jobs'[i] = jobs[i]
  BY <1>3
<1>5. ASSUME NEW i \in DOMAIN jobs', i \notin DOMAIN jobs
      PROVE  jobs'[i] = Stopper
  <2>1. i > Len(jobs) /\ i - Len(jobs) \in DOMAIN ends /\ i \in Int
    BY <1>3, <1>5
  <2>2. ~(i <= Len(jobs))
    BY <1>3, <2>1
  <2> QED BY <1>2, <1>3, <2>1, <2>2
<1>6. QueuesTyped'
  BY <1>1, <1>3 DEF QueueInv, QueuesTyped
<1>7. OneEach'
  <2>1. \A i, j \in DOMAIN jobs' : jobs'[i] = jobs'[j] => jobs'[i] = Stopper \/ i = j
    BY <1>4, <1>5 DEF QueueInv, OneEach
  <2> QED BY <1>1, <2>1 DEF QueueInv, OneEach
<1>8. Apart'
  <2>1. \A e \in Callers, i \in DOMAIN jobs' : hand'[e].put = jobs'[i] => jobs'[i] = Stopper
    BY <1>1, <1>4, <1>5 DEF QueueInv, Apart
  <2>2. \A i \in DOMAIN jobs', v \in Workers : jobs'[i] = work'[v].job => work'[v].job = Stopper
    BY <1>1, <1>4, <1>5 DEF QueueInv, Apart
  <2> QED BY <1>1, <2>1, <2>2 DEF QueueInv, Apart
<1>9. Marked'
  <2>1. ASSUME NEW a \in Domains
        PROVE  (\E i \in DOMAIN jobs' : jobs'[i] = a) <=> \E i \in DOMAIN jobs : jobs[i] = a
    BY <1>4, <1>5, StudiesAssumption
  <2> QED BY <1>1, <2>1 DEF QueueInv, Marked
<1> QED BY <1>6, <1>7, <1>8, <1>9 DEF QueueInv

\* A process that begins has nothing queued.
LEMMA AllIdle ==
  /\ [c \in Callers |-> NoHand] \in [Callers -> [todo : SUBSET Domains, force : BOOLEAN, put : Job]]
  /\ [w \in Workers |-> AtTop] \in [Workers -> [at : {"top", "get", "study", "discard", "gone"}, job : Job]]
  /\ \A c \in Callers : [e \in Callers |-> NoHand][c].put = Stopper
  /\ \A w \in Workers : [v \in Workers |-> AtTop][w] = AtTop
  /\ AtTop.at = "top" /\ AtTop.job = Stopper /\ <<>> \in Seq(Job) /\ DOMAIN <<>> = {}
<1>1. AtTop \in [at : {"top", "get", "study", "discard", "gone"}, job : Job] /\ AtTop.at = "top" /\ AtTop.job = Stopper
  BY DEF AtTop, Job
<1> QED BY <1>1, EmptyHand

LEMMA QueueStarts ==
  ASSUME Init
  PROVE  QueueInv
<1>1. pending = {} /\ jobs = <<>> /\ hand = [c \in Callers |-> NoHand] /\ work = [w \in Workers |-> AtTop]
  BY DEF Init
<1>2. (\A c \in Callers : hand[c].put = Stopper) /\ \A w \in Workers : work[w].job = Stopper
  BY <1>1, AllIdle
<1>3. QueuesTyped
  BY <1>1, AllIdle DEF QueuesTyped
<1>4. OneEach /\ Apart
  BY <1>1, <1>2 DEF OneEach, Apart
<1>5. Marked
  BY <1>1, <1>2, AllIdle, StudiesAssumption DEF Marked
<1> QED BY <1>3, <1>4, <1>5 DEF QueueInv

LEMMA GoneQueues ==
  ASSUME Gone
  PROVE  QueueInv'
<1>1. pending' = {} /\ jobs' = <<>> /\ hand' = [c \in Callers |-> NoHand] /\ work' = [w \in Workers |-> AtTop]
  BY DEF Gone
<1>2. (\A c \in Callers : hand'[c].put = Stopper) /\ \A w \in Workers : work'[w].job = Stopper
  BY <1>1, AllIdle
<1>3. QueuesTyped'
  BY <1>1, AllIdle DEF QueuesTyped
<1>4. OneEach' /\ Apart'
  BY <1>1, <1>2 DEF OneEach, Apart
<1>5. Marked'
  BY <1>1, <1>2, AllIdle, StudiesAssumption DEF Marked
<1> QED BY <1>3, <1>4, <1>5 DEF QueueInv

LEMMA QueueSteps ==
  ASSUME QueueInv, [Next]_vars
  PROVE  QueueInv'
<1>1. CASE UNCHANGED queues
  <2>1. UNCHANGED <<pending, jobs, hand, work>>
    BY <1>1 DEF queues
  <2>2. QueuesTyped'
    BY <2>1 DEF QueueInv, QueuesTyped
  <2> QED BY <2>1, <2>2, InPlace
<1>2. ASSUME NEW d \in Domains, NEW c \in Callers,
             Query(c, d) \/ Schedule(c, d) \/ \E force \in BOOLEAN : Request(c, {d}, force)
      PROVE  QueueInv'
  BY <1>2, QueryKeeps, ScheduleKeeps, RequestKeeps
<1>3. ASSUME NEW c \in Callers, NEW force \in BOOLEAN, RequestAll(c, force)
      PROVE  QueueInv'
  BY <1>3, RequestKeeps DEF RequestAll
<1>4. ASSUME NEW w \in Workers, Worker(w)
      PROVE  QueueInv'
  <2>1. CASE Look(w)
    <3>1. work[w].at = "top" /\ UNCHANGED <<pending, jobs, hand>> /\ \E p \in {"top", "get", "gone"} : GoTo(w, p, Stopper)
      BY <2>1 DEF Look, At
    <3> QED BY <3>1, WorkerKeeps
  <2>2. CASE (\E r \in Hints \cup {"failed"} : Analyze(w, r)) \/ Raise(w)
    <3>1. UNCHANGED <<pending, jobs, hand>> /\ GoTo(w, "discard", work[w].job)
      BY <2>2 DEF Analyze, Raise
    <3> QED BY <3>1, WorkerKeeps
  <2> QED BY <1>4, <2>1, <2>2, GetKeeps, DiscardKeeps DEF Worker
<1>5. CASE UNCHANGED vars
  BY <1>1, <1>5 DEF vars, queues
<1>6. ASSUME NEW d \in Domains,
             \/ (\E a \in Apps : Sighting(d, {a}, "green")) \/ (\E h \in Hints : Sighting(d, {}, h))
             \/ Evidence(d) \/ (\E kind \in {"tracking", "telemetry"} : Category(d, kind))
             \/ \E colour \in Colours : Review(d, colour)
      PROVE  QueueInv'
  BY <1>1, <1>6 DEF Sighting, Evidence, Category, Review, Others
<1>7. CASE Reclassify \/ Defer \/ Flusher \/ \E seen, proven \in SUBSET Domains : Start(seen, proven)
  BY <1>1, <1>7 DEF Reclassify, Defer, Flusher, Others, Start
<1>8. CASE Stop \/ Exit \/ Crash
  BY <1>8, StopKeeps, GoneQueues DEF Exit, Crash
<1>9. ASSUME NEW c \in Callers, Enqueue(c)
      PROVE  QueueInv'
  BY <1>9, EnqueueKeeps
<1>10. CASE Next
  <2>1. ASSUME NEW d \in Domains, NEW c \in Callers, Query(c, d) \/ Schedule(c, d)
        PROVE  QueueInv'
    BY <1>2, <2>1
  <2>2. ASSUME NEW d \in Domains, NEW c \in Requests, NEW force \in BOOLEAN, Request(c, {d}, force)
        PROVE  QueueInv'
    BY <1>2, <2>2 DEF Callers
  <2> QED BY <1>3, <1>4, <1>6, <1>7, <1>8, <1>9, <1>10, <2>1, <2>2 DEF Next, Callers
<1> QED BY <1>5, <1>10

-----------------------------------------------------------------------------
(* Studies: what is not yet on the disk.                                   *)

LEMMA MarkSteps ==
  ASSUME NothingUnmarked, [Next]_vars
  PROVE  NothingUnmarked'
<1>1. MarkDirty => NothingUnmarked'
  BY DEF MarkDirty, NothingUnmarked
<1>2. Save => NothingUnmarked'
  BY DEF Save, NothingUnmarked
<1>3. mem' = mem /\ UNCHANGED <<disk, dirty, unsaved, up>> => NothingUnmarked'
  BY DEF NothingUnmarked
<1>4. Noted /\ UNCHANGED up => NothingUnmarked'
  BY <1>1, <1>3 DEF Noted
<1>5. Gone => NothingUnmarked'
  BY DEF Gone, NothingUnmarked
<1>6. ASSUME NEW c \in Callers,
             \/ \E d \in Domains : Query(c, d) \/ Schedule(c, d)
             \/ Enqueue(c) \/ \E ds \in SUBSET Domains, force \in BOOLEAN : Request(c, ds, force)
      PROVE  NothingUnmarked'
  BY <1>1, <1>3, <1>4, <1>6 DEF Query, Sees, Schedule, Enqueue, Request, entries
<1>7. ASSUME NEW w \in Workers, Worker(w)
      PROVE  NothingUnmarked'
  BY <1>1, <1>3, <1>7 DEF Worker, Look, Get, Analyze, Raise, Discard, entries
<1>8. ASSUME NEW d \in Domains,
             \/ (\E a \in Apps : Sighting(d, {a}, "green")) \/ (\E h \in Hints : Sighting(d, {}, h))
             \/ Evidence(d) \/ (\E kind \in {"tracking", "telemetry"} : Category(d, kind))
             \/ \E colour \in Colours : Review(d, colour)
      PROVE  NothingUnmarked'
  BY <1>1, <1>2, <1>4, <1>8 DEF Sighting, Sees, Evidence, Category, Review, Others
<1>9. CASE Reclassify \/ Defer
  BY <1>2, <1>9 DEF Reclassify, Defer
<1>10. CASE Flusher
  <2>1. CASE \E ok \in BOOLEAN : Flush(ok)
    BY <1>10, <2>1 DEF Flusher, Flush, Others, NothingUnmarked
  <2>2. CASE UNCHANGED entries
    BY <1>3, <1>10, <2>2 DEF Flusher, entries, Others
  <2> QED BY <1>10, <2>1, <2>2 DEF Flusher
<1>11. CASE Stop \/ Exit \/ Crash
  BY <1>3, <1>5, <1>11 DEF Stop, Exit, Crash, entries
<1>12. ASSUME NEW seen \in SUBSET Domains, NEW proven \in SUBSET Domains, Start(seen, proven)
       PROVE  NothingUnmarked'
  <2>1. mem' = disk'
    BY <1>12 DEF Start
  <2> QED BY <2>1 DEF NothingUnmarked
<1>13. CASE UNCHANGED vars
  BY <1>3, <1>13 DEF vars
<1>14. CASE Next
  <2>1. ASSUME NEW c \in Requests, NEW force \in BOOLEAN, NEW d \in Domains, RequestAll(c, force) \/ Request(c, {d}, force)
        PROVE  NothingUnmarked'
    <3>1. \E ds \in SUBSET Domains : Request(c, ds, force)
      BY <2>1 DEF RequestAll
    <3> QED BY <1>6, <3>1 DEF Callers
  <2>2. ASSUME NEW c \in Requests, NEW force \in BOOLEAN, RequestAll(c, force)
        PROVE  NothingUnmarked'
    <3>1. \E ds \in SUBSET Domains : Request(c, ds, force)
      BY <2>2 DEF RequestAll
    <3> QED BY <1>6, <3>1 DEF Callers
  <2>3. ASSUME NEW d \in Domains, NEW c \in Callers, Query(c, d) \/ Schedule(c, d)
        PROVE  NothingUnmarked'
    BY <1>6, <2>3
  <2>4. ASSUME NEW c \in Callers, Enqueue(c)
        PROVE  NothingUnmarked'
    BY <1>6, <2>4
  <2> QED BY <1>7, <1>8, <1>9, <1>10, <1>11, <1>12, <1>14, <2>1, <2>2, <2>3, <2>4 DEF Next, Callers
<1> QED BY <1>13, <1>14

\* A domain is pending exactly while it is in one hand, in the queue or with one worker, and what memory
\* has and the file has not is marked, or its caller knows: for any callers, workers and domains.
THEOREM NothingIsLost == Spec => []NothingLost
<1>1. Init => QueueInv /\ NothingUnmarked
  BY QueueStarts DEF Init, NothingUnmarked
<1>2. QueueInv /\ NothingUnmarked /\ [Next]_vars => (QueueInv /\ NothingUnmarked)'
  BY QueueSteps, MarkSteps
<1>3. QueueInv /\ NothingUnmarked => NothingLost
  BY QueueInvPlaces DEF NothingLost
<1> QED BY <1>1, <1>2, <1>3, PTL DEF Spec

-----------------------------------------------------------------------------
(* DomainEntry: what its rules leave standing.                             *)

LEMMA Orders ==
  /\ DOMAIN Order = {"unclassified", "green", "orange", "red"}
  /\ Order["unclassified"] = -1 /\ Order["green"] = 0 /\ Order["orange"] = 1 /\ Order["red"] = 2
  /\ \A c \in DOMAIN Order : Order[c] \in -1..2 /\ (Order[c] >= 2 => c = "red")
BY DEF Order

\* A rule keeps the review and the apps; it neither adds local evidence nor lowers what has it; and it lowers
\* a colour for an app that expects the domain, or by the catalogue.
Stands(d, e, f) ==
  /\ f \in Entry /\ f.stage # "absent"
  /\ f.verdict = e.verdict /\ e.apps \subseteq f.apps
  /\ f.kept["local"] > 0 => e.kept["local"] > 0
  /\ ~Catalogued(d) => /\ e.risk = "red" /\ f.kept["local"] > 0 => f.risk = "red"
                       /\ Order[f.risk] >= Order[e.risk] \/ \E a \in f.apps : d \in Expected[a]

LEMMA StandsOn ==
  ASSUME NEW d, NEW e \in Entry, NEW f, NEW g, Stands(d, e, f), Stands(d, f, g)
  PROVE  Stands(d, e, g)
<1>1. {e.risk, f.risk, g.risk} \subseteq DOMAIN Order
  BY DEF Stands, Entry
<1> QED BY <1>1, Orders DEF Stands

LEMMA StandsStill ==
  ASSUME NEW d, NEW e \in Entry, e.stage # "absent"
  PROVE  Stands(d, e, e)
<1>1. Order[e.risk] >= Order[e.risk]
  BY Orders DEF Entry
<1> QED BY <1>1 DEF Stands

\* The lines of the evidence: one more pushes out the oldest.
LEMMA LineKeeps ==
  ASSUME NEW e \in Entry, NEW new \in BOOLEAN
  PROVE  /\ Line(e, new) \in Entry
         /\ Line(e, new).stage = e.stage /\ Line(e, new).risk = e.risk /\ Line(e, new).kind = e.kind
         /\ Line(e, new).apps = e.apps /\ Line(e, new).study = e.study /\ Line(e, new).verdict = e.verdict
         /\ Line(e, new).kept["local"] > 0 => e.kept["local"] > 0
<1> DEFINE older == [m \in Markers |-> IF e.kept[m] = 0 THEN 0 ELSE e.kept[m] - 1]
<1>1. EvidenceKept \in Nat \ {0} /\ e.kept \in [Markers -> 0..EvidenceKept] /\ "local" \in Markers
  BY DomainEntryAssumption DEF Entry, Markers
<1>2. older \in [Markers -> 0..EvidenceKept]
  BY <1>1
<1>3. older["local"] > 0 => e.kept["local"] > 0
  BY <1>1
<1>4. Line(e, new) = IF new THEN [e EXCEPT !.kept = older] ELSE e
  BY DEF Line
<1> HIDE DEF older
<1>5. [e EXCEPT !.kept = older] \in Entry
  BY <1>2 DEF Entry
<1>6. CASE new
  BY <1>3, <1>4, <1>5, <1>6 DEF Entry
<1>7. CASE ~new
  BY <1>4, <1>7
<1> QED BY <1>6, <1>7

LEMMA LineStands ==
  ASSUME NEW d, NEW e \in Entry, NEW f \in Entry, NEW new \in BOOLEAN, Stands(d, e, f)
  PROVE  Stands(d, e, Line(f, new))
<1>1. f.risk \in DOMAIN Order /\ e.risk \in DOMAIN Order
  BY DEF Entry
<1> QED BY <1>1, LineKeeps, Orders DEF Stands

LEMMA Highers ==
  ASSUME NEW a \in DOMAIN Order, NEW b \in DOMAIN Order
  PROVE  /\ Higher(a, b) \in {a, b}
         /\ Order[Higher(a, b)] >= Order[a] /\ Order[Higher(a, b)] >= Order[b]
BY Orders DEF Higher

LEMMA Bases ==
  ASSUME NEW d \in Domains, NEW text \in Colours
  PROVE  /\ Base(d, text).risk \in Colours /\ Base(d, text).kind \in Kinds
         /\ Base(d, text).stage \in {"preliminary", "studied"}
<1>1. Catalogued(d) => Catalog[d] \in Colours /\ CatalogKind[d] \in Kinds
  BY DomainEntryAssumption DEF Catalogued, Kinds
<1>2. Higher(Named[d], text) \in Colours
  BY DomainEntryAssumption DEF Higher
<1>3. \A c : NameKind(c) \in Kinds
  BY DEF NameKind, Kinds
<1> QED BY <1>1, <1>2, <1>3 DEF Base

LEMMA RebuiltStands ==
  ASSUME NEW d \in Domains, NEW e \in Entry, NEW text \in Colours,
         Catalogued(d) \/ Order[Base(d, text).risk] >= Order[e.risk]
  PROVE  Stands(d, e, Rebuilt(e, Base(d, text)))
<1> DEFINE b == Base(d, text)
<1>1. b.risk \in DOMAIN Order /\ b.kind \in Kinds /\ b.stage \in {"preliminary", "studied"}
  BY Bases, Orders DEF Colours
<1>2. Catalogued(d) \/ Order[b.risk] >= Order[e.risk]
  OBVIOUS
<1> HIDE DEF b
<1>3. Rebuilt(e, b) \in Entry /\ Rebuilt(e, b).risk = b.risk /\ Rebuilt(e, b).stage = b.stage
      /\ Rebuilt(e, b).verdict = e.verdict /\ Rebuilt(e, b).apps = e.apps /\ Rebuilt(e, b).kept = e.kept
  BY <1>1, Orders DEF Rebuilt, Entry
<1>4. Stands(d, e, Rebuilt(e, b))
  BY <1>1, <1>2, <1>3, Orders DEF Stands
<1> QED BY <1>4 DEF b

LEMMA RefreshedStands ==
  ASSUME NEW d \in Domains, NEW e \in Entry, e.stage # "absent", NEW new \in BOOLEAN
  PROVE  Stands(d, e, Refreshed(d, e, new))
<1>1. CASE ~Catalogued(d)
  BY <1>1, StandsStill DEF Refreshed
<1>2. CASE Catalogued(d)
  <2> DEFINE f == IF LocalRed(e) THEN e ELSE Rebuilt(e, Base(d, "green"))
  <2>1. Stands(d, e, f)
    BY <1>2, StandsStill, RebuiltStands DEF Colours
  <2>2. Refreshed(d, e, new) = Line(f, new)
    BY <1>2 DEF Refreshed
  <2> HIDE DEF f
  <2>3. f \in Entry
    BY <2>1 DEF Stands
  <2> QED BY <2>1, <2>2, <2>3, LineStands
<1> QED BY <1>1, <1>2

\* An app's purpose: not against the catalogue or local evidence, and for a domain the app expects.
LEMMA CappedStands ==
  ASSUME NEW d \in Domains, NEW e \in Entry, e.stage # "absent", NEW apps \in SUBSET Apps, apps \subseteq e.apps,
         NEW new \in BOOLEAN
  PROVE  Stands(d, e, Capped(d, e, apps, new))
<1> DEFINE caps == {Purpose[a] : a \in {b \in apps : Caps(d, e, b)}}
           f    == [e EXCEPT !.risk = IF "green" \in caps THEN "green" ELSE "orange", !.kind = "health", !.stage = "studied"]
<1>1. Capped(d, e, apps, new) = IF caps = {} THEN e ELSE Line(f, new)
  BY DEF Capped
<1>2. caps # {} => \E a \in apps : d \in Expected[a] /\ e.kept["local"] = 0 /\ ~Catalogued(d)
  BY DEF Caps
<1> HIDE DEF caps
<1>3. f \in Entry /\ f.stage = "studied" /\ f.verdict = e.verdict /\ f.apps = e.apps /\ f.kept = e.kept
  BY Orders DEF Entry, Kinds
<1> HIDE DEF f
<1>4. e.kept["local"] \in Nat
  BY DEF Entry, Markers
<1>5. CASE caps = {}
  BY <1>1, <1>5, StandsStill
<1>6. CASE caps # {}
  <2>1. Stands(d, e, f)
    BY <1>2, <1>3, <1>4, <1>6 DEF Stands
  <2> QED BY <1>1, <1>3, <1>6, <2>1, LineStands
<1> QED BY <1>5, <1>6

LEMMA EscalatedStands ==
  ASSUME NEW d \in Domains, NEW e \in Entry, e.stage # "absent", NEW new \in BOOLEAN
  PROVE  Stands(d, e, Escalated(e, new))
<1> DEFINE f == [e EXCEPT !.risk = "red", !.stage = "studied"]
<1>1. /\ f \in Entry /\ f.stage = "studied" /\ f.risk = "red" /\ f.verdict = e.verdict
      /\ f.apps = e.apps /\ f.kept = e.kept
  BY Orders DEF Entry
<1>2. Escalated(e, new) \in {Line(f, new), e}
  BY DEF Escalated
<1> HIDE DEF f
<1>3. e.risk \in DOMAIN Order
  BY DEF Entry
<1>4. Stands(d, e, f)
  BY <1>1, <1>3, Orders DEF Stands
<1> QED BY <1>1, <1>2, <1>4, LineStands, StandsStill

LEMMA NetStudiedStands ==
  ASSUME NEW d \in Domains, NEW e \in Entry, e.stage # "absent", NEW result \in Colours \cup {"failed"}, NEW new \in BOOLEAN
  PROVE  Stands(d, e, NetStudied(d, e, result, new))
<1> DEFINE text == IF result = "failed" THEN "green" ELSE result
           b    == Base(d, text)
           over == Catalogued(d) \/ Order[b.risk] > Order[e.risk]
           r    == [e EXCEPT !.risk = b.risk, !.kind = b.kind]
           f    == IF over THEN Line(r, new) ELSE e
           g    == [f EXCEPT !.study = result, !.stage = IF result = "failed" THEN f.stage ELSE "studied"]
<1>1. NetStudied(d, e, result, new) = Line(g, new)
  BY DEF NetStudied
<1>2. b.risk \in DOMAIN Order /\ b.kind \in Kinds
  BY Bases, Orders DEF Colours
<1>3. e.risk \in DOMAIN Order
  BY DEF Entry
<1>4. r \in Entry /\ r.risk = b.risk /\ r.stage = e.stage /\ r.verdict = e.verdict /\ r.apps = e.apps /\ r.kept = e.kept
  <2> HIDE DEF b
  <2> QED BY <1>2, Orders DEF Entry
<1>5. over => Stands(d, e, r)
  <2>1. over => Catalogued(d) \/ (Order[r.risk] >= Order[e.risk] /\ (e.risk = "red" => r.risk = "red"))
    <3> HIDE DEF b, r
    <3> QED BY <1>2, <1>3, <1>4, Orders
  <2> HIDE DEF over, r
  <2> QED BY <1>4, <2>1 DEF Stands
<1>6. Stands(d, e, f)
  <2> HIDE DEF over, r
  <2> QED BY <1>4, <1>5, LineStands, StandsStill
<1>7. f \in Entry /\ f.stage # "absent"
  BY <1>6 DEF Stands
<1> HIDE DEF f
<1>8. /\ g \in Entry /\ g.stage # "absent" /\ g.risk = f.risk /\ g.verdict = f.verdict
      /\ g.apps = f.apps /\ g.kept = f.kept
  BY <1>7 DEF Entry
<1> HIDE DEF g
<1>9. Stands(d, e, g)
  BY <1>6, <1>8 DEF Stands
<1> QED BY <1>1, <1>8, <1>9, LineStands

LEMMA MarkKeeps ==
  ASSUME NEW e \in Entry, NEW m \in Markers
  PROVE  /\ Mark(e, m) \in Entry
         /\ Mark(e, m).stage = e.stage /\ Mark(e, m).risk = e.risk
         /\ Mark(e, m).apps = e.apps /\ Mark(e, m).verdict = e.verdict
         /\ m = "sharing" /\ Mark(e, m).kept["local"] > 0 => e.kept["local"] > 0
<1> DEFINE l == Line(e, TRUE)
<1>1. /\ l \in Entry /\ l.stage = e.stage /\ l.risk = e.risk /\ l.apps = e.apps /\ l.verdict = e.verdict
      /\ l.kept["local"] > 0 => e.kept["local"] > 0
  BY LineKeeps
<1>2. Mark(e, m) = [l EXCEPT !.kept = [l.kept EXCEPT ![m] = EvidenceKept]]
  BY DEF Mark
<1> HIDE DEF l
<1> DEFINE k == [l.kept EXCEPT ![m] = EvidenceKept]
<1>3. EvidenceKept \in Nat \ {0} /\ l.kept \in [Markers -> 0..EvidenceKept] /\ "local" \in Markers
  BY <1>1, DomainEntryAssumption DEF Entry, Markers
<1>4. k \in [Markers -> 0..EvidenceKept] /\ (m = "sharing" => k["local"] = l.kept["local"])
  BY <1>3
<1> HIDE DEF k
<1>5. [l EXCEPT !.kept = k] \in Entry
  BY <1>1, <1>4 DEF Entry
<1>6. Mark(e, m) = [l EXCEPT !.kept = k]
  BY <1>2 DEF k
<1> QED BY <1>1, <1>4, <1>5, <1>6 DEF Entry

LEMMA SharedStands ==
  ASSUME NEW d \in Domains, NEW e \in Entry, e.stage # "absent", NEW colour \in Colours
  PROVE  Stands(d, e, Shared(d, e, colour))
<1> DEFINE f == [e EXCEPT !.risk = Higher(e.risk, colour), !.stage = "studied"]
<1>1. Shared(d, e, colour) \in {e, Mark(f, "sharing")}
  BY DEF Shared
<1>2. e.risk \in DOMAIN Order /\ colour \in DOMAIN Order
  BY Orders DEF Entry, Colours
<1>3. Higher(e.risk, colour) \in DOMAIN Order /\ Order[Higher(e.risk, colour)] >= Order[e.risk]
  BY <1>2, Highers
<1>4. /\ f \in Entry /\ f.stage = "studied" /\ f.risk = Higher(e.risk, colour) /\ f.verdict = e.verdict
      /\ f.apps = e.apps /\ f.kept = e.kept
  BY <1>3 DEF Entry
<1> HIDE DEF f
<1>5. e.risk = "red" => f.risk = "red"
  BY <1>3, <1>4, Orders
<1>6. Stands(d, e, Mark(f, "sharing"))
  <2> DEFINE k == Mark(f, "sharing")
  <2>1. /\ k \in Entry /\ k.stage = f.stage /\ k.risk = f.risk /\ k.apps = f.apps /\ k.verdict = f.verdict
        /\ k.kept["local"] > 0 => f.kept["local"] > 0
    BY <1>4, MarkKeeps DEF Markers
  <2> HIDE DEF k
  <2>2. Stands(d, e, k)
    BY <1>3, <1>4, <1>5, <2>1 DEF Stands
  <2> QED BY <2>2 DEF k
<1> QED BY <1>1, <1>6, StandsStill

LEMMA HintedStands ==
  ASSUME NEW d \in Domains, NEW e \in Entry, e.stage # "absent", NEW text \in Colours
  PROVE  Stands(d, e, Hinted(e, Base(d, text)))
<1> DEFINE b == Base(d, text)
           f == [e EXCEPT !.risk = b.risk, !.kind = b.kind]
<1>1. b.risk \in DOMAIN Order /\ b.kind \in Kinds
  BY Bases, Orders DEF Colours
<1>2. e.risk \in DOMAIN Order
  BY DEF Entry
<1>3. Hinted(e, b) = e \/ (Hinted(e, b) = f /\ Order[b.risk] > Order[e.risk])
  BY DEF Hinted
<1> HIDE DEF b
<1>4. f \in Entry /\ f.stage = e.stage /\ f.risk = b.risk /\ f.verdict = e.verdict /\ f.apps = e.apps /\ f.kept = e.kept
  BY <1>1 DEF Entry
<1> HIDE DEF f
<1>5. Order[b.risk] > Order[e.risk] => Stands(d, e, f)
  BY <1>1, <1>2, <1>4, Orders DEF Stands
<1> QED BY <1>3, <1>5, StandsStill DEF b

-----------------------------------------------------------------------------
(* What is made of an entry: seen, studied, confirmed, reviewed, loaded.   *)

\* An entry that is not there is blank.
Filled(e) == e \in Entry /\ (e.stage = "absent" => e = Blank)

LEMMA OpenedStands ==
  ASSUME NEW d, NEW e, Filled(e)
  PROVE  Stands(d, e, Opened(e))
<1>1. CASE e.stage = "absent"
  <2> DEFINE f == [Blank EXCEPT !.stage = "new"]
  <2>1. e = Blank /\ Opened(e) = f
    BY <1>1 DEF Filled, Opened, Known, NewEntry
  <2>2. Blank \in Entry
    BY <2>1 DEF Filled
  <2>3. f \in Entry /\ f.stage = "new" /\ f.risk = Blank.risk /\ f.verdict = Blank.verdict /\ f.apps = Blank.apps
        /\ f.kept = Blank.kept
    BY <2>2 DEF Entry
  <2>4. Order[Blank.risk] >= Order[Blank.risk]
    BY <2>2, Orders DEF Entry
  <2> HIDE DEF f
  <2> QED BY <2>1, <2>3, <2>4 DEF Stands
<1>2. CASE e.stage # "absent"
  BY <1>2, StandsStill DEF Filled, Opened, Known
<1> QED BY <1>1, <1>2

LEMMA NewIs ==
  /\ NewEntry \in Entry /\ NewEntry.stage = "new" /\ NewEntry.risk = "unclassified" /\ NewEntry.verdict = "none"
  /\ NewEntry.apps = {} /\ NewEntry.kept["local"] = 0
  /\ Blank \in Entry /\ Blank.stage = "absent" /\ Blank.verdict = "none" /\ Blank.kept["local"] = 0
<1> DEFINE none == [m \in Markers |-> 0]
<1>1. none \in [Markers -> 0..EvidenceKept] /\ none["local"] = 0
  BY DomainEntryAssumption DEF Markers
<1>2. Blank.kept = none
  BY DEF Blank
<1> HIDE DEF none
<1>3. Blank \in Entry /\ Blank.stage = "absent" /\ Blank.verdict = "none" /\ Blank.risk = "unclassified" /\ Blank.apps = {}
  BY <1>1, <1>2, Orders DEF Blank, Entry, Kinds
<1> QED BY <1>1, <1>2, <1>3 DEF NewEntry, Entry

LEMMA ObservedStands ==
  ASSUME NEW d \in Domains, NEW e, Filled(e), NEW app \in SUBSET Apps, NEW hint \in Colours, NEW new \in BOOLEAN
  PROVE  Stands(d, e, Observed(d, e, app, hint, new))
<1> DEFINE b == Base(d, hint)
           f == IF ~Known(e) THEN Rebuilt(NewEntry, b) ELSE IF Judged(e) THEN Refreshed(d, e, new) ELSE e
           g == [f EXCEPT !.apps = f.apps \cup app]
           h == Hinted(g, b)
           k == Capped(d, h, app, new)
<1>1. Observed(d, e, app, hint, new) = IF h.stage = "new" THEN h ELSE Escalated(k, new)
  BY DEF Observed
<1>2. Stands(d, e, f)
  <2>1. CASE ~Known(e)
    <3>1. e = Blank /\ Opened(e) = NewEntry
      BY <2>1 DEF Known, Filled, Opened
    <3>2. Stands(d, e, NewEntry)
      BY <3>1, OpenedStands
    <3>3. Order[Base(d, hint).risk] >= Order[NewEntry.risk]
      BY Bases, Orders, NewIs DEF Colours
    <3>4. Stands(d, NewEntry, f)
      BY <2>1, <3>3, RebuiltStands, NewIs
    <3> QED BY <3>2, <3>4, StandsOn DEF Filled
  <2>2. CASE Known(e)
    BY <2>2, RefreshedStands, StandsStill DEF Known, Filled
  <2> QED BY <2>1, <2>2
<1>3. f \in Entry /\ f.stage # "absent"
  BY <1>2 DEF Stands
<1> HIDE DEF f
<1>4. /\ g \in Entry /\ g.stage = f.stage /\ g.risk = f.risk /\ g.verdict = f.verdict
      /\ g.kept = f.kept /\ g.apps = f.apps \cup app
  BY <1>3 DEF Entry
<1> HIDE DEF g
<1>5. Stands(d, f, g)
  <2>1. Order[g.risk] >= Order[f.risk]
    BY <1>3, <1>4, Orders DEF Entry
  <2> QED BY <1>3, <1>4, <2>1 DEF Stands
<1>6. Stands(d, e, g)
  BY <1>2, <1>5, StandsOn DEF Filled
<1>7. Stands(d, g, h)
  BY <1>3, <1>4, HintedStands
<1>8. Stands(d, e, h) /\ h \in Entry /\ h.stage # "absent" /\ app \subseteq h.apps
  BY <1>4, <1>6, <1>7, StandsOn DEF Filled, Stands
<1> HIDE DEF h
<1>9. Stands(d, h, k)
  BY <1>8, CappedStands
<1>10. Stands(d, e, k) /\ k \in Entry /\ k.stage # "absent"
  BY <1>8, <1>9, StandsOn DEF Filled, Stands
<1> HIDE DEF k
<1>11. Stands(d, e, Escalated(k, new))
  BY <1>10, EscalatedStands, StandsOn DEF Filled
<1> QED BY <1>1, <1>8, <1>11

LEMMA NoticedStands ==
  ASSUME NEW d \in Domains, NEW e, Filled(e), NEW app \in SUBSET Apps, NEW hint \in Colours, NEW new \in BOOLEAN
  PROVE  Stands(d, e, Noticed(d, e, app, hint, new))
<1> DEFINE f == Observed(d, e, {}, hint, new)
<1>1. {} \in SUBSET Apps /\ "green" \in Colours
  BY DEF Colours
<1>2. Stands(d, e, f)
  BY <1>1, ObservedStands
<1>3. f \in Entry /\ f.stage # "absent"
  BY <1>2 DEF Stands
<1>4. Noticed(d, e, app, hint, new) = Observed(d, f, app, "green", new)
  BY DEF Noticed
<1> HIDE DEF f
<1>5. Filled(f)
  BY <1>3 DEF Filled
<1>6. Stands(d, f, Observed(d, f, app, "green", new))
  BY <1>1, <1>5, ObservedStands
<1> QED BY <1>2, <1>3, <1>4, <1>6, StandsOn DEF Filled

LEMMA AnalyzedStands ==
  ASSUME NEW d \in Domains, NEW e, Filled(e), NEW result \in Colours \cup {"failed"}, NEW new \in BOOLEAN
  PROVE  Stands(d, e, Analyzed(d, e, result, new))
<1> DEFINE text == IF result = "failed" THEN "green" ELSE result
           o == Opened(e)
           f == NetStudied(d, o, result, new)
           g == Capped(d, f, f.apps, new)
<1>1. Analyzed(d, e, result, new) = Shared(d, g, Base(d, text).risk)
  BY DEF Analyzed
<1>2. Stands(d, e, o) /\ o \in Entry /\ o.stage # "absent"
  BY OpenedStands DEF Stands
<1> HIDE DEF o
<1>3. Stands(d, e, f) /\ f \in Entry /\ f.stage # "absent"
  BY <1>2, NetStudiedStands, StandsOn DEF Filled, Stands
<1> HIDE DEF f
<1>4. f.apps \in SUBSET Apps
  BY <1>3 DEF Entry
<1>5. Stands(d, f, g)
  BY <1>3, <1>4, CappedStands
<1> HIDE DEF g
<1>6. Stands(d, e, g) /\ g \in Entry /\ g.stage # "absent"
  BY <1>3, <1>5, StandsOn DEF Filled, Stands
<1>7. Base(d, text).risk \in Colours
  BY Bases DEF Colours
<1> QED BY <1>1, <1>6, <1>7, SharedStands, StandsOn DEF Filled

LEMMA ReloadedStands ==
  ASSUME NEW d \in Domains, NEW e, Filled(e), NEW new \in BOOLEAN
  PROVE  (e.stage = "absent" /\ Reloaded(d, e, new) = e) \/ Stands(d, e, Reloaded(d, e, new))
<1> DEFINE r == Refreshed(d, e, new)
           f == Escalated(r, new)
<1>1. Reloaded(d, e, new) = IF ~Known(e) \/ ~Judged(e) THEN e ELSE Capped(d, f, f.apps, new)
  BY DEF Reloaded
<1>2. CASE ~Known(e) \/ ~Judged(e)
  BY <1>1, <1>2, StandsStill DEF Filled, Known
<1>3. CASE Known(e) /\ Judged(e)
  <2>1. Stands(d, e, r) /\ r \in Entry /\ r.stage # "absent"
    BY <1>3, RefreshedStands DEF Known, Filled, Stands
  <2> HIDE DEF r
  <2>2. Stands(d, e, f) /\ f \in Entry /\ f.stage # "absent"
    BY <2>1, EscalatedStands, StandsOn DEF Filled, Stands
  <2> HIDE DEF f
  <2>3. f.apps \in SUBSET Apps
    BY <2>2 DEF Entry
  <2> QED BY <1>1, <1>3, <2>2, <2>3, CappedStands, StandsOn DEF Filled
<1> QED BY <1>2, <1>3

\* An entry that has local evidence is red, unless the catalogue has a colour for it.
Proven(d, e) == e.kept["local"] > 0 /\ ~Catalogued(d) => e.risk = "red"
Good(d, e)   == Filled(e) /\ Proven(d, e)

\* A review is not lost, and a colour is lowered for a reason.
Lasts(e, f)     == f.verdict = "none" => e.verdict = "none"
Lowers(d, e, f) == \/ Order[f.risk] >= Order[e.risk] \/ Catalogued(d) \/ f.verdict = f.risk
                   \/ \E a \in f.apps : d \in Expected[a]

LEMMA StandsGood ==
  ASSUME NEW d, NEW e, Good(d, e), NEW f, Stands(d, e, f)
  PROVE  Good(d, f) /\ Lasts(e, f) /\ Lowers(d, e, f)
BY DEF Good, Filled, Proven, Stands, Lasts, Lowers

LEMMA SameGood ==
  ASSUME NEW d, NEW e, Good(d, e)
  PROVE  Lasts(e, e) /\ Lowers(d, e, e)
<1>1. Order[e.risk] >= Order[e.risk]
  BY Orders DEF Good, Filled, Entry
<1> QED BY <1>1 DEF Lasts, Lowers

LEMMA ConfirmedGood ==
  ASSUME NEW d \in Domains, NEW e, Good(d, e), NEW new \in BOOLEAN
  PROVE  Good(d, Confirmed(e, new)) /\ Lasts(e, Confirmed(e, new)) /\ Lowers(d, e, Confirmed(e, new))
<1> DEFINE o == Opened(e)
           f == [o EXCEPT !.risk = "red", !.kind = "confirmed", !.stage = "studied"]
<1>1. Stands(d, e, o)
  BY OpenedStands DEF Good
<1>2. o \in Entry /\ o.verdict = e.verdict
  BY <1>1 DEF Stands
<1>3. Confirmed(e, new) \in {f, Mark(f, "local")}
  BY DEF Confirmed
<1> HIDE DEF o
<1>4. f \in Entry /\ f.stage = "studied" /\ f.risk = "red" /\ f.verdict = o.verdict
  BY <1>2, Orders DEF Entry, Kinds
<1> HIDE DEF f
<1>5. Confirmed(e, new) \in Entry /\ Confirmed(e, new).stage = "studied" /\ Confirmed(e, new).risk = "red"
      /\ Confirmed(e, new).verdict = e.verdict
  BY <1>2, <1>3, <1>4, MarkKeeps DEF Markers
<1>6. e.risk \in DOMAIN Order
  BY DEF Good, Filled, Entry
<1> QED BY <1>5, <1>6, Orders DEF Good, Filled, Proven, Lasts, Lowers

LEMMA VerdictGood ==
  ASSUME NEW d \in Domains, NEW e, Good(d, e), NEW colour \in Colours, NEW new \in BOOLEAN
  PROVE  /\ Good(d, Verdict(d, e, colour, new)) /\ Verdict(d, e, colour, new).verdict # "none"
         /\ Lasts(e, Verdict(d, e, colour, new)) /\ Lowers(d, e, Verdict(d, e, colour, new))
<1> DEFINE o == Opened(e)
           f == [o EXCEPT !.verdict = colour]
           g == [f EXCEPT !.risk = colour, !.stage = "studied"]
           v == Verdict(d, e, colour, new)
<1>1. Stands(d, e, o)
  BY OpenedStands DEF Good
<1>2. v = IF Catalogued(d) \/ (LocalRed(f) /\ colour # "red") THEN f ELSE Line(g, new)
  BY DEF Verdict
<1>3. Good(d, o) /\ o \in Entry /\ o.stage # "absent" /\ Order[o.risk] >= Order[e.risk]
  <2>1. o.risk = e.risk
    BY NewIs DEF Good, Filled, Opened, Known, Blank
  <2>2. Good(d, o) /\ o \in Entry /\ o.stage # "absent"
    BY <1>1, StandsGood DEF Stands
  <2> HIDE DEF o
  <2> QED BY <2>1, <2>2, Orders DEF Entry
<1> HIDE DEF o
<1>4. f \in Entry /\ f.stage # "absent" /\ f.risk = o.risk /\ f.verdict = colour /\ f.apps = o.apps /\ f.kept = o.kept
  BY <1>3 DEF Entry
<1> HIDE DEF f
<1>5. g \in Entry /\ g.stage = "studied" /\ g.risk = colour /\ g.verdict = colour /\ g.apps = f.apps /\ g.kept = f.kept
  BY <1>4, Orders DEF Entry, Colours
<1> HIDE DEF g
<1>6. /\ Line(g, new) \in Entry /\ Line(g, new).stage = "studied" /\ Line(g, new).risk = colour
      /\ Line(g, new).verdict = colour
      /\ Line(g, new).kept["local"] > 0 => f.kept["local"] > 0
  BY <1>5, LineKeeps
<1>7. colour # "none"
  BY DEF Colours
<1>8. CASE Catalogued(d) \/ (LocalRed(f) /\ colour # "red")
  BY <1>2, <1>3, <1>4, <1>7, <1>8 DEF Good, Filled, Proven, Lasts, Lowers
<1>9. CASE ~(Catalogued(d) \/ (LocalRed(f) /\ colour # "red"))
  <2>1. v = Line(g, new)
    BY <1>2, <1>9
  <2>2. Proven(d, v)
    BY <1>3, <1>4, <1>6, <1>9, <2>1 DEF Good, Proven, LocalRed
  <2> QED BY <1>6, <1>7, <2>1, <2>2 DEF Good, Filled, Lasts, Lowers
<1> QED BY <1>8, <1>9

\* A rebuild keeps what the user's session proved, and the review on top.
LEMMA ReclassifiedGood ==
  ASSUME NEW d \in Domains, NEW e, Good(d, e), NEW new \in BOOLEAN
  PROVE  Good(d, Reclassified(d, e, new)) /\ Lasts(e, Reclassified(d, e, new))
<1> DEFINE b == Base(d, "green")
           f == Rebuilt(e, b)
           g == IF e.study = "none" THEN f ELSE NetStudied(d, f, e.study, new)
           c == Capped(d, g, g.apps, new)
           h == Shared(d, c, b.risk)
<1>1. Reclassified(d, e, new) = IF ~Known(e) \/ (LocalRed(e) /\ b.risk # "red") THEN e
                                ELSE IF e.verdict = "none" THEN h ELSE Verdict(d, h, e.verdict, new)
  BY DEF Reclassified
<1>2. CASE ~Known(e) \/ (LocalRed(e) /\ b.risk # "red")
  BY <1>1, <1>2, SameGood
<1>3. CASE ~(~Known(e) \/ (LocalRed(e) /\ b.risk # "red"))
  <2>1. b.risk \in Colours /\ b.risk \in DOMAIN Order /\ b.kind \in Kinds /\ b.stage \in {"preliminary", "studied"}
    BY Bases, Orders DEF Colours
  <2>2. LocalRed(e) => b.risk = "red"
    BY <1>3
  <2> HIDE DEF b
  <2>3. /\ f \in Entry /\ f.stage # "absent" /\ f.risk = b.risk /\ f.verdict = e.verdict
        /\ f.kept = e.kept /\ f.apps = e.apps /\ f.study = e.study
    BY <2>1 DEF Good, Filled, Entry, Rebuilt
  <2> HIDE DEF f
  <2>4. Good(d, f)
    BY <2>2, <2>3 DEF Good, Filled, Proven, LocalRed
  <2>5. Stands(d, f, g) /\ g \in Entry /\ g.stage # "absent"
    <3>1. e.study \in Colours \cup {"none", "failed"}
      BY DEF Good, Filled, Entry
    <3> QED BY <2>3, <3>1, NetStudiedStands, StandsStill DEF Stands
  <2> HIDE DEF g
  <2>6. g.apps \in SUBSET Apps
    BY <2>5 DEF Entry
  <2>7. Stands(d, g, c) /\ c \in Entry /\ c.stage # "absent"
    BY <2>5, <2>6, CappedStands DEF Stands
  <2> HIDE DEF c
  <2>8. Stands(d, c, h)
    BY <2>1, <2>7, SharedStands
  <2> HIDE DEF h
  <2>9. Stands(d, f, h)
    BY <2>3, <2>5, <2>7, <2>8, StandsOn
  <2>10. Good(d, h) /\ h.verdict = e.verdict
    BY <2>3, <2>4, <2>9, StandsGood DEF Stands
  <2>11. e.verdict \in Colours \cup {"none"}
    BY DEF Good, Filled, Entry
  <2> QED BY <1>1, <1>3, <2>10, <2>11, VerdictGood DEF Lasts, b
<1> QED BY <1>2, <1>3

LEMMA DeferredGood ==
  ASSUME NEW d \in Domains, NEW e, Good(d, e)
  PROVE  Good(d, Deferred(e)) /\ Lasts(e, Deferred(e))
<1> DEFINE f == [NewEntry EXCEPT !.apps = e.apps, !.verdict = e.verdict]
<1>1. Deferred(e) \in {e, f}
  BY DEF Deferred
<1>2. e.apps \in SUBSET Apps /\ e.verdict \in Colours \cup {"none"}
  BY DEF Good, Filled, Entry
<1>3. f \in Entry /\ f.stage = "new" /\ f.verdict = e.verdict /\ f.kept["local"] = 0
  BY <1>2, NewIs DEF Entry
<1> HIDE DEF f
<1>4. Good(d, f) /\ Lasts(e, f)
  BY <1>3 DEF Good, Filled, Proven, Lasts
<1> QED BY <1>1, <1>4, SameGood

-----------------------------------------------------------------------------
(* Studies: what memory and the file hold.                                 *)

Table(t) == t \in [Domains -> Entry] /\ \A d \in Domains : Good(d, t[d])
EntriesInv == Table(mem) /\ Table(disk) /\ up \in BOOLEAN /\ (~up => mem = disk)

\* From one step to the next, of every domain.
AllLast  == \A d \in Domains : Lasts(mem[d], mem'[d])
AllLower == \A d \in Domains : Lowers(d, mem[d], mem'[d])

LEMMA BlankTable == Table(Empty)
<1>1. \A d \in Domains : Good(d, Blank)
  BY NewIs DEF Good, Filled, Proven
<1> QED BY <1>1, NewIs DEF Table, Empty

LEMMA Unaltered ==
  ASSUME EntriesInv, mem' = mem, disk' \in {disk, mem}, up' = up
  PROVE  EntriesInv' /\ AllLast /\ AllLower
<1>1. \A d \in Domains : Lasts(mem[d], mem[d]) /\ Lowers(d, mem[d], mem[d])
  BY SameGood DEF EntriesInv, Table
<1> QED BY <1>1 DEF EntriesInv, AllLast, AllLower, Table

\* One entry changes, and the file follows or not.
LEMMA PutKeeps ==
  ASSUME EntriesInv, up, NEW d \in Domains, NEW f, Put(d, f), disk' \in {disk, mem'}, up' = up,
         Good(d, f), Lasts(mem[d], f)
  PROVE  EntriesInv' /\ AllLast /\ (Lowers(d, mem[d], f) => AllLower)
<1>1. f \in Entry /\ mem \in [Domains -> Entry]
  BY DEF Good, Filled, EntriesInv, Table
<1>2. mem' \in [Domains -> Entry] /\ mem'[d] = f /\ \A e \in Domains \ {d} : mem'[e] = mem[e]
  BY <1>1 DEF Put
<1>3. \A e \in Domains : Lasts(mem[e], mem[e]) /\ Lowers(e, mem[e], mem[e]) /\ Good(e, mem[e])
  BY SameGood DEF EntriesInv, Table
<1>4. (\A e \in Domains : Good(e, mem'[e])) /\ AllLast
  BY <1>2, <1>3 DEF AllLast
<1>5. Lowers(d, mem[d], f) => AllLower
  BY <1>2, <1>3 DEF AllLower
<1>6. Table(mem)' /\ Table(disk)'
  BY <1>2, <1>4 DEF EntriesInv, Table
<1> QED BY <1>4, <1>5, <1>6 DEF EntriesInv

LEMMA SightingSteps ==
  ASSUME EntriesInv, up, UNCHANGED up, NEW d \in Domains, NEW app \in SUBSET Apps, NEW hint \in Colours, Sees(d, app, hint)
  PROVE  EntriesInv' /\ AllLast /\ AllLower
<1>1. PICK new \in BOOLEAN : Put(d, Observed(d, mem[d], app, hint, new))
  BY DEF Sees
<1>2. Good(d, mem[d])
  BY DEF EntriesInv, Table
<1>3. PICK f \in Entry : f = Observed(d, mem[d], app, hint, new) /\ Good(d, f) /\ Lasts(mem[d], f) /\ Lowers(d, mem[d], f)
  <2>1. ASSUME NEW e, Good(d, e)
        PROVE  /\ Observed(d, e, app, hint, new) \in Entry
               /\ Good(d, Observed(d, e, app, hint, new)) /\ Lasts(e, Observed(d, e, app, hint, new))
               /\ Lowers(d, e, Observed(d, e, app, hint, new))
    BY <2>1, ObservedStands, StandsGood DEF Good, Stands
  <2> QED BY <1>2, <2>1
<1>4. disk' = disk
  BY DEF Sees, Noted, MarkDirty
<1> QED BY <1>1, <1>3, <1>4, PutKeeps

LEMMA StudySteps ==
  ASSUME EntriesInv, NEW w \in Workers, NEW result \in Colours \cup {"failed"}, Analyze(w, result)
  PROVE  EntriesInv' /\ AllLast /\ AllLower
<1>1. up /\ up' = up /\ disk' = disk
  BY DEF Analyze, At, MarkDirty
<1>2. PICK new \in BOOLEAN : \E d : d = work[w].job /\ Put(d, Analyzed(d, mem[d], result, new))
  BY DEF Analyze
<1>2a. PICK d : Put(d, Analyzed(d, mem[d], result, new))
  BY <1>2
<1>3. CASE d \notin Domains
  <2>1. mem' = mem
    BY <1>2a, <1>3 DEF Put, EntriesInv, Table
  <2> QED BY <1>1, <2>1, Unaltered
<1>4. CASE d \in Domains
  <2>1. Good(d, mem[d])
    BY <1>4 DEF EntriesInv, Table
  <2>2. PICK f \in Entry : f = Analyzed(d, mem[d], result, new) /\ Good(d, f) /\ Lasts(mem[d], f) /\ Lowers(d, mem[d], f)
    <3>1. ASSUME NEW e, Good(d, e)
          PROVE  /\ Analyzed(d, e, result, new) \in Entry
                 /\ Good(d, Analyzed(d, e, result, new)) /\ Lasts(e, Analyzed(d, e, result, new))
                 /\ Lowers(d, e, Analyzed(d, e, result, new))
      BY <1>4, <3>1, AnalyzedStands, StandsGood DEF Good, Stands
    <3> QED BY <2>1, <3>1
  <2> QED BY <1>1, <1>2a, <1>4, <2>2, PutKeeps
<1> QED BY <1>3, <1>4

LEMMA ScheduleSteps ==
  ASSUME EntriesInv, NEW c \in Callers, NEW d \in Domains, Schedule(c, d)
  PROVE  EntriesInv' /\ AllLast /\ AllLower
<1>1. up /\ up' = up
  BY DEF Schedule
<1>2. CASE Known(mem[d])
  BY <1>1, <1>2, Unaltered DEF Schedule, entries
<1>3. CASE ~Known(mem[d])
  <2>1. Put(d, NewEntry) /\ disk' = disk
    BY <1>3 DEF Schedule, MarkDirty
  <2>2. Good(d, mem[d]) /\ mem[d].stage = "absent"
    BY <1>3 DEF EntriesInv, Table, Known
  <2>3. mem[d].verdict = "none" /\ mem[d].risk = "unclassified"
    BY <2>2, NewIs DEF Good, Filled, Blank
  <2>4. Good(d, NewEntry) /\ Lasts(mem[d], NewEntry) /\ Lowers(d, mem[d], NewEntry)
    BY <2>3, NewIs, Orders DEF Good, Filled, Proven, Lasts, Lowers
  <2> QED BY <1>1, <2>1, <2>4, PutKeeps
<1> QED BY <1>2, <1>3

\* What is written at once, and a review.
LEMMA EvidenceSteps ==
  ASSUME EntriesInv, NEW d \in Domains, Evidence(d)
  PROVE  EntriesInv' /\ AllLast /\ AllLower
<1>1. up /\ up' = up /\ disk' \in {disk, mem'}
  BY DEF Evidence, Save, Others
<1>2. PICK new \in BOOLEAN : Put(d, Confirmed(mem[d], new))
  BY DEF Evidence
<1>3. Good(d, mem[d])
  BY DEF EntriesInv, Table
<1>4. PICK f \in Entry : f = Confirmed(mem[d], new) /\ Good(d, f) /\ Lasts(mem[d], f) /\ Lowers(d, mem[d], f)
  <2>1. ASSUME NEW e, Good(d, e)
        PROVE  Confirmed(e, new) \in Entry /\ Good(d, Confirmed(e, new)) /\ Lasts(e, Confirmed(e, new)) /\ Lowers(d, e, Confirmed(e, new))
    BY <2>1, ConfirmedGood DEF Good, Filled
  <2> QED BY <1>3, <2>1
<1> QED BY <1>1, <1>2, <1>4, PutKeeps

LEMMA CategorySteps ==
  ASSUME EntriesInv, NEW d \in Domains, NEW kind \in {"tracking", "telemetry"}, Category(d, kind)
  PROVE  EntriesInv' /\ AllLast /\ AllLower
<1>1. up /\ up' = up /\ disk' \in {disk, mem'} /\ Known(mem[d]) /\ Put(d, [mem[d] EXCEPT !.kind = kind])
  BY DEF Category, Save, Others
<1>2. Good(d, mem[d])
  BY DEF EntriesInv, Table
<1>3. PICK f \in Entry : f = [mem[d] EXCEPT !.kind = kind] /\ Good(d, f) /\ Lasts(mem[d], f) /\ Lowers(d, mem[d], f)
  <2>1. ASSUME NEW e, Good(d, e), e.stage # "absent"
        PROVE  \E f \in Entry : f = [e EXCEPT !.kind = kind] /\ Good(d, f) /\ Lasts(e, f) /\ Lowers(d, e, f)
    <3> DEFINE f == [e EXCEPT !.kind = kind]
    <3>1. /\ f \in Entry /\ f.stage = e.stage /\ f.risk = e.risk /\ f.verdict = e.verdict
          /\ f.apps = e.apps /\ f.kept = e.kept
      BY <2>1 DEF Good, Filled, Entry, Kinds
    <3>2. Lasts(e, e) /\ Lowers(d, e, e)
      BY <2>1, SameGood
    <3> HIDE DEF f
    <3>3. Good(d, f) /\ Lasts(e, f) /\ Lowers(d, e, f)
      BY <2>1, <3>1, <3>2 DEF Good, Filled, Proven, Lasts, Lowers
    <3> QED BY <3>1, <3>3 DEF f
  <2> QED BY <1>1, <1>2, <2>1 DEF Known
<1> QED BY <1>1, <1>3, PutKeeps

LEMMA ReviewSteps ==
  ASSUME EntriesInv, NEW d \in Domains, NEW colour \in Colours, Review(d, colour)
  PROVE  EntriesInv' /\ AllLast /\ AllLower
<1>1. up /\ up' = up /\ disk' = disk
  BY DEF Review, MarkDirty, Others
<1>2. PICK new \in BOOLEAN : Put(d, Verdict(d, mem[d], colour, new))
  BY DEF Review
<1>3. Good(d, mem[d])
  BY DEF EntriesInv, Table
<1>4. PICK f \in Entry : f = Verdict(d, mem[d], colour, new) /\ Good(d, f) /\ Lasts(mem[d], f) /\ Lowers(d, mem[d], f)
  <2>1. ASSUME NEW e, Good(d, e)
        PROVE  /\ Verdict(d, e, colour, new) \in Entry /\ Good(d, Verdict(d, e, colour, new))
               /\ Lasts(e, Verdict(d, e, colour, new)) /\ Lowers(d, e, Verdict(d, e, colour, new))
    BY <2>1, VerdictGood DEF Good, Filled
  <2> QED BY <1>3, <2>1
<1> QED BY <1>1, <1>2, <1>4, PutKeeps

\* Every entry changes at once.
LEMMA AllSteps ==
  ASSUME EntriesInv, Reclassify \/ Defer
  PROVE  EntriesInv' /\ AllLast
<1>1. up /\ up' = up /\ disk' \in {disk, mem'}
  BY DEF Reclassify, Defer, Save, Others
<1>2. \A d \in Domains : Good(d, mem[d])
  BY DEF EntriesInv, Table
<1>3. CASE Reclassify
  <2>1. PICK new \in BOOLEAN : mem' = [d \in Domains |-> Reclassified(d, mem[d], new)]
    BY <1>3 DEF Reclassify
  <2>2. \A d \in Domains : Good(d, Reclassified(d, mem[d], new)) /\ Lasts(mem[d], Reclassified(d, mem[d], new))
    <3>1. ASSUME NEW d \in Domains, NEW e, Good(d, e)
          PROVE  Good(d, Reclassified(d, e, new)) /\ Lasts(e, Reclassified(d, e, new))
      BY <3>1, ReclassifiedGood
    <3> QED BY <1>2, <3>1
  <2>3. \A d \in Domains : Reclassified(d, mem[d], new) \in Entry
    BY <2>2 DEF Good, Filled
  <2>4. Table(mem)' /\ AllLast
    BY <2>1, <2>2, <2>3 DEF Table, AllLast
  <2> QED BY <1>1, <2>4 DEF EntriesInv, Table
<1>4. CASE Defer
  <2>1. mem' = [d \in Domains |-> Deferred(mem[d])]
    BY <1>4 DEF Defer
  <2>2. \A d \in Domains : Good(d, Deferred(mem[d])) /\ Lasts(mem[d], Deferred(mem[d]))
    <3>1. ASSUME NEW d \in Domains, NEW e, Good(d, e)
          PROVE  Good(d, Deferred(e)) /\ Lasts(e, Deferred(e))
      BY <3>1, DeferredGood
    <3> QED BY <1>2, <3>1
  <2>3. \A d \in Domains : Deferred(mem[d]) \in Entry
    BY <2>2 DEF Good, Filled
  <2>4. Table(mem)' /\ AllLast
    BY <2>1, <2>2, <2>3 DEF Table, AllLast
  <2> QED BY <1>1, <2>4 DEF EntriesInv, Table
<1> QED BY <1>3, <1>4

LEMMA LoadedTable ==
  ASSUME NEW t, NEW new \in BOOLEAN, Table(t)
  PROVE  Table([d \in Domains |-> Reloaded(d, t[d], new)])
         /\ \A d \in Domains : Lasts(t[d], Reloaded(d, t[d], new)) /\ Lowers(d, t[d], Reloaded(d, t[d], new))
<1>1. ASSUME NEW d \in Domains
      PROVE  /\ Good(d, Reloaded(d, t[d], new))
             /\ Lasts(t[d], Reloaded(d, t[d], new)) /\ Lowers(d, t[d], Reloaded(d, t[d], new))
  BY <1>1, ReloadedStands, StandsGood, SameGood DEF Table, Good
<1>2. \A d \in Domains : Reloaded(d, t[d], new) \in Entry
  BY <1>1 DEF Good, Filled
<1> QED BY <1>1, <1>2 DEF Table

\* The start of a process, which puts today's rules to what the file holds and adds what the stores have.
Bootstrapped(l, seen, proven, named, hint, new) ==
  [d \in Domains |-> LET e == IF d \in seen THEN Noticed(d, l[d], named[d], hint[d], new) ELSE l[d]
                     IN  IF d \in proven THEN Confirmed(e, new) ELSE e]

LEMMA BootstrappedTable ==
  ASSUME NEW l, Table(l), NEW seen, NEW proven, NEW new \in BOOLEAN,
         NEW named \in [seen -> SUBSET Apps], NEW hint \in [seen -> Hints \cup {"green"}]
  PROVE  Table(Bootstrapped(l, seen, proven, named, hint, new))
<1>1. ASSUME NEW d \in Domains
      PROVE  Good(d, Bootstrapped(l, seen, proven, named, hint, new)[d])
  <2> DEFINE e == IF d \in seen THEN Noticed(d, l[d], named[d], hint[d], new) ELSE l[d]
  <2>1. Good(d, l[d])
    BY DEF Table
  <2>2. Good(d, e)
    <3>1. CASE d \notin seen
      BY <2>1, <3>1
    <3>2. CASE d \in seen
      <4>1. named[d] \in SUBSET Apps /\ hint[d] \in Colours
        BY <3>2, StudiesAssumption DEF Colours
      <4> QED BY <2>1, <3>2, <4>1, NoticedStands, StandsGood DEF Good
    <3> QED BY <3>1, <3>2
  <2>3. Bootstrapped(l, seen, proven, named, hint, new)[d] = IF d \in proven THEN Confirmed(e, new) ELSE e
    BY DEF Bootstrapped
  <2> HIDE DEF e
  <2> QED BY <2>2, <2>3, ConfirmedGood
<1>2. \A d \in Domains : Bootstrapped(l, seen, proven, named, hint, new)[d] \in Entry
  BY <1>1 DEF Good, Filled
<1>3. Bootstrapped(l, seen, proven, named, hint, new) \in [Domains -> Entry]
  <2> DEFINE f(d) == LET e == IF d \in seen THEN Noticed(d, l[d], named[d], hint[d], new) ELSE l[d]
                     IN  IF d \in proven THEN Confirmed(e, new) ELSE e
  <2>1. Bootstrapped(l, seen, proven, named, hint, new) = [d \in Domains |-> f(d)]
    BY DEF Bootstrapped
  <2> HIDE DEF f
  <2>2. \A d \in Domains : f(d) \in Entry
    BY <1>2, <2>1
  <2> QED BY <2>1, <2>2
<1> QED BY <1>1, <1>3 DEF Table

\* What a start, or a process's end, makes of memory: proven evidence still stands.
LEMMA StartSteps ==
  ASSUME EntriesInv, NEW seen, NEW proven, Start(seen, proven)
  PROVE  EntriesInv' /\ ~up
<1>1. ~up /\ mem' = disk' /\ Table(disk) /\ up' \in BOOLEAN
  BY DEF Start, EntriesInv
<1>2. PICK new \in BOOLEAN, named \in [seen -> SUBSET Apps], hint \in [seen -> Hints \cup {"green"}] :
        \/ disk' = Bootstrapped(Loaded(new), seen, proven, named, hint, new)
        \/ disk' \in {disk, Loaded(new), Empty}
  BY DEF Start, Bootstrapped
<1>3. Table(Loaded(new))
  <2>1. ASSUME NEW t, Table(t)
        PROVE  Table([d \in Domains |-> Reloaded(d, t[d], new)])
    BY <2>1, LoadedTable
  <2> QED BY <1>1, <2>1 DEF Loaded
<1>4. PICK t : t = disk' /\ Table(t)
  <2>1. ASSUME NEW l, Table(l)
        PROVE  Table(Bootstrapped(l, seen, proven, named, hint, new))
    BY <2>1, BootstrappedTable
  <2> QED BY <1>1, <1>2, <1>3, <2>1, BlankTable
<1>5. Table(mem)' /\ Table(disk)'
  BY <1>1, <1>4 DEF Table
<1> QED BY <1>1, <1>5 DEF EntriesInv

\* Flusher writes memory as it is; a process that ends leaves what is on the disk.
LEMMA FlushSteps ==
  ASSUME EntriesInv, Flusher
  PROVE  EntriesInv' /\ AllLast /\ AllLower
<1>1. mem' = mem /\ disk' \in {disk, mem} /\ up' = up
  BY DEF Flusher, Flush, entries, Others
<1> QED BY <1>1, Unaltered

LEMMA EndSteps ==
  ASSUME EntriesInv, Exit \/ Crash
  PROVE  EntriesInv' /\ ~up' /\ mem' = disk' /\ disk' \in {disk, mem}
<1>1. up' = FALSE /\ mem' = disk' /\ disk' \in {disk, mem}
  BY DEF Exit, Crash, Gone
<1>2. Table(mem)' /\ Table(disk)'
  BY <1>1 DEF EntriesInv, Table
<1> QED BY <1>1, <1>2 DEF EntriesInv

\* A step ends the process, or is a rebuild, or a start, or keeps reviews and gives reasons.
Reasoned == AllLast /\ (AllLower \/ Reclassify \/ Defer)
LEMMA EntriesSteps ==
  ASSUME EntriesInv, [Next]_vars
  PROVE  EntriesInv' /\ (Reasoned \/ Exit \/ Crash \/ \E seen, proven \in SUBSET Domains : Start(seen, proven))
<1>1. CASE UNCHANGED <<mem, disk, up>>
  BY <1>1, Unaltered DEF Reasoned
<1>2. ASSUME NEW d \in Domains, NEW c \in Callers, Query(c, d)
      PROVE  EntriesInv' /\ Reasoned
  BY <1>2, SightingSteps DEF Query, Idle, Colours, Reasoned
<1>3. ASSUME NEW d \in Domains, NEW app \in SUBSET Apps, NEW hint \in Colours, Sighting(d, app, hint)
      PROVE  EntriesInv' /\ Reasoned
  BY <1>3, SightingSteps DEF Sighting, Others, Reasoned
<1>4. ASSUME NEW d \in Domains,
             \/ (\E c \in Callers : Schedule(c, d)) \/ Evidence(d)
             \/ (\E kind \in {"tracking", "telemetry"} : Category(d, kind))
             \/ \E colour \in Colours : Review(d, colour)
      PROVE  EntriesInv' /\ Reasoned
  BY <1>4, ScheduleSteps, EvidenceSteps, CategorySteps, ReviewSteps DEF Reasoned
<1>5. ASSUME NEW w \in Workers, Worker(w)
      PROVE  EntriesInv' /\ Reasoned
  <2>1. ASSUME NEW r \in Hints \cup {"failed"}, Analyze(w, r)
        PROVE  EntriesInv' /\ Reasoned
    BY <2>1, StudySteps, StudiesAssumption DEF Reasoned
  <2>2. CASE Look(w) \/ Get(w) \/ Raise(w) \/ Discard(w)
    BY <2>2, Unaltered DEF Look, Get, Raise, Discard, entries, Reasoned
  <2> QED BY <1>5, <2>1, <2>2 DEF Worker
<1>6. CASE Reclassify \/ Defer
  BY <1>6, AllSteps DEF Reasoned
<1>7. CASE Flusher
  BY <1>7, FlushSteps DEF Reasoned
<1>8. ASSUME NEW c \in Callers, Enqueue(c) \/ (\E force \in BOOLEAN : RequestAll(c, force))
             \/ \E d \in Domains, force \in BOOLEAN : Request(c, {d}, force)
      PROVE  EntriesInv' /\ Reasoned
  BY <1>8, Unaltered DEF Enqueue, RequestAll, Request, entries, Reasoned
<1>9. CASE Stop
  BY <1>9, Unaltered DEF Stop, entries, Reasoned
<1>10. CASE Exit \/ Crash
  BY <1>10, EndSteps
<1>11. CASE \E seen, proven \in SUBSET Domains : Start(seen, proven)
  BY <1>11, StartSteps
<1>12. CASE UNCHANGED vars
  BY <1>1, <1>12 DEF vars
<1>13. CASE Next
  <2>1. ASSUME NEW d \in Domains, (\E a \in Apps : Sighting(d, {a}, "green")) \/ \E h \in Hints : Sighting(d, {}, h)
        PROVE  EntriesInv' /\ Reasoned
    BY <1>3, <2>1, StudiesAssumption DEF Colours
  <2>2. ASSUME NEW d \in Domains, NEW c \in Callers, Query(c, d) \/ Schedule(c, d)
        PROVE  EntriesInv' /\ Reasoned
    BY <1>2, <1>4, <2>2
  <2>3. ASSUME NEW c \in Requests, NEW force \in BOOLEAN, RequestAll(c, force) \/ \E d \in Domains : Request(c, {d}, force)
        PROVE  EntriesInv' /\ Reasoned
    BY <1>8, <2>3 DEF Callers
  <2>4. ASSUME NEW c \in Callers, Enqueue(c)
        PROVE  EntriesInv' /\ Reasoned
    BY <1>8, <2>4
  <2> QED BY <1>4, <1>5, <1>6, <1>7, <1>9, <1>10, <1>11, <1>13, <2>1, <2>2, <2>3, <2>4 DEF Next, Callers
<1> QED BY <1>12, <1>13

LEMMA EntriesStart ==
  ASSUME Init
  PROVE  EntriesInv
BY BlankTable DEF Init, EntriesInv

-----------------------------------------------------------------------------
(* Studies: what its properties say of every step.                         *)

LEMMA StepsKeepRed ==
  ASSUME EntriesInv, [Next]_vars
  PROVE  \A d \in Domains : LocalRed(mem[d]) /\ mem'[d].kept["local"] > 0 /\ ~Catalogued(d) => mem'[d].risk = "red"
<1>1. EntriesInv'
  BY EntriesSteps
<1> QED BY <1>1 DEF EntriesInv, Table, Good, Proven

LEMMA StepsLower ==
  ASSUME EntriesInv, [Next]_vars
  PROVE  \A d \in Domains :
           \/ Order[mem'[d].risk] >= Order[mem[d].risk] \/ Catalogued(d) \/ Reclassify \/ Defer \/ ~up'
           \/ mem'[d].verdict = mem'[d].risk
           \/ \E a \in mem'[d].apps : d \in Expected[a]
<1>1. Reasoned \/ Exit \/ Crash \/ \E seen, proven \in SUBSET Domains : Start(seen, proven)
  BY EntriesSteps
<1>2. CASE Reasoned
  BY <1>2 DEF Reasoned, AllLower, Lowers
<1>3. CASE Exit \/ Crash
  BY <1>3, EndSteps
<1>4. ASSUME NEW seen \in SUBSET Domains, NEW proven \in SUBSET Domains, Start(seen, proven), up'
      PROVE  AllLower
  <2>1. mem = disk /\ Table(mem)
    BY <1>4 DEF EntriesInv, Start
  <2>2. PICK new \in BOOLEAN, named \in [seen -> SUBSET Apps], hint \in [seen -> Hints \cup {"green"}] :
          mem' = Bootstrapped(Loaded(new), seen, proven, named, hint, new)
    BY <1>4 DEF Start, Bootstrapped
  <2> SUFFICES ASSUME NEW d \in Domains
               PROVE  Lowers(d, mem[d], mem'[d])
    BY DEF AllLower
  <2>3. PICK e : e = mem[d] /\ Good(d, e)
    BY <2>1 DEF Table
  <2> DEFINE l == Reloaded(d, e, new)
             s == IF d \in seen THEN Noticed(d, l, named[d], hint[d], new) ELSE l
  <2>4. mem'[d] = IF d \in proven THEN Confirmed(s, new) ELSE s
    BY <2>1, <2>2, <2>3 DEF Bootstrapped, Loaded
  <2>5. (e.stage = "absent" /\ l = e) \/ Stands(d, e, l)
    BY <2>3, ReloadedStands DEF Good
  <2>6. Good(d, l) /\ Lowers(d, e, l)
    BY <2>3, <2>5, StandsGood, SameGood
  <2>7. Good(d, s) /\ Lowers(d, e, s)
    <3>1. d \in seen => named[d] \in SUBSET Apps /\ hint[d] \in Colours
      BY StudiesAssumption DEF Colours
    <3>2. d \in seen => Stands(d, l, Noticed(d, l, named[d], hint[d], new))
      BY <2>6, <3>1, NoticedStands DEF Good
    <3>3. CASE d \notin seen
      BY <2>6, <3>3
    <3>4. CASE d \in seen /\ l = e
      BY <2>6, <3>2, <3>4, StandsGood
    <3>5. CASE d \in seen /\ Stands(d, e, l)
      <4>1. Stands(d, e, s)
        BY <2>3, <3>2, <3>5, StandsOn DEF Good, Filled
      <4> QED BY <2>3, <4>1, StandsGood
    <3> QED BY <2>5, <3>3, <3>4, <3>5
  <2> HIDE DEF s
  <2>8. Lowers(d, e, Confirmed(s, new))
    <3>1. Confirmed(s, new).risk = "red" /\ e.risk \in DOMAIN Order
      BY <2>3 DEF Confirmed, Mark, Line, Good, Filled, Entry
    <3> QED BY <3>1, Orders DEF Lowers
  <2> QED BY <2>3, <2>4, <2>7, <2>8
<1> QED BY <1>1, <1>2, <1>3, <1>4 DEF AllLower, Lowers

LEMMA StepsLast ==
  ASSUME EntriesInv, NothingUnmarked, [Next]_vars
  PROVE  \A d \in Domains : mem[d].verdict # "none" /\ mem'[d].verdict = "none" => ~up \/ (~up' /\ (dirty \/ unsaved))
<1>1. Reasoned \/ Exit \/ Crash \/ \E seen, proven \in SUBSET Domains : Start(seen, proven)
  BY EntriesSteps
<1>2. CASE Reasoned
  BY <1>2 DEF Reasoned, AllLast, Lasts
<1>3. CASE Exit \/ Crash
  BY <1>3, EndSteps DEF NothingUnmarked
<1>4. CASE \E seen, proven \in SUBSET Domains : Start(seen, proven)
  BY <1>4 DEF Start
<1> QED BY <1>1, <1>2, <1>3, <1>4

\* The flags.
FlagsTyped == {dirty, unsaved, flusher, stopping, up} \subseteq BOOLEAN
LEMMA FlagsSteps ==
  ASSUME FlagsTyped, [Next]_vars
  PROVE  FlagsTyped'
<1>1. {dirty, unsaved, flusher, stopping, up} \subseteq BOOLEAN
  BY DEF FlagsTyped
<1>2. MarkDirty => {dirty', unsaved', flusher'} \subseteq BOOLEAN
  BY <1>1 DEF MarkDirty
<1>3. Save => {dirty', unsaved', flusher'} \subseteq BOOLEAN
  BY <1>1 DEF Save
<1>4. Noted => {dirty', unsaved', flusher'} \subseteq BOOLEAN
  BY <1>1, <1>2 DEF Noted
<1>5. UNCHANGED <<stopping, up>> /\ {dirty', unsaved', flusher'} \subseteq BOOLEAN => FlagsTyped'
  BY <1>1 DEF FlagsTyped
<1>6. UNCHANGED <<dirty, unsaved, flusher>> => {dirty', unsaved', flusher'} \subseteq BOOLEAN
  BY <1>1
<1>7. Gone => FlagsTyped'
  BY DEF Gone, FlagsTyped
<1>8. ASSUME NEW c \in Callers,
             \/ \E d \in Domains : Query(c, d) \/ Schedule(c, d)
             \/ Enqueue(c) \/ \E ds \in SUBSET Domains, force \in BOOLEAN : Request(c, ds, force)
      PROVE  FlagsTyped'
  BY <1>2, <1>4, <1>5, <1>6, <1>8 DEF Query, Sees, Schedule, Enqueue, Request, entries
<1>9. ASSUME NEW w \in Workers, Worker(w)
      PROVE  FlagsTyped'
  BY <1>2, <1>5, <1>6, <1>9 DEF Worker, Look, Get, Analyze, Raise, Discard, entries
<1>10. ASSUME NEW d \in Domains,
              \/ (\E a \in Apps : Sighting(d, {a}, "green")) \/ (\E h \in Hints : Sighting(d, {}, h))
              \/ Evidence(d) \/ (\E kind \in {"tracking", "telemetry"} : Category(d, kind))
              \/ \E colour \in Colours : Review(d, colour)
       PROVE  FlagsTyped'
  BY <1>2, <1>3, <1>4, <1>5, <1>10 DEF Sighting, Sees, Evidence, Category, Review, Others
<1>11. CASE Reclassify \/ Defer
  BY <1>3, <1>5, <1>11 DEF Reclassify, Defer, Others
<1>12. CASE Flusher
  <2>1. {dirty', unsaved'} \subseteq BOOLEAN
    BY <1>1, <1>12 DEF Flusher, Flush, entries
  <2>2. flusher' \in BOOLEAN
    BY <1>12 DEF Flusher
  <2> QED BY <1>5, <1>12, <2>1, <2>2 DEF Flusher, Others
<1>13. CASE Stop
  <2>1. stopping' = TRUE /\ UNCHANGED <<dirty, unsaved, flusher, up>>
    BY <1>13 DEF Stop, entries
  <2> QED BY <1>1, <2>1 DEF FlagsTyped
<1>14. CASE Exit \/ Crash
  BY <1>7, <1>14 DEF Exit, Crash
<1>15. ASSUME NEW seen \in SUBSET Domains, NEW proven \in SUBSET Domains, Start(seen, proven)
       PROVE  FlagsTyped'
  <2>1. UNCHANGED <<dirty, unsaved, flusher, stopping>> /\ up' \in BOOLEAN
    BY <1>15 DEF Start
  <2> QED BY <1>1, <2>1 DEF FlagsTyped
<1>16. CASE UNCHANGED vars
  BY <1>5, <1>6, <1>16 DEF vars
<1>17. CASE Next
  <2>1. ASSUME NEW c \in Requests, NEW force \in BOOLEAN, RequestAll(c, force) \/ \E d \in Domains : Request(c, {d}, force)
        PROVE  FlagsTyped'
    <3>1. \E ds \in SUBSET Domains : Request(c, ds, force)
      BY <2>1 DEF RequestAll
    <3> QED BY <1>8, <3>1 DEF Callers
  <2>2. ASSUME NEW d \in Domains, NEW c \in Callers, Query(c, d) \/ Schedule(c, d)
        PROVE  FlagsTyped'
    BY <1>8, <2>2
  <2>3. ASSUME NEW c \in Callers, Enqueue(c)
        PROVE  FlagsTyped'
    BY <1>8, <2>3
  <2> QED BY <1>9, <1>10, <1>11, <1>12, <1>13, <1>14, <1>15, <1>17, <2>1, <2>2, <2>3 DEF Next, Callers
<1> QED BY <1>16, <1>17

\* Every variable has its type: every rule takes an entry to an entry.
THEOREM TypeCorrect == Spec => []TypeOK
<1>1. Init => QueueInv /\ EntriesInv /\ FlagsTyped
  BY QueueStarts, EntriesStart DEF Init, FlagsTyped
<1>2. QueueInv /\ EntriesInv /\ FlagsTyped /\ [Next]_vars => (QueueInv /\ EntriesInv /\ FlagsTyped)'
  BY QueueSteps, EntriesSteps, FlagsSteps
<1>3. QueueInv /\ EntriesInv /\ FlagsTyped => TypeOK
  BY DEF QueueInv, QueuesTyped, Job, EntriesInv, Table, FlagsTyped, TypeOK
<1> QED BY <1>1, <1>2, <1>3, PTL DEF Spec

\* What a session of the user's proved stays red, a colour goes down only for the reasons named, and a review
\* is lost in no step but an end that was not written: for any catalogue, apps and number of lines kept.
THEOREM ColoursAreKept == Spec => ColoursStand
<1> DEFINE Inv == EntriesInv /\ NothingUnmarked
<1>1. Init => Inv
  BY EntriesStart DEF Init, NothingUnmarked
<1>2. Inv /\ [Next]_vars => Inv'
  BY EntriesSteps, MarkSteps
<1>3. Inv /\ [Next]_vars =>
        [\A d \in Domains : LocalRed(mem[d]) /\ mem'[d].kept["local"] > 0 /\ ~Catalogued(d) => mem'[d].risk = "red"]_vars
  BY StepsKeepRed
<1>4. Inv /\ [Next]_vars =>
        [\A d \in Domains :
           \/ Order[mem'[d].risk] >= Order[mem[d].risk] \/ Catalogued(d) \/ Reclassify \/ Defer \/ ~up'
           \/ mem'[d].verdict = mem'[d].risk
           \/ \E a \in mem'[d].apps : d \in Expected[a]]_vars
  BY StepsLower
<1>5. Inv /\ [Next]_vars =>
        [\A d \in Domains : mem[d].verdict # "none" /\ mem'[d].verdict = "none" => ~up \/ (~up' /\ (dirty \/ unsaved))]_vars
  BY StepsLast
<1> HIDE DEF Inv
<1> QED BY <1>1, <1>2, <1>3, <1>4, <1>5, PTL DEF Spec, ColoursStand, LocalRedStands, LowersOnly, ReviewKept
=============================================================================
