------------------------------- MODULE DohPool ------------------------------
(***************************************************************************)
(* The connections to the DNS-over-HTTPS providers (DoHConnectionPool, and *)
(* the requests of Resolver that use them). A request takes an idle        *)
(* connection of its provider or opens one, sends its query over it with   *)
(* no lock held, and gives it back or shuts it. Idle connections are taken *)
(* in the order in which they were given back, so those that are too old   *)
(* are met first; the order of the others tells nothing apart here.        *)
(***************************************************************************)
EXTENDS Integers, FiniteSets

CONSTANTS
  Queries,    \* the threads that ask: handlers and self-tests
  Hosts,      \* scheme, host and port of each provider
  Conns,      \* bound: the connections ever opened
  MaxIdle,    \* MAX_IDLE_CONNECTIONS_PER_HOST
  NoConn

PoolAssumption ==
  /\ IsFiniteSet(Conns) /\ NoConn \notin Conns /\ MaxIdle \in Nat \ {0}

VARIABLES
  idle,       \* _idle[h]: the connections kept for host h
  old,        \* those of them that have been idle for longer than idle_ttl
  made, shut, \* the connections made, and those shut again
  dead,       \* those that the provider, or what lies between, has closed
  at, host,   \* where each request is in _doh_request_pooled, and the provider it asks
  hand,       \* the connection it holds
  reused,     \* whether that one came from the pool
  again       \* its second attempt

conns    == <<idle, old, made, shut, dead>>
requests == <<at, host, hand, reused, again>>
vars     == <<conns, requests>>

Phase == {"none", "acquire", "exchange", "answered", "refused", "failed"}

TypeOK ==
  /\ idle \in [Hosts -> SUBSET Conns] /\ old \subseteq Conns /\ made \subseteq Conns /\ shut \subseteq Conns
  /\ dead \subseteq Conns /\ at \in [Queries -> Phase] /\ host \in [Queries -> Hosts]
  /\ hand \in [Queries -> Conns \cup {NoConn}] /\ {reused, again} \subseteq [Queries -> BOOLEAN]

Init ==
  /\ idle = [h \in Hosts |-> {}] /\ old = {} /\ made = {} /\ shut = {} /\ dead = {}
  /\ at = [q \in Queries |-> "none"] /\ host \in [Queries -> Hosts] /\ hand = [q \in Queries |-> NoConn]
  /\ reused = [q \in Queries |-> FALSE] /\ again = [q \in Queries |-> FALSE]

Goes(q, where) == at' = [at EXCEPT ![q] = where]

-----------------------------------------------------------------------------
\* A query for provider h; what the last one came to is forgotten.
Ask(q, h) ==
  /\ at[q] \notin {"acquire", "exchange"} /\ Goes(q, "acquire")
  /\ host' = [host EXCEPT ![q] = h] /\ again' = [again EXCEPT ![q] = FALSE]
  /\ UNCHANGED <<conns, hand, reused>>

Takes(q, c, pooled) ==
  /\ Goes(q, "exchange") /\ hand' = [hand EXCEPT ![q] = c] /\ reused' = [reused EXCEPT ![q] = pooled]
  /\ UNCHANGED <<dead, host, again>>

\* Broken on purpose (mutant): the connection is looked at, and stays in its place.
AcquireIdleAndLeave(q, c) ==
  /\ at[q] = "acquire" /\ c \in idle[host[q]] \ old
  /\ idle' = [idle EXCEPT ![host[q]] = @ \ old]
  /\ shut' = shut \cup (idle[host[q]] \cap old) /\ old' = old \ idle[host[q]]
  /\ UNCHANGED made /\ Takes(q, c, TRUE)

\* acquire: those that are too old are shut, and the next one is taken.
AcquireIdle(q, c) ==
  /\ at[q] = "acquire" /\ c \in idle[host[q]] \ old
  /\ idle' = [idle EXCEPT ![host[q]] = (@ \ old) \ {c}]
  /\ shut' = shut \cup (idle[host[q]] \cap old) /\ old' = old \ idle[host[q]]
  /\ UNCHANGED made /\ Takes(q, c, TRUE)

\* There is none: a new one, which connects when it is used.
AcquireNew(q, c) ==
  /\ at[q] = "acquire" /\ idle[host[q]] \subseteq old /\ c \in Conns \ made
  /\ idle' = [idle EXCEPT ![host[q]] = {}]
  /\ shut' = shut \cup idle[host[q]] /\ old' = old \ idle[host[q]]
  /\ made' = made \cup {c} /\ Takes(q, c, FALSE)

Drops(q) == hand' = [hand EXCEPT ![q] = NoConn] /\ UNCHANGED <<made, dead, host, reused>>
Discard(q) == shut' = shut \cup {hand[q]} /\ UNCHANGED <<idle, old>>

\* Broken on purpose (mutants): the pool takes back any number; one too many is forgotten.
ReleaseAny(q) ==
  idle' = [idle EXCEPT ![host[q]] = @ \cup {hand[q]}] /\ UNCHANGED <<old, shut>>
ReleaseForgets(q) ==
  IF Cardinality(idle[host[q]]) >= MaxIdle THEN UNCHANGED <<idle, old, shut>>
  ELSE idle' = [idle EXCEPT ![host[q]] = @ \cup {hand[q]}] /\ UNCHANGED <<old, shut>>

Release(q) ==
  IF Cardinality(idle[host[q]]) >= MaxIdle THEN Discard(q)
  ELSE idle' = [idle EXCEPT ![host[q]] = @ \cup {hand[q]}] /\ UNCHANGED <<old, shut>>

\* _doh_exchange: a whole answer. The connection is kept unless the provider closes it, or there was more of
\* the answer than is read; whether the answer is one is seen afterwards (_validate_answer).
Answer(q, keep) ==
  /\ at[q] = "exchange" /\ hand[q] \notin dead
  /\ IF keep THEN Release(q) ELSE Discard(q)
  /\ \E where \in {"answered", "refused"} : Goes(q, where)
  /\ Drops(q) /\ UNCHANGED again
\* An HTTP error is the provider's verdict, and never retried.
HttpError(q) ==
  /\ at[q] = "exchange" /\ hand[q] \notin dead /\ Discard(q) /\ Goes(q, "refused") /\ Drops(q) /\ UNCHANGED again

\* Broken on purpose (mutant): whoever fails first has failed.
BreaksAtOnce(q) ==
  at[q] = "exchange" /\ Discard(q) /\ Drops(q) /\ Goes(q, "failed") /\ UNCHANGED again

\* It breaks, or takes too long: one that came from the pool is worth one more attempt.
Breaks(q) ==
  /\ at[q] = "exchange" /\ Discard(q) /\ Drops(q)
  /\ IF reused[q] /\ ~again[q] THEN Goes(q, "acquire") /\ again' = [again EXCEPT ![q] = TRUE]
     ELSE Goes(q, "failed") /\ UNCHANGED again

-----------------------------------------------------------------------------
\* The provider closes a connection, and time passes: the longer a connection of a host is idle the sooner it
\* is too old.
Closes(c) == c \in made \ (shut \cup dead) /\ dead' = dead \cup {c} /\ UNCHANGED <<idle, old, made, shut, requests>>
Ages(c) ==
  /\ c \in UNION {idle[h] : h \in Hosts} \ old /\ old' = old \cup {c}
  /\ UNCHANGED <<idle, made, shut, dead, requests>>

Next ==
  \/ \E q \in Queries :
       \/ \E h \in Hosts : Ask(q, h)
       \/ \E c \in Conns : AcquireIdle(q, c) \/ AcquireNew(q, c)
       \/ \E keep \in BOOLEAN : Answer(q, keep)
       \/ HttpError(q) \/ Breaks(q)
  \/ \E c \in Conns : Closes(c) \/ Ages(c)

Spec == Init /\ [][Next]_vars

-----------------------------------------------------------------------------
(* Properties.                                                             *)

\* A connection carries one query at a time: nobody has what another has, and what somebody has is in no
\* bucket; each idle one is in the bucket of one host.
OneUser ==
  /\ \A q, r \in Queries : q # r /\ hand[q] # NoConn => hand[q] # hand[r]
  /\ \A q \in Queries, h \in Hosts : hand[q] \notin idle[h]
  /\ \A g, h \in Hosts : g # h => idle[g] \cap idle[h] = {}

\* However requests meet, no connection is left open that nobody has: each is in use, kept, or shut, and no
\* more are kept for a host than it may have.
NoneLeft ==
  /\ \A c \in made : c \in shut \/ (\E q \in Queries : hand[q] = c) \/ \E h \in Hosts : c \in idle[h]
  /\ \A h \in Hosts : idle[h] \cap shut = {} /\ Cardinality(idle[h]) <= MaxIdle

\* A request fails after its second attempt, or over a connection of its own: one that the provider has
\* closed in the meantime is not held against it at once.
FailsLate == \A q \in Queries : at[q] = "failed" => again[q] \/ ~reused[q]

PoolKept == OneUser /\ NoneLeft /\ FailsLate

=============================================================================
