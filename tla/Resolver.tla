------------------------------ MODULE Resolver ------------------------------
(***************************************************************************)
(* How a DNS query is answered (dns_engine.py, Resolver.resolve), with     *)
(* every query a thread of its own: parse, policy of the device, cache, a  *)
(* slot of the engine's capacity, the DoH providers in the order of their  *)
(* health, cache again, log, reply.                                        *)
(*                                                                         *)
(* An action is what happens between two points where another thread may   *)
(* run: under one lock, or between two calls. The policy may change, and   *)
(* any cached answer disappear (expired, evicted, invalidated, cleared),   *)
(* at every one of them. DnsService is what this implements.               *)
(***************************************************************************)
EXTENDS Naturals, FiniteSets, Sequences

CONSTANTS
  Queries,           \* threads answering a query
  Devices,           \* whose policies there are: the PC and the phones
  PC,                \* the one whose activity is not logged to a file, if it is one of them
  Domains,
  Primary, Fallback, \* the two DoH providers
  Slots,             \* maximum_concurrent
  MaxFaults          \* bound: writes of the activity log that fail

Providers == {Primary, Fallback}

ASSUME ResolverAssumption ==
  /\ IsFiniteSet(Queries)
  /\ Primary # Fallback
  /\ Slots \in Nat \ {0}
  /\ MaxFaults \in Nat

VARIABLES
  policy,    \* policy[v]: the domains blocked for device v
  cache,     \* cache[d]: the answer kept for d
  free,      \* slots not taken
  strikes,   \* strikes[p]: consecutive failures, two standing for more
  cooling,   \* cooling[p]: its cool-down is not over
  pc,        \* where each query is
  dev, dom,  \* who asks it, and for what
  order,     \* providers it still has to ask
  said,      \* said[q][p]: what provider p told it, to compare its answer with
  partial,   \* a CNAME without an address was answered, by the first provider
  result,    \* what it is about to answer
  reply,     \* what it answered last
  faults

health == <<strikes, cooling>>
asking == <<order, said, partial>>
vars   == <<policy, cache, free, health, pc, dev, dom, asking, result, reply, faults>>

\* A complete answer, or for an A query a chain of names without an address.
Reply  == {"complete", "dangling"}
Result == Reply \cup {"none", "blocked", "garbled", "busy", "unreachable", "unlogged"}
Phase  == {"idle", "policy", "cache", "slot", "order", "ask", "put", "note", "refuse",
           "release", "lost", "log"}

\* What a provider told a query: no answer at all, an incomplete one, a complete one.
Unasked == [p \in Providers |-> "unasked"]
Hears(q, p, what) == said' = [said EXCEPT ![q][p] = what]

\* Phases in which a query has a slot: from acquire to the finally that releases it.
Holding == {"order", "ask", "put", "note", "refuse", "release", "lost"}
Holders == {q \in Queries : pc[q] \in Holding}

\* What the client gets.
Sent(r) == CASE r \in Reply     -> "data"
             [] r = "blocked"   -> "blocked"
             [] OTHER           -> "refused"

-----------------------------------------------------------------------------
Init ==
  /\ policy  = [v \in Devices |-> {}]
  /\ cache   = [d \in Domains |-> "none"]
  /\ free    = Slots
  /\ strikes = [p \in Providers |-> 0]
  /\ cooling = [p \in Providers |-> FALSE]
  /\ pc      = [q \in Queries |-> "idle"]
  /\ dev \in [Queries -> Devices]
  /\ dom \in [Queries -> Domains]
  /\ order   = [q \in Queries |-> <<>>]
  /\ said    = [q \in Queries |-> Unasked]
  /\ partial = [q \in Queries |-> FALSE]
  /\ result  = [q \in Queries |-> "none"]
  /\ reply   = [q \in Queries |-> "none"]
  /\ faults  = 0

Goto(q, phase)  == pc' = [pc EXCEPT ![q] = phase]
Means(q, r)     == result' = [result EXCEPT ![q] = r]
Answered(q, r)  == reply' = [reply EXCEPT ![q] = r]

\* The thread of a query is over, and its locals with it.
Over(q) ==
  /\ Goto(q, "idle") /\ Means(q, "none")
  /\ order'   = [order   EXCEPT ![q] = <<>>]
  /\ said'    = [said    EXCEPT ![q] = Unasked]
  /\ partial' = [partial EXCEPT ![q] = FALSE]

-----------------------------------------------------------------------------
\* A datagram or a TCP message arrives; one that cannot be parsed is logged and refused.
Ask(q) ==
  /\ pc[q] = "idle"
  /\ \E v \in Devices, d \in Domains :
       dev' = [dev EXCEPT ![q] = v] /\ dom' = [dom EXCEPT ![q] = d]
  /\ \/ Goto(q, "policy") /\ UNCHANGED result
     \/ Goto(q, "log") /\ Means(q, "garbled")
  /\ Answered(q, "none")
  /\ UNCHANGED <<policy, cache, free, health, asking, faults>>

\* Broken on purpose (mutant): what is in the cache is answered without asking the policy.
CheckPolicyOfUncached(q) ==
  /\ pc[q] = "policy"
  /\ IF dom[q] \in policy[dev[q]] /\ cache[dom[q]] = "none"
     THEN Goto(q, "log") /\ Means(q, "blocked")
     ELSE Goto(q, "cache") /\ UNCHANGED result
  /\ UNCHANGED <<policy, cache, free, health, dev, dom, asking, reply, faults>>

\* _action_for: the policy of the device that asks.
CheckPolicy(q) ==
  /\ pc[q] = "policy"
  /\ IF dom[q] \in policy[dev[q]]
     THEN Goto(q, "log") /\ Means(q, "blocked")
     ELSE Goto(q, "cache") /\ UNCHANGED result
  /\ UNCHANGED <<policy, cache, free, health, dev, dom, asking, reply, faults>>

\* DNSCache.get: one cache for all devices.
CheckCache(q) ==
  /\ pc[q] = "cache"
  /\ IF cache[dom[q]] = "none"
     THEN Goto(q, "slot") /\ UNCHANGED result
     ELSE Goto(q, "log") /\ Means(q, cache[dom[q]])
  /\ UNCHANGED <<policy, cache, free, health, dev, dom, asking, reply, faults>>

TakeSlot(q) ==
  /\ pc[q] = "slot" /\ free > 0
  /\ free' = free - 1
  /\ Goto(q, "order")
  /\ UNCHANGED <<policy, cache, health, dev, dom, asking, result, reply, faults>>

\* Broken on purpose (mutant): the acquire stands inside the try, so the finally gives back a
\* slot that was never taken.
NoSlotReleased(q) ==
  /\ pc[q] = "slot" /\ free = 0
  /\ Goto(q, "release") /\ Means(q, "busy")
  /\ UNCHANGED <<policy, cache, free, health, dev, dom, asking, reply, faults>>

\* A quarter of a second without a slot.
NoSlot(q) ==
  /\ pc[q] = "slot" /\ free = 0
  /\ Goto(q, "log") /\ Means(q, "busy")
  /\ UNCHANGED <<policy, cache, free, health, dev, dom, asking, reply, faults>>

\* _provider_order: the primary first, unless it is cooling down.
Order(q) ==
  /\ pc[q] = "order"
  /\ order' = [order EXCEPT ![q] = IF cooling[Primary] THEN <<Fallback, Primary>>
                                                       ELSE <<Primary, Fallback>>]
  /\ Goto(q, "ask")
  /\ UNCHANGED <<policy, cache, free, health, dev, dom, said, partial, result, reply, faults>>

\* Broken on purpose (mutant): a provider that answers keeps its cool-down.
SucceedWarm(p) ==
  /\ strikes' = [strikes EXCEPT ![p] = 0]
  /\ UNCHANGED cooling

\* _provider_success and _provider_failure.
Succeed(p) ==
  /\ strikes' = [strikes EXCEPT ![p] = 0]
  /\ cooling' = [cooling EXCEPT ![p] = FALSE]

Strike(p) ==
  /\ strikes' = [strikes EXCEPT ![p] = IF @ = 0 THEN 1 ELSE 2]
  /\ cooling' = [cooling EXCEPT ![p] = @ \/ strikes[p] >= 1]

\* Broken on purpose (mutant): once there is an incomplete answer it stands, whatever the other
\* provider answers.
PartialStands(q, kind) ==
  LET p == Head(order[q])
  IN  /\ pc[q] = "ask" /\ order[q] # <<>>
      /\ Succeed(p) /\ Hears(q, p, kind)
      /\ order' = [order EXCEPT ![q] = Tail(@)]
      /\ IF kind = "dangling" /\ order'[q] # <<>>
         THEN partial' = [partial EXCEPT ![q] = TRUE] /\ UNCHANGED <<pc, result>>
         ELSE /\ Goto(q, "put") /\ Means(q, IF partial[q] THEN "dangling" ELSE kind)
              /\ UNCHANGED partial
      /\ UNCHANGED <<policy, cache, free, dev, dom, reply, faults>>

\* The provider answers (asked a second time if the first answer was cut short). A chain
\* without an address is worth asking the other one, if there is one left.
Reached(q, kind) ==
  LET p    == Head(order[q])
      rest == Tail(order[q])
  IN  /\ pc[q] = "ask" /\ order[q] # <<>>
      /\ Succeed(p) /\ Hears(q, p, kind)
      /\ order' = [order EXCEPT ![q] = rest]
      /\ IF kind = "dangling" /\ rest # <<>>
         THEN partial' = [partial EXCEPT ![q] = TRUE] /\ UNCHANGED <<pc, result>>
         ELSE Goto(q, "put") /\ Means(q, kind) /\ UNCHANGED partial
      /\ UNCHANGED <<policy, cache, free, dev, dom, reply, faults>>

\* No connection, a time-out, an HTTP error, a malformed or foreign answer, one cut short twice.
Unreached(q) ==
  LET p == Head(order[q])
  IN  /\ pc[q] = "ask" /\ order[q] # <<>>
      /\ Strike(p) /\ Hears(q, p, "nothing")
      /\ order' = [order EXCEPT ![q] = Tail(@)]
      /\ UNCHANGED <<policy, cache, free, pc, dev, dom, partial, result, reply, faults>>

\* Broken on purpose (mutant): the providers are asked again until one answers.
ExhaustedRetries(q) ==
  /\ pc[q] = "ask" /\ order[q] = <<>>
  /\ IF partial[q] THEN Goto(q, "put") /\ Means(q, "dangling")
                   ELSE Goto(q, "order") /\ UNCHANGED result
  /\ UNCHANGED <<policy, cache, free, health, dev, dom, asking, reply, faults>>

\* Nobody left to ask: the incomplete answer stands, or there is none.
Exhausted(q) ==
  /\ pc[q] = "ask" /\ order[q] = <<>>
  /\ IF partial[q] THEN Goto(q, "put")    /\ Means(q, "dangling")
                   ELSE Goto(q, "refuse") /\ Means(q, "unreachable")
  /\ UNCHANGED <<policy, cache, free, health, dev, dom, asking, reply, faults>>

\* DNSCache.put keeps the answer if its code and its time to live allow.
Put(q) ==
  /\ pc[q] = "put"
  /\ \/ cache' = [cache EXCEPT ![dom[q]] = result[q]]
     \/ UNCHANGED cache
  /\ Goto(q, "note")
  /\ UNCHANGED <<policy, free, health, dev, dom, asking, result, reply, faults>>

-----------------------------------------------------------------------------
(* The log, and the end of a query.                                        *)

\* The file cannot be written. The PC's own queries never get there, but for garbled ones.
LogFault(q) ==
  /\ dev[q] # PC \/ result[q] = "garbled"
  /\ faults < MaxFaults
  /\ faults' = faults + 1

\* Without a slot: the reply follows the log, and an exception of the log ends the thread.
Log(q) ==
  /\ pc[q] = "log"
  /\ \/ Answered(q, Sent(result[q])) /\ UNCHANGED faults
     \/ Answered(q, "lost") /\ LogFault(q)
  /\ Over(q)
  /\ UNCHANGED <<policy, cache, free, health, dev, dom>>

\* With one: the exception is caught, and the query is refused.
Note(q) ==
  /\ pc[q] = "note"
  /\ \/ Goto(q, "release") /\ UNCHANGED <<result, faults>>
     \/ Goto(q, "refuse") /\ Means(q, "unlogged") /\ LogFault(q)
  /\ UNCHANGED <<policy, cache, free, health, dev, dom, asking, reply>>

\* The refusal is logged too; nothing catches an exception there.
Refuse(q) ==
  /\ pc[q] = "refuse"
  /\ \/ Goto(q, "release") /\ UNCHANGED faults
     \/ Goto(q, "lost") /\ LogFault(q)
  /\ UNCHANGED <<policy, cache, free, health, dev, dom, asking, result, reply>>

\* Broken on purpose (mutant): the slot is given back on success only, not in a finally.
ReleaseAnswered(q) ==
  /\ pc[q] \in {"release", "lost"}
  /\ free' = IF result[q] \in Reply THEN free + 1 ELSE free
  /\ Answered(q, IF pc[q] = "lost" THEN "lost" ELSE Sent(result[q]))
  /\ Over(q)
  /\ UNCHANGED <<policy, cache, health, dev, dom, faults>>

Release(q) ==
  /\ pc[q] \in {"release", "lost"}
  /\ free' = free + 1
  /\ Answered(q, IF pc[q] = "lost" THEN "lost" ELSE Sent(result[q]))
  /\ Over(q)
  /\ UNCHANGED <<policy, cache, health, dev, dom, faults>>

QueryStep(q) ==
  \/ CheckPolicy(q) \/ CheckCache(q) \/ TakeSlot(q) \/ NoSlot(q) \/ Order(q)
  \/ Unreached(q) \/ Exhausted(q) \/ Put(q) \/ Log(q) \/ Note(q) \/ Refuse(q) \/ Release(q)
  \/ \E kind \in Reply : Reached(q, kind)

-----------------------------------------------------------------------------
(* Meanwhile.                                                              *)

\* PolicyStore.update and delete, for one device.
SetPolicy(v) ==
  /\ \E d \in Domains :
       policy' = [policy EXCEPT ![v] = IF d \in @ THEN @ \ {d} ELSE @ \cup {d}]
  /\ UNCHANGED <<cache, free, health, pc, dev, dom, asking, result, reply, faults>>

\* Expired, evicted, invalidated with a rule, or cleared by the user.
Drop(d) ==
  /\ cache[d] # "none"
  /\ cache' = [cache EXCEPT ![d] = "none"]
  /\ UNCHANGED <<policy, free, health, pc, dev, dom, asking, result, reply, faults>>

CoolDownEnds(p) ==
  /\ cooling[p]
  /\ cooling' = [cooling EXCEPT ![p] = FALSE]
  /\ UNCHANGED <<policy, cache, free, strikes, pc, dev, dom, asking, result, reply, faults>>

\* run_self_test asks each provider once, past the queries.
SelfTest(p) ==
  /\ Succeed(p) \/ Strike(p)
  /\ UNCHANGED <<policy, cache, free, pc, dev, dom, asking, result, reply, faults>>

Next ==
  \/ \E q \in Queries : Ask(q) \/ QueryStep(q)
  \/ \E v \in Devices : SetPolicy(v)
  \/ \E d \in Domains : Drop(d)
  \/ \E p \in Providers : CoolDownEnds(p) \/ SelfTest(p)

Spec == Init /\ [][Next]_vars

\* Each query has a thread, and whatever it waits for has a time-out.
FairSpec == Spec /\ \A q \in Queries : WF_vars(QueryStep(q))

-----------------------------------------------------------------------------
(* Properties.                                                             *)

TypeOK ==
  /\ policy  \in [Devices -> SUBSET Domains]
  /\ cache   \in [Domains -> Reply \cup {"none"}]
  /\ free    \in 0 .. Slots
  /\ strikes \in [Providers -> 0 .. 2]
  /\ cooling \in [Providers -> BOOLEAN]
  /\ pc      \in [Queries -> Phase]
  /\ dev     \in [Queries -> Devices]
  /\ dom     \in [Queries -> Domains]
  /\ order   \in [Queries -> {<<>>, <<Primary>>, <<Fallback>>,
                              <<Primary, Fallback>>, <<Fallback, Primary>>}]
  /\ said    \in [Queries -> [Providers -> {"unasked", "nothing"} \cup Reply]]
  /\ partial \in [Queries -> BOOLEAN]
  /\ result  \in [Queries -> Result]
  /\ reply   \in [Queries -> {"none", "data", "blocked", "refused", "lost"}]
  /\ faults  \in 0 .. MaxFaults

\* Capacity never leaks: whatever ends a query (an answer, a refusal, an exception of the log),
\* the slots taken are those of queries still between acquire and finally.
SlotsKept == free + Cardinality(Holders) = Slots

\* A query is told the providers are unreachable only if each of them was asked and answered
\* nothing; a fresh answer without an address stands only if each was asked and none had a
\* complete one; and a complete answer is one a provider gave to this query.
BestAnswer ==
  \A q \in Queries :
    /\ result[q] = "unreachable" => \A p \in Providers : said[q][p] = "nothing"
    /\ result[q] = "dangling" /\ pc[q] \in Holding =>
         \A p \in Providers : said[q][p] \in {"nothing", "dangling"}
    /\ result[q] = "complete" /\ pc[q] \in Holding =>
         \E p \in Providers : said[q][p] = "complete"

\* Concurrent queries report success and failure of the same provider in any order; a provider
\* is set aside only while its last two requests to report both failed.
CoolingMeansFailing == \A p \in Providers : cooling[p] => strikes[p] = 2

\* What a client sees of the engine is the service (DnsService): stage is where the service
\* has the question.
stage == [q \in Queries |->
            CASE pc[q] = "idle"         -> "idle"
              [] pc[q] = "policy"       -> "asked"
              [] result[q] = "blocked"  -> "blocked"
              [] result[q] = "garbled"  -> "garbled"
              [] OTHER                  -> "open"]

Service == INSTANCE DnsService WITH
  policy <- policy, dev <- dev, dom <- dom, stage <- stage, reply <- reply

\* resolve implements the service: a question is judged once, by its own device's policy at a
\* moment while it waits, and neither the cache the devices share nor an answer in flight gets
\* past a block.
ServiceJudged == Service!Spec

\* And with every provider failing, no slot free and the policy changing under it, each
\* question is answered in the end.
ServiceKept == Service!FairSpec

=============================================================================
