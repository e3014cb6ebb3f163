--------------------------- MODULE ResolverProofs ---------------------------
(* Proofs about Resolver, for any number of queries, devices, domains and slots. *)
EXTENDS Resolver, FiniteSetTheorems, TLAPS

USE DEF health, asking

Orders == {<<>>, <<Primary>>, <<Fallback>>, <<Primary, Fallback>>, <<Fallback, Primary>>}

\* The providers of an order.
In(o) == {o[i] : i \in 1 .. Len(o)}

\* What a query is about to answer is the best it was told.
Best(q) ==
  /\ result[q] = "unreachable" => \A p \in Providers : said[q][p] = "nothing"
  /\ result[q] = "dangling" /\ pc[q] \in Holding =>
       \A p \in Providers : said[q][p] \in {"nothing", "dangling"}
  /\ result[q] = "complete" /\ pc[q] \in Holding =>
       \E p \in Providers : said[q][p] = "complete"

\* What a query at each point of resolve has in hand: what it may answer, and whom it asked.
Fits(q) ==
  /\ pc[q] \in {"idle", "policy", "cache", "slot", "order"} =>
       result[q] = "none" /\ order[q] = <<>> /\ said[q] = Unasked /\ ~partial[q]
  /\ pc[q] = "log" => result[q] \in Reply \cup {"blocked", "garbled", "busy"}
  /\ pc[q] = "ask" =>
       /\ result[q] = "none"
       /\ \A p \in Providers :
            said[q][p] \in IF p \in In(order[q]) THEN {"unasked"} ELSE {"nothing", "dangling"}
       /\ partial[q] <=> \E p \in Providers : said[q][p] = "dangling"
  /\ pc[q] \in {"put", "note"} => result[q] \in Reply
  /\ pc[q] = "refuse" => result[q] \in {"unreachable", "unlogged"}
  /\ pc[q] \in {"release", "lost"} => result[q] \in Reply \cup {"unreachable", "unlogged"}
  /\ Best(q)

Inv == TypeOK /\ SlotsKept /\ CoolingMeansFailing /\ \A q \in Queries : Fits(q)

-----------------------------------------------------------------------------
(* The orders in which providers are asked.                                *)

\* One provider is taken off an order; the rest is an order of the others.
LEMMA OrderTail ==
  ASSUME NEW o \in Orders, o # <<>>
  PROVE  /\ Head(o) \in Providers
         /\ Tail(o) \in Orders
         /\ In(Tail(o)) = In(o) \ {Head(o)}
         /\ Head(o) \in In(o)
         /\ In(o) \subseteq Providers
         /\ Tail(o) = <<>> => In(o) = {Head(o)}
<1>1. CASE o = <<Primary>>
  <2>1. Head(o) = Primary /\ Tail(o) = <<>> /\ Len(o) = 1 /\ Len(Tail(o)) = 0
    BY <1>1
  <2> QED BY <1>1, <2>1 DEF Orders, Providers, In
<1>2. CASE o = <<Fallback>>
  <2>1. Head(o) = Fallback /\ Tail(o) = <<>> /\ Len(o) = 1 /\ Len(Tail(o)) = 0
    BY <1>2
  <2> QED BY <1>2, <2>1 DEF Orders, Providers, In
<1>3. CASE o = <<Primary, Fallback>>
  <2>1. Head(o) = Primary /\ Tail(o) = <<Fallback>> /\ Len(o) = 2 /\ Len(Tail(o)) = 1
    BY <1>3
  <2> QED BY <1>3, <2>1, ResolverAssumption DEF Orders, Providers, In
<1>4. CASE o = <<Fallback, Primary>>
  <2>1. Head(o) = Fallback /\ Tail(o) = <<Primary>> /\ Len(o) = 2 /\ Len(Tail(o)) = 1
    BY <1>4
  <2> QED BY <1>4, <2>1, ResolverAssumption DEF Orders, Providers, In
<1> QED BY <1>1, <1>2, <1>3, <1>4 DEF Orders


-----------------------------------------------------------------------------
(* The slots.                                                              *)

\* Where a query goes decides whether it is among the holders of a slot.
LEMMA HoldersStep ==
  ASSUME TypeOK, NEW q \in Queries, NEW x, pc' = [pc EXCEPT ![q] = x]
  PROVE  /\ x \in Holding => Holders' = Holders \cup {q}
         /\ x \notin Holding => Holders' = Holders \ {q}
         /\ q \in Holders <=> pc[q] \in Holding
         /\ IsFiniteSet(Holders)
<1>1. Holders \subseteq Queries
  BY DEF Holders
<1>2. IsFiniteSet(Holders)
  BY <1>1, FS_Subset, ResolverAssumption
<1>3. \A u \in Queries : pc'[u] = IF u = q THEN x ELSE pc[u]
  BY DEF TypeOK
<1> QED BY <1>2, <1>3 DEF Holders

\* A step that moves a query neither into nor out of its slot keeps the count.
LEMMA SlotsStay ==
  ASSUME TypeOK, SlotsKept, NEW q \in Queries, NEW x, pc' = [pc EXCEPT ![q] = x],
         x \in Holding <=> pc[q] \in Holding, free' = free
  PROVE  SlotsKept' /\ free' \in 0 .. Slots
<1>1. /\ x \in Holding => Holders' = Holders \cup {q}
      /\ x \notin Holding => Holders' = Holders \ {q}
      /\ q \in Holders <=> pc[q] \in Holding
  BY HoldersStep
<1>2. Holders' = Holders
  BY <1>1
<1> QED BY <1>2 DEF SlotsKept, TypeOK

\* acquire and release: one query in or out, one slot less or more.
LEMMA SlotsMove ==
  ASSUME TypeOK, SlotsKept, NEW q \in Queries, TakeSlot(q) \/ Release(q)
  PROVE  SlotsKept' /\ free' \in 0 .. Slots
<1> DEFINE n == Cardinality(Holders)
<1>1. n \in Nat /\ IsFiniteSet(Holders)
  <2>1. pc = [pc EXCEPT ![q] = pc[q]]
    BY DEF TypeOK
  <2>2. Holders \subseteq Queries
    BY DEF Holders
  <2>3. IsFiniteSet(Holders)
    BY <2>2, FS_Subset, ResolverAssumption
  <2> QED BY <2>3, FS_CardinalityType
<1>2. free \in Int /\ free + n = Slots /\ 0 <= free /\ Slots \in Nat
  BY ResolverAssumption DEF TypeOK, SlotsKept
<1>3. CASE TakeSlot(q)
  <2>1. pc' = [pc EXCEPT ![q] = "order"] /\ pc[q] = "slot" /\ free' = free - 1 /\ free > 0
    BY <1>3 DEF TakeSlot, Goto
  <2>2. Holders' = Holders \cup {q} /\ q \notin Holders
    BY <2>1, HoldersStep DEF Holding
  <2>3. Cardinality(Holders') = n + 1
    BY <2>2, <1>1, FS_AddElement
  <2> QED BY <2>1, <2>3, <1>1, <1>2 DEF SlotsKept
<1>4. CASE Release(q)
  <2>1. pc' = [pc EXCEPT ![q] = "idle"] /\ pc[q] \in {"release", "lost"} /\ free' = free + 1
    BY <1>4 DEF Release, Over, Goto
  <2>2. Holders' = Holders \ {q} /\ q \in Holders
    <3>1. "idle" \notin Holding /\ pc[q] \in Holding
      BY <2>1 DEF Holding
    <3> QED BY <2>1, <3>1, HoldersStep
  <2>3. Cardinality(Holders') = n - 1
    BY <2>2, <1>1, FS_RemoveElement
  <2>4. n - 1 \in Nat
    BY <2>2, <2>3, <1>1, FS_RemoveElement, FS_CardinalityType
  <2>5. free' \in Int /\ 0 <= free' /\ free' + (n - 1) = Slots /\ free' <= Slots
    BY <2>1, <2>4, <1>1, <1>2
  <2> QED BY <2>3, <2>5 DEF SlotsKept
<1> QED BY <1>3, <1>4

\* Every step of a query keeps the slots.
LEMMA SlotsQuery ==
  ASSUME Inv, NEW q \in Queries, Ask(q) \/ QueryStep(q)
  PROVE  SlotsKept' /\ free' \in 0 .. Slots
<1> USE DEF Holding
<1>1. CASE Ask(q)
  <2>1. \E x \in {"policy", "log"} : pc' = [pc EXCEPT ![q] = x] /\ pc[q] = "idle" /\ free' = free
    BY <1>1 DEF Ask, Goto
  <2> QED BY <2>1, SlotsStay DEF Inv
<1>2. CASE CheckPolicy(q)
  <2>1. \E x \in {"cache", "log"} : pc' = [pc EXCEPT ![q] = x] /\ pc[q] = "policy" /\ free' = free
    BY <1>2 DEF CheckPolicy, Goto
  <2> QED BY <2>1, SlotsStay DEF Inv
<1>3. CASE CheckCache(q)
  <2>1. \E x \in {"slot", "log"} : pc' = [pc EXCEPT ![q] = x] /\ pc[q] = "cache" /\ free' = free
    BY <1>3 DEF CheckCache, Goto
  <2> QED BY <2>1, SlotsStay DEF Inv
<1>4. CASE TakeSlot(q) \/ Release(q)
  BY <1>4, SlotsMove DEF Inv
<1>5. CASE NoSlot(q)
  <2>1. pc' = [pc EXCEPT ![q] = "log"] /\ pc[q] = "slot" /\ free' = free
    BY <1>5 DEF NoSlot, Goto
  <2> QED BY <2>1, SlotsStay DEF Inv
<1>6. CASE Order(q)
  <2>1. pc' = [pc EXCEPT ![q] = "ask"] /\ pc[q] = "order" /\ free' = free
    BY <1>6 DEF Order, Goto
  <2> QED BY <2>1, SlotsStay DEF Inv
<1>7. CASE Unreached(q) \/ \E kind \in Reply : Reached(q, kind)
  <2>1. pc' \in {[pc EXCEPT ![q] = "put"], pc} /\ pc[q] = "ask" /\ free' = free
    BY <1>7 DEF Unreached, Reached, Goto
  <2>2. pc = [pc EXCEPT ![q] = "ask"]
    BY <2>1 DEF Inv, TypeOK
  <2> QED BY <2>1, <2>2, SlotsStay DEF Inv
<1>8. CASE Exhausted(q)
  <2>1. \E x \in {"put", "refuse"} : pc' = [pc EXCEPT ![q] = x] /\ pc[q] = "ask" /\ free' = free
    BY <1>8 DEF Exhausted, Goto
  <2> QED BY <2>1, SlotsStay DEF Inv
<1>9. CASE Put(q)
  <2>1. pc' = [pc EXCEPT ![q] = "note"] /\ pc[q] = "put" /\ free' = free
    BY <1>9 DEF Put, Goto
  <2> QED BY <2>1, SlotsStay DEF Inv
<1>10. CASE Log(q)
  <2>1. pc' = [pc EXCEPT ![q] = "idle"] /\ pc[q] = "log" /\ free' = free
    BY <1>10 DEF Log, Over, Goto
  <2> QED BY <2>1, SlotsStay DEF Inv
<1>11. CASE Note(q) \/ Refuse(q)
  <2>1. \E x \in {"release", "refuse", "lost"} :
          pc' = [pc EXCEPT ![q] = x] /\ pc[q] \in {"note", "refuse"} /\ free' = free
    BY <1>11 DEF Note, Refuse, Goto
  <2> QED BY <2>1, SlotsStay DEF Inv
<1> QED BY <1>1, <1>2, <1>3, <1>4, <1>5, <1>6, <1>7, <1>8, <1>9, <1>10, <1>11 DEF QueryStep

-----------------------------------------------------------------------------
(* What a query has in hand.                                               *)

\* The locals of the other queries are left alone.
Others(q) ==
  \A u \in Queries \ {q} :
    /\ pc'[u] = pc[u] /\ result'[u] = result[u] /\ order'[u] = order[u]
    /\ said'[u] = said[u] /\ partial'[u] = partial[u]

\* A step of one query leaves the locals of the others alone.
LEMMA QueryOthers ==
  ASSUME TypeOK, NEW q \in Queries, Ask(q) \/ QueryStep(q)
  PROVE  Others(q)
<1> USE DEF Others, TypeOK, Goto, Means
<1>1. CASE Ask(q)
  BY <1>1 DEF Ask
<1>2. CASE CheckPolicy(q) \/ CheckCache(q) \/ TakeSlot(q) \/ NoSlot(q)
  BY <1>2 DEF CheckPolicy, CheckCache, TakeSlot, NoSlot
<1>3. CASE Order(q)
  BY <1>3 DEF Order
<1>4. CASE Unreached(q)
  BY <1>4 DEF Unreached, Hears
<1>5. ASSUME NEW kind \in Reply, Reached(q, kind) PROVE Others(q)
  BY <1>5 DEF Reached, Hears
<1>6. CASE Exhausted(q) \/ Put(q) \/ Note(q) \/ Refuse(q)
  BY <1>6 DEF Exhausted, Put, Note, Refuse
<1>7. CASE Log(q)
  BY <1>7 DEF Log, Over
<1>8. CASE Release(q)
  BY <1>8 DEF Release, Over
<1> QED BY <1>1, <1>2, <1>3, <1>4, <1>5, <1>6, <1>7, <1>8 DEF QueryStep

\* A step of a query leaves it with what fits the place it goes to.
LEMMA QueryFits ==
  ASSUME TypeOK, NEW q \in Queries, Fits(q), Ask(q) \/ QueryStep(q)
  PROVE  Fits(q)'
<1> USE DEF Goto, Means, Holding
<1>1. CASE Ask(q)
  BY <1>1 DEF Ask, Fits, Best, TypeOK
<1>2. CASE CheckPolicy(q)
  BY <1>2 DEF CheckPolicy, Fits, Best, TypeOK
<1>3. CASE CheckCache(q)
  <2>1. CASE cache[dom[q]] = "none"
    BY <1>3, <2>1 DEF CheckCache, Fits, Best, TypeOK
  <2>2. CASE cache[dom[q]] # "none"
    <3>1. pc'[q] = "log" /\ result'[q] \in Reply
      BY <1>3, <2>2 DEF CheckCache, TypeOK
    <3> QED BY <3>1 DEF Fits, Best, Reply
  <2> QED BY <2>1, <2>2
<1>4. CASE TakeSlot(q) \/ NoSlot(q)
  BY <1>4 DEF TakeSlot, NoSlot, Fits, Best, TypeOK
<1>5. CASE Order(q)
  <2>1. /\ pc'[q] = "ask" /\ result'[q] = "none" /\ said'[q] = Unasked /\ partial'[q] = FALSE
        /\ order'[q] \in {<<Primary, Fallback>>, <<Fallback, Primary>>}
    BY <1>5 DEF Order, Fits, TypeOK
  <2>2. In(order'[q]) = Providers
    <3>1. CASE order'[q] = <<Primary, Fallback>>
      BY <3>1 DEF Providers, In
    <3>2. CASE order'[q] = <<Fallback, Primary>>
      BY <3>2 DEF Providers, In
    <3> QED BY <2>1, <3>1, <3>2
  <2> QED BY <2>1, <2>2 DEF Fits, Best, Unasked
<1>6. ASSUME NEW kind \in {"nothing"} \cup Reply,
             IF kind = "nothing" THEN Unreached(q) ELSE Reached(q, kind)
      PROVE  Fits(q)'
  <2> DEFINE p == Head(order[q])
             stands == kind = "complete" \/ (kind = "dangling" /\ Tail(order[q]) = <<>>)
  <2>1. /\ pc[q] = "ask" /\ order[q] # <<>> /\ order[q] \in Orders
        /\ order'[q] = Tail(order[q])
        /\ said' = [said EXCEPT ![q][p] = kind]
    BY <1>6 DEF Unreached, Reached, Hears, TypeOK, Orders, Reply
  <2>2. /\ result[q] = "none" /\ (partial[q] <=> \E r \in Providers : said[q][r] = "dangling")
        /\ \A r \in Providers :
             said[q][r] \in IF r \in In(order[q]) THEN {"unasked"} ELSE {"nothing", "dangling"}
    BY <2>1 DEF Fits
  <2>3. /\ p \in Providers /\ p \in In(order[q]) /\ In(order'[q]) = In(order[q]) \ {p}
        /\ order'[q] = <<>> => In(order[q]) = {p}
    BY <2>1, OrderTail
  <2>4. /\ said'[q][p] = kind
        /\ \A r \in Providers \ {p} : said'[q][r] = said[q][r]
    BY <2>1, <2>3 DEF TypeOK
  <2>5. CASE stands
    <3>1. pc'[q] = "put" /\ result'[q] = kind
      BY <1>6, <2>1, <2>5 DEF Reached, TypeOK
    <3>2. kind = "complete" => said'[q][p] = "complete"
      BY <2>4
    <3>3. ASSUME kind = "dangling", NEW r \in Providers
          PROVE  said'[q][r] \in {"nothing", "dangling"}
      <4>1. order'[q] = <<>>
        BY <2>1, <2>5, <3>3
      <4> QED BY <2>2, <2>3, <2>4, <3>3, <4>1
    <3> QED BY <2>3, <2>5, <3>1, <3>2, <3>3 DEF Fits, Best, Reply
  <2>6. CASE ~stands
    <3>1. /\ pc'[q] = "ask" /\ result'[q] = "none"
          /\ partial'[q] <=> (partial[q] \/ kind = "dangling")
          /\ kind \in {"nothing", "dangling"}
      <4>1. CASE kind = "nothing"
        BY <1>6, <2>2, <4>1 DEF Unreached
      <4>2. CASE kind # "nothing"
        <5>1. kind = "dangling" /\ Tail(order[q]) # <<>> /\ kind \in Reply
          BY <2>6, <4>2 DEF Reply
        <5>2. UNCHANGED <<pc, result>> /\ partial' = [partial EXCEPT ![q] = TRUE]
          BY <1>6, <4>2, <5>1 DEF Reached
        <5> QED BY <2>1, <2>2, <5>1, <5>2 DEF TypeOK
      <4> QED BY <4>1, <4>2
    <3>2. ASSUME NEW r \in Providers
          PROVE  said'[q][r] \in IF r \in In(order'[q]) THEN {"unasked"}
                                                       ELSE {"nothing", "dangling"}
      BY <2>2, <2>3, <2>4, <3>1
    <3>3. partial'[q] <=> \E r \in Providers : said'[q][r] = "dangling"
      BY <2>2, <2>3, <2>4, <3>1
    <3> QED BY <3>1, <3>2, <3>3 DEF Fits, Best
  <2> QED BY <2>5, <2>6
<1>7. CASE Unreached(q) \/ \E kind \in Reply : Reached(q, kind)
  <2>1. "nothing" \notin Reply
    BY DEF Reply
  <2>2. CASE Unreached(q)
    BY <1>6, <2>2
  <2>3. ASSUME NEW kind \in Reply, Reached(q, kind) PROVE Fits(q)'
    BY <1>6, <2>1, <2>3
  <2> QED BY <1>7, <2>2, <2>3
<1>8. CASE Exhausted(q)
  <2>1. /\ pc[q] = "ask" /\ order[q] = <<>> /\ said'[q] = said[q] /\ partial'[q] = partial[q]
        /\ order'[q] = order[q]
    BY <1>8 DEF Exhausted
  <2>2. /\ \A p \in Providers : said[q][p] \in {"nothing", "dangling"}
        /\ partial[q] <=> \E p \in Providers : said[q][p] = "dangling"
    <3>1. In(<<>>) = {}
      BY DEF In
    <3> QED BY <2>1, <3>1 DEF Fits
  <2>3. \/ pc'[q] = "put" /\ result'[q] = "dangling"
        \/ pc'[q] = "refuse" /\ result'[q] = "unreachable" /\ ~partial[q]
    BY <1>8 DEF Exhausted, TypeOK
  <2> QED BY <2>1, <2>2, <2>3 DEF Fits, Best, Reply
<1>9. CASE Put(q) \/ Refuse(q)
  BY <1>9 DEF Put, Refuse, Fits, Best, TypeOK
<1>10. CASE Note(q)
  BY <1>10 DEF Note, Fits, Best, TypeOK, Reply
<1>11. CASE Log(q)
  BY <1>11 DEF Log, Over, Fits, Best, TypeOK
<1>12. CASE Release(q)
  BY <1>12 DEF Release, Over, Fits, Best, TypeOK
<1> QED BY <1>1, <1>2, <1>3, <1>4, <1>5, <1>6, <1>7, <1>8, <1>9, <1>10, <1>11, <1>12 DEF QueryStep

-----------------------------------------------------------------------------
(* Types, and the health of the providers.                                 *)

\* What success and failure write to the health of a provider.
LEMMA HealthType ==
  ASSUME TypeOK, NEW p \in Providers, Succeed(p) \/ Strike(p)
  PROVE  strikes' \in [Providers -> 0 .. 2] /\ cooling' \in [Providers -> BOOLEAN]
<1>1. CASE Succeed(p)
  BY <1>1 DEF Succeed, TypeOK
<1>2. CASE Strike(p)
  <2>1. (IF strikes[p] = 0 THEN 1 ELSE 2) \in 0 .. 2
    OBVIOUS
  <2>2. strikes' \in [Providers -> 0 .. 2]
    BY <1>2, <2>1 DEF Strike, TypeOK
  <2>3. cooling' \in [Providers -> BOOLEAN]
    BY <1>2 DEF Strike, TypeOK
  <2> QED BY <2>2, <2>3
<1> QED BY <1>1, <1>2

\* What a query may have been told by the providers.
SaidType == [Providers -> {"unasked", "nothing"} \cup Reply]

\* Nothing asked yet, and an answer heard, are of that type.
LEMMA SaidTyped ==
  ASSUME said \in [Queries -> SaidType], NEW q \in Queries
  PROVE  /\ Unasked \in SaidType
         /\ said' = [said EXCEPT ![q] = Unasked] => said' \in [Queries -> SaidType]
         /\ \A p \in Providers, what \in {"nothing"} \cup Reply :
              Hears(q, p, what) => said' \in [Queries -> SaidType]
<1>1. Unasked \in SaidType
  BY DEF Unasked, SaidType
<1>2. ASSUME NEW p \in Providers, NEW what \in {"nothing"} \cup Reply, Hears(q, p, what)
      PROVE  said' \in [Queries -> SaidType]
  <2>1. [said[q] EXCEPT ![p] = what] \in SaidType
    BY DEF SaidType
  <2>2. said' = [said EXCEPT ![q] = [said[q] EXCEPT ![p] = what]]
    BY <1>2 DEF Hears
  <2> QED BY <2>1, <2>2
<1> QED BY <1>1, <1>2

\* Every step of a query keeps the types; that free stays in range is the count of the slots.
LEMMA QueryType ==
  ASSUME Inv, NEW q \in Queries, Ask(q) \/ QueryStep(q)
  PROVE  TypeOK'
<1>0. TypeOK /\ Fits(q) /\ free' \in 0 .. Slots
  BY SlotsQuery DEF Inv
<1>S. said \in [Queries -> SaidType]
  BY <1>0 DEF TypeOK, SaidType
<1> USE <1>0 DEF TypeOK, Goto, Means, Answered, Phase, Result, Reply
<1>1. CASE Ask(q)
  <2>1. dev' \in [Queries -> Devices] /\ dom' \in [Queries -> Domains]
    BY <1>1 DEF Ask
  <2>2. pc' \in [Queries -> Phase] /\ result' \in [Queries -> Result]
    BY <1>1 DEF Ask
  <2>3. reply' \in [Queries -> {"none", "data", "blocked", "refused", "lost"}]
    BY <1>1 DEF Ask
  <2> QED BY <1>1, <2>1, <2>2, <2>3 DEF Ask
<1>2. CASE CheckPolicy(q)
  BY <1>2 DEF CheckPolicy
<1>3. CASE CheckCache(q)
  BY <1>3 DEF CheckCache
<1>4. CASE TakeSlot(q) \/ NoSlot(q)
  BY <1>4 DEF TakeSlot, NoSlot
<1>5. CASE Order(q)
  BY <1>5 DEF Order
<1>6. ASSUME pc[q] = "ask", order[q] # <<>>
      PROVE  Head(order[q]) \in Providers /\ Tail(order[q]) \in Orders
  BY <1>6, OrderTail DEF Orders
<1>7. CASE Unreached(q)
  <2>1. Head(order[q]) \in Providers /\ Tail(order[q]) \in Orders
    BY <1>6, <1>7 DEF Unreached
  <2>2. strikes' \in [Providers -> 0 .. 2] /\ cooling' \in [Providers -> BOOLEAN]
    BY <1>7, <2>1, HealthType DEF Unreached
  <2>3. order' \in [Queries -> Orders]
    BY <1>7, <2>1 DEF Unreached, Orders
  <2>4. said' \in [Queries -> SaidType]
    BY <1>7, <1>S, <2>1, SaidTyped DEF Unreached
  <2> QED BY <1>7, <2>2, <2>3, <2>4 DEF Unreached, Orders, SaidType
<1>8. ASSUME NEW kind \in Reply, Reached(q, kind) PROVE TypeOK'
  <2>1. Head(order[q]) \in Providers /\ Tail(order[q]) \in Orders
    BY <1>6, <1>8 DEF Reached
  <2>2. strikes' \in [Providers -> 0 .. 2] /\ cooling' \in [Providers -> BOOLEAN]
    BY <1>8, <2>1, HealthType DEF Reached
  <2>3. order' \in [Queries -> Orders]
    BY <1>8, <2>1 DEF Reached, Orders
  <2>4. /\ partial' \in [Queries -> BOOLEAN]
        /\ pc' \in [Queries -> Phase] /\ result' \in [Queries -> Result]
    <3>1. CASE kind = "dangling" /\ Tail(order[q]) # <<>>
      <4>1. /\ partial' = [partial EXCEPT ![q] = TRUE]
            /\ pc' = pc /\ result' = result
        BY <1>8, <3>1 DEF Reached
      <4> QED BY <4>1, <2>1
    <3>2. CASE ~(kind = "dangling" /\ Tail(order[q]) # <<>>)
      <4>1. /\ partial' = partial
            /\ pc' = [pc EXCEPT ![q] = "put"] /\ result' = [result EXCEPT ![q] = kind]
        BY <1>8, <3>2 DEF Reached
      <4> QED BY <4>1
    <3> QED BY <3>1, <3>2
  <2>5. said' \in [Queries -> SaidType]
    BY <1>8, <1>S, <2>1, SaidTyped DEF Reached
  <2> QED BY <1>8, <2>2, <2>3, <2>4, <2>5 DEF Reached, Orders, SaidType
<1>9. CASE Exhausted(q)
  BY <1>9 DEF Exhausted
<1>10. CASE Put(q)
  <2>1. result[q] \in Reply
    BY <1>10 DEF Put, Fits
  <2>2. cache' \in [Domains -> Reply \cup {"none"}]
    BY <1>10, <2>1 DEF Put
  <2> QED BY <1>10, <2>2 DEF Put
<1>11. CASE Log(q)
  <2>1. said' \in [Queries -> SaidType]
    BY <1>11, <1>S, SaidTyped DEF Log, Over
  <2>2. /\ pc' \in [Queries -> Phase] /\ result' \in [Queries -> Result]
        /\ order' \in [Queries -> Orders] /\ partial' \in [Queries -> BOOLEAN]
    BY <1>11 DEF Log, Over, Orders
  <2>3. /\ reply' \in [Queries -> {"none", "data", "blocked", "refused", "lost"}]
        /\ faults' \in 0 .. MaxFaults
    <3>1. Sent(result[q]) \in {"none", "data", "blocked", "refused", "lost"}
      BY DEF Sent
    <3>2. reply' \in {[reply EXCEPT ![q] = Sent(result[q])], [reply EXCEPT ![q] = "lost"]}
      BY <1>11 DEF Log
    <3>3. faults' = faults \/ (faults' = faults + 1 /\ faults < MaxFaults)
      BY <1>11 DEF Log, LogFault
    <3> QED BY <3>1, <3>2, <3>3, ResolverAssumption
  <2> QED BY <1>11, <2>1, <2>2, <2>3 DEF Log, Orders, SaidType
<1>12. CASE Note(q) \/ Refuse(q)
  <2>1. faults' \in 0 .. MaxFaults
    BY <1>12, ResolverAssumption DEF Note, Refuse, LogFault
  <2>2. pc' \in [Queries -> Phase]
    BY <1>12 DEF Note, Refuse
  <2>3. result' \in [Queries -> Result]
    BY <1>12 DEF Note, Refuse
  <2> QED BY <1>12, <2>1, <2>2, <2>3 DEF Note, Refuse
<1>13. CASE Release(q)
  <2>1. said' \in [Queries -> SaidType]
    BY <1>13, <1>S, SaidTyped DEF Release, Over
  <2> QED BY <1>13, <2>1 DEF Release, Over, Sent, SaidType
<1> QED BY <1>1, <1>2, <1>3, <1>4, <1>5, <1>7, <1>8, <1>9, <1>10, <1>11, <1>12, <1>13 DEF QueryStep

\* Whatever reports on a provider, it is set aside on its second failure in a row at the
\* earliest, and taken back with its first success.
LEMMA HealthKept ==
  ASSUME TypeOK, CoolingMeansFailing,
         \/ UNCHANGED <<strikes, cooling>>
         \/ \E p \in Providers : Succeed(p) \/ Strike(p) \/ CoolDownEnds(p)
  PROVE  CoolingMeansFailing'
<1>1. CASE UNCHANGED <<strikes, cooling>>
  BY <1>1 DEF CoolingMeansFailing
<1>2. ASSUME NEW p \in Providers, Succeed(p) \/ CoolDownEnds(p)
      PROVE  CoolingMeansFailing'
  BY <1>2 DEF Succeed, CoolDownEnds, TypeOK, CoolingMeansFailing
<1>3. ASSUME NEW p \in Providers, Strike(p)
      PROVE  CoolingMeansFailing'
  <2>1. ASSUME NEW r \in Providers, r # p
        PROVE  strikes'[r] = strikes[r] /\ cooling'[r] = cooling[r]
    BY <1>3, <2>1 DEF Strike, TypeOK
  <2>2. cooling'[p] => strikes'[p] = 2
    <3>1. CASE strikes[p] = 0
      BY <1>3, <3>1 DEF Strike, TypeOK, CoolingMeansFailing
    <3>2. CASE strikes[p] # 0
      BY <1>3, <3>2 DEF Strike, TypeOK
    <3> QED BY <3>1, <3>2
  <2> QED BY <2>1, <2>2 DEF CoolingMeansFailing
<1> QED BY <1>1, <1>2, <1>3

\* No step of a query sets aside a provider that did not fail twice in a row.
LEMMA QueryHealth ==
  ASSUME Inv, NEW q \in Queries, Ask(q) \/ QueryStep(q)
  PROVE  CoolingMeansFailing'
<1>1. TypeOK /\ CoolingMeansFailing
  BY DEF Inv
<1>2. ASSUME order[q] # <<>> PROVE Head(order[q]) \in Providers
  BY <1>1, <1>2, OrderTail DEF TypeOK, Orders
<1>3. CASE Unreached(q)
  BY <1>1, <1>2, <1>3, HealthKept DEF Unreached
<1>4. ASSUME NEW kind \in Reply, Reached(q, kind) PROVE CoolingMeansFailing'
  BY <1>1, <1>2, <1>4, HealthKept DEF Reached
<1>5. CASE ~Unreached(q) /\ ~(\E kind \in Reply : Reached(q, kind))
  <2>1. UNCHANGED <<strikes, cooling>>
    BY <1>5 DEF QueryStep, Ask, CheckPolicy, CheckCache, TakeSlot, NoSlot, Order, Exhausted,
                Put, Log, Note, Refuse, Release
  <2> QED BY <1>1, <2>1, HealthKept
<1> QED BY <1>3, <1>4, <1>5

-----------------------------------------------------------------------------
(* The invariant of the whole resolver.                                    *)

\* The resolver starts with every slot free, no provider set aside and no query under way.
LEMMA InitInv == Init => Inv
<1> SUFFICES ASSUME Init PROVE Inv
  OBVIOUS
<1>1. TypeOK
  BY ResolverAssumption DEF Init, TypeOK, Phase, Result, Unasked
<1>2. Holders = {}
  BY DEF Init, Holders, Holding
<1>3. SlotsKept
  BY <1>2, FS_EmptySet, ResolverAssumption DEF Init, SlotsKept
<1>4. CoolingMeansFailing /\ \A q \in Queries : Fits(q)
  BY DEF Init, CoolingMeansFailing, Fits, Best, Holding
<1> QED BY <1>1, <1>3, <1>4 DEF Inv

\* The rest of the machine touches no query's locals and no slot.
LEMMA MeanwhileInv ==
  ASSUME Inv,
         \/ \E v \in Devices : SetPolicy(v)
         \/ \E d \in Domains : Drop(d)
         \/ \E p \in Providers : CoolDownEnds(p) \/ SelfTest(p)
  PROVE  Inv'
<1>1. UNCHANGED <<free, pc, dev, dom, order, said, partial, result, reply, faults>>
  BY DEF SetPolicy, Drop, CoolDownEnds, SelfTest
<1>2. SlotsKept' /\ \A q \in Queries : Fits(q)'
  BY <1>1 DEF Inv, SlotsKept, Holders, Fits, Best
<1>3. CoolingMeansFailing'
  BY HealthKept DEF Inv, SetPolicy, Drop, SelfTest
<1>4. /\ policy' \in [Devices -> SUBSET Domains]
      /\ cache' \in [Domains -> Reply \cup {"none"}]
      /\ strikes' \in [Providers -> 0 .. 2] /\ cooling' \in [Providers -> BOOLEAN]
  <2>1. ASSUME NEW v \in Devices, SetPolicy(v)
        PROVE  policy' \in [Devices -> SUBSET Domains] /\ UNCHANGED <<cache, strikes, cooling>>
    BY <2>1 DEF SetPolicy, Inv, TypeOK
  <2>2. ASSUME NEW d \in Domains, Drop(d)
        PROVE  cache' \in [Domains -> Reply \cup {"none"}] /\ UNCHANGED <<policy, strikes, cooling>>
    BY <2>2 DEF Drop, Inv, TypeOK
  <2>3. ASSUME NEW p \in Providers, CoolDownEnds(p) \/ SelfTest(p)
        PROVE  /\ strikes' \in [Providers -> 0 .. 2] /\ cooling' \in [Providers -> BOOLEAN]
               /\ UNCHANGED <<policy, cache>>
    <3>1. CASE CoolDownEnds(p)
      BY <3>1 DEF CoolDownEnds, Inv, TypeOK
    <3>2. CASE SelfTest(p)
      BY <3>2, HealthType DEF SelfTest, Inv
    <3> QED BY <2>3, <3>1, <3>2
  <2> QED BY <2>1, <2>2, <2>3 DEF Inv, TypeOK
<1>5. TypeOK'
  BY <1>1, <1>4 DEF Inv, TypeOK
<1> QED BY <1>2, <1>3, <1>5 DEF Inv

\* Every step of the resolver keeps its invariant.
LEMMA InvKept == Inv /\ [Next]_vars => Inv'
<1> SUFFICES ASSUME Inv, [Next]_vars PROVE Inv'
  OBVIOUS
<1>1. ASSUME NEW q \in Queries, Ask(q) \/ QueryStep(q) PROVE Inv'
  <2>1. Fits(q)'
    BY <1>1, QueryFits DEF Inv
  <2>2. Others(q)
    BY <1>1, QueryOthers DEF Inv
  <2>3. ASSUME NEW u \in Queries, u # q PROVE Fits(u)'
    BY <2>2, <2>3 DEF Others, Fits, Best, Inv
  <2>4. \A u \in Queries : Fits(u)'
    BY <2>1, <2>3
  <2> QED BY <1>1, <2>4, QueryType, SlotsQuery, QueryHealth DEF Inv
<1>2. CASE UNCHANGED vars
  BY <1>2 DEF vars, Inv, TypeOK, SlotsKept, Holders, CoolingMeansFailing, Fits, Best
<1> QED BY <1>1, <1>2, MeanwhileInv DEF Next

\* The invariant holds in every reachable state.
LEMMA Grounds == Spec => []Inv
BY InitInv, InvKept, PTL DEF Spec

\* Every variable of every query keeps its type (Resolver.__init__, resolve, _forward).
THEOREM TypeCorrect == Spec => []TypeOK
<1>1. Inv => TypeOK
  BY DEF Inv
<1> QED BY <1>1, Grounds, PTL

\* The capacity semaphore never leaks, whatever ends a query (resolve: acquire and finally).
THEOREM CapacityKept == Spec => []SlotsKept
<1>1. Inv => SlotsKept
  BY DEF Inv
<1> QED BY <1>1, Grounds, PTL

\* A query is told the providers are unreachable only when both failed it, and an incomplete
\* answer is the best there was (_forward).
THEOREM AnswersAreBest == Spec => []BestAnswer
<1>1. Inv => BestAnswer
  BY DEF Inv, Fits, Best, BestAnswer
<1> QED BY <1>1, Grounds, PTL

-----------------------------------------------------------------------------
(* The resolver implements the service.                                    *)

\* A provider is set aside only while its last two requests to report both failed, in whatever order
\* the queries and the self-test report.
THEOREM AsideForFailing == Spec => []CoolingMeansFailing
<1>1. Inv => CoolingMeansFailing
  BY DEF Inv
<1> QED BY <1>1, Grounds, PTL

\* Where the service has a question changes for the query that takes the step only.
LEMMA StageStep ==
  ASSUME NEW q \in Queries, Others(q)
  PROVE  stage' = [stage EXCEPT ![q] = stage'[q]]
<1>1. ASSUME NEW u \in Queries, u # q PROVE stage'[u] = stage[u]
  BY <1>1 DEF Others, stage
<1>2. stage = [u \in Queries |-> stage[u]] /\ stage' = [u \in Queries |-> stage'[u]]
  BY DEF stage
<1> QED BY <1>1, <1>2

\* Where it is, from where the query is.
LEMMA StageOf ==
  ASSUME NEW q \in Queries
  PROVE  /\ stage[q] = CASE pc[q] = "idle"         -> "idle"
                         [] pc[q] = "policy"       -> "asked"
                         [] result[q] = "blocked"  -> "blocked"
                         [] result[q] = "garbled"  -> "garbled"
                         [] OTHER                  -> "open"
         /\ stage'[q] = CASE pc'[q] = "idle"         -> "idle"
                         [] pc'[q] = "policy"       -> "asked"
                         [] result'[q] = "blocked"  -> "blocked"
                         [] result'[q] = "garbled"  -> "garbled"
                         [] OTHER                   -> "open"
BY DEF stage

\* Steps between the judgement and the answer are the service's own business.
LEMMA Inside ==
  ASSUME Inv, NEW q \in Queries, QueryStep(q),
         pc[q] \notin {"policy", "log", "release", "lost"}
  PROVE  UNCHANGED Service!vars
<1>1. TypeOK /\ Fits(q) /\ Others(q)
  BY QueryOthers DEF Inv
<1>2. UNCHANGED <<policy, dev, dom, reply>>
  BY DEF QueryStep, CheckPolicy, CheckCache, TakeSlot, NoSlot, Order, Reached, Unreached,
         Exhausted, Put, Log, Note, Refuse, Release
<1>3. stage'[q] = stage[q]
  <2> USE <1>1, StageOf DEF Goto, Means, TypeOK, Fits, Reply
  <2>1. CASE CheckCache(q)
    BY <2>1 DEF CheckCache
  <2>2. CASE TakeSlot(q) \/ NoSlot(q)
    BY <2>2 DEF TakeSlot, NoSlot
  <2>3. CASE Order(q)
    BY <2>3 DEF Order
  <2>4. ASSUME NEW kind \in Reply, Reached(q, kind) PROVE stage'[q] = stage[q]
    <3>1. pc[q] = "ask" /\ pc'[q] \in {"ask", "put"} /\ result'[q] \in {"none", kind}
      BY <2>4 DEF Reached
    <3>2. result[q] = "none"
      BY <3>1
    <3> QED BY <3>1, <3>2
  <2>5. CASE Unreached(q)
    BY <2>5 DEF Unreached, Hears
  <2>6. CASE Exhausted(q)
    <3>1. pc[q] = "ask" /\ result[q] = "none"
      BY <2>6 DEF Exhausted
    <3>2. pc'[q] \in {"put", "refuse"} /\ result'[q] \in {"dangling", "unreachable"}
      BY <2>6 DEF Exhausted
    <3> QED BY <3>1, <3>2, StageOf
  <2>7. CASE Put(q)
    BY <2>7 DEF Put
  <2>8. CASE Note(q)
    BY <2>8 DEF Note
  <2>9. CASE Refuse(q)
    BY <2>9 DEF Refuse
  <2>10. ~CheckPolicy(q) /\ ~Log(q) /\ ~Release(q)
    BY DEF CheckPolicy, Log, Release
  <2> QED BY <2>1, <2>2, <2>3, <2>4, <2>5, <2>6, <2>7, <2>8, <2>9, <2>10 DEF QueryStep
<1>4. stage' = stage
  <2>1. stage' = [stage EXCEPT ![q] = stage[q]]
    BY <1>1, <1>3, StageStep
  <2>2. stage = [u \in Queries |-> stage[u]]
    BY DEF stage
  <2> QED BY <2>1, <2>2
<1> QED BY <1>2, <1>4 DEF Service!vars

\* resolve answers as DnsService allows: whatever the cache and the providers do, the question
\* is judged by the policy of its device at one moment while it waits.
THEOREM Judges == Spec => ServiceJudged
<1>1. Init => Service!Init
  BY DEF Init, Service!Init, stage
<1>2. Inv /\ [Next]_vars => [Service!Next]_(Service!vars)
  <2> SUFFICES ASSUME Inv, [Next]_vars
               PROVE  Service!Next \/ UNCHANGED Service!vars
    OBVIOUS
  <2>0. TypeOK
    BY DEF Inv
  <2>1. ASSUME NEW q \in Queries, Ask(q) PROVE Service!Ask(q)
    <3>1. Others(q) /\ stage' = [stage EXCEPT ![q] = stage'[q]]
      BY <2>0, <2>1, QueryOthers, StageStep
    <3>2. stage[q] = "idle" /\ stage'[q] \in {"asked", "garbled"}
      <4>1. pc[q] = "idle" /\ result[q] = "none"
        BY <2>1 DEF Ask, Inv, Fits
      <4>2. \/ pc'[q] = "policy" /\ result'[q] = "none"
            \/ pc'[q] = "log" /\ result'[q] = "garbled"
        BY <2>0, <2>1, <4>1 DEF Ask, Goto, Means, TypeOK
      <4> QED BY <4>1, <4>2, StageOf
    <3> QED BY <2>1, <3>1, <3>2 DEF Ask, Answered, Service!Ask
  <2>2. ASSUME NEW q \in Queries, CheckPolicy(q) PROVE Service!Judge(q)
    <3>1. Others(q) /\ stage' = [stage EXCEPT ![q] = stage'[q]]
      BY <2>0, <2>2, QueryOthers, StageStep DEF QueryStep
    <3>2. pc[q] = "policy" /\ result[q] = "none"
      BY <2>2 DEF CheckPolicy, Inv, Fits
    <3>3. stage[q] = "asked"
      BY <3>2, StageOf
    <3>4. stage'[q] = IF dom[q] \in policy[dev[q]] THEN "blocked" ELSE "open"
      BY <2>0, <2>2, <3>2, StageOf DEF CheckPolicy, Goto, Means, TypeOK
    <3> QED BY <2>2, <3>1, <3>3, <3>4 DEF CheckPolicy, Service!Judge
  <2>3. ASSUME NEW q \in Queries, Log(q) \/ Release(q) PROVE Service!Answer(q)
    <3>1. Others(q) /\ stage' = [stage EXCEPT ![q] = stage'[q]]
      BY <2>0, <2>3, QueryOthers, StageStep DEF QueryStep
    <3>2. stage'[q] = "idle"
      <4>1. pc'[q] = "idle" /\ result'[q] = "none"
        BY <2>0, <2>3 DEF Log, Release, Over, Goto, Means, TypeOK
      <4> QED BY <4>1 DEF stage
    <3>3. pc[q] \in {"log", "release", "lost"} /\ Fits(q)
      BY <2>3 DEF Log, Release, Inv
    <3>4. stage[q] \in {"blocked", "garbled", "open"}
      BY <3>3, StageOf
    <3>5. "lost" \in Service!Answers(stage[q]) /\ Sent(result[q]) \in Service!Answers(stage[q])
      BY <3>3, StageOf DEF Fits, Reply, Sent, Service!Answers
    <3>6. \E a \in Service!Answers(stage[q]) : reply' = [reply EXCEPT ![q] = a]
      BY <2>3, <3>5 DEF Log, Release, Answered
    <3> QED BY <2>3, <3>1, <3>2, <3>4, <3>6 DEF Log, Release, Service!Answer
  <2>4. ASSUME NEW v \in Devices, SetPolicy(v) PROVE Service!SetPolicy(v)
    <3>1. stage' = stage
      BY <2>4 DEF SetPolicy, stage
    <3>2. PICK d \in Domains :
            policy' = [policy EXCEPT ![v] = IF d \in @ THEN @ \ {d} ELSE @ \cup {d}]
      BY <2>4 DEF SetPolicy
    <3>3. policy[v] \in SUBSET Domains
      BY <2>0 DEF TypeOK
    <3>4. \E ds \in SUBSET Domains : policy' = [policy EXCEPT ![v] = ds]
      BY <3>2, <3>3
    <3> QED BY <2>4, <3>1, <3>4 DEF SetPolicy, Service!SetPolicy
  <2>5. ASSUME \/ \E d \in Domains : Drop(d)
               \/ \E p \in Providers : CoolDownEnds(p) \/ SelfTest(p)
               \/ UNCHANGED vars
        PROVE  UNCHANGED Service!vars
    BY <2>5 DEF Drop, CoolDownEnds, SelfTest, vars, stage, Service!vars
  <2>6. ASSUME NEW q \in Queries, QueryStep(q) PROVE Service!Next \/ UNCHANGED Service!vars
    <3>1. CASE CheckPolicy(q)
      BY <3>1, <2>2 DEF Service!Next
    <3>2. CASE Log(q) \/ Release(q)
      BY <3>2, <2>3 DEF Service!Next
    <3>3. CASE ~CheckPolicy(q) /\ ~Log(q) /\ ~Release(q)
      <4>1. pc[q] \notin {"policy", "log", "release", "lost"}
        BY <2>6, <3>3 DEF QueryStep, CheckPolicy, CheckCache, TakeSlot, NoSlot, Order, Reached,
                          Unreached, Exhausted, Put, Log, Note, Refuse, Release
      <4> QED BY <2>6, <4>1, Inside
    <3> QED BY <3>1, <3>2, <3>3
  <2> QED BY <2>1, <2>4, <2>5, <2>6 DEF Next, Service!Next
<1> QED BY <1>1, <1>2, Grounds, PTL DEF Spec, ServiceJudged, Service!Spec

=============================================================================
