-------------------------- MODULE PhoneAutoProofs ---------------------------
(* Proofs about PhoneAuto, for every set of domains, apps and threads. *)
EXTENDS PhoneAuto, TLAPS

USE DEF Threads, store, world, locals

\* Whatever a thread of t's does in one step.
Step(t) == Loop(t) \/ Post(t) \/ Mail(t) \/ Fail(t)

-----------------------------------------------------------------------------
(* Type correctness.                                                       *)

\* user_rules.enforce returns a verdict.
LEMMA EnforcedType ==
  ASSUME NEW d \in Domains, NEW cs, NEW v \in Verdict
  PROVE  Enforced(d, cs, v) \subseteq Verdict
<1>1. CASE v = Pending
  BY <1>1 DEF Enforced
<1>2. CASE v # Pending
  BY <1>2 DEF Enforced, Verdict, Decided, Calls, NoVerdict, Pending
<1> QED BY <1>1, <1>2

\* What Goto, Work, Take, Write and the copies do to the variables.
LEMMA UpdatesType ==
  ASSUME TypeOK, NEW t \in Threads
  PROVE  /\ \A p \in Phase : [pc EXCEPT ![t] = p] \in [Threads -> Phase]
         /\ \A d \in Domains \cup {NoDomain} :
              [dom EXCEPT ![t] = d] \in [Threads -> Domains \cup {NoDomain}]
         /\ \A S \in SUBSET Domains :
              /\ [todo EXCEPT ![t] = S] \in [Threads -> SUBSET Domains]
              /\ [hot  EXCEPT ![t] = S] \in [Threads -> SUBSET Domains]
         /\ \A h \in [Domains -> Verdict] :
              [held EXCEPT ![t] = h] \in [Threads -> [Domains -> Verdict]]
         /\ \A c \in [Domains -> SUBSET Programs] :
              [seen EXCEPT ![t] = c] \in [Threads -> [Domains -> SUBSET Programs]]
         /\ \A rule \in Policy : [policy EXCEPT ![dom[t]] = rule] \in [Domains -> Policy]
BY DEF TypeOK

\* The constants the actions write are of their types.
LEMMA ConstantsType ==
  /\ {NoRule, AutoBlock, GuardOpen, MailOpen} \cup UserRules \subseteq Policy
  /\ NoneHeld \in [Domains -> Verdict]
  /\ NoneSeen \in [Domains -> SUBSET Programs]
BY DEF NoRule, AutoBlock, GuardOpen, MailOpen, UserRules, Policy, NoneHeld, NoneSeen, Verdict

\* The initial state is of the types.
LEMMA InitType == Init => TypeOK
BY ConstantsType, ConstantsAssumption
DEF Init, TypeOK, Phase, Verdict

\* A thread that ends leaves its variables with their types.
LEMMA ResetType ==
  ASSUME TypeOK, NEW t \in Threads, Reset(t)
  PROVE  /\ pc'   \in [Threads -> Phase]
         /\ dom'  \in [Threads -> Domains \cup {NoDomain}]
         /\ todo' \in [Threads -> SUBSET Domains]
         /\ held' \in [Threads -> [Domains -> Verdict]]
         /\ seen' \in [Threads -> [Domains -> SUBSET Programs]]
         /\ hot'  \in [Threads -> SUBSET Domains]
BY UpdatesType, ConstantsType DEF Reset, Goto, Work, Phase

\* Reviews and the user's rows keep the types.
LEMMA ReviewType ==
  ASSUME TypeOK, NEW t \in Threads,
         \/ StartCycle(t) \/ Request(t) \/ EndRequest(t)
         \/ \E d \in Domains : Answer(t, d) \/ SessionRow(t, d)
  PROVE  TypeOK'
<1> USE UpdatesType, ConstantsType
<1>1. CASE StartCycle(t)
  <2>1. PICK due \in SUBSET Domains : todo' = [todo EXCEPT ![t] = due]
    BY <1>1 DEF StartCycle
  <2> QED BY <1>1, <2>1 DEF StartCycle, Goto, TypeOK, Phase
<1>2. CASE Request(t)
  <2>1. PICK asked \in SUBSET Domains : todo' = [todo EXCEPT ![t] = asked]
    BY <1>2 DEF Request
  <2> QED BY <1>2, <2>1 DEF Request, Goto, TypeOK, Phase
<1>3. CASE EndRequest(t)
  BY <1>3, ResetType DEF EndRequest, TypeOK
<1>4. ASSUME NEW d \in Domains, Answer(t, d) PROVE TypeOK'
  <2>1. todo' \in [Threads -> SUBSET Domains]
    BY <1>4 DEF Answer, Take, TypeOK
  <2>2. verdict' \in [Domains -> Verdict]
    <3>1. ASSUME NEW v \in {Pending} \cup [court : {"judged"}, call : Calls],
                 NEW w \in Enforced(d, callers[d], v),
                 verdict' = [verdict EXCEPT ![d] = w]
          PROVE  verdict' \in [Domains -> Verdict]
      <4>1. v \in Verdict
        BY DEF Verdict, Decided
      <4>2. w \in Verdict
        BY <4>1, EnforcedType
      <4> QED BY <3>1, <4>2 DEF TypeOK
    <3>2. CASE UNCHANGED verdict
      BY <3>2 DEF TypeOK
    <3> QED BY <1>4, <3>1, <3>2 DEF Answer
  <2> QED BY <1>4, <2>1, <2>2 DEF Answer, TypeOK
<1>5. ASSUME NEW d \in Domains, SessionRow(t, d) PROVE TypeOK'
  <2>1. PICK c \in Calls : verdict' = [verdict EXCEPT ![d] = [court |-> "session", call |-> c]]
    BY <1>5 DEF SessionRow
  <2>2. [court |-> "session", call |-> c] \in Verdict
    BY DEF Verdict, Decided
  <2> QED BY <1>5, <2>1, <2>2 DEF SessionRow, Goto, TypeOK, Phase
<1> QED BY <1>1, <1>2, <1>3, <1>4, <1>5

\* apply_verdicts keeps the types.
LEMMA ApplyType ==
  ASSUME TypeOK, NEW t \in Threads,
         \/ StartApply(t) \/ SeePolicy(t) \/ Block(t) \/ EndPost(t)
         \/ \E d \in Domains : Apply(t, d)
  PROVE  TypeOK'
<1> USE UpdatesType, ConstantsType
<1>1. CASE StartApply(t)
  BY <1>1 DEF StartApply, Goto, TypeOK, Phase
<1>2. CASE SeePolicy(t)
  BY <1>2 DEF SeePolicy, Goto, TypeOK, Phase
<1>3. CASE Block(t)
  BY <1>3 DEF Block, Goto, Work, Write, TypeOK, Phase
<1>4. CASE EndPost(t)
  BY <1>4, ResetType DEF EndPost, TypeOK
<1>5. ASSUME NEW d \in Domains, Apply(t, d) PROVE TypeOK'
  <2>1. todo' \in [Threads -> SUBSET Domains]
    BY <1>5 DEF Apply, Take, TypeOK
  <2>2. /\ pc' \in [Threads -> Phase]
        /\ dom' \in [Threads -> Domains \cup {NoDomain}]
    <3>1. CASE Goto(t, "block") /\ Work(t, d)
      BY <3>1 DEF Goto, Work, Phase
    <3>2. CASE UNCHANGED <<pc, dom>>
      BY <3>2 DEF TypeOK
    <3> QED BY <1>5, <3>1, <3>2 DEF Apply
  <2> QED BY <1>5, <2>1, <2>2 DEF Apply, TypeOK
<1> QED BY <1>1, <1>2, <1>3, <1>4, <1>5

\* guard keeps the types.
LEMMA GuardType ==
  ASSUME TypeOK, NEW t \in Threads,
         \/ StartGuard(t) \/ SeeBlocks(t) \/ Open(t) \/ EndCycle(t)
         \/ \E d \in Domains : Guard(t, d)
  PROVE  TypeOK'
<1> USE UpdatesType, ConstantsType
<1>1. CASE StartGuard(t)
  BY <1>1 DEF StartGuard, Goto, TypeOK, Phase
<1>2. CASE SeeBlocks(t)
  BY <1>2 DEF SeeBlocks, Goto, TypeOK, Phase
<1>3. CASE Open(t)
  BY <1>3 DEF Open, Goto, Work, Write, TypeOK, Phase
<1>4. CASE EndCycle(t)
  BY <1>4, ResetType DEF EndCycle, TypeOK
<1>5. ASSUME NEW d \in Domains, Guard(t, d) PROVE TypeOK'
  <2>1. todo' \in [Threads -> SUBSET Domains]
    BY <1>5 DEF Guard, Take, TypeOK
  <2>2. /\ pc' \in [Threads -> Phase]
        /\ dom' \in [Threads -> Domains \cup {NoDomain}]
    <3>1. CASE Goto(t, "open") /\ Work(t, d)
      BY <3>1 DEF Goto, Work, Phase
    <3>2. CASE UNCHANGED <<pc, dom>>
      BY <3>2 DEF TypeOK
    <3> QED BY <1>5, <3>1, <3>2 DEF Guard
  <2> QED BY <1>5, <2>1, <2>2 DEF Guard, TypeOK
<1> QED BY <1>1, <1>2, <1>3, <1>4, <1>5

\* The mail watcher, and a failure, keep the types.
LEMMA MailType ==
  ASSUME TypeOK, NEW t \in Threads, Mail(t) \/ Fail(t)
  PROVE  TypeOK'
<1> USE UpdatesType, ConstantsType
<1>1. CASE MailCheck(t)
  <2>1. CASE policy[dom[t]].action = "block"
    <3>1. Goto(t, "mailSource") /\ UNCHANGED <<dom, locals, store, world, failures>>
      BY <1>1, <2>1 DEF MailCheck
    <3>2. pc' \in [Threads -> Phase]
      BY <3>1 DEF Goto, Phase
    <3> QED BY <3>1, <3>2 DEF TypeOK
  <2>2. CASE policy[dom[t]].action # "block"
    BY <1>1, <2>2, ResetType DEF MailCheck, TypeOK
  <2> QED BY <2>1, <2>2
<1>2. CASE MailSource(t)
  <2>1. CASE policy[dom[t]].source = "phone-auto"
    <3>1. Goto(t, "mailWrite") /\ UNCHANGED <<dom, locals, store, world, failures>>
      BY <1>2, <2>1 DEF MailSource
    <3>2. pc' \in [Threads -> Phase]
      BY <3>1 DEF Goto, Phase
    <3> QED BY <3>1, <3>2 DEF TypeOK
  <2>2. CASE policy[dom[t]].source # "phone-auto"
    BY <1>2, <2>2, ResetType DEF MailSource, TypeOK
  <2> QED BY <2>1, <2>2
<1>3. CASE MailWrite(t)
  BY <1>3, ResetType DEF MailWrite, Write, TypeOK
<1>4. ASSUME NEW d \in Domains, MailImage(t, d) PROVE TypeOK'
  BY <1>4 DEF MailImage, Goto, Work, TypeOK, Phase
<1>5. CASE Fail(t)
  <2>1. failures' \in 0 .. MaxFailures
    BY <1>5, ConstantsAssumption DEF Fail, TypeOK
  <2> QED BY <1>5, <2>1, ResetType DEF Fail, TypeOK
<1> QED BY <1>1, <1>2, <1>3, <1>4, <1>5 DEF Mail

\* So do the user and the phone.
LEMMA WorldType ==
  ASSUME TypeOK, World PROVE TypeOK'
<1> USE ConstantsType
<1>1. CASE Trust
  BY <1>1 DEF Trust, TypeOK
<1>2. CASE Toggle
  BY <1>2 DEF Toggle, TypeOK
<1>3. ASSUME NEW d \in Domains,
             \/ UserRule(d) \/ UserForget(d) \/ Insist(d) \/ Calm(d)
             \/ \E p \in Programs : Observe(d, p)
      PROVE  TypeOK'
  <2>1. CASE UserRule(d) \/ UserForget(d)
    BY <2>1 DEF UserRule, UserForget, Write, TypeOK
  <2>2. CASE Insist(d) \/ Calm(d)
    BY <2>2 DEF Insist, Calm, TypeOK
  <2>3. CASE \E p \in Programs : Observe(d, p)
    BY <2>3 DEF Observe, TypeOK
  <2> QED BY <1>3, <2>1, <2>2, <2>3
<1> QED BY <1>1, <1>2, <1>3 DEF World

\* Every step keeps the types.
LEMMA NextType == TypeOK /\ [Next]_vars => TypeOK'
<1> SUFFICES ASSUME TypeOK, [Next]_vars PROVE TypeOK'
  OBVIOUS
<1>1. ASSUME NEW l \in Loopers, Loop(l) PROVE TypeOK'
  BY <1>1, ReviewType, ApplyType, GuardType DEF Loop, ApplyStep
<1>2. ASSUME NEW p \in Posters, Post(p) PROVE TypeOK'
  BY <1>2, ReviewType, ApplyType DEF Post, ApplyStep
<1>3. ASSUME NEW m \in Mailers, Mail(m) PROVE TypeOK'
  BY <1>3, MailType
<1>4. ASSUME NEW t \in Threads, Fail(t) PROVE TypeOK'
  BY <1>4, MailType
<1>5. CASE World
  BY <1>5, WorldType
<1>6. CASE UNCHANGED vars
  BY <1>6 DEF vars, TypeOK
<1> QED BY <1>1, <1>2, <1>3, <1>4, <1>5, <1>6 DEF Next

\* Every variable keeps its type, for any number of threads, domains and apps.
THEOREM TypeCorrect == Spec => []TypeOK
BY InitType, NextType, PTL DEF Spec

-----------------------------------------------------------------------------
(* The user's rules, and the guard's, stand.                               *)

\* A thread's step leaves the other threads where they are.
LEMMA Others ==
  ASSUME TypeOK, NEW t \in Threads, NEW u \in Threads, u # t, Step(t)
  PROVE  pc'[u] = pc[u] /\ dom'[u] = dom[u] /\ todo'[u] = todo[u]
<1> USE DEF TypeOK, Goto, Work, Take
<1> SUFFICES ASSUME pc \in [Threads -> Phase], todo \in [Threads -> SUBSET Domains],
                    dom \in [Threads -> Domains \cup {NoDomain}]
             PROVE  pc'[u] = pc[u] /\ dom'[u] = dom[u] /\ todo'[u] = todo[u]
  OBVIOUS
<1> USE DEF Reset
<1>1. CASE StartCycle(t)
  BY <1>1 DEF StartCycle
<1>2. CASE Request(t)
  BY <1>2 DEF Request
<1>3. ASSUME NEW d \in Domains, Answer(t, d) \/ SessionRow(t, d)
      PROVE  pc'[u] = pc[u] /\ dom'[u] = dom[u] /\ todo'[u] = todo[u]
  BY <1>3 DEF Answer, SessionRow
<1>4. CASE StartApply(t) \/ SeePolicy(t) \/ Block(t)
  BY <1>4 DEF StartApply, SeePolicy, Block
<1>5. ASSUME NEW d \in Domains, Apply(t, d)
      PROVE  pc'[u] = pc[u] /\ dom'[u] = dom[u] /\ todo'[u] = todo[u]
  <2>1. todo'[u] = todo[u]
    BY <1>5 DEF Apply
  <2>2. CASE Goto(t, "block") /\ Work(t, d)
    BY <2>1, <2>2
  <2>3. CASE UNCHANGED <<pc, dom>>
    BY <2>1, <2>3
  <2> QED BY <1>5, <2>2, <2>3 DEF Apply
<1>6. CASE StartGuard(t) \/ SeeBlocks(t) \/ Open(t)
  BY <1>6 DEF StartGuard, SeeBlocks, Open
<1>7. ASSUME NEW d \in Domains, Guard(t, d)
      PROVE  pc'[u] = pc[u] /\ dom'[u] = dom[u] /\ todo'[u] = todo[u]
  <2>1. todo'[u] = todo[u]
    BY <1>7 DEF Guard
  <2>2. CASE Goto(t, "open") /\ Work(t, d)
    BY <2>1, <2>2
  <2>3. CASE UNCHANGED <<pc, dom>>
    BY <2>1, <2>3
  <2> QED BY <1>7, <2>2, <2>3 DEF Guard
<1>8. CASE Reset(t)
  BY <1>8
<1>9. CASE MailCheck(t) \/ MailSource(t)
  <2>1. \/ Reset(t)
        \/ UNCHANGED <<dom, todo>> /\ (Goto(t, "mailSource") \/ Goto(t, "mailWrite"))
    BY <1>9 DEF MailCheck, MailSource
  <2> QED BY <2>1
<1>10. ASSUME NEW d \in Domains, MailImage(t, d)
       PROVE  pc'[u] = pc[u] /\ dom'[u] = dom[u] /\ todo'[u] = todo[u]
  BY <1>10 DEF MailImage
<1>11. EndRequest(t) \/ EndPost(t) \/ EndCycle(t) \/ MailWrite(t) \/ Fail(t) => Reset(t)
  BY DEF EndRequest, EndPost, EndCycle, MailWrite, Fail
<1> QED BY <1>1, <1>2, <1>3, <1>4, <1>5, <1>6, <1>7, <1>8, <1>9, <1>10, <1>11
        DEF Step, Loop, Post, Mail, ApplyStep

\* A thread that leaves d's rule alone, and does not end up with d in hand.
Spares(t, d) == policy'[d] = policy[d] /\ ~InHand(t, d)'

\* What ends, or is before its list of rules, has nothing in hand.
LEMMA NotInHand ==
  ASSUME TypeOK, NEW t \in Threads, NEW d \in Domains,
         pc'[t] \in {"idle", "court", "rows", "existing", "blocks", "mail", "mailSource"}
  PROVE  ~InHand(t, d)'
BY DEF InHand

\* apply_verdicts spares a settled domain: what has a rule is not in its list.
LEMMA ApplySpares ==
  ASSUME TypeOK, NEW t \in Threads, NEW d \in Domains, Settled(d), ApplyStep(t)
  PROVE  Spares(t, d)
<1> USE DEF TypeOK, Spares
<1> SUFFICES ASSUME pc \in [Threads -> Phase], todo \in [Threads -> SUBSET Domains],
                    dom \in [Threads -> Domains \cup {NoDomain}],
                    policy \in [Domains -> Policy], ~InHand(t, d)
             PROVE  Spares(t, d)
  BY DEF Settled
<1>1. CASE StartApply(t)
  BY <1>1, NotInHand DEF StartApply, Goto
<1>2. CASE SeePolicy(t)
  <2>1. policy[d] # NoRule
    BY DEF Settled, NoRule
  <2> QED BY <1>2, <2>1 DEF SeePolicy, Goto, InHand
<1>3. CASE Block(t)
  <2>1. dom[t] # d /\ d \notin todo[t]
    BY <1>3 DEF Block, InHand
  <2> QED BY <1>3, <2>1 DEF Block, Goto, Write, InHand
<1>4. ASSUME NEW e \in Domains, Answer(t, e) PROVE Spares(t, d)
  BY <1>4, NotInHand DEF Answer
<1>5. ASSUME NEW e \in Domains, Apply(t, e) PROVE Spares(t, d)
  <2>1. d \notin todo[t] /\ e # d /\ policy' = policy /\ todo'[t] = todo[t] \ {e}
    BY <1>5 DEF Apply, Take, InHand
  <2>2. CASE Goto(t, "block") /\ Work(t, e)
    <3>1. pc'[t] = "block" /\ dom'[t] = e
      BY <2>2 DEF Goto, Work
    <3> QED BY <2>1, <3>1 DEF InHand
  <2>3. CASE UNCHANGED <<pc, dom>>
    BY <1>5, <2>1, <2>3 DEF Apply, InHand
  <2> QED BY <1>5, <2>2, <2>3 DEF Apply
<1> QED BY <1>1, <1>2, <1>3, <1>4, <1>5 DEF ApplyStep

\* guard spares it: only automatic blocks are in its list.
LEMMA GuardSpares ==
  ASSUME TypeOK, NEW t \in Threads, NEW d \in Domains, Settled(d), NEW e \in Domains,
         StartGuard(t) \/ SeeBlocks(t) \/ Open(t) \/ Guard(t, e)
  PROVE  Spares(t, d)
<1> USE DEF TypeOK, Spares
<1> SUFFICES ASSUME pc \in [Threads -> Phase], todo \in [Threads -> SUBSET Domains],
                    dom \in [Threads -> Domains \cup {NoDomain}],
                    policy \in [Domains -> Policy], ~InHand(t, d)
             PROVE  Spares(t, d)
  BY DEF Settled
<1>1. CASE StartGuard(t)
  BY <1>1, NotInHand DEF StartGuard, Goto
<1>2. CASE SeeBlocks(t)
  <2>1. policy[d] # AutoBlock
    BY DEF Settled, AutoBlock
  <2> QED BY <1>2, <2>1 DEF SeeBlocks, Goto, InHand
<1>3. CASE Open(t)
  <2>1. dom[t] # d /\ d \notin todo[t]
    BY <1>3 DEF Open, InHand
  <2> QED BY <1>3, <2>1 DEF Open, Goto, Write, InHand
<1>4. CASE Guard(t, e)
  <2>1. d \notin todo[t] /\ e # d /\ policy' = policy /\ todo'[t] = todo[t] \ {e}
    BY <1>4 DEF Guard, Take, InHand
  <2>2. CASE Goto(t, "open") /\ Work(t, e)
    <3>1. pc'[t] = "open" /\ dom'[t] = e
      BY <2>2 DEF Goto, Work
    <3> QED BY <2>1, <3>1 DEF InHand
  <2>3. CASE UNCHANGED <<pc, dom>>
    BY <1>4, <2>1, <2>3 DEF Guard, InHand
  <2> QED BY <1>4, <2>2, <2>3 DEF Guard
<1> QED BY <1>1, <1>2, <1>3, <1>4

\* release_mail_images spares it: it asks whose block it is before it writes.
LEMMA MailSpares ==
  ASSUME TypeOK, NEW t \in Threads, NEW d \in Domains, Settled(d), Mail(t)
  PROVE  Spares(t, d)
<1> USE DEF TypeOK, Spares
<1> SUFFICES ASSUME pc \in [Threads -> Phase], dom \in [Threads -> Domains \cup {NoDomain}],
                    policy \in [Domains -> Policy], ~InHand(t, d)
             PROVE  Spares(t, d)
  BY DEF Settled
<1>1. CASE MailCheck(t)
  <2>1. policy' = policy /\ (Goto(t, "mailSource") \/ Reset(t))
    BY <1>1 DEF MailCheck
  <2> QED BY <2>1, NotInHand DEF Goto, Reset
<1>2. CASE MailSource(t)
  <2>1. policy' = policy
    BY <1>2 DEF MailSource
  <2>2. CASE policy[dom[t]].source = "phone-auto"
    <3>1. dom[t] # d
      BY <2>2 DEF Settled
    <3>2. Goto(t, "mailWrite") /\ UNCHANGED <<dom, todo>>
      BY <1>2, <2>2 DEF MailSource
    <3> QED BY <2>1, <3>1, <3>2 DEF Goto, InHand
  <2>3. CASE policy[dom[t]].source # "phone-auto"
    BY <1>2, <2>1, <2>3, NotInHand DEF MailSource, Goto, Reset
  <2> QED BY <2>2, <2>3
<1>3. CASE MailWrite(t)
  <2>1. dom[t] # d
    BY <1>3 DEF MailWrite, InHand
  <2> QED BY <1>3, <2>1, NotInHand DEF MailWrite, Write, Goto, Reset
<1>4. ASSUME NEW e \in Domains, MailImage(t, e) PROVE Spares(t, d)
  BY <1>4, NotInHand DEF MailImage, Goto
<1> QED BY <1>1, <1>2, <1>3, <1>4 DEF Mail

\* So does every other step of a thread.
LEMMA StepSpares ==
  ASSUME TypeOK, NEW t \in Threads, NEW d \in Domains, Settled(d), Step(t)
  PROVE  Spares(t, d)
<1>0. pc \in [Threads -> Phase]
  BY DEF TypeOK
<1>1. CASE EndRequest(t) \/ EndPost(t) \/ EndCycle(t) \/ Fail(t)
  <2>1. policy' = policy /\ Reset(t)
    BY <1>1 DEF EndRequest, EndPost, EndCycle, Fail
  <2> QED BY <1>0, <2>1, NotInHand DEF Reset, Goto, Spares
<1>2. CASE StartCycle(t) \/ Request(t)
  BY <1>0, <1>2, NotInHand DEF StartCycle, Request, Goto, Spares
<1>3. ASSUME NEW e \in Domains, SessionRow(t, e) PROVE Spares(t, d)
  BY <1>0, <1>3, NotInHand DEF SessionRow, Goto, Spares
<1> QED BY <1>1, <1>2, <1>3, ApplySpares, GuardSpares, MailSpares DEF Step, Loop, Post

\* Of the user's steps, only a rule for d touches d's rule.
LEMMA WorldSettled ==
  ASSUME TypeOK, NEW d \in Domains, Settled(d), World
  PROVE  \/ Settled(d)' /\ policy'[d] = policy[d]
         \/ policy'[d] # policy[d] /\ policy'[d] \in UserRules \cup {NoRule}
<1>0. policy \in [Domains -> Policy]
  BY DEF TypeOK
<1>1. UNCHANGED <<pc, dom, todo>>
  BY DEF World, Trust, Toggle, UserRule, UserForget, Insist, Calm, Observe
<1>2. policy'[d] = policy[d] => Settled(d)'
  BY <1>1 DEF Settled, InHand
<1>3. policy'[d] = policy[d] \/ policy'[d] \in UserRules \cup {NoRule}
  BY <1>0 DEF World, Trust, Toggle, UserRule, UserForget, Insist, Calm, Observe, Write
<1> QED BY <1>2, <1>3

\* SettledRuleStands holds of every behavior: in every step, the thread that takes it spares the
\* domain, the other threads stay where they are, and only the user's own steps change the rule.
THEOREM RulesStand == Spec => SettledRuleStands
<1>1. TypeOK /\ [Next]_vars =>
        \A d \in Domains :
          Settled(d) => \/ Settled(d)' /\ policy'[d] = policy[d]
                        \/ policy'[d] # policy[d] /\ policy'[d] \in UserRules \cup {NoRule}
  <2> SUFFICES ASSUME TypeOK, [Next]_vars, NEW d \in Domains, Settled(d)
               PROVE  \/ Settled(d)' /\ policy'[d] = policy[d]
                      \/ policy'[d] # policy[d] /\ policy'[d] \in UserRules \cup {NoRule}
    OBVIOUS
  <2>1. ASSUME NEW t \in Threads, Step(t) PROVE Settled(d)' /\ policy'[d] = policy[d]
    <3>1. policy'[d] = policy[d] /\ ~InHand(t, d)'
      BY <2>1, StepSpares DEF Spares
    <3>2. ASSUME NEW u \in Threads, u # t PROVE ~InHand(u, d)'
      BY <2>1, <3>2, Others DEF Settled, InHand
    <3> QED BY <3>1, <3>2 DEF Settled
  <2>2. CASE UNCHANGED vars
    BY <2>2 DEF vars, Settled, InHand
  <2> QED BY <2>1, <2>2, WorldSettled DEF Next, Step
<1> QED BY <1>1, TypeCorrect, PTL DEF Spec, SettledRuleStands

-----------------------------------------------------------------------------
(* A ruling is final for the loop.                                         *)

\* A thread that leaves d's verdict alone, and does not end up with d before the court.
Respects(t, d) == verdict'[d] = verdict[d] /\ ~(pc'[t] = "court" /\ d \in todo'[t])

\* No thread is before the court unless it starts there or is there already.
LEMMA AwayFromCourt ==
  ASSUME TypeOK, NEW t \in Threads, NEW d \in Domains,
         \/ StartApply(t) \/ SeePolicy(t) \/ Block(t) \/ StartGuard(t) \/ SeeBlocks(t)
         \/ Open(t) \/ Mail(t) \/ EndRequest(t) \/ EndPost(t) \/ EndCycle(t) \/ Fail(t)
         \/ \E e \in Domains : Apply(t, e) \/ Guard(t, e)
  PROVE  Respects(t, d)
<1>0. pc \in [Threads -> Phase]
  BY DEF TypeOK
<1> USE DEF Respects, Goto
<1>1. CASE StartApply(t) \/ SeePolicy(t) \/ Block(t)
  BY <1>0, <1>1 DEF StartApply, SeePolicy, Block
<1>2. CASE StartGuard(t) \/ SeeBlocks(t) \/ Open(t)
  BY <1>0, <1>2 DEF StartGuard, SeeBlocks, Open
<1>3. CASE Mail(t)
  <2>1. verdict' = verdict
    BY <1>3 DEF Mail, MailCheck, MailSource, MailWrite, MailImage
  <2>2. pc'[t] # "court"
    <3>1. Reset(t) \/ \E phase \in {"mail", "mailSource", "mailWrite"} : Goto(t, phase)
      BY <1>3 DEF Mail, MailCheck, MailSource, MailWrite, MailImage
    <3> QED BY <1>0, <3>1 DEF Reset
  <2> QED BY <2>1, <2>2
<1>4. CASE EndRequest(t) \/ EndPost(t) \/ EndCycle(t) \/ Fail(t)
  BY <1>0, <1>4 DEF EndRequest, EndPost, EndCycle, Fail, Reset
<1>5. ASSUME NEW e \in Domains, Apply(t, e) PROVE Respects(t, d)
  <2>1. pc[t] = "apply" /\ verdict' = verdict /\ (Goto(t, "block") \/ pc' = pc)
    BY <1>5 DEF Apply
  <2> QED BY <1>0, <2>1
<1>6. ASSUME NEW e \in Domains, Guard(t, e) PROVE Respects(t, d)
  <2>1. pc[t] = "guard" /\ verdict' = verdict /\ (Goto(t, "open") \/ pc' = pc)
    BY <1>6 DEF Guard
  <2> QED BY <1>0, <2>1
<1> QED BY <1>1, <1>2, <1>3, <1>4, <1>5, <1>6

\* A cycle takes candidates only, and the court answers for what is in the list.
LEMMA CourtRespects ==
  ASSUME TypeOK, NEW t \in Threads, NEW d \in Domains, Ruling(d),
         StartCycle(t) \/ \E e \in Domains : Answer(t, e)
  PROVE  Respects(t, d)
<1> USE DEF TypeOK, Respects
<1>1. CASE StartCycle(t)
  <2>1. PICK due \in SUBSET {e \in Domains : Candidate(e)} : todo' = [todo EXCEPT ![t] = due]
    BY <1>1 DEF StartCycle
  <2>2. d \notin due
    BY DEF Ruling, Candidate
  <2> QED BY <1>1, <2>1, <2>2 DEF StartCycle
<1>2. ASSUME NEW e \in Domains, Answer(t, e) PROVE Respects(t, d)
  <2>1. pc[t] = "court" /\ pc' = pc /\ e \in todo[t] /\ todo'[t] = todo[t] \ {e}
    BY <1>2 DEF Answer, Take
  <2>2. e # d /\ d \notin todo[t]
    BY <2>1 DEF Ruling
  <2>3. verdict'[d] = verdict[d]
    BY <1>2, <2>2 DEF Answer
  <2> QED BY <2>1, <2>2, <2>3
<1> QED BY <1>1, <1>2

\* A step that respects the ruling on d leaves it, and its being final, as it was.
LEMMA Final ==
  ASSUME TypeOK, NEW t \in Threads, NEW d \in Domains, Ruling(d), Step(t), Respects(t, d)
  PROVE  Ruling(d)' /\ verdict'[d] = verdict[d]
<1>1. ASSUME NEW u \in Threads, u # t PROVE ~(pc[u] = "court" /\ d \in todo[u])'
  BY <1>1, Others DEF Ruling
<1> QED BY <1>1 DEF Ruling, Respects, DecidedByMain

\* The user's own row on d is the second outcome, on another domain no change.
LEMMA SessionFinal ==
  ASSUME TypeOK, NEW p \in Posters, NEW d \in Domains, Ruling(d),
         NEW e \in Domains, SessionRow(p, e)
  PROVE  \/ Ruling(d)' /\ verdict'[d] = verdict[d]
         \/ verdict'[d] # verdict[d] /\ verdict'[d].court = "session"
<1>1. p \in Threads /\ Step(p)
  BY DEF Step, Post
<1>2. pc'[p] # "court"
  BY <1>1 DEF SessionRow, Goto, TypeOK
<1>3. CASE verdict'[d] = verdict[d]
  BY <1>1, <1>2, <1>3, Final DEF Respects
<1>4. CASE verdict'[d] # verdict[d]
  BY <1>4 DEF SessionRow, TypeOK
<1> QED BY <1>3, <1>4

\* RulingStands holds of every behavior: what has been ruled on is put before the court again
\* by nothing but a request from the dashboard.
THEOREM RulingsStand == Spec => RulingStands
<1> DEFINE Outcome(d) ==
             \/ Ruling(d)' /\ verdict'[d] = verdict[d]
             \/ verdict'[d] # verdict[d] /\ verdict'[d].court = "session"
             \/ \E p \in Posters : pc[p] = "idle" /\ d \in todo'[p]
<1>1. TypeOK /\ [Next]_vars => \A d \in Domains : Ruling(d) => Outcome(d)
  <2> SUFFICES ASSUME TypeOK, [Next]_vars, NEW d \in Domains, Ruling(d)
               PROVE  Outcome(d)
    OBVIOUS
  <2>1. ASSUME NEW t \in Threads, Step(t), Respects(t, d) PROVE Outcome(d)
    BY <2>1, Final
  <2>2. ASSUME NEW l \in Loopers, Loop(l) PROVE Outcome(d)
    BY <2>1, <2>2, AwayFromCourt, CourtRespects DEF Step, Loop, ApplyStep
  <2>3. ASSUME NEW p \in Posters, Post(p) PROVE Outcome(d)
    <3>1. CASE Request(p)
      <4>1. CASE d \in todo'[p]
        BY <3>1, <4>1 DEF Request
      <4>2. CASE d \notin todo'[p]
        <5>1. Respects(p, d)
          BY <3>1, <4>2 DEF Request, Respects
        <5> QED BY <2>1, <2>3, <5>1 DEF Step
      <4> QED BY <4>1, <4>2
    <3>2. ASSUME NEW e \in Domains, SessionRow(p, e) PROVE Outcome(d)
      BY <3>2, SessionFinal
    <3>3. CASE ApplyStep(p) \/ EndRequest(p) \/ EndPost(p)
      <4>1. p \in Threads /\ Step(p)
        BY <2>3 DEF Step
      <4>2. Respects(p, d)
        BY <3>3, <4>1, AwayFromCourt, CourtRespects DEF ApplyStep
      <4> QED BY <2>1, <4>1, <4>2
    <3> QED BY <2>3, <3>1, <3>2, <3>3 DEF Post
  <2>4. ASSUME NEW t \in Threads, Mail(t) \/ Fail(t) PROVE Outcome(d)
    BY <2>1, <2>4, AwayFromCourt DEF Step
  <2>5. CASE World \/ UNCHANGED vars
    <3>1. UNCHANGED <<verdict, pc, todo>>
      BY <2>5 DEF World, Trust, Toggle, UserRule, UserForget, Insist, Calm, Observe, vars
    <3> QED BY <3>1 DEF Ruling, DecidedByMain
  <2> QED BY <2>2, <2>3, <2>4, <2>5 DEF Next
<1> QED BY <1>1, TypeCorrect, PTL DEF Spec, RulingStands

=============================================================================
