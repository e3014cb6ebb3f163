--------------------------- MODULE PCReviewProofs ---------------------------
(* Proofs about PCReview, for every set of domains, programs and threads. *)
EXTENDS PCReview, TLAPS

USE DEF Threads, Reviewers, store, world, locals

-----------------------------------------------------------------------------
(* The gates give back what the thread variables can hold.                 *)

\* user_rules.enforce returns a verdict, and leaves who decided it alone.
LEMMA EnforcedType ==
  ASSUME NEW d \in Domains, NEW cs, NEW v \in Verdict
  PROVE  Enforced(d, cs, v) \subseteq Verdict
<1>1. CASE v = Pending
  BY <1>1 DEF Enforced
<1>2. CASE v # Pending
  BY <1>2 DEF Enforced, Verdict, Decided, Calls, NoVerdict, Pending
<1> QED BY <1>1, <1>2

\* The built-in rules return a verdict.
LEMMA BuiltInType ==
  ASSUME NEW d \in Domains, NEW cs
  PROVE  BuiltIn(d, cs) \subseteq Verdict
BY DEF BuiltIn, Verdict, Decided, Calls

\* decide ends in a state.
LEMMA OutcomeType ==
  ASSUME NEW d, NEW cs, NEW v
  PROVE  Outcome(d, cs, v) \in {"watching", "red-kept", "auto-blocked"}
BY DEF Outcome

-----------------------------------------------------------------------------
(* Type correctness.                                                       *)

\* What Return, Goto, Work, Take, Means and Reset do to the thread variables.
LEMMA LocalsType ==
  ASSUME SystemOK, NEW t \in Threads
  PROVE  /\ \A p \in Phase : [pc EXCEPT ![t] = p] \in [Threads -> Phase]
         /\ \A p \in Phase : [back EXCEPT ![t] = p] \in [Threads -> Phase]
         /\ \A d \in Domains \cup {NoDomain} :
              [dom EXCEPT ![t] = d] \in [Threads -> Domains \cup {NoDomain}]
         /\ \A S \in SUBSET Domains :
              /\ [todo  EXCEPT ![t] = S] \in [Threads -> SUBSET Domains]
              /\ [batch EXCEPT ![t] = S] \in [Threads -> SUBSET Domains]
         /\ \A h \in [Domains -> Verdict] :
              [held EXCEPT ![t] = h] \in [Threads -> [Domains -> Verdict]]
         /\ \A s \in State : [was EXCEPT ![t] = s] \in [Threads -> State]
         /\ \A v \in Verdict : [opinion EXCEPT ![t] = v] \in [Threads -> Verdict]
         /\ \A p \in Policy : \A s \in State :
              [plan EXCEPT ![t] = [policy |-> p, state |-> s]] \in [Threads -> Plan]
BY DEF SystemOK, Plan

\* The constants the actions write are of their types.
LEMMA ConstantsType ==
  /\ {NoRule, AutoBlock, GuardOpen, UserAllow, UserBlock, SessionBlock, SessionOpen} \subseteq Policy
  /\ {"watching", "red-kept", "protected", "auto-blocked", "guard-released",
      "session-blocked", "user-allowed", "user-blocked"} \subseteq State
  /\ NoVerdict \in Verdict /\ Pending \in Verdict
  /\ Idle \in Plan
  /\ [Domains -> {NoVerdict}] \subseteq [Domains -> Verdict]
BY DEF NoRule, AutoBlock, GuardOpen, UserAllow, UserBlock, SessionBlock, SessionOpen, Policy,
       Action, Source, State, UserStates, Verdict, NoVerdict, Pending, Idle, Plan

\* The initial state is of the types.
LEMMA InitType == Init => SystemOK
BY ConstantsType, ConstantsAssumption DEF Init, SystemOK, Phase, State

\* The writes every thread ends in keep the types.
LEMMA WritesType ==
  ASSUME SystemOK, NEW t \in Threads,
         Lift(t) \/ WritePolicy(t) \/ Mark(t) \/ StoreVerdict(t)
  PROVE  SystemOK'
<1> USE LocalsType, ConstantsType
<1>0. /\ plan[t].policy \in Policy /\ plan[t].state \in State
      /\ back[t] \in Phase /\ opinion[t] \in Verdict
  BY DEF SystemOK, Plan
<1>1. CASE Lift(t)
  BY <1>0, <1>1 DEF Lift, Goto, Means, SystemOK, Phase
<1>2. CASE WritePolicy(t)
  BY <1>0, <1>2 DEF WritePolicy, Goto, SystemOK, Phase
<1>3. CASE Mark(t)
  BY <1>0, <1>3 DEF Mark, Return, Goto, SystemOK, Phase
<1>4. CASE StoreVerdict(t)
  BY <1>0, <1>4 DEF StoreVerdict, Goto, SystemOK, Phase
<1> QED BY <1>1, <1>2, <1>3, <1>4

\* The review threads keep the types.
LEMMA ReviewType ==
  ASSUME SystemOK, NEW r \in Threads, ReviewStep(r) \/ FailCycle(r)
  PROVE  SystemOK'
<1> USE LocalsType, ConstantsType
<1>0. /\ plan[r].policy \in Policy /\ plan[r].state \in State
      /\ todo[r] \subseteq Domains /\ batch[r] \subseteq Domains
      /\ back[r] \in Phase /\ was[r] \in State
      /\ held[r] \in [Domains -> Verdict]
      /\ [d \in Domains |-> NoVerdict] \in [Domains -> Verdict]
  BY DEF SystemOK, Plan
<1>1. CASE StartRegate(r)
  BY <1>0, <1>1 DEF StartRegate, Goto, SystemOK, Phase
<1>2. CASE StartReview(r)
  <2>1. PICK due \in SUBSET Domains : todo' = [todo EXCEPT ![r] = due]
    BY <1>2 DEF StartReview
  <2>2. /\ pc' = [pc EXCEPT ![r] = "triage"]
        /\ UNCHANGED <<store, world, back, dom, plan, batch, held, was, opinion, failures>>
    BY <1>2 DEF StartReview, Goto
  <2> QED BY <2>1, <2>2 DEF SystemOK, Phase
<1>3. CASE TriageProtected(r)
  BY <1>0, <1>3 DEF TriageProtected, Goto, Means, SystemOK, Phase
<1>4. CASE BuildPackets(r)
  BY <1>0, <1>4 DEF BuildPackets, Goto, SystemOK, Phase
<1>5. CASE Court(r)
  <2>1. {Pending} \cup [court : {"judged", "single"}, call : Calls] \subseteq Verdict
    BY DEF Verdict, Decided
  <2>2. PICK some \in SUBSET batch[r] \ {{}} :
          /\ batch' = [batch EXCEPT ![r] = batch[r] \ some]
          /\ \E answered \in SUBSET some :
               /\ todo' = [todo EXCEPT ![r] = answered]
               /\ \E answer \in [answered -> {Pending} \cup
                                   [court : {"judged", "single"}, call : Calls]] :
                    held' = [held EXCEPT ![r] =
                      [d \in Domains |-> IF d \in answered THEN answer[d] ELSE NoVerdict]]
    BY <1>5 DEF Court
  <2>3. PICK answered \in SUBSET some :
          /\ todo' = [todo EXCEPT ![r] = answered]
          /\ \E answer \in [answered -> {Pending} \cup
                              [court : {"judged", "single"}, call : Calls]] :
               held' = [held EXCEPT ![r] =
                 [d \in Domains |-> IF d \in answered THEN answer[d] ELSE NoVerdict]]
    BY <2>2
  <2>4. PICK answer \in [answered -> {Pending} \cup
                           [court : {"judged", "single"}, call : Calls]] :
          held' = [held EXCEPT ![r] =
            [d \in Domains |-> IF d \in answered THEN answer[d] ELSE NoVerdict]]
    BY <2>3
  <2>5. [d \in Domains |-> IF d \in answered THEN answer[d] ELSE NoVerdict]
          \in [Domains -> Verdict]
    BY <2>1, ConstantsType
  <2>6. some \subseteq Domains /\ answered \subseteq Domains /\ batch[r] \ some \subseteq Domains
    BY <1>0, <2>2, <2>3
  <2> QED BY <1>0, <1>5, <2>2, <2>3, <2>4, <2>5, <2>6 DEF Court, Goto, SystemOK, Phase
<1>6. CASE NoCourt(r)
  BY <1>0, <1>6 DEF NoCourt, Goto, SystemOK, Phase
<1>7. CASE Decide(r)
  <2>1. Outcome(dom[r], callers[dom[r]], opinion[r]) \in State
    BY OutcomeType DEF State
  <2>2. CASE decision[dom[r]] = "guard-released"
    <3>1. /\ Return(r)
          /\ UNCHANGED <<store, world, back, todo, batch, held, failures>>
      BY <1>7, <2>2 DEF Decide
    <3> QED BY <1>0, <3>1 DEF Return, Goto, SystemOK, Phase
  <2>3. CASE decision[dom[r]] # "guard-released"
    <3> DEFINE s == Outcome(dom[r], callers[dom[r]], opinion[r])
               p == IF s = "auto-blocked" THEN AutoBlock ELSE NoRule
    <3>1. /\ plan' = [plan EXCEPT ![r] = [policy |-> p, state |-> s]]
          /\ pc' = [pc EXCEPT ![r] = IF s = "auto-blocked" THEN "policy" ELSE "mark"]
          /\ UNCHANGED <<dom, opinion, was>>
          /\ UNCHANGED <<store, world, back, todo, batch, held, failures>>
      BY <1>7, <2>3 DEF Decide, Goto, Means
    <3>2. p \in Policy /\ s \in State
      BY <2>1, ConstantsType
    <3> HIDE DEF s, p
    <3> QED BY <3>1, <3>2 DEF SystemOK, Phase
  <2> QED BY <2>2, <2>3
<1>8. CASE NextBatch(r)
  BY <1>0, <1>8 DEF NextBatch, Goto, SystemOK, Phase
<1>9. CASE StartGuard(r)
  BY <1>0, <1>9 DEF StartGuard, Goto, SystemOK, Phase
<1>10. CASE EndCycle(r)
  BY <1>0, <1>10 DEF EndCycle, Reset, Goto, SystemOK, Phase
<1>11. ASSUME NEW d \in Domains, Regate(r, d) PROVE SystemOK'
  <2>1. /\ Take(r, d)
        /\ UNCHANGED <<store, world, plan, batch, held, was, failures>>
    BY <1>11 DEF Regate
  <2>2. CASE Protected(d, callers[d])
    <3>1. UNCHANGED <<pc, back, dom, opinion>>
      BY <1>11, <2>2 DEF Regate
    <3> QED BY <1>0, <2>1, <3>1 DEF Take, SystemOK
  <2>3. CASE ~Protected(d, callers[d])
    <3>1. /\ Work(r, d)
          /\ opinion' = [opinion EXCEPT ![r] = held[r][d]]
          /\ back' = [back EXCEPT ![r] = "regate"]
          /\ Goto(r, "decide")
      BY <1>11, <2>3 DEF Regate
    <3>2. held[r][d] \in Verdict
      BY <1>0
    <3> QED BY <1>0, <2>1, <3>1, <3>2 DEF Take, Work, Goto, SystemOK, Phase
  <2> QED BY <2>2, <2>3
<1>12. ASSUME NEW d \in Domains, Triage(r, d) PROVE SystemOK'
  <2>1. /\ Take(r, d)
        /\ UNCHANGED <<store, world, back, plan, held, opinion, failures>>
    BY <1>12 DEF Triage
  <2>2. CASE Protected(d, callers[d])
    <3>1. /\ Work(r, d)
          /\ was' = [was EXCEPT ![r] = decision[d]]
          /\ Goto(r, "guarded")
          /\ UNCHANGED batch
      BY <1>12, <2>2 DEF Triage
    <3>2. decision[d] \in State
      BY DEF SystemOK
    <3> QED BY <1>0, <2>1, <3>1, <3>2 DEF Take, Work, Goto, SystemOK, Phase
  <2>3. CASE ~Protected(d, callers[d])
    <3>1. /\ \E S \in SUBSET Domains : batch' = [batch EXCEPT ![r] = S]
          /\ UNCHANGED <<pc, dom, was>>
      <4>1. /\ batch' = [batch EXCEPT ![r] = batch[r] \cup {d}] \/ UNCHANGED batch
            /\ UNCHANGED <<pc, dom, was>>
        BY <1>12, <2>3 DEF Triage
      <4>2. batch = [batch EXCEPT ![r] = batch[r]]
        BY DEF SystemOK
      <4>3. batch[r] \in SUBSET Domains /\ batch[r] \cup {d} \in SUBSET Domains
        BY <1>0
      <4>4. CASE batch' = [batch EXCEPT ![r] = batch[r] \cup {d}]
        BY <4>1, <4>3, <4>4
      <4>5. CASE UNCHANGED batch
        BY <4>1, <4>2, <4>3, <4>5
      <4> QED BY <4>1, <4>4, <4>5
    <3>2. PICK S \in SUBSET Domains : batch' = [batch EXCEPT ![r] = S]
      BY <3>1
    <3>3. batch' \in [Threads -> SUBSET Domains] /\ todo' \in [Threads -> SUBSET Domains]
      BY <1>0, <2>1, <3>2 DEF Take
    <3> QED BY <2>1, <3>1, <3>3 DEF SystemOK
  <2> QED BY <2>2, <2>3
<1>13. ASSUME NEW d \in Domains, Rule(r, d) PROVE SystemOK'
  <2>1. PICK v \in Verdict : opinion' = [opinion EXCEPT ![r] = v]
    BY <1>0, <1>13, EnforcedType, BuiltInType DEF Rule
  <2> QED BY <1>0, <1>13, <2>1 DEF Rule, Take, Work, Goto, SystemOK, Phase
<1>14. ASSUME NEW d \in Domains, Guard(r, d) PROVE SystemOK'
  <2>1. /\ Take(r, d)
        /\ UNCHANGED <<store, world, plan, batch, held, was, opinion, failures>>
    BY <1>14 DEF Guard
  <2>2. \/ Work(r, d) /\ back' = [back EXCEPT ![r] = "guard"] /\ Goto(r, "lift")
        \/ UNCHANGED <<pc, back, dom>>
    BY <1>14 DEF Guard
  <2>3. CASE Work(r, d) /\ back' = [back EXCEPT ![r] = "guard"] /\ Goto(r, "lift")
    BY <1>0, <2>1, <2>3 DEF Take, Work, Goto, SystemOK, Phase
  <2>4. CASE UNCHANGED <<pc, back, dom>>
    BY <1>0, <2>1, <2>4 DEF Take, SystemOK
  <2> QED BY <2>2, <2>3, <2>4
<1>15. CASE FailCycle(r)
  <2>1. policy' \in [Domains -> Policy] /\ decision' \in [Domains -> State] /\ recheck' \in [Domains -> BOOLEAN]
    <3>1. CASE UNCHANGED <<policy, decision, recheck>>
      BY <3>1 DEF SystemOK
    <3>2. CASE policy' = [policy EXCEPT ![dom[r]] = plan[r].policy] /\ UNCHANGED <<decision, recheck>>
      BY <1>0, <3>2 DEF SystemOK
    <3>3. CASE /\ decision' = [decision EXCEPT ![dom[r]] = plan[r].state]
               /\ recheck'  = [recheck  EXCEPT ![dom[r]] = FALSE] /\ UNCHANGED policy
      BY <1>0, <3>3 DEF SystemOK
    <3> QED BY <1>15, <3>1, <3>2, <3>3 DEF FailCycle
  <2>2. failures' \in 0 .. MaxFailures
    <3>1. failures \in 0 .. MaxFailures /\ MaxFailures \in Nat
      BY ConstantsAssumption DEF SystemOK
    <3>2. failures < MaxFailures /\ failures' = failures + 1
      BY <1>15 DEF FailCycle
    <3> QED BY <3>1, <3>2
  <2>3. plan' \in [Threads -> Plan]
    BY <1>15, ConstantsType DEF FailCycle, SystemOK
  <2> QED BY <1>0, <1>15, <2>1, <2>2, <2>3 DEF FailCycle, Reset, Goto, SystemOK, Phase
<1>16. CASE Lift(r) \/ WritePolicy(r) \/ Mark(r) \/ StoreVerdict(r)
  BY <1>16, WritesType
<1> QED BY <1>1, <1>2, <1>3, <1>4, <1>5, <1>6, <1>7, <1>8, <1>9, <1>10, <1>11, <1>12, <1>13,
           <1>14, <1>15, <1>16 DEF ReviewStep

\* The dashboard and mail threads keep the types.
LEMMA DashboardType ==
  ASSUME SystemOK, NEW t \in Threads, DashboardStep(t) \/ FailCall(t)
  PROVE  SystemOK'
<1> USE LocalsType, ConstantsType
<1>0. opinion[t] \in Verdict /\ back[t] \in Phase
  BY DEF SystemOK
<1>1. CASE UserForget(t)
  BY <1>0, <1>1 DEF UserForget, Goto, SystemOK, Phase
<1>2. ASSUME NEW d \in Domains, UserDecide(t, d) PROVE SystemOK'
  <2> DEFINE Choices == {[policy |-> UserAllow, state |-> "user-allowed"],
                         [policy |-> UserBlock, state |-> "user-blocked"],
                         [policy |-> NoRule,    state |-> "watching"]}
  <2>1. PICK choice \in Choices :
          /\ policy' = [policy EXCEPT ![d] = choice.policy]
          /\ plan' = [plan EXCEPT ![t] = choice]
          /\ Goto(t, IF choice.policy = NoRule THEN "forget" ELSE "mark")
    BY <1>2 DEF UserDecide
  <2>2. choice.policy \in Policy /\ choice \in Plan
    BY DEF Plan
  <2>3. Work(t, d) /\ UNCHANGED <<verdict, decision, callers, recheck, world, back, locals, failures>>
    BY <1>2 DEF UserDecide
  <2>4. \E f \in {"forget", "mark"} : Goto(t, f)
    BY <2>1
  <2> HIDE DEF Choices
  <2> QED BY <1>0, <2>1, <2>2, <2>3, <2>4 DEF Work, Goto, SystemOK, Phase
<1>3. CASE SessionDecide(t)
  <2>1. UNCHANGED <<store, world, back, todo, batch, held, failures>>
    BY <1>3 DEF SessionDecide
  <2>3. CASE was[t] \in UserStates
    <3>1. Return(t)
      BY <1>3, <2>3 DEF SessionDecide
    <3> QED BY <1>0, <2>1, <3>1 DEF Return, Goto, SystemOK, Phase
  <2>4. CASE was[t] \notin UserStates
    <3>1. UNCHANGED <<dom, opinion, was>>
      BY <1>3, <2>4 DEF SessionDecide
    <3>2. PICK p \in {NoRule, SessionBlock, SessionOpen}, s \in State, f \in Phase :
            Means(t, p, s) /\ Goto(t, f)
      BY <1>3, <2>4 DEF SessionDecide, State, Phase
    <3> QED BY <1>0, <2>1, <3>1, <3>2 DEF Means, Goto, SystemOK
  <2> QED BY <2>3, <2>4
<1>4. CASE SessionLift(t)
  BY <1>0, <1>4 DEF SessionLift, Goto, SystemOK, Phase
<1>5. ASSUME NEW d \in Domains, SessionVerdict(t, d) PROVE SystemOK'
  <2>1. PICK v \in Verdict : opinion' = [opinion EXCEPT ![t] = v]
    <3>1. PICK c \in Calls : \E v \in Enforced(d, callers[d], [court |-> "session", call |-> c]) :
            opinion' = [opinion EXCEPT ![t] = v]
      BY <1>5 DEF SessionVerdict
    <3>2. [court |-> "session", call |-> c] \in Verdict
      BY DEF Verdict, Decided
    <3> QED BY <3>1, <3>2, EnforcedType
  <2>3. decision[d] \in State
    BY DEF SystemOK
  <2> QED BY <1>0, <1>5, <2>1, <2>3 DEF SessionVerdict, Work, Goto, SystemOK, Phase
<1>6. CASE MailRelease(t)
  <2>1. CASE Return(t)
    BY <1>0, <1>6, <2>1 DEF MailRelease, Return, Goto, SystemOK, Phase
  <2>2. CASE ~Return(t)
    <3>1. /\ Goto(t, "lift")
          /\ UNCHANGED <<dom, opinion, plan, was>>
          /\ UNCHANGED <<store, world, back, todo, batch, held, failures>>
      BY <1>6, <2>2 DEF MailRelease
    <3> QED BY <1>0, <3>1 DEF Goto, SystemOK, Phase
  <2> QED BY <2>1, <2>2
<1>7. ASSUME NEW d \in Domains, MailImage(t, d) PROVE SystemOK'
  BY <1>0, <1>7 DEF MailImage, Work, Goto, SystemOK, Phase
<1>8. CASE StoreVerdict(t) \/ Lift(t) \/ WritePolicy(t) \/ Mark(t)
  BY <1>8, WritesType
<1>9. CASE MailCheck(t)
  <2>1. CASE Return(t)
    BY <1>0, <1>9, <2>1 DEF MailCheck, Return, Goto, SystemOK, Phase
  <2>2. CASE ~Return(t)
    <3>1. /\ Goto(t, "mailSource")
          /\ UNCHANGED <<dom, opinion, plan, was>>
          /\ UNCHANGED <<store, world, back, todo, batch, held, failures>>
      BY <1>9, <2>2 DEF MailCheck
    <3> QED BY <1>0, <3>1 DEF Goto, SystemOK, Phase
  <2> QED BY <2>1, <2>2
<1>10. CASE FailCall(t)
  <2>1. policy' \in [Domains -> Policy]
    <3>1. plan[t].policy \in Policy
      BY DEF SystemOK, Plan
    <3> QED BY <1>10, <3>1 DEF FailCall, SystemOK
  <2>2. failures' \in 0 .. MaxFailures
    <3>1. failures \in 0 .. MaxFailures /\ MaxFailures \in Nat
      BY ConstantsAssumption DEF SystemOK
    <3>2. failures < MaxFailures /\ failures' = failures + 1
      BY <1>10 DEF FailCall
    <3> QED BY <3>1, <3>2
  <2>3. Return(t) /\ UNCHANGED <<verdict, decision, callers, recheck, world, back, todo, batch, held>>
    BY <1>10 DEF FailCall
  <2> QED BY <1>0, <2>1, <2>2, <2>3 DEF Return, Goto, SystemOK, Phase
<1> QED BY <1>1, <1>2, <1>3, <1>4, <1>5, <1>6, <1>7, <1>8, <1>9, <1>10 DEF DashboardStep

\* What the machine does meanwhile keeps the types.
LEMMA MachineType ==
  ASSUME SystemOK,
         \/ \E d \in Domains : Insist(d) \/ Forget(d) \/ \E p \in Programs : Attribute(d, p)
         \/ \E p \in Programs : Uninstall(p)
         \/ Trust
  PROVE  SystemOK'
<1>1. ASSUME NEW d \in Domains, Insist(d) \/ Forget(d) PROVE SystemOK'
  BY <1>1 DEF Insist, Forget, SystemOK
<1>2. ASSUME NEW d \in Domains, NEW p \in Programs, Attribute(d, p) PROVE SystemOK'
  BY <1>2 DEF Attribute, SystemOK
<1>3. CASE Trust
  BY <1>3 DEF Trust, SystemOK
<1>4. ASSUME NEW p \in Programs, Uninstall(p) PROVE SystemOK'
  BY <1>4 DEF Uninstall, SystemOK
<1> QED BY <1>1, <1>2, <1>3, <1>4

\* Every variable of every thread keeps its type, in every instance.
THEOREM TypeCorrect == Spec => []TypeOK
<1>1. SystemOK /\ [Step]_system => SystemOK'
  <2> SUFFICES ASSUME SystemOK, [Step]_system PROVE SystemOK'
    OBVIOUS
  <2>1. CASE UNCHANGED system
    BY <2>1 DEF system, SystemOK
  <2>2. ASSUME NEW r \in Reviewers, ReviewStep(r) \/ FailCycle(r) PROVE SystemOK'
    BY <2>2, ReviewType
  <2>3. ASSUME NEW t \in Threads, DashboardStep(t) \/ FailCall(t) PROVE SystemOK'
    BY <2>3, DashboardType
  <2>4. ASSUME \/ \E d \in Domains :
                    Insist(d) \/ Forget(d) \/ \E p \in Programs : Attribute(d, p)
               \/ \E p \in Programs : Uninstall(p)
               \/ Trust
        PROVE  SystemOK'
    BY <2>4, MachineType
  <2> QED BY <2>1, <2>2, <2>3, <2>4 DEF Step
<1>2. Init => TypeOK
  BY InitType DEF Init, TypeOK
<1>3. TypeOK /\ [Next]_vars => TypeOK'
  <2> SUFFICES ASSUME TypeOK, [Next]_vars PROVE TypeOK'
    OBVIOUS
  <2>1. SystemOK'
    BY <1>1 DEF TypeOK, Next, vars
  <2>2. met' \subseteq Domains /\ cut' \subseteq Threads /\ torn' \subseteq Domains
    BY DEF TypeOK, Next, Noted, vars
  <2> QED BY <2>1, <2>2 DEF TypeOK
<1> QED BY <1>2, <1>3, PTL DEF Spec

-----------------------------------------------------------------------------
(* The invariant behind the safety theorems: what a thread is about to     *)
(* write was decided by the right thread, on the right grounds.            *)

\* An automatic block is planned by a review only, on a red verdict that is safe to block; a
\* session on its way to a write did not copy a decision of the user; a thread goes back to
\* the beginning of something.
Earned(t) ==
  /\ pc[t] = "policy" /\ plan[t].policy = AutoBlock =>
       /\ t \in Reviewers
       /\ opinion[t].call = "redSafe" /\ BlockAgreement(opinion[t])
  /\ pc[t] = "sessionLift" => plan[t].policy = SessionOpen
  /\ t \in Sessions /\ pc[t] \in {"policy", "mark", "sessionLift"} => was[t] \notin UserStates
  /\ back[t] \in {"idle", "regate", "triage", "rule", "guard"}

ThreadInv == \A t \in Threads : Earned(t)

\* A step of one thread leaves the locals of the others alone.
Others(t) ==
  \A u \in Threads \ {t} :
    /\ pc'[u] = pc[u] /\ back'[u] = back[u] /\ dom'[u] = dom[u] /\ plan'[u] = plan[u]
    /\ todo'[u] = todo[u] /\ batch'[u] = batch[u] /\ held'[u] = held[u]
    /\ opinion'[u] = opinion[u] /\ was'[u] = was[u]

LEMMA WritesOthers ==
  ASSUME SystemOK, NEW t \in Threads,
         Lift(t) \/ WritePolicy(t) \/ Mark(t) \/ StoreVerdict(t)
  PROVE  Others(t)
<1>1. CASE Lift(t)
  BY <1>1 DEF Lift, Goto, Means, Others, SystemOK
<1>2. CASE WritePolicy(t)
  BY <1>2 DEF WritePolicy, Goto, Others, SystemOK
<1>3. CASE Mark(t)
  BY <1>3 DEF Mark, Return, Goto, Others, SystemOK
<1>4. CASE StoreVerdict(t)
  BY <1>4 DEF StoreVerdict, Goto, Others, SystemOK
<1> QED BY <1>1, <1>2, <1>3, <1>4

LEMMA ReviewOthers ==
  ASSUME SystemOK, NEW r \in Threads, ReviewStep(r) \/ FailCycle(r)
  PROVE  Others(r)
<1>1. CASE StartRegate(r)
  BY <1>1 DEF StartRegate, Goto, Others, SystemOK
<1>2. CASE StartReview(r)
  BY <1>2 DEF StartReview, Goto, Others, SystemOK
<1>3. CASE TriageProtected(r)
  BY <1>3 DEF TriageProtected, Goto, Means, Others, SystemOK
<1>4. CASE BuildPackets(r)
  BY <1>4 DEF BuildPackets, Goto, Others, SystemOK
<1>5. CASE Court(r)
  BY <1>5 DEF Court, Goto, Others, SystemOK
<1>6. CASE NoCourt(r)
  BY <1>6 DEF NoCourt, Goto, Others, SystemOK
<1>7. CASE Decide(r)
  BY <1>7 DEF Decide, Return, Goto, Means, Others, SystemOK
<1>8. CASE NextBatch(r)
  BY <1>8 DEF NextBatch, Goto, Others, SystemOK
<1>9. CASE StartGuard(r)
  BY <1>9 DEF StartGuard, Goto, Others, SystemOK
<1>10. CASE EndCycle(r)
  BY <1>10 DEF EndCycle, Reset, Goto, Others, SystemOK
<1>11. ASSUME NEW d \in Domains, Regate(r, d) PROVE Others(r)
  BY <1>11 DEF Regate, Take, Work, Goto, Others, SystemOK
<1>12. ASSUME NEW d \in Domains, Triage(r, d) PROVE Others(r)
  BY <1>12 DEF Triage, Take, Work, Goto, Others, SystemOK
<1>13. ASSUME NEW d \in Domains, Rule(r, d) PROVE Others(r)
  BY <1>13 DEF Rule, Take, Work, Goto, Others, SystemOK
<1>14. ASSUME NEW d \in Domains, Guard(r, d) PROVE Others(r)
  BY <1>14 DEF Guard, Take, Work, Goto, Others, SystemOK
<1>15. CASE FailCycle(r)
  BY <1>15 DEF FailCycle, Reset, Goto, Others, SystemOK
<1>16. CASE Lift(r) \/ WritePolicy(r) \/ Mark(r) \/ StoreVerdict(r)
  BY <1>16, WritesOthers
<1> QED BY <1>1, <1>2, <1>3, <1>4, <1>5, <1>6, <1>7, <1>8, <1>9, <1>10, <1>11, <1>12, <1>13,
           <1>14, <1>15, <1>16 DEF ReviewStep

LEMMA DashboardOthers ==
  ASSUME SystemOK, NEW t \in Threads, DashboardStep(t) \/ FailCall(t)
  PROVE  Others(t)
<1>1. CASE UserForget(t)
  BY <1>1 DEF UserForget, Goto, Others, SystemOK
<1>2. ASSUME NEW d \in Domains, UserDecide(t, d) PROVE Others(t)
  BY <1>2 DEF UserDecide, Work, Goto, Others, SystemOK
<1>3. CASE SessionDecide(t)
  BY <1>3 DEF SessionDecide, Return, Means, Goto, Others, SystemOK
<1>4. CASE SessionLift(t)
  BY <1>4 DEF SessionLift, Goto, Others, SystemOK
<1>5. ASSUME NEW d \in Domains, SessionVerdict(t, d) PROVE Others(t)
  BY <1>5 DEF SessionVerdict, Work, Goto, Others, SystemOK
<1>6. CASE MailRelease(t)
  BY <1>6 DEF MailRelease, Return, Goto, Others, SystemOK
<1>7. ASSUME NEW d \in Domains, MailImage(t, d) PROVE Others(t)
  BY <1>7 DEF MailImage, Work, Goto, Others, SystemOK
<1>8. CASE StoreVerdict(t) \/ Lift(t) \/ WritePolicy(t) \/ Mark(t)
  BY <1>8, WritesOthers
<1>9. CASE MailCheck(t)
  BY <1>9 DEF MailCheck, Return, Goto, Others, SystemOK
<1>10. CASE FailCall(t)
  BY <1>10 DEF FailCall, Return, Goto, Others, SystemOK
<1> QED BY <1>1, <1>2, <1>3, <1>4, <1>5, <1>6, <1>7, <1>8, <1>9, <1>10 DEF DashboardStep

-----------------------------------------------------------------------------
(* The invariant is inductive.                                             *)

\* The writes every thread ends in keep it; only reviewers and mailers lift.
LEMMA WritesEarned ==
  ASSUME SystemOK, NEW t \in Threads, Earned(t),
         \/ Lift(t) /\ t \notin Sessions
         \/ WritePolicy(t) \/ Mark(t) \/ StoreVerdict(t)
  PROVE  Earned(t)'
<1>1. CASE Lift(t) /\ t \notin Sessions
  BY <1>1 DEF Lift, Goto, Means, Earned, SystemOK, AutoBlock, GuardOpen
<1>2. CASE WritePolicy(t)
  BY <1>2 DEF WritePolicy, Goto, Earned, SystemOK
<1>3. CASE Mark(t)
  <2>1. pc'[t] = back[t] /\ back'[t] = back[t]
    BY <1>3 DEF Mark, Return, Goto, SystemOK
  <2> QED BY <2>1 DEF Earned
<1>4. CASE StoreVerdict(t)
  BY <1>4 DEF StoreVerdict, Goto, Earned, SystemOK
<1> QED BY <1>1, <1>2, <1>3, <1>4

\* decide blocks only on a verdict that is red, safe to block and agreed on.
LEMMA OutcomeEarned ==
  ASSUME NEW d, NEW cs, NEW v, Outcome(d, cs, v) = "auto-blocked", v \in Verdict
  PROVE  v.call = "redSafe" /\ BlockAgreement(v)
BY DEF Outcome, Verdict, Decided, Calls, NoVerdict, Pending, BlockAgreement

\* The review threads keep the invariant.
LEMMA ReviewEarned ==
  ASSUME SystemOK, NEW r \in Reviewers, Earned(r), ReviewStep(r) \/ FailCycle(r)
  PROVE  Earned(r)'
<1>0. r \in Threads /\ r \notin Sessions
  BY KindsAssumption
<1>1. CASE StartRegate(r)
  BY <1>0, <1>1 DEF StartRegate, Goto, Earned, SystemOK
<1>2. CASE StartReview(r)
  BY <1>0, <1>2 DEF StartReview, Goto, Earned, SystemOK
<1>3. CASE TriageProtected(r)
  BY <1>0, <1>3 DEF TriageProtected, Goto, Means, Earned, SystemOK
<1>4. CASE BuildPackets(r)
  BY <1>0, <1>4 DEF BuildPackets, Goto, Earned, SystemOK
<1>5. CASE Court(r)
  BY <1>0, <1>5 DEF Court, Goto, Earned, SystemOK
<1>6. CASE NoCourt(r)
  BY <1>0, <1>6 DEF NoCourt, Goto, Earned, SystemOK
<1>7. CASE Decide(r)
  <2>1. CASE decision[dom[r]] = "guard-released"
    <3>1. Return(r) /\ UNCHANGED back
      BY <1>7, <2>1 DEF Decide
    <3>2. pc'[r] = back[r] /\ back'[r] = back[r]
      BY <1>0, <3>1 DEF Return, Goto, SystemOK
    <3> QED BY <1>0, <3>2 DEF Earned
  <2>2. CASE decision[dom[r]] # "guard-released"
    <3> DEFINE s == Outcome(dom[r], callers[dom[r]], opinion[r])
    <3>1. /\ pc' = [pc EXCEPT ![r] = IF s = "auto-blocked" THEN "policy" ELSE "mark"]
          /\ UNCHANGED <<opinion, back>>
      BY <1>7, <2>2 DEF Decide, Goto
    <3>2. opinion[r] \in Verdict
      BY <1>0 DEF SystemOK
    <3>3. pc'[r] = "policy" => opinion[r].call = "redSafe" /\ BlockAgreement(opinion[r])
      BY <1>0, <3>1, <3>2, OutcomeEarned DEF SystemOK
    <3>4. pc'[r] \in {"policy", "mark"}
      BY <1>0, <3>1 DEF SystemOK
    <3> HIDE DEF s
    <3> QED BY <1>0, <3>1, <3>3, <3>4 DEF Earned, BlockAgreement
  <2> QED BY <2>1, <2>2
<1>8. CASE NextBatch(r)
  BY <1>0, <1>8 DEF NextBatch, Goto, Earned, SystemOK
<1>9. CASE StartGuard(r)
  BY <1>0, <1>9 DEF StartGuard, Goto, Earned, SystemOK
<1>10. CASE EndCycle(r)
  BY <1>0, <1>10 DEF EndCycle, Reset, Goto, Earned, SystemOK
<1>11. ASSUME NEW d \in Domains, Regate(r, d) PROVE Earned(r)'
  BY <1>0, <1>11 DEF Regate, Goto, Earned, SystemOK
<1>12. ASSUME NEW d \in Domains, Triage(r, d) PROVE Earned(r)'
  BY <1>0, <1>12 DEF Triage, Goto, Earned, SystemOK
<1>13. ASSUME NEW d \in Domains, Rule(r, d) PROVE Earned(r)'
  BY <1>0, <1>13 DEF Rule, Goto, Earned, SystemOK
<1>14. ASSUME NEW d \in Domains, Guard(r, d) PROVE Earned(r)'
  BY <1>0, <1>14 DEF Guard, Goto, Earned, SystemOK
<1>15. CASE FailCycle(r)
  BY <1>0, <1>15 DEF FailCycle, Reset, Goto, Earned, SystemOK
<1>16. CASE Lift(r) \/ WritePolicy(r) \/ Mark(r) \/ StoreVerdict(r)
  BY <1>0, <1>16, WritesEarned
<1> QED BY <1>1, <1>2, <1>3, <1>4, <1>5, <1>6, <1>7, <1>8, <1>9, <1>10, <1>11, <1>12, <1>13,
           <1>14, <1>15, <1>16 DEF ReviewStep

\* The dashboard and mail threads keep the invariant.
LEMMA DashboardEarned ==
  ASSUME SystemOK, NEW t \in Threads, Earned(t), DashboardStep(t) \/ FailCall(t)
  PROVE  Earned(t)'
<1>1. CASE t \in Users /\ UserForget(t)
  BY <1>1, KindsAssumption DEF UserForget, Goto, Earned, SystemOK
<1>2. ASSUME t \in Users, NEW d \in Domains, UserDecide(t, d) PROVE Earned(t)'
  <2>1. pc'[t] \in {"forget", "mark"} /\ back' = back
    BY <1>2 DEF UserDecide, Goto, SystemOK
  <2> QED BY <1>2, <2>1, KindsAssumption DEF Earned
<1>3. CASE SessionDecide(t)
  <2>1. CASE was[t] \in UserStates
    <3>1. pc'[t] = back[t] /\ back'[t] = back[t]
      BY <1>3, <2>1 DEF SessionDecide, Return, Goto, SystemOK
    <3> QED BY <3>1 DEF Earned
  <2>2. CASE was[t] \notin UserStates
    <3>1. UNCHANGED <<was, back>>
      BY <1>3, <2>2 DEF SessionDecide
    <3>2. \/ pc'[t] = "mark"
          \/ pc'[t] = "policy" /\ plan'[t].policy = SessionBlock
          \/ pc'[t] = "sessionLift" /\ plan'[t].policy = SessionOpen
      BY <1>3, <2>2 DEF SessionDecide, Means, Goto, SystemOK
    <3> QED BY <2>2, <3>1, <3>2 DEF Earned, AutoBlock, SessionBlock
  <2> QED BY <2>1, <2>2
<1>4. CASE SessionLift(t)
  BY <1>4 DEF SessionLift, Goto, Earned, SystemOK, AutoBlock, SessionOpen
<1>5. ASSUME NEW d \in Domains, SessionVerdict(t, d) PROVE Earned(t)'
  BY <1>5 DEF SessionVerdict, Goto, Earned, SystemOK
<1>6. CASE t \in Mailers /\ MailRelease(t)
  <2>1. pc'[t] = "lift" \/ pc'[t] = back[t]
    BY <1>6 DEF MailRelease, Return, Goto, SystemOK
  <2>2. back' = back
    BY <1>6 DEF MailRelease
  <2> QED BY <1>6, <2>1, <2>2, KindsAssumption DEF Earned
<1>7. ASSUME t \in Mailers, NEW d \in Domains, MailImage(t, d) PROVE Earned(t)'
  BY <1>7, KindsAssumption DEF MailImage, Goto, Earned, SystemOK
<1>8. CASE \/ Lift(t) /\ t \in Mailers
           \/ StoreVerdict(t) \/ WritePolicy(t) \/ Mark(t)
  BY <1>8, WritesEarned, KindsAssumption
<1>9. CASE t \in Mailers /\ MailCheck(t)
  <2>1. pc'[t] = "mailSource" \/ pc'[t] = back[t]
    BY <1>9 DEF MailCheck, Return, Goto, SystemOK
  <2>2. back' = back
    BY <1>9 DEF MailCheck
  <2> QED BY <1>9, <2>1, <2>2, KindsAssumption DEF Earned
<1>10. CASE FailCall(t)
  <2>1. pc'[t] = back[t] /\ back'[t] = back[t]
    BY <1>10 DEF FailCall, Return, Goto, SystemOK
  <2> QED BY <2>1 DEF Earned
<1> QED BY <1>1, <1>2, <1>3, <1>4, <1>5, <1>6, <1>7, <1>8, <1>9, <1>10 DEF DashboardStep

\* A step of one thread that keeps its own part of the invariant keeps all of it.
LEMMA OneThread ==
  ASSUME ThreadInv, NEW t \in Threads, Others(t), Earned(t)'
  PROVE  ThreadInv'
BY DEF ThreadInv, Earned, Others, BlockAgreement

\* The threads are where they were.
Resting == UNCHANGED <<pc, back, dom, plan, todo, batch, held, opinion, was>>

\* What the machine does moves no thread and writes no rule and no decision.
LEMMA MachineRests ==
  ASSUME \/ \E d \in Domains : Insist(d) \/ Forget(d) \/ \E p \in Programs : Attribute(d, p)
         \/ \E p \in Programs : Uninstall(p)
         \/ Trust
         \/ UNCHANGED vars
  PROVE  Resting /\ UNCHANGED <<policy, verdict, decision, failures>>
BY DEF Insist, Forget, Attribute, Uninstall, Trust, vars, system, Resting

\* A step is one of a thread, or all threads rest.
LEMMA WhoMoves ==
  ASSUME [Next]_vars
  PROVE  \/ \E t \in Threads : \/ t \in Reviewers /\ (ReviewStep(t) \/ FailCycle(t))
                              \/ DashboardStep(t) \/ FailCall(t)
         \/ Resting /\ UNCHANGED <<policy, verdict, decision, failures>>
BY MachineRests DEF Next, Step

\* Types and grounds together hold in every reachable state.
LEMMA Grounds == Spec => [](SystemOK /\ ThreadInv)
<1>1. Init => ThreadInv
  BY DEF Init, ThreadInv, Earned
<1>2. SystemOK /\ ThreadInv /\ [Next]_vars => ThreadInv'
  <2> SUFFICES ASSUME SystemOK, ThreadInv, [Next]_vars PROVE ThreadInv'
    OBVIOUS
  <2>1. ASSUME NEW r \in Reviewers, ReviewStep(r) \/ FailCycle(r) PROVE ThreadInv'
    BY <2>1, ReviewEarned, ReviewOthers, OneThread DEF ThreadInv
  <2>2. ASSUME NEW t \in Threads, DashboardStep(t) \/ FailCall(t) PROVE ThreadInv'
    BY <2>2, DashboardEarned, DashboardOthers, OneThread DEF ThreadInv
  <2>3. CASE Resting
    BY <2>3 DEF Resting, ThreadInv, Earned, BlockAgreement
  <2> QED BY <2>1, <2>2, <2>3, WhoMoves
<1>3. TypeOK => SystemOK
  BY DEF TypeOK
<1> QED BY <1>1, <1>2, <1>3, TypeCorrect, PTL DEF Spec

-----------------------------------------------------------------------------
(* Doubt never blocks.                                                     *)

\* A rule is written by a thread that planned it, or by the user's request.
LEMMA RuleWritten ==
  ASSUME SystemOK, [Next]_vars, NEW d \in Domains, policy'[d] # policy[d]
  PROVE  \/ \E t \in Threads : dom[t] = d /\ pc[t] = "policy" /\ policy'[d] = plan[t].policy
         \/ \E u \in Users : UserDecide(u, d) /\ policy'[d] \in {UserAllow, UserBlock, NoRule}
<1>1. PICK t \in Threads : \/ t \in Reviewers /\ (ReviewStep(t) \/ FailCycle(t))
                          \/ DashboardStep(t) \/ FailCall(t)
  BY WhoMoves
<1>2. \/ pc[t] = "policy" /\ policy' = [policy EXCEPT ![dom[t]] = plan[t].policy]
      \/ t \in Users /\ \E e \in Domains : UserDecide(t, e)
  <2>1. CASE t \in Reviewers /\ (ReviewStep(t) \/ FailCycle(t))
    BY <2>1 DEF ReviewStep, FailCycle, StartRegate, StartReview, TriageProtected, BuildPackets,
                Court, NoCourt, Decide, NextBatch, StartGuard, EndCycle, Regate, Triage, Rule,
                Guard, Lift, WritePolicy, Mark, StoreVerdict
  <2>2. CASE DashboardStep(t)
    BY <2>2 DEF DashboardStep, UserForget, SessionDecide, SessionLift, SessionVerdict,
                MailCheck, MailRelease, MailImage, Lift, WritePolicy, Mark, StoreVerdict
  <2>3. CASE FailCall(t)
    BY <2>3 DEF FailCall
  <2> QED BY <1>1, <2>1, <2>2, <2>3
<1>3. ASSUME NEW e \in Domains, UserDecide(t, e)
      PROVE  e = d /\ policy'[d] \in {UserAllow, UserBlock, NoRule}
  BY <1>3 DEF UserDecide, SystemOK
<1> QED BY <1>2, <1>3 DEF SystemOK

\* An automatic block is only ever written with a verdict that may block, whatever the number
\* of domains, programs and threads, and wherever a cycle fails.
THEOREM BlocksEarned == Spec => AutoBlockEarned
<1> DEFINE Backed == \A d \in Domains :
                     policy'[d] = AutoBlock /\ policy[d] # AutoBlock =>
                       \E r \in Reviewers : /\ dom[r] = d
                                            /\ opinion[r].call = "redSafe"
                                            /\ BlockAgreement(opinion[r])
<1>1. SystemOK /\ ThreadInv /\ [Next]_vars => Backed
  <2> SUFFICES ASSUME SystemOK, ThreadInv, [Next]_vars,
                      NEW d \in Domains, policy'[d] = AutoBlock, policy[d] # AutoBlock
               PROVE  \E r \in Reviewers : /\ dom[r] = d
                                           /\ opinion[r].call = "redSafe"
                                           /\ BlockAgreement(opinion[r])
    OBVIOUS
  <2>1. policy'[d] \notin {UserAllow, UserBlock, NoRule}
    BY DEF UserAllow, UserBlock, NoRule, AutoBlock
  <2>2. PICK t \in Threads : dom[t] = d /\ pc[t] = "policy" /\ plan[t].policy = AutoBlock
    BY <2>1, RuleWritten
  <2> QED BY <2>2 DEF ThreadInv, Earned
<1> QED BY <1>1, Grounds, PTL DEF Spec, AutoBlockEarned

-----------------------------------------------------------------------------
(* The user's decision stands.                                             *)

\* The rule and the decision of d are left alone, and t does not have d in hand.
Spares(t, d) ==
  /\ policy'[d] = policy[d] /\ decision'[d] = decision[d]
  /\ ~InHand(t, d)'

\* What it means that a settled domain is in nobody's hands.
LEMMA SettledFree ==
  ASSUME SystemOK, NEW d \in Domains, Settled(d), NEW t \in Threads
  PROVE  /\ d \notin todo[t] /\ d \notin batch[t]
         /\ dom[t] = d => pc[t] \in {"mail", "mailSource"} \/ (t \in Sessions /\ was[t] \in UserStates)
         /\ decision[d] \in UserStates
         /\ policy[d].source = "pc-user"
<1>1. ~InHand(t, d)
  BY DEF Settled, AtRest
<1>2. /\ decision[d] \in UserStates
      /\ policy[d] = UserAllow \/ policy[d] = UserBlock
  BY DEF Settled, UserStates
<1>3. policy[d].source = "pc-user"
  BY <1>2 DEF UserAllow, UserBlock
<1> QED BY <1>1, <1>2, <1>3 DEF InHand

\* The writes every thread ends in are for other domains.
LEMMA WritesSpare ==
  ASSUME SystemOK, NEW t \in Threads, Earned(t), NEW d \in Domains, Settled(d),
         \/ Lift(t) /\ t \notin Sessions
         \/ WritePolicy(t) \/ Mark(t) \/ StoreVerdict(t)
  PROVE  Spares(t, d)
<1> USE SettledFree
<1>1. CASE Lift(t) /\ t \notin Sessions
  BY <1>1 DEF Lift, Goto, Spares, InHand, SystemOK
<1>2. CASE WritePolicy(t)
  <2>1. dom[t] # d
    BY <1>2 DEF WritePolicy, Earned
  <2> QED BY <1>2, <2>1 DEF WritePolicy, Goto, Spares, InHand, SystemOK
<1>3. CASE Mark(t)
  <2>1. dom[t] # d
    BY <1>3 DEF Mark, Earned
  <2>2. dom'[t] # d
    BY <1>3, ConstantsAssumption DEF Mark, Return, SystemOK
  <2> QED BY <1>3, <2>1, <2>2 DEF Mark, Spares, InHand, SystemOK
<1>4. CASE StoreVerdict(t)
  BY <1>4 DEF StoreVerdict, Goto, Spares, InHand, SystemOK
<1> QED BY <1>1, <1>2, <1>3, <1>4

\* No review, regate or guard takes up a settled domain.
LEMMA ReviewSpares ==
  ASSUME SystemOK, NEW r \in Reviewers, Earned(r), NEW d \in Domains, Settled(d),
         ReviewStep(r) \/ FailCycle(r)
  PROVE  Spares(r, d)
<1>0. /\ r \in Threads /\ r \notin Sessions
      /\ d \notin todo[r] /\ d \notin batch[r]
      /\ dom[r] = d => pc[r] \in {"mail", "mailSource"}
      /\ decision[d] \in UserStates
  BY KindsAssumption, SettledFree
<1>1. CASE StartRegate(r)
  BY <1>0, <1>1 DEF StartRegate, Kept, Goto, Spares, InHand, SystemOK, UserStates
<1>2. CASE StartReview(r)
  <2>1. \A S \in SUBSET {e \in Domains : Candidate(e)} : d \notin S
    BY <1>0 DEF Candidate
  <2> QED BY <1>0, <1>2, <2>1 DEF StartReview, Goto, Spares, InHand, SystemOK
<1>3. CASE TriageProtected(r)
  BY <1>0, <1>3 DEF TriageProtected, Goto, Means, Spares, InHand, SystemOK
<1>4. CASE BuildPackets(r)
  BY <1>0, <1>4 DEF BuildPackets, Goto, Spares, InHand, SystemOK
<1>5. CASE Court(r)
  BY <1>0, <1>5 DEF Court, Goto, Spares, InHand, SystemOK
<1>6. CASE NoCourt(r)
  BY <1>0, <1>6 DEF NoCourt, Goto, Spares, InHand, SystemOK
<1>7. CASE Decide(r)
  <2>1. dom'[r] = dom[r] \/ dom'[r] = NoDomain
    BY <1>0, <1>7 DEF Decide, Return, SystemOK
  <2>2. dom[r] # d /\ UNCHANGED <<policy, decision, todo, batch>>
    BY <1>0, <1>7 DEF Decide
  <2> QED BY <1>0, <2>1, <2>2, ConstantsAssumption DEF Spares, InHand
<1>8. CASE NextBatch(r)
  BY <1>0, <1>8 DEF NextBatch, Goto, Spares, InHand, SystemOK
<1>9. CASE StartGuard(r)
  BY <1>0, <1>9 DEF StartGuard, Goto, Spares, InHand, SystemOK, UserStates
<1>10. CASE EndCycle(r)
  BY <1>0, <1>10 DEF EndCycle, Reset, Goto, Spares, InHand, SystemOK
<1>11. ASSUME NEW e \in Domains, Regate(r, e) PROVE Spares(r, d)
  BY <1>0, <1>11 DEF Regate, Take, Work, Goto, Spares, InHand, SystemOK
<1>12. ASSUME NEW e \in Domains, Triage(r, e) PROVE Spares(r, d)
  BY <1>0, <1>12 DEF Triage, Take, Work, Goto, Spares, InHand, SystemOK
<1>13. ASSUME NEW e \in Domains, Rule(r, e) PROVE Spares(r, d)
  BY <1>0, <1>13 DEF Rule, Take, Work, Goto, Spares, InHand, SystemOK
<1>14. ASSUME NEW e \in Domains, Guard(r, e) PROVE Spares(r, d)
  BY <1>0, <1>14 DEF Guard, Take, Work, Goto, Spares, InHand, SystemOK
<1>15. CASE FailCycle(r)
  <2>1. policy'[d] = policy[d] /\ decision'[d] = decision[d]
    BY <1>0, <1>15 DEF FailCycle, SystemOK
  <2>2. dom'[r] = NoDomain /\ todo'[r] = {} /\ batch'[r] = {}
    BY <1>0, <1>15 DEF FailCycle, Reset, SystemOK
  <2> QED BY <2>1, <2>2, ConstantsAssumption DEF Spares, InHand
<1>16. CASE Lift(r) \/ WritePolicy(r) \/ Mark(r) \/ StoreVerdict(r)
  BY <1>0, <1>16, WritesSpare
<1> QED BY <1>1, <1>2, <1>3, <1>4, <1>5, <1>6, <1>7, <1>8, <1>9, <1>10, <1>11, <1>12, <1>13,
           <1>14, <1>15, <1>16 DEF ReviewStep

\* The dashboard and mail threads leave a settled domain alone, but for the user's next
\* decision on it.
LEMMA DashboardSpares ==
  ASSUME SystemOK, NEW t \in Threads, Earned(t), NEW d \in Domains, Settled(d),
         DashboardStep(t) \/ FailCall(t)
  PROVE  Spares(t, d) \/ (t \in Users /\ dom'[t] = d /\ pc[t] = "idle")
<1>0. /\ d \notin todo[t] /\ d \notin batch[t]
      /\ dom[t] = d => pc[t] \in {"mail", "mailSource"} \/ (t \in Sessions /\ was[t] \in UserStates)
      /\ decision[d] \in UserStates
  BY SettledFree
<1>1. CASE t \in Users /\ UserForget(t)
  BY <1>0, <1>1, KindsAssumption DEF UserForget, Goto, Spares, InHand, SystemOK
<1>2. ASSUME t \in Users, NEW e \in Domains, UserDecide(t, e)
      PROVE  Spares(t, d) \/ (dom'[t] = d /\ pc[t] = "idle")
  <2>1. dom'[t] = e /\ pc[t] = "idle"
    BY <1>2 DEF UserDecide, Work, SystemOK
  <2>2. CASE e # d
    BY <1>0, <1>2, <2>1, <2>2 DEF UserDecide, Spares, InHand, SystemOK
  <2> QED BY <2>1, <2>2
<1>3. CASE t \in Sessions /\ SessionDecide(t)
  <2>1. dom'[t] = NoDomain \/ (dom'[t] = dom[t] /\ was[t] \notin UserStates)
    BY <1>3 DEF SessionDecide, Return, SystemOK
  <2>2. UNCHANGED <<policy, decision, todo, batch>> /\ pc[t] = "session"
    BY <1>3 DEF SessionDecide
  <2> QED BY <1>0, <2>1, <2>2, ConstantsAssumption DEF Spares, InHand
<1>4. CASE SessionLift(t)
  BY <1>0, <1>4 DEF SessionLift, Earned, Goto, Spares, InHand, SystemOK
<1>5. ASSUME t \in Sessions, NEW e \in Domains, SessionVerdict(t, e) PROVE Spares(t, d)
  <2>1. dom'[t] = e /\ was'[t] = decision[e]
    BY <1>5 DEF SessionVerdict, Work, SystemOK
  <2>2. UNCHANGED <<policy, decision, todo, batch>>
    BY <1>5 DEF SessionVerdict
  <2> QED BY <1>0, <1>5, <2>1, <2>2 DEF Spares, InHand
<1>6. CASE MailRelease(t)
  <2>1. UNCHANGED <<policy, decision, todo, batch>>
    BY <1>6 DEF MailRelease
  <2>2. CASE policy[dom[t]].source # "pc-user"
    <3>1. dom[t] # d
      BY <2>2, SettledFree
    <3>2. dom' = dom
      BY <1>6, <2>2 DEF MailRelease
    <3> QED BY <1>0, <2>1, <3>1, <3>2 DEF Spares, InHand
  <2>3. CASE policy[dom[t]].source = "pc-user"
    <3>1. dom'[t] = NoDomain
      BY <1>6, <2>3 DEF MailRelease, Return, SystemOK
    <3> QED BY <1>0, <2>1, <3>1, ConstantsAssumption DEF Spares, InHand
  <2> QED BY <2>2, <2>3
<1>7. ASSUME NEW e \in Domains, MailImage(t, e) PROVE Spares(t, d)
  <2>1. pc'[t] = "mail" /\ UNCHANGED <<policy, decision, todo, batch>>
    BY <1>7 DEF MailImage, Goto, SystemOK
  <2> QED BY <1>0, <2>1 DEF Spares, InHand
<1>8. CASE \/ Lift(t) /\ t \in Mailers
           \/ StoreVerdict(t) \/ WritePolicy(t) \/ Mark(t)
  BY <1>8, WritesSpare, KindsAssumption
<1>9. CASE MailCheck(t)
  <2>1. dom'[t] = NoDomain \/ (dom'[t] = dom[t] /\ pc'[t] = "mailSource")
    BY <1>9 DEF MailCheck, Return, Goto, SystemOK
  <2>2. UNCHANGED <<policy, decision, todo, batch>>
    BY <1>9 DEF MailCheck
  <2> QED BY <1>0, <2>1, <2>2, ConstantsAssumption DEF Spares, InHand
<1>10. CASE FailCall(t)
  <2>1. dom'[t] = NoDomain /\ UNCHANGED <<decision, todo, batch>>
    BY <1>10 DEF FailCall, Return, SystemOK
  <2>2. policy'[d] = policy[d]
    <3>1. CASE pc[t] = "policy"
      <4>1. dom[t] # d
        BY <1>0, <3>1 DEF Earned
      <4> QED BY <1>10, <4>1 DEF FailCall, SystemOK
    <3>2. CASE pc[t] # "policy"
      BY <1>10, <3>2 DEF FailCall
    <3> QED BY <3>1, <3>2
  <2> QED BY <1>0, <2>1, <2>2, ConstantsAssumption DEF Spares, InHand
<1> QED BY <1>1, <1>2, <1>3, <1>4, <1>5, <1>6, <1>7, <1>8, <1>9, <1>10 DEF DashboardStep

\* If the thread that moves spares d, d is as settled as it was.
LEMMA SparedSettled ==
  ASSUME NEW d \in Domains, Settled(d), NEW t \in Threads, Others(t), Spares(t, d)
  PROVE  Settled(d)' /\ policy'[d] = policy[d]
<1>1. ASSUME NEW u \in Threads PROVE ~InHand(u, d)'
  <2>1. CASE u = t
    BY <2>1 DEF Spares
  <2>2. CASE u # t
    <3>1. ~InHand(u, d)
      BY DEF Settled, AtRest
    <3> QED BY <2>2, <3>1 DEF Others, InHand
  <2> QED BY <2>1, <2>2
<1>2. policy'[d] = policy[d] /\ decision'[d] = decision[d]
  BY DEF Spares
<1> QED BY <1>1, <1>2 DEF Settled, AtRest, UserAllow, UserBlock

\* Once settled, the user's decision outlives every other thread, in every instance.
THEOREM DecisionsStand == Spec => SettledDecisionStands
<1> DEFINE Stands == \A d \in Domains :
                     Settled(d) => \/ Settled(d)' /\ policy'[d] = policy[d]
                                   \/ \E u \in Users : dom'[u] = d /\ pc[u] = "idle"
<1>1. SystemOK /\ ThreadInv /\ [Next]_vars => Stands
  <2> SUFFICES ASSUME SystemOK, ThreadInv, [Next]_vars, NEW d \in Domains, Settled(d)
               PROVE  \/ Settled(d)' /\ policy'[d] = policy[d]
                      \/ \E u \in Users : dom'[u] = d /\ pc[u] = "idle"
    OBVIOUS
  <2>1. ASSUME NEW r \in Reviewers, ReviewStep(r) \/ FailCycle(r)
        PROVE  Settled(d)' /\ policy'[d] = policy[d]
    <3>1. Spares(r, d)
      BY <2>1, ReviewSpares DEF ThreadInv
    <3> QED BY <2>1, <3>1, ReviewOthers, SparedSettled
  <2>2. ASSUME NEW t \in Threads, DashboardStep(t) \/ FailCall(t)
        PROVE  \/ Settled(d)' /\ policy'[d] = policy[d]
               \/ \E u \in Users : dom'[u] = d /\ pc[u] = "idle"
    <3>1. CASE Spares(t, d)
      BY <2>2, <3>1, DashboardOthers, SparedSettled
    <3> QED BY <2>2, <3>1, DashboardSpares DEF ThreadInv
  <2>3. CASE Resting /\ UNCHANGED <<policy, verdict, decision, failures>>
    BY <2>3 DEF Resting, Settled, AtRest, InHand
  <2> QED BY <2>1, <2>2, <2>3, WhoMoves
<1> QED BY <1>1, Grounds, PTL DEF Spec, SettledDecisionStands

-----------------------------------------------------------------------------
(* Two writes under two locks: the rule, then the mark. What a thread that *)
(* nobody interrupts leaves behind fits; the invariant is of the thread    *)
(* between its writes, and of each domain no thread is at that point with. *)

\* A rule that is what the state written after it says.
Fits(p, s) ==
  /\ s \in {"auto-blocked", "user-blocked", "session-blocked"} => p.action = "block"
  /\ s = "user-allowed" => p = UserAllow
  /\ s = "guard-released" => p.action # "block"

\* Where a thread has a domain in its locals.
Acting == {"guarded", "store", "decide", "lift", "policy", "mark", "forget",
           "session", "sessionLift", "mail", "mailSource"}

Written(t) ==
  /\ pc[t] \in Acting => dom[t] \in Domains
  /\ pc[t] = "policy" => Fits(plan[t].policy, plan[t].state)
  /\ pc[t] = "sessionLift" => plan[t].state \in {"red-kept", "watching"}
  /\ Halfway(t) /\ t \notin cut => Fits(policy[dom[t]], plan[t].state)

Bound(d) == \/ d \in torn \/ Fits(policy[d], decision[d])
            \/ \E t \in Threads : dom[t] = d /\ Halfway(t)

WholeInv == (\A t \in Threads : Written(t)) /\ \A d \in Domains : Bound(d)

\* A thread writes a rule, then a mark, and each for the domain it has at hand.
LEMMA TwoWrites ==
  ASSUME SystemOK, NEW t \in Threads, Earned(t),
         (t \in Reviewers /\ (ReviewStep(t) \/ FailCycle(t))) \/ DashboardStep(t) \/ FailCall(t)
  PROVE  /\ \/ policy' = policy
            \/ pc[t] = "policy"
            \/ \E d \in Domains : /\ UserDecide(t, d) /\ dom'[t] = d /\ Halfway(t)'
                                  /\ \A e \in Domains : e # d => policy'[e] = policy[e]
         /\ pc[t] = "policy" => policy' = [policy EXCEPT ![dom[t]] = plan[t].policy]
         /\ \/ decision' = decision
            \/ pc[t] = "mark" /\ \A d \in Domains : d # dom[t] => decision'[d] = decision[d]
         /\ pc[t] = "policy" \/ Halfway(t) => (dom'[t] = dom[t] /\ Halfway(t)') \/ dom'[t] = NoDomain
<1>1. CASE t \in Reviewers /\ ReviewStep(t)
  <2>1. CASE WritePolicy(t)
    BY <2>1 DEF WritePolicy, Halfway, Goto, SystemOK
  <2>2. CASE Mark(t)
    BY <2>2 DEF Mark, Return, Halfway, SystemOK
  <2>3. CASE ~WritePolicy(t) /\ ~Mark(t)
    BY <1>1, <2>3 DEF Halfway, ReviewStep, StartRegate, StartReview, TriageProtected, BuildPackets, Court,
         NoCourt, Decide, NextBatch, StartGuard, EndCycle, Regate, Triage, Rule, Guard, Lift, StoreVerdict
  <2> QED BY <2>1, <2>2, <2>3
<1>2. CASE FailCycle(t)
  BY <1>2 DEF FailCycle, Halfway, SystemOK
<1>3. CASE FailCall(t)
  BY <1>3 DEF FailCall, Return, Halfway, SystemOK
<1>4. CASE DashboardStep(t)
  <2>1. CASE WritePolicy(t)
    BY <2>1 DEF WritePolicy, Halfway, Goto, SystemOK
  <2>2. CASE Mark(t)
    BY <2>2 DEF Mark, Return, Halfway, SystemOK
  <2>3. ASSUME NEW d \in Domains, UserDecide(t, d)
        PROVE  /\ pc[t] = "idle" /\ UserDecide(t, d) /\ dom'[t] = d /\ Halfway(t)' /\ decision' = decision
               /\ \A e \in Domains : e # d => policy'[e] = policy[e]
    BY <2>3 DEF UserDecide, Work, Goto, Halfway, SystemOK
  <2>4. CASE UserForget(t)
    BY <2>4 DEF UserForget, Goto, Halfway, SystemOK
  <2>5. CASE \/ SessionDecide(t) \/ SessionLift(t) \/ StoreVerdict(t) \/ MailCheck(t) \/ MailRelease(t) \/ Lift(t)
             \/ \E d \in Domains : SessionVerdict(t, d) \/ MailImage(t, d)
    BY <2>5 DEF SessionDecide, SessionLift, StoreVerdict, MailCheck, MailRelease, Lift, SessionVerdict, MailImage,
         Halfway
  <2>6. CASE \E d \in Domains : UserDecide(t, d)
    BY <2>3, <2>6 DEF Halfway
  <2> QED BY <1>4, <2>1, <2>2, <2>4, <2>5, <2>6 DEF DashboardStep
<1> QED BY <1>1, <1>2, <1>3, <1>4

\* Outside of its handlers a thread is not between its writes.
LEMMA Elsewhere ==
  ASSUME NEW t \in Threads, pc'[t] \notin Acting
  PROVE  Written(t)'
BY DEF Written, Acting, Halfway

\* A thread that goes on to where nothing is written yet.
LEMMA BeforeWriting ==
  ASSUME NEW t \in Threads, dom'[t] \in Domains, pc'[t] \notin {"policy", "mark", "forget", "sessionLift"}
  PROVE  Written(t)'
BY DEF Written, Halfway

\* Where decisions are done a thread has no domain.
LEMMA Returned ==
  ASSUME SystemOK, NEW t \in Threads, Earned(t), Return(t)
  PROVE  Written(t)'
<1>1. pc'[t] \notin Acting
  BY DEF Return, Goto, Earned, SystemOK, Acting
<1> QED BY <1>1, Elsewhere

\* The writes every thread ends in.
LEMMA WritesWhole ==
  ASSUME SystemOK, NEW t \in Threads, Earned(t), Written(t),
         Lift(t) \/ WritePolicy(t) \/ Mark(t) \/ StoreVerdict(t)
  PROVE  Written(t)'
<1>1. CASE Lift(t)
  <2>1. /\ pc[t] = "lift" /\ pc'[t] = (IF policy[dom[t]].action = "block" THEN "policy" ELSE "mark")
        /\ plan'[t] = [policy |-> GuardOpen, state |-> "guard-released"]
        /\ policy' = policy /\ dom' = dom
    BY <1>1 DEF Lift, Goto, Means, Blocked, SystemOK
  <2>2. dom[t] \in Domains
    BY <2>1 DEF Written, Acting
  <2>3. Fits(plan'[t].policy, plan'[t].state)
    BY <2>1 DEF Fits, GuardOpen
  <2>4. pc'[t] = "mark" => Fits(policy'[dom'[t]], plan'[t].state)
    BY <2>1 DEF Fits
  <2> QED BY <2>1, <2>2, <2>3, <2>4 DEF Written, Halfway
<1>2. CASE WritePolicy(t)
  <2>1. pc[t] = "policy" /\ pc'[t] = "mark" /\ dom' = dom /\ plan' = plan /\ dom[t] \in Domains
    BY <1>2 DEF WritePolicy, Goto, SystemOK, Written, Acting
  <2>2. policy'[dom[t]] = plan[t].policy
    BY <1>2, <2>1 DEF WritePolicy, SystemOK
  <2>3. Fits(policy'[dom'[t]], plan'[t].state)
    BY <2>1, <2>2 DEF Written, Fits
  <2> QED BY <2>1, <2>3 DEF Written, Fits
<1>3. CASE Mark(t)
  BY <1>3, Returned DEF Mark
<1>4. CASE StoreVerdict(t)
  <2>1. pc[t] = "store" /\ pc'[t] \in {"session", "decide"} /\ dom' = dom
    BY <1>4 DEF StoreVerdict, Goto, SystemOK
  <2> QED BY <2>1, BeforeWriting DEF Written, Acting
<1> QED BY <1>1, <1>2, <1>3, <1>4

\* A review plans the rule with the state.
LEMMA ReviewWhole ==
  ASSUME SystemOK, NEW r \in Reviewers, Earned(r), Written(r), ReviewStep(r) \/ FailCycle(r)
  PROVE  Written(r)'
<1>0. r \in Threads
  OBVIOUS
<1>1. CASE \/ StartRegate(r) \/ StartReview(r) \/ BuildPackets(r) \/ Court(r) \/ NoCourt(r) \/ NextBatch(r)
           \/ StartGuard(r) \/ EndCycle(r) \/ FailCycle(r)
  <2>1. pc'[r] \in {"regate", "triage", "court", "rule", "guard", "idle"}
    BY <1>1 DEF StartRegate, StartReview, BuildPackets, Court, NoCourt, NextBatch, StartGuard, EndCycle, FailCycle,
         Goto, SystemOK
  <2> QED BY <2>1, Elsewhere DEF Acting
<1>2. ASSUME NEW d \in Domains, Regate(r, d) \/ Triage(r, d) \/ Rule(r, d) \/ Guard(r, d)
      PROVE  Written(r)'
  <2>1. \/ pc'[r] \in {"decide", "guarded", "store", "lift"} /\ dom'[r] = d
        \/ pc'[r] \in {"regate", "triage", "guard"}
    BY <1>2 DEF Regate, Triage, Rule, Guard, Work, Goto, SystemOK
  <2> QED BY <2>1, BeforeWriting, Elsewhere DEF Acting
<1>3. CASE TriageProtected(r)
  <2>1. /\ pc[r] = "guarded" /\ pc'[r] \in {"lift", "mark"} /\ dom' = dom /\ plan'[r].state = "protected"
    BY <1>3 DEF TriageProtected, Goto, Means, SystemOK
  <2> QED BY <2>1 DEF Written, Fits, Acting
<1>4. CASE Decide(r)
  <2>1. CASE Return(r)
    BY <2>1, Returned
  <2>2. CASE ~Return(r)
    <3> DEFINE s == Outcome(dom[r], callers[dom[r]], opinion[r])
    <3>1. /\ pc[r] = "decide" /\ dom' = dom
          /\ plan'[r] = [policy |-> IF s = "auto-blocked" THEN AutoBlock ELSE NoRule, state |-> s]
          /\ pc'[r] = (IF s = "auto-blocked" THEN "policy" ELSE "mark")
      BY <1>4, <2>2 DEF Decide, Goto, Means, SystemOK
    <3>2. s \in {"watching", "red-kept", "auto-blocked"}
      BY OutcomeType
    <3> HIDE DEF s
    <3> QED BY <3>1, <3>2 DEF Written, Fits, Acting, Halfway, AutoBlock
  <2> QED BY <2>1, <2>2
<1>5. CASE Lift(r) \/ WritePolicy(r) \/ Mark(r) \/ StoreVerdict(r)
  BY <1>5, WritesWhole
<1> QED BY <1>1, <1>2, <1>3, <1>4, <1>5 DEF ReviewStep

\* So do the user, a session and the mail watcher.
LEMMA DashboardWhole ==
  ASSUME SystemOK, NEW t \in Threads, Earned(t), Written(t), DashboardStep(t) \/ FailCall(t),
         Halfway(t)' /\ t \in cut => t \in cut'
  PROVE  Written(t)'
<1>1. ASSUME NEW d \in Domains, UserDecide(t, d) PROVE Written(t)'
  <2>1. PICK choice \in {[policy |-> UserAllow, state |-> "user-allowed"],
                         [policy |-> UserBlock, state |-> "user-blocked"],
                         [policy |-> NoRule,    state |-> "watching"]} :
          /\ policy' = [policy EXCEPT ![d] = choice.policy] /\ plan' = [plan EXCEPT ![t] = choice]
          /\ Goto(t, IF choice.policy = NoRule THEN "forget" ELSE "mark")
    BY <1>1 DEF UserDecide
  <2>2. /\ pc'[t] \in {"forget", "mark"} /\ dom'[t] = d /\ plan'[t] = choice /\ policy'[d] = choice.policy
    BY <1>1, <2>1 DEF UserDecide, Work, Goto, SystemOK
  <2>3. Fits(choice.policy, choice.state)
    BY DEF Fits, UserAllow, UserBlock
  <2> QED BY <2>2, <2>3 DEF Written
<1>2. CASE UserForget(t)
  <2>1. /\ pc[t] = "forget" /\ pc'[t] = "mark" /\ dom' = dom /\ plan' = plan /\ policy' = policy
    BY <1>2 DEF UserForget, Goto, SystemOK
  <2>2. dom[t] \in Domains /\ (t \notin cut => Fits(policy[dom[t]], plan[t].state))
    BY <2>1 DEF Written, Acting, Halfway
  <2>3. t \notin cut' => t \notin cut
    BY <2>1 DEF Halfway
  <2> QED BY <2>1, <2>2, <2>3 DEF Written, Fits
<1>3. CASE SessionDecide(t)
  <2>1. CASE was[t] \in UserStates
    BY <1>3, <2>1, Returned DEF SessionDecide
  <2>2. CASE was[t] \notin UserStates
    <3>1. /\ pc[t] = "session" /\ dom' = dom
          /\ \/ plan'[t].state \in {"protected", "red-kept"} /\ pc'[t] = "mark"
             \/ plan'[t] = [policy |-> SessionBlock, state |-> "session-blocked"] /\ pc'[t] = "policy"
             \/ plan'[t].state \in {"red-kept", "watching"} /\ pc'[t] = "sessionLift"
      BY <1>3, <2>2 DEF SessionDecide, Means, Goto, SystemOK
    <3> QED BY <3>1 DEF Written, Fits, Acting, Halfway, SessionBlock
  <2> QED BY <2>1, <2>2
<1>4. CASE SessionLift(t)
  <2>1. /\ pc[t] = "sessionLift" /\ pc'[t] \in {"policy", "mark"} /\ dom' = dom /\ plan' = plan
    BY <1>4 DEF SessionLift, Goto, SystemOK
  <2> QED BY <2>1 DEF Written, Fits, Acting
<1>5. ASSUME NEW d \in Domains, SessionVerdict(t, d) \/ MailImage(t, d) PROVE Written(t)'
  <2>1. pc'[t] \in {"store", "mail"} /\ dom'[t] = d
    BY <1>5 DEF SessionVerdict, MailImage, Work, Goto, SystemOK
  <2> QED BY <2>1, BeforeWriting
<1>6. CASE MailCheck(t) \/ MailRelease(t)
  <2>1. CASE Return(t)
    BY <2>1, Returned
  <2>2. CASE ~Return(t)
    <3>1. pc[t] \in {"mail", "mailSource"} /\ pc'[t] \in {"mailSource", "lift"} /\ dom' = dom
      BY <1>6, <2>2 DEF MailCheck, MailRelease, Goto, SystemOK
    <3> QED BY <3>1, BeforeWriting DEF Written, Acting
  <2> QED BY <2>1, <2>2
<1>7. CASE StoreVerdict(t) \/ Lift(t) \/ WritePolicy(t) \/ Mark(t)
  BY <1>7, WritesWhole
<1>8. CASE FailCall(t)
  BY <1>8, Returned DEF FailCall
<1> QED BY <1>1, <1>2, <1>3, <1>4, <1>5, <1>6, <1>7, <1>8 DEF DashboardStep

\* A thread that another one's step leaves alone: only a rule that it had written may be changed.
LEMMA OtherWhole ==
  ASSUME NEW t \in Threads, Others(t), NEW u \in Threads \ {t}, Written(u), Noted
  PROVE  Written(u)'
<1>1. pc'[u] = pc[u] /\ dom'[u] = dom[u] /\ plan'[u] = plan[u]
  BY DEF Others
<1>2. Halfway(u)' /\ u \notin cut' => /\ Halfway(u) /\ u \notin cut
                                   /\ policy'[dom[u]] = policy[dom[u]]
  BY <1>1 DEF Noted, Interrupted, Halfway
<1> QED BY <1>1, <1>2 DEF Written, Fits

\* What a domain says of itself after a step of t.
LEMMA BoundStays ==
  ASSUME SystemOK, NEW t \in Threads, Others(t), Earned(t), Written(t), Noted,
         (t \in Reviewers /\ (ReviewStep(t) \/ FailCycle(t))) \/ DashboardStep(t) \/ FailCall(t),
         NEW d \in Domains, Bound(d)
  PROVE  Bound(d)'
<1>0. ASSUME NEW u \in Threads \ {t} PROVE dom'[u] = dom[u] /\ pc'[u] = pc[u] /\ plan'[u] = plan[u]
  BY <1>0 DEF Others
<1>1. d \in torn' <=> IF Ends(t, d) THEN t \in cut \/ Unmarked(t, d) ELSE d \in torn
  <2>1. \A u \in Threads : Ends(u, d) => u = t
    BY <1>0 DEF Ends
  <2> QED BY <2>1 DEF Noted
<1>2. CASE Ends(t, d)
  <2>1. CASE t \in cut \/ Unmarked(t, d)
    BY <1>1, <1>2, <2>1 DEF Bound
  <2>2. CASE t \notin cut /\ ~Unmarked(t, d)
    <3>1. dom[t] = d /\ decision'[d] = plan[t].state
      BY <1>2, <2>2 DEF Ends, Unmarked
    <3>2. CASE pc[t] = "policy"
      <4>1. policy'[d] = plan[t].policy
        BY <3>1, <3>2, TwoWrites DEF SystemOK
      <4> QED BY <3>1, <3>2, <4>1 DEF Written, Bound, Fits
    <3>3. CASE Halfway(t)
      <4>1. policy' = policy
        BY <3>3, TwoWrites DEF Halfway, UserDecide
      <4> QED BY <2>2, <3>1, <3>3, <4>1 DEF Written, Bound, Fits
    <3> QED BY <1>2, <3>2, <3>3 DEF Ends
  <2> QED BY <2>1, <2>2
<1>3. CASE ~Ends(t, d)
  <2>1. CASE d \in torn
    BY <1>1, <1>3, <2>1 DEF Bound
  <2>2. CASE \E w \in Threads : dom[w] = d /\ Halfway(w)
    <3>1. PICK w \in Threads : dom[w] = d /\ Halfway(w)
      BY <2>2
    <3>2. dom'[w] = d /\ Halfway(w)'
      <4>1. CASE w = t
        <5>1. dom'[t] = d
          BY <1>3, <3>1, <4>1 DEF Ends
        <5> QED BY <3>1, <4>1, <5>1, ConstantsAssumption, TwoWrites
      <4>2. CASE w # t
        BY <1>0, <3>1, <4>2 DEF Halfway
      <4> QED BY <4>1, <4>2
    <3> QED BY <3>2 DEF Bound
  <2>3. CASE Fits(policy[d], decision[d]) /\ ~(dom[t] = d /\ Halfway(t))
    <3>1. decision'[d] = decision[d]
      BY <2>3, TwoWrites DEF Halfway
    <3>2. CASE policy'[d] = policy[d]
      BY <2>3, <3>1, <3>2 DEF Bound, Fits
    <3>3. CASE policy'[d] # policy[d] /\ pc[t] = "policy"
      <4>1. dom[t] = d
        BY <3>3, TwoWrites DEF SystemOK
      <4>2. dom'[t] = d
        BY <1>3, <3>3, <4>1 DEF Ends
      <4> QED BY <3>3, <4>2, ConstantsAssumption, TwoWrites DEF Bound
    <3>4. CASE policy'[d] # policy[d] /\ pc[t] # "policy"
      BY <3>4, TwoWrites DEF Bound
    <3> QED BY <3>2, <3>3, <3>4
  <2> QED BY <2>1, <2>2, <2>3 DEF Bound
<1> QED BY <1>2, <1>3

\* In every state, of every thread.
LEMMA Whole == Spec => [](SystemOK /\ ThreadInv /\ WholeInv)
<1>1. Init => WholeInv
  BY DEF Init, WholeInv, Written, Bound, Fits, Acting, Halfway
<1>2. SystemOK /\ ThreadInv /\ WholeInv /\ [Next]_vars => WholeInv'
  <2> SUFFICES ASSUME SystemOK, ThreadInv, WholeInv, [Next]_vars PROVE WholeInv'
    OBVIOUS
  <2>1. CASE UNCHANGED vars
    BY <2>1 DEF vars, system, WholeInv, Written, Bound, Fits, Halfway
  <2>2. CASE Resting /\ UNCHANGED <<policy, verdict, decision, failures>> /\ Noted
    <3>1. \A t \in Threads : (Halfway(t)' <=> Halfway(t)) /\ ~Interrupted(t)
      BY <2>2 DEF Resting, Halfway, Interrupted
    <3>2. cut' = {t \in Threads : Halfway(t) /\ t \in cut}
      BY <2>2, <3>1 DEF Noted
    <3>3. torn' = {d \in Domains : d \in torn}
      BY <2>2 DEF Noted, Ends, Resting
    <3>4. ASSUME NEW t \in Threads PROVE Written(t)'
      <4>1. Written(t)
        BY DEF WholeInv
      <4> QED BY <2>2, <3>1, <3>2, <4>1 DEF Resting, Written, Fits
    <3>5. ASSUME NEW d \in Domains PROVE Bound(d)'
      <4>1. Bound(d)
        BY DEF WholeInv
      <4> QED BY <2>2, <3>1, <3>3, <4>1 DEF Resting, Bound, Fits
    <3> QED BY <3>4, <3>5 DEF WholeInv
  <2>3. ASSUME NEW t \in Threads, Noted,
               (t \in Reviewers /\ (ReviewStep(t) \/ FailCycle(t))) \/ DashboardStep(t) \/ FailCall(t)
        PROVE  WholeInv'
    <3>1. Others(t) /\ Earned(t) /\ Written(t)
      BY <2>3, ReviewOthers, DashboardOthers DEF ThreadInv, WholeInv
    <3>2. Written(t)'
      <4>1. Halfway(t)' /\ t \in cut => t \in cut'
        BY <2>3 DEF Noted
      <4> QED BY <2>3, <3>1, <4>1, ReviewWhole, DashboardWhole
    <3>3. \A u \in Threads \ {t} : Written(u)'
      BY <2>3, <3>1, OtherWhole DEF WholeInv
    <3>4. \A d \in Domains : Bound(d)'
      BY <2>3, <3>1, BoundStays DEF WholeInv
    <3> QED BY <3>2, <3>3, <3>4 DEF WholeInv
  <2>4. UNCHANGED vars \/ Noted
    BY DEF Next
  <2> QED BY <2>1, <2>2, <2>3, <2>4, WhoMoves
<1> QED BY <1>1, <1>2, Grounds, PTL DEF Spec

\* What a domain's entry says is what the resolver does with it, whatever the threads and whatever fails,
\* but for a domain whose last decision another thread or an exception came into the middle of.
THEOREM Enforcing == Spec => []DecisionsEnforced
<1>1. WholeInv => DecisionsEnforced
  BY DEF WholeInv, Bound, Fits, DecisionsEnforced, Blocked
<1> QED BY <1>1, Whole, PTL

-----------------------------------------------------------------------------
(* While one thread has a domain in hand, and none failed with it: a mark  *)
(* of the review has a verdict behind it, and what the guard has opened    *)
(* stays open. The two need one invariant: of the rule and the mark of     *)
(* each domain, of the thread that is between writing the one and the      *)
(* other, and of the lists and copies it works from. What it says of a     *)
(* thread is said of the domains of a set S: those no other thread has.    *)

\* A verdict that may block.
Earns(v) == v.call = "redSafe" /\ BlockAgreement(v)

\* What the guard has opened and nothing can block again once d is in state s.
Spent(d, s) ==
  \/ s = "guard-released" \/ d \in Operational
  \/ verdict[d].court = "session" /\ ~(s = "red-kept" /\ verdict[d].call = "redSafe")

\* A thread that is to overwrite a mark of the review.
Mending(t) == \/ pc[t] \in {"decide", "session", "sessionLift"}
              \/ pc[t] \in {"policy", "mark"} /\ plan[t].state # "auto-blocked"

\* A regate and what it copied.
InRegate(t) == pc[t] = "regate" \/ (back[t] = "regate" /\ pc[t] \in {"decide", "policy", "mark"})

Lists(t, S) ==
  /\ pc[t] = "idle" \/ t \notin Reviewers => todo[t] = {} /\ batch[t] = {}
  /\ todo[t] \cap batch[t] = {}
  /\ pc[t] \in Acting => dom[t] \in Domains /\ dom[t] \notin todo[t] \cup batch[t]
  /\ t \notin Reviewers => back[t] = "idle"
  /\ t \in Reviewers /\ pc[t] \in {"store", "decide", "lift", "policy", "mark"} => back[t] # "idle"
  /\ pc[t] \in {"store", "lift"} => back[t] # "regate"
  /\ pc[t] \in {"session", "sessionLift"} => t \in Sessions
  /\ pc[t] = "forget" => t \in Users
  /\ InRegate(t) => batch[t] = {} /\ \A d \in todo[t] \cap S : held[t][d] = verdict[d]

Opened(t, S) ==
  /\ \A d \in (todo[t] \cup batch[t]) \cap S : policy[d] = GuardOpen => d \in Operational
  /\ pc[t] \in {"guarded", "store", "decide"} /\ t \notin Sessions /\ dom[t] \in S =>
       (policy[dom[t]] = GuardOpen => dom[t] \in Operational)

Writes(t, S) == dom[t] \in S =>
  /\ pc[t] = "policy" => /\ Fits(plan[t].policy, plan[t].state)
                         /\ plan[t].policy = GuardOpen => plan[t].state = "guard-released"
                         /\ plan[t].policy = AutoBlock => policy[dom[t]] # GuardOpen
  /\ pc[t] \in {"mark", "forget"} => Fits(policy[dom[t]], plan[t].state)
  /\ pc[t] = "mark" /\ policy[dom[t]] = GuardOpen => Spent(dom[t], plan[t].state)
  /\ pc[t] \in {"policy", "mark"} /\ plan[t].state = "auto-blocked" => Earns(verdict[dom[t]])
  /\ pc[t] = "forget" => policy[dom[t]] = NoRule /\ plan[t].state = "watching"

Opinions(t, S) == dom[t] \in S =>
  /\ pc[t] \in {"decide", "session"} => opinion[t] = verdict[dom[t]]
  /\ t \in Sessions /\ pc[t] \in {"store", "session"} =>
       was[t] = decision[dom[t]] /\ opinion[t].court = "session"
  /\ pc[t] = "sessionLift" => /\ verdict[dom[t]].court = "session" /\ verdict[dom[t]].call # "redSafe"
                              /\ plan[t].state \in {"red-kept", "watching"}

Turn(t, S) == Lists(t, S) /\ Opened(t, S) /\ Writes(t, S) /\ Opinions(t, S)

\* Of a domain, but for the thread that has it in hand: its mark says what its rule is, an
\* automatic one has a verdict behind it, and what the guard opened is spent.
Facts(t, d) ==
  /\ Fits(policy[d], decision[d]) \/ (dom[t] = d /\ pc[t] \in {"mark", "forget"})
  /\ decision[d] = "auto-blocked" => Earns(verdict[d]) \/ (dom[t] = d /\ Mending(t))
  /\ policy[d] = GuardOpen =>
       \/ Spent(d, decision[d])
       \/ dom[t] = d /\ pc[t] \in {"session", "sessionLift", "policy", "mark"}

Mine(t, S) == Turn(t, S) /\ \A d \in S : Facts(t, d)

\* Where a domain may be in between two writes of t.
Between == {"decide", "session", "sessionLift", "policy", "mark", "forget"}

\* A step of t that writes nothing, from outside of the writes, leaves the facts as they are.
LEMMA FactsStay ==
  ASSUME NEW S \in SUBSET Domains, NEW t \in Threads, \A d \in S : Facts(t, d), pc[t] \notin Between,
         UNCHANGED <<policy, verdict, decision>>
  PROVE  \A d \in S : Facts(t, d)'
BY DEF Facts, Fits, Spent, Earns, Mending, Between, BlockAgreement

\* Outside of its handlers a thread has nothing to write.
LEMMA NothingToWrite ==
  ASSUME NEW S \in SUBSET Domains, NEW t \in Threads, pc'[t] \notin Acting
  PROVE  Writes(t, S)' /\ Opinions(t, S)'
BY DEF Writes, Opinions, Acting

\* A step of a cycle between its handlers: it moves domains from list to list.
LEMMA ListsMove ==
  ASSUME NEW S \in SUBSET Domains, NEW t \in Threads, Mine(t, S), pc[t] \notin Between, pc'[t] \notin Acting,
         UNCHANGED <<policy, verdict, decision>>,
         Lists(t, S)', \A d \in (todo'[t] \cup batch'[t]) \cap S : policy[d] = GuardOpen => d \in Operational
  PROVE  Mine(t, S)'
<1>1. Opened(t, S)'
  BY DEF Opened, Acting
<1> QED BY <1>1, FactsStay, NothingToWrite DEF Mine, Turn

\* A review takes up nothing the guard has opened, but what it cannot block.
LEMMA TakenUp ==
  ASSUME NEW t \in Threads, NEW d \in Domains, Facts(t, d), pc[t] \notin Between, policy[d] = GuardOpen,
         \/ Kept(d) \/ Candidate(d) \/ decision[d] \in {"auto-blocked", "session-blocked"}
  PROVE  d \in Operational
BY DEF Facts, Between, Fits, Spent, GuardOpen, Kept, Candidate

\* The steps of a cycle between its handlers.
LEMMA CycleTurns ==
  ASSUME NEW S \in SUBSET Domains, SystemOK, NEW r \in Reviewers, Mine(r, S),
         \/ StartRegate(r) \/ StartReview(r) \/ BuildPackets(r) \/ Court(r) \/ NoCourt(r)
         \/ NextBatch(r) \/ StartGuard(r) \/ EndCycle(r)
  PROVE  Mine(r, S)'
<1>0. r \in Threads /\ todo[r] \in SUBSET Domains /\ batch[r] \in SUBSET Domains
  BY DEF SystemOK
<1>1. CASE StartRegate(r)
  <2>1. /\ pc[r] = "idle" /\ pc'[r] = "regate" /\ UNCHANGED <<policy, verdict, decision, back, batch>>
        /\ todo'[r] = {d \in Domains : Kept(d)} /\ held'[r] = verdict
    BY <1>0, <1>1 DEF StartRegate, Goto, SystemOK
  <2>2. Lists(r, S)'
    BY <1>0, <2>1 DEF Mine, Turn, Lists, InRegate, Acting
  <2>3. \A d \in (todo'[r] \cup batch'[r]) \cap S : policy[d] = GuardOpen => d \in Operational
    BY <1>0, <2>1, TakenUp DEF Mine, Turn, Lists, Between
  <2> QED BY <1>0, <2>1, <2>2, <2>3, ListsMove DEF Between, Acting
<1>2. CASE StartReview(r)
  <2>1. PICK due \in SUBSET {d \in Domains : Candidate(d)} : todo' = [todo EXCEPT ![r] = due]
    BY <1>2 DEF StartReview
  <2>2. /\ pc[r] \in {"idle", "regate"} /\ pc'[r] = "triage" /\ UNCHANGED <<policy, verdict, decision, back, batch>>
        /\ todo'[r] = due /\ batch[r] = {}
    BY <1>0, <1>2, <2>1 DEF StartReview, Goto, SystemOK, Mine, Turn, Lists, InRegate
  <2>3. Lists(r, S)'
    BY <1>0, <2>2 DEF Mine, Turn, Lists, InRegate, Acting
  <2>4. \A d \in (todo'[r] \cup batch'[r]) \cap S : policy[d] = GuardOpen => d \in Operational
    BY <1>0, <2>1, <2>2, TakenUp DEF Mine, Between
  <2> QED BY <1>0, <2>2, <2>3, <2>4, ListsMove DEF Between, Acting
<1>3. CASE BuildPackets(r)
  <2>1. PICK held_back \in BOOLEAN : batch' = [batch EXCEPT ![r] = IF held_back THEN {} ELSE batch[r]]
    BY <1>3 DEF BuildPackets
  <2>2. /\ pc[r] = "triage" /\ pc'[r] = "court" /\ UNCHANGED <<policy, verdict, decision, back, todo>>
        /\ batch'[r] \subseteq batch[r]
    BY <1>0, <1>3, <2>1 DEF BuildPackets, Goto, SystemOK
  <2>3. Lists(r, S)'
    BY <1>0, <2>2 DEF Mine, Turn, Lists, InRegate, Acting
  <2> QED BY <1>0, <2>2, <2>3, ListsMove DEF Between, Acting, Mine, Turn, Opened
<1>4. CASE Court(r)
  <2>1. PICK some \in SUBSET batch[r] \ {{}} :
          /\ batch' = [batch EXCEPT ![r] = batch[r] \ some]
          /\ \E answered \in SUBSET some : todo' = [todo EXCEPT ![r] = answered]
    BY <1>4 DEF Court
  <2>2. PICK answered \in SUBSET some : todo' = [todo EXCEPT ![r] = answered]
    BY <2>1
  <2>3. /\ pc[r] = "court" /\ pc'[r] = "rule" /\ UNCHANGED <<policy, verdict, decision, back>>
        /\ todo'[r] = answered /\ batch'[r] = batch[r] \ some
    BY <1>0, <1>4, <2>1, <2>2 DEF Court, Goto, SystemOK
  <2>4. Lists(r, S)'
    BY <1>0, <2>3 DEF Mine, Turn, Lists, InRegate, Acting
  <2> QED BY <1>0, <2>3, <2>4, ListsMove DEF Between, Acting, Mine, Turn, Opened
<1>5. CASE NoCourt(r)
  <2>1. /\ pc[r] = "court" /\ pc'[r] = "rule" /\ UNCHANGED <<policy, verdict, decision, back>>
        /\ todo'[r] = batch[r] /\ batch'[r] = {}
    BY <1>0, <1>5 DEF NoCourt, Goto, SystemOK
  <2>2. Lists(r, S)'
    BY <1>0, <2>1 DEF Mine, Turn, Lists, InRegate, Acting
  <2> QED BY <1>0, <2>1, <2>2, ListsMove DEF Between, Acting, Mine, Turn, Opened
<1>6. CASE NextBatch(r)
  <2>1. /\ pc[r] = "rule" /\ pc'[r] = "court" /\ UNCHANGED <<policy, verdict, decision, back, todo, batch>>
    BY <1>0, <1>6 DEF NextBatch, Goto, SystemOK
  <2>2. Lists(r, S)'
    BY <1>0, <2>1 DEF Mine, Turn, Lists, InRegate, Acting
  <2> QED BY <1>0, <2>1, <2>2, ListsMove DEF Between, Acting, Mine, Turn, Opened
<1>7. CASE StartGuard(r)
  <2>1. /\ pc[r] \in {"court", "rule"} /\ pc'[r] = "guard" /\ UNCHANGED <<policy, verdict, decision, back, batch>>
        /\ todo'[r] = {d \in Domains : decision[d] \in {"auto-blocked", "session-blocked"}} /\ batch[r] = {}
    BY <1>0, <1>7 DEF StartGuard, Goto, SystemOK
  <2>2. Lists(r, S)'
    BY <1>0, <2>1 DEF Mine, Turn, Lists, InRegate, Acting
  <2>3. \A d \in (todo'[r] \cup batch'[r]) \cap S : policy[d] = GuardOpen => d \in Operational
    BY <1>0, <2>1, TakenUp DEF Mine, Between
  <2> QED BY <1>0, <2>1, <2>2, <2>3, ListsMove DEF Between, Acting
<1>8. CASE EndCycle(r)
  <2>1. /\ pc[r] = "guard" /\ pc'[r] = "idle" /\ UNCHANGED <<policy, verdict, decision>>
        /\ todo'[r] = {} /\ batch'[r] = {}
    BY <1>0, <1>8 DEF EndCycle, Reset, Goto, SystemOK
  <2>2. Lists(r, S)'
    BY <1>0, <2>1 DEF Lists, InRegate, Acting
  <2> QED BY <1>0, <2>1, <2>2, ListsMove DEF Between, Acting
<1> QED BY <1>1, <1>2, <1>3, <1>4, <1>5, <1>6, <1>7, <1>8

\* What fails leaves the domains of S alone, and has nothing in hand.
LEMMA FailTurns ==
  ASSUME NEW S \in SUBSET Domains, SystemOK, NEW t \in Threads, Earned(t), Mine(t, S), dom[t] \notin S,
         (t \in Reviewers /\ FailCycle(t)) \/ FailCall(t)
  PROVE  Mine(t, S)'
<1>1. /\ pc'[t] = "idle" /\ dom'[t] = NoDomain /\ verdict' = verdict
      /\ \A e \in S : policy'[e] = policy[e] /\ decision'[e] = decision[e]
      /\ todo'[t] = {} /\ batch'[t] = {} /\ (t \notin Reviewers => back'[t] = "idle")
  <2>1. CASE t \in Reviewers /\ FailCycle(t)
    BY <2>1 DEF FailCycle, Reset, Goto, SystemOK
  <2>2. CASE FailCall(t)
    <3>1. t \notin Reviewers /\ Return(t) /\ UNCHANGED <<verdict, decision, back, todo, batch>>
      BY <2>2 DEF FailCall
    <3>2. \A e \in S : policy'[e] = policy[e]
      BY <2>2 DEF FailCall, SystemOK
    <3>3. back[t] = "idle" /\ todo[t] = {} /\ batch[t] = {}
      BY <3>1 DEF Mine, Turn, Lists
    <3> QED BY <3>1, <3>2, <3>3 DEF Return, Goto, SystemOK
  <2> QED BY <2>1, <2>2
<1>2. Lists(t, S)' /\ Opened(t, S)' /\ Writes(t, S)' /\ Opinions(t, S)'
  BY <1>1 DEF Lists, Opened, Writes, Opinions, InRegate, Acting
<1>3. ASSUME NEW e \in S PROVE Facts(t, e)'
  <2>1. Facts(t, e) /\ dom[t] # e
    BY DEF Mine
  <2> QED BY <1>1, <2>1 DEF Facts, Fits, Spent, Earns, BlockAgreement
<1> QED BY <1>2, <1>3 DEF Mine, Turn

\* The domains a cycle takes off its list.
LEMMA TakingTurns ==
  ASSUME NEW S \in SUBSET Domains, SystemOK, NEW r \in Reviewers, Mine(r, S), NEW d \in Domains,
         Regate(r, d) \/ Triage(r, d) \/ Rule(r, d) \/ Guard(r, d)
  PROVE  Mine(r, S)'
<1>0. /\ r \in Threads /\ r \notin Sessions
      /\ todo[r] \in SUBSET Domains /\ batch[r] \in SUBSET Domains
      /\ d \in todo[r] /\ todo'[r] = todo[r] \ {d} /\ UNCHANGED <<policy, verdict, decision, held>>
      /\ d \notin batch[r] /\ (d \in S /\ policy[d] = GuardOpen => d \in Operational)
  BY KindsAssumption DEF SystemOK, Regate, Triage, Rule, Guard, Take, Mine, Turn, Lists, Opened
<1>1. CASE Regate(r, d)
  <2>1. pc[r] = "regate" /\ batch[r] = {} /\ batch' = batch /\ (d \in S => held[r][d] = verdict[d])
    BY <1>0, <1>1 DEF Regate, Mine, Turn, Lists, InRegate
  <2>2. CASE UNCHANGED <<pc, back, dom, opinion>>
    <3>1. Lists(r, S)'
      BY <1>0, <2>1, <2>2 DEF Mine, Turn, Lists, InRegate, Acting
    <3> QED BY <1>0, <2>1, <2>2, <3>1, ListsMove DEF Between, Acting, Mine, Turn, Opened
  <2>3. CASE Work(r, d) /\ opinion' = [opinion EXCEPT ![r] = held[r][d]]
             /\ back' = [back EXCEPT ![r] = "regate"] /\ Goto(r, "decide")
    <3>1. pc'[r] = "decide" /\ dom'[r] = d /\ back'[r] = "regate" /\ (d \in S => opinion'[r] = verdict[d])
      BY <1>0, <2>1, <2>3 DEF Work, Goto, SystemOK
    <3>2. Lists(r, S)'
      BY <1>0, <2>1, <3>1 DEF Mine, Turn, Lists, InRegate
    <3>3. Opened(r, S)' /\ Writes(r, S)' /\ Opinions(r, S)'
      BY <1>0, <2>1, <3>1 DEF Mine, Turn, Opened, Writes, Opinions
    <3> QED BY <1>0, <2>1, <3>2, <3>3, FactsStay DEF Mine, Turn, Between
  <2> QED BY <1>1, <2>2, <2>3 DEF Regate
<1>2. CASE Triage(r, d)
  <2>1. pc[r] = "triage" /\ UNCHANGED <<back, plan, opinion>>
    BY <1>2 DEF Triage
  <2>2. CASE Work(r, d) /\ Goto(r, "guarded") /\ UNCHANGED batch
    <3>1. pc'[r] = "guarded" /\ dom'[r] = d /\ batch' = batch
      BY <1>0, <2>2 DEF Work, Goto, SystemOK
    <3>2. Lists(r, S)'
      BY <1>0, <2>1, <3>1 DEF Mine, Turn, Lists, InRegate
    <3>3. Opened(r, S)' /\ Writes(r, S)' /\ Opinions(r, S)'
      BY <1>0, <2>1, <3>1 DEF Mine, Turn, Opened, Writes, Opinions
    <3> QED BY <1>0, <2>1, <3>2, <3>3, FactsStay DEF Mine, Turn, Between
  <2>3. CASE UNCHANGED <<pc, dom>> /\ (batch' = [batch EXCEPT ![r] = batch[r] \cup {d}] \/ UNCHANGED batch)
    <3>1. pc' = pc /\ batch'[r] \subseteq batch[r] \cup {d}
      BY <1>0, <2>3 DEF SystemOK
    <3>2. Lists(r, S)'
      BY <1>0, <2>1, <3>1 DEF Mine, Turn, Lists, InRegate, Acting
    <3>3. \A e \in (todo'[r] \cup batch'[r]) \cap S : policy[e] = GuardOpen => e \in Operational
      BY <1>0, <3>1 DEF Mine, Turn, Opened
    <3> QED BY <1>0, <2>1, <3>1, <3>2, <3>3, ListsMove DEF Between, Acting
  <2> QED BY <1>2, <2>2, <2>3 DEF Triage
<1>3. CASE Rule(r, d)
  <2>1. pc[r] = "rule" /\ pc'[r] = "store" /\ dom'[r] = d /\ back'[r] = "rule" /\ batch' = batch /\ plan' = plan
    BY <1>0, <1>3 DEF Rule, Work, Goto, SystemOK
  <2>2. Lists(r, S)'
    BY <1>0, <2>1 DEF Mine, Turn, Lists, InRegate
  <2>3. Opened(r, S)' /\ Writes(r, S)' /\ Opinions(r, S)'
    BY <1>0, <2>1 DEF Mine, Turn, Opened, Writes, Opinions
  <2> QED BY <1>0, <2>1, <2>2, <2>3, FactsStay DEF Mine, Turn, Between
<1>4. CASE Guard(r, d)
  <2>1. pc[r] = "guard" /\ batch' = batch /\ plan' = plan
    BY <1>4 DEF Guard
  <2>2. CASE Work(r, d) /\ back' = [back EXCEPT ![r] = "guard"] /\ Goto(r, "lift")
    <3>1. pc'[r] = "lift" /\ dom'[r] = d /\ back'[r] = "guard"
      BY <1>0, <2>2 DEF Work, Goto, SystemOK
    <3>2. Lists(r, S)'
      BY <1>0, <2>1, <3>1 DEF Mine, Turn, Lists, InRegate
    <3>3. Opened(r, S)' /\ Writes(r, S)' /\ Opinions(r, S)'
      BY <1>0, <2>1, <3>1 DEF Mine, Turn, Opened, Writes, Opinions
    <3> QED BY <1>0, <2>1, <3>2, <3>3, FactsStay DEF Mine, Turn, Between
  <2>3. CASE UNCHANGED <<pc, back, dom>>
    <3>1. Lists(r, S)'
      BY <1>0, <2>1, <2>3 DEF Mine, Turn, Lists, InRegate, Acting
    <3> QED BY <1>0, <2>1, <2>3, <3>1, ListsMove DEF Between, Acting, Mine, Turn, Opened
  <2> QED BY <1>4, <2>2, <2>3 DEF Guard
<1> QED BY <1>1, <1>2, <1>3, <1>4

\* The domain a thread has at hand, in its locals.
LEMMA AtHand ==
  ASSUME NEW S \in SUBSET Domains, SystemOK, NEW t \in Threads, Mine(t, S), pc[t] \in Acting
  PROVE  /\ dom[t] \in Domains /\ dom[t] \notin todo[t] /\ dom[t] \notin batch[t] /\ dom[t] # NoDomain
         /\ policy[dom[t]] \in Policy /\ verdict[dom[t]] \in Verdict /\ decision[dom[t]] \in State
         /\ opinion[t] \in Verdict /\ (dom[t] \in S => Facts(t, dom[t]))
BY ConstantsAssumption DEF SystemOK, Mine, Turn, Lists

\* A thread that lets go of its domain and has written nothing.
LEMMA LetGo ==
  ASSUME NEW S \in SUBSET Domains, SystemOK, NEW t \in Threads, Earned(t), Mine(t, S), pc[t] \in Acting, Return(t),
         UNCHANGED <<policy, verdict, back, todo, batch, held>>,
         pc[t] # "guarded", t \in Reviewers => pc[t] \in {"store", "decide", "lift", "policy", "mark"},
         back[t] = "regate" => pc[t] \in {"decide", "policy", "mark"},
         \A d \in S : Facts(t, d)'
  PROVE  Mine(t, S)'
<1>1. pc'[t] = back[t] /\ pc'[t] \notin Acting /\ dom'[t] = NoDomain
  BY DEF Return, Goto, Earned, SystemOK, Acting
<1>2. Lists(t, S)'
  BY <1>1 DEF Mine, Turn, Lists, InRegate, Acting
<1>3. Opened(t, S)'
  BY <1>1 DEF Mine, Turn, Opened, Acting
<1> QED BY <1>1, <1>2, <1>3, NothingToWrite DEF Mine, Turn

\* A thread that goes on with its domain: its lists stay as they are.
LEMMA GoesOn ==
  ASSUME NEW S \in SUBSET Domains, NEW t \in Threads, Lists(t, S), pc[t] \in Acting, pc'[t] \in Acting,
         UNCHANGED <<verdict, todo, batch, held>>, dom'[t] = dom[t], back'[t] = back[t],
         pc'[t] \notin {"session", "sessionLift", "forget"},
         t \in Reviewers => back[t] # "idle", pc'[t] \notin {"store", "lift"} \/ back[t] # "regate",
         back[t] = "regate" => pc[t] \in {"decide", "policy", "mark"}
  PROVE  Lists(t, S)'
BY DEF Lists, InRegate, Acting

\* The writes every thread ends in.
LEMMA WritesTurn ==
  ASSUME NEW S \in SUBSET Domains, SystemOK, NEW t \in Threads, Earned(t), Mine(t, S), Lift(t) \/ WritePolicy(t) \/ Mark(t)
  PROVE  Mine(t, S)'
<1>0. /\ pc[t] \in {"lift", "policy", "mark"} /\ pc[t] \in Acting
      /\ t \in Reviewers => back[t] # "idle"
      /\ back[t] = "regate" => pc[t] \in {"policy", "mark"}
      /\ Lists(t, S) /\ Opened(t, S) /\ Writes(t, S) /\ Opinions(t, S) /\ \A e \in S : Facts(t, e)
  BY DEF Lift, WritePolicy, Mark, Acting, Mine, Turn, Lists
<1>1. /\ dom[t] \in Domains /\ dom[t] \notin todo[t] /\ dom[t] \notin batch[t] /\ dom[t] # NoDomain
      /\ todo[t] \in SUBSET Domains /\ batch[t] \in SUBSET Domains
  BY <1>0, AtHand DEF SystemOK
<1>2. CASE Lift(t)
  <2>1. /\ pc[t] = "lift" /\ pc'[t] = (IF policy[dom[t]].action = "block" THEN "policy" ELSE "mark")
        /\ plan'[t] = [policy |-> GuardOpen, state |-> "guard-released"]
        /\ UNCHANGED <<policy, verdict, decision, dom, back, todo, batch, held, opinion, was>>
    BY <1>2 DEF Lift, Goto, Means, Blocked, SystemOK
  <2>2. Lists(t, S)'
    BY <1>0, <2>1, GoesOn DEF Acting
  <2>3. Opened(t, S)' /\ Opinions(t, S)'
    BY <1>0, <2>1 DEF Opened, Opinions
  <2>4. Writes(t, S)'
    BY <2>1 DEF Writes, Fits, Spent, GuardOpen, AutoBlock
  <2>5. \A e \in S : Facts(t, e)'
    BY <1>0, <2>1, FactsStay DEF Between
  <2> QED BY <2>2, <2>3, <2>4, <2>5 DEF Mine, Turn
<1>3. CASE WritePolicy(t)
  <2>1. /\ pc[t] = "policy" /\ pc'[t] = "mark" /\ UNCHANGED <<verdict, decision, dom, back, plan, todo, batch, held>>
        /\ policy'[dom[t]] = plan[t].policy /\ \A e \in Domains : e # dom[t] => policy'[e] = policy[e]
    BY <1>1, <1>3 DEF WritePolicy, Goto, SystemOK
  <2>2. Lists(t, S)'
    BY <1>0, <2>1, GoesOn DEF Acting
  <2>3. Opened(t, S)' /\ Opinions(t, S)'
    BY <1>0, <1>1, <2>1 DEF Opened, Opinions
  <2>4. Writes(t, S)'
    BY <1>0, <2>1 DEF Writes, Fits, Spent, Earns, BlockAgreement
  <2>5. ASSUME NEW e \in S PROVE Facts(t, e)'
    <3>1. Facts(t, e)
      BY <1>0
    <3> QED BY <2>1, <3>1 DEF Facts, Fits, Spent, Earns, Mending, BlockAgreement
  <2> QED BY <2>2, <2>3, <2>4, <2>5 DEF Mine, Turn
<1>4. CASE Mark(t)
  <2>1. /\ pc[t] = "mark" /\ Return(t) /\ UNCHANGED <<policy, verdict, back, todo, batch, held>>
        /\ decision'[dom[t]] = plan[t].state /\ \A e \in Domains : e # dom[t] => decision'[e] = decision[e]
    BY <1>1, <1>4 DEF Mark, SystemOK
  <2>2. ASSUME NEW e \in S PROVE Facts(t, e)'
    <3>1. Facts(t, e)
      BY <1>0
    <3>2. CASE e = dom[t]
      BY <1>0, <2>1, <3>2 DEF Facts, Writes, Fits, Spent, Earns, BlockAgreement
    <3>3. CASE e # dom[t]
      BY <2>1, <3>1, <3>3 DEF Facts, Fits, Spent, Earns, Mending, BlockAgreement
    <3> QED BY <3>2, <3>3
  <2> QED BY <1>0, <2>1, <2>2, LetGo
<1> QED BY <1>2, <1>3, <1>4

\* A verdict is stored: by a review, or by a session.
LEMMA StoreTurns ==
  ASSUME NEW S \in SUBSET Domains, SystemOK, NEW t \in Threads, Earned(t), Mine(t, S), StoreVerdict(t), t \in Reviewers \/ t \in Sessions
  PROVE  Mine(t, S)'
<1>0. /\ pc[t] = "store" /\ pc[t] \in Acting /\ (t \in Reviewers => back[t] # "idle") /\ back[t] # "regate"
      /\ Lists(t, S) /\ Opened(t, S) /\ Writes(t, S) /\ Opinions(t, S) /\ \A e \in S : Facts(t, e)
  BY DEF StoreVerdict, Acting, Mine, Turn, Lists
<1>1. /\ dom[t] \in Domains /\ dom[t] \notin todo[t] /\ dom[t] \notin batch[t] /\ dom[t] # NoDomain
      /\ todo[t] \in SUBSET Domains /\ batch[t] \in SUBSET Domains
  BY <1>0, AtHand DEF SystemOK
<1>2. /\ pc'[t] = (IF t \in Sessions THEN "session" ELSE "decide")
      /\ UNCHANGED <<policy, decision, dom, back, plan, todo, batch, held, opinion, was>>
      /\ verdict'[dom[t]] = opinion[t] /\ \A e \in Domains : e # dom[t] => verdict'[e] = verdict[e]
  BY <1>1, StoreVerdict(t) DEF StoreVerdict, Goto, SystemOK
<1>3. Lists(t, S)'
  BY <1>0, <1>2 DEF Lists, InRegate, Acting
<1>4. Opened(t, S)' /\ Writes(t, S)' /\ Opinions(t, S)'
  BY <1>0, <1>2 DEF Opened, Writes, Opinions
<1>5. ASSUME NEW e \in S PROVE Facts(t, e)'
  <2>1. Facts(t, e)
    BY <1>0
  <2>2. CASE e # dom[t]
    BY <1>2, <2>1, <2>2 DEF Facts, Fits, Spent, Earns, Mending, BlockAgreement
  <2>3. CASE e = dom[t]
    BY <1>0, <1>2, <2>1, <2>3 DEF Facts, Fits, Spent, Mending, Opened
  <2> QED BY <2>2, <2>3
<1> QED BY <1>3, <1>4, <1>5 DEF Mine, Turn

\* A protected domain, before its verdict: its block is to be lifted, or its mark written.
LEMMA ProtectedTurns ==
  ASSUME NEW S \in SUBSET Domains, SystemOK, NEW r \in Reviewers, Earned(r), Mine(r, S), TriageProtected(r)
  PROVE  Mine(r, S)'
<1>0. /\ pc[r] = "guarded" /\ pc[r] \in Acting /\ r \in Threads /\ r \notin Sessions
      /\ Lists(r, S) /\ Opened(r, S) /\ Writes(r, S) /\ Opinions(r, S) /\ \A e \in S : Facts(r, e)
  BY KindsAssumption DEF TriageProtected, Acting, Mine, Turn
<1>1. /\ pc'[r] \in {"lift", "mark"} /\ back'[r] = "triage"
      /\ plan'[r] = [policy |-> NoRule, state |-> "protected"]
      /\ UNCHANGED <<policy, verdict, decision, dom, todo, batch, held, opinion, was>>
  BY <1>0, TriageProtected(r) DEF TriageProtected, Goto, Means, SystemOK
<1>2. Lists(r, S)'
  BY <1>0, <1>1 DEF Lists, InRegate, Acting
<1>3. Opened(r, S)' /\ Opinions(r, S)'
  BY <1>0, <1>1 DEF Opened, Opinions
<1>4. Writes(r, S)'
  BY <1>0, <1>1 DEF Writes, Opened, Fits, Spent
<1>5. \A e \in S : Facts(r, e)'
  BY <1>0, <1>1, FactsStay DEF Between
<1> QED BY <1>2, <1>3, <1>4, <1>5 DEF Mine, Turn

\* decide: a domain that can be blocked was not opened by the guard.
LEMMA DecideTurns ==
  ASSUME NEW S \in SUBSET Domains, SystemOK, NEW r \in Reviewers, Earned(r), Mine(r, S), Decide(r)
  PROVE  Mine(r, S)'
<1>0. /\ pc[r] = "decide" /\ pc[r] \in Acting /\ r \in Threads /\ r \notin Sessions /\ back[r] # "idle"
      /\ Lists(r, S) /\ Opened(r, S) /\ Writes(r, S) /\ Opinions(r, S) /\ \A e \in S : Facts(r, e)
  BY KindsAssumption DEF Decide, Acting, Mine, Turn, Lists
<1>1. /\ dom[r] \in Domains /\ dom[r] \notin todo[r] /\ dom[r] \notin batch[r] /\ dom[r] # NoDomain
      /\ opinion[r] \in Verdict
  BY <1>0, AtHand
<1>2. UNCHANGED <<policy, verdict, decision, back, todo, batch, held>>
  BY Decide(r) DEF Decide
<1>3. CASE decision[dom[r]] = "guard-released"
  <2>1. Return(r)
    BY <1>3, Decide(r) DEF Decide
  <2>2. ASSUME NEW e \in S PROVE Facts(r, e)'
    <3>1. Facts(r, e)
      BY <1>0
    <3> QED BY <1>0, <1>2, <1>3, <3>1 DEF Facts, Fits, Spent, Earns, BlockAgreement
  <2> QED BY <1>0, <1>2, <2>1, <2>2, LetGo
<1>4. CASE decision[dom[r]] # "guard-released"
  <2> DEFINE s == Outcome(dom[r], callers[dom[r]], opinion[r])
  <2>1. /\ plan'[r] = [policy |-> IF s = "auto-blocked" THEN AutoBlock ELSE NoRule, state |-> s]
        /\ pc'[r] = (IF s = "auto-blocked" THEN "policy" ELSE "mark")
        /\ UNCHANGED <<dom, opinion, was>>
    BY <1>0, <1>4, Decide(r) DEF Decide, Goto, Means, SystemOK
  <2>2. s \in {"watching", "red-kept", "auto-blocked"}
    BY OutcomeType
  <2>3. s = "auto-blocked" => Earns(opinion[r]) /\ dom[r] \notin Operational
    BY <1>1, OutcomeEarned DEF Earns, Outcome, GateAllows
  <2> HIDE DEF s
  <2>4. Lists(r, S)'
    BY <1>0, <1>2, <2>1, GoesOn DEF Acting
  <2>5. Opened(r, S)' /\ Opinions(r, S)'
    BY <1>0, <1>2, <2>1, <2>2 DEF Opened, Opinions
  <2>6. Writes(r, S)'
    BY <1>0, <1>2, <2>1, <2>2, <2>3 DEF Writes, Opened, Opinions, Fits, Spent, Earns, BlockAgreement, AutoBlock, NoRule, GuardOpen
  <2>7. ASSUME NEW e \in S PROVE Facts(r, e)'
    <3>1. Facts(r, e)
      BY <1>0
    <3> QED BY <1>0, <1>2, <2>1, <2>2, <2>3, <3>1 DEF Facts, Fits, Spent, Earns, Mending, Opinions, BlockAgreement
  <2> QED BY <2>4, <2>5, <2>6, <2>7 DEF Mine, Turn
<1> QED BY <1>3, <1>4

\* A rule of the user's changes what is said of a verdict, not who gave it.
LEMMA EnforcedCourt ==
  ASSUME NEW d \in Domains, NEW cs, NEW c \in Calls,
         NEW v \in Enforced(d, cs, [court |-> "session", call |-> c])
  PROVE  v.court = "session"
BY DEF Enforced, Calls

\* The user decides, and a reset forgets the verdict.
LEMMA UserTurns ==
  ASSUME NEW S \in SUBSET Domains, SystemOK, NEW u \in Users, Mine(u, S), UserForget(u) \/ \E d \in Domains : UserDecide(u, d)
  PROVE  Mine(u, S)'
<1>0. /\ u \in Threads /\ u \notin Reviewers /\ u \notin Sessions
      /\ todo[u] = {} /\ batch[u] = {} /\ back[u] = "idle"
      /\ Lists(u, S) /\ Opened(u, S) /\ Writes(u, S) /\ Opinions(u, S) /\ \A e \in S : Facts(u, e)
  BY KindsAssumption DEF Mine, Turn, Lists
<1>1. ASSUME NEW d \in Domains, UserDecide(u, d) PROVE Mine(u, S)'
  <2>1. PICK choice \in {[policy |-> UserAllow, state |-> "user-allowed"],
                         [policy |-> UserBlock, state |-> "user-blocked"],
                         [policy |-> NoRule,    state |-> "watching"]} :
          /\ policy' = [policy EXCEPT ![d] = choice.policy]
          /\ plan' = [plan EXCEPT ![u] = choice]
          /\ Goto(u, IF choice.policy = NoRule THEN "forget" ELSE "mark")
    BY <1>1 DEF UserDecide
  <2>2. /\ pc[u] = "idle" /\ pc'[u] = (IF choice.policy = NoRule THEN "forget" ELSE "mark")
        /\ dom'[u] = d /\ plan'[u] = choice /\ policy'[d] = choice.policy
        /\ \A e \in Domains : e # d => policy'[e] = policy[e]
        /\ UNCHANGED <<verdict, decision, back, todo, batch, held, opinion, was>>
    BY <1>0, <1>1, <2>1 DEF UserDecide, Goto, Work, SystemOK
  <2>3. /\ Fits(choice.policy, choice.state) /\ choice.policy # GuardOpen /\ choice.state # "auto-blocked"
        /\ (choice.policy = NoRule => choice.state = "watching")
    BY DEF Fits, UserAllow, UserBlock, NoRule, GuardOpen
  <2>4. Lists(u, S)'
    BY <1>0, <2>2 DEF Lists, InRegate, Acting
  <2>5. Opened(u, S)' /\ Opinions(u, S)'
    BY <1>0, <2>2 DEF Opened, Opinions
  <2>6. Writes(u, S)'
    BY <2>2, <2>3 DEF Writes, Fits, Spent
  <2>7. ASSUME NEW e \in S PROVE Facts(u, e)'
    <3>1. Facts(u, e)
      BY <1>0
    <3> QED BY <2>2, <2>3, <3>1 DEF Facts, Fits, Spent, Earns, Mending, BlockAgreement
  <2> QED BY <2>4, <2>5, <2>6, <2>7 DEF Mine, Turn
<1>2. CASE UserForget(u)
  <2>0. dom[u] \in Domains
    BY <1>0, <1>2, AtHand DEF UserForget, Acting
  <2>1. /\ pc[u] = "forget" /\ pc'[u] = "mark"
        /\ UNCHANGED <<policy, decision, dom, plan, back, todo, batch, held, opinion, was>>
        /\ \A e \in Domains : e # dom[u] => verdict'[e] = verdict[e]
    BY <1>0, <1>2, <2>0 DEF UserForget, Goto, SystemOK
  <2>2. dom[u] \in S => policy[dom[u]] = NoRule /\ plan[u].state = "watching" /\ Fits(policy[dom[u]], plan[u].state)
    BY <1>0, <2>1 DEF Writes
  <2>3. Lists(u, S)'
    BY <1>0, <2>1 DEF Lists, InRegate, Acting
  <2>4. Opened(u, S)' /\ Opinions(u, S)'
    BY <1>0, <2>1 DEF Opened, Opinions
  <2>5. Writes(u, S)'
    BY <2>1, <2>2 DEF Writes, Fits, NoRule, GuardOpen
  <2>6. ASSUME NEW e \in S PROVE Facts(u, e)'
    <3>1. Facts(u, e)
      BY <1>0
    <3> QED BY <2>1, <2>2, <3>1 DEF Facts, Fits, Spent, Earns, Mending, BlockAgreement, NoRule, GuardOpen
  <2> QED BY <2>3, <2>4, <2>5, <2>6 DEF Mine, Turn
<1> QED BY <1>1, <1>2

\* A session's verdict, from the copy of the entry to what is to be written.
LEMMA SessionTurns ==
  ASSUME NEW S \in SUBSET Domains, SystemOK, NEW s \in Sessions, Earned(s), Mine(s, S),
         SessionDecide(s) \/ SessionLift(s) \/ \E d \in Domains : SessionVerdict(s, d)
  PROVE  Mine(s, S)'
<1>0. /\ s \in Threads /\ s \notin Reviewers /\ s \notin Users
      /\ todo[s] = {} /\ batch[s] = {} /\ back[s] = "idle"
      /\ Lists(s, S) /\ Opened(s, S) /\ Writes(s, S) /\ Opinions(s, S) /\ \A e \in S : Facts(s, e)
  BY KindsAssumption DEF Mine, Turn, Lists
<1>1. ASSUME NEW d \in Domains, SessionVerdict(s, d) PROVE Mine(s, S)'
  <2>1. PICK c \in Calls : \E v \in Enforced(d, callers[d], [court |-> "session", call |-> c]) :
                             opinion' = [opinion EXCEPT ![s] = v]
    BY <1>1 DEF SessionVerdict
  <2>2. PICK v \in Enforced(d, callers[d], [court |-> "session", call |-> c]) :
          opinion' = [opinion EXCEPT ![s] = v]
    BY <2>1
  <2>3. /\ pc[s] = "idle" /\ pc'[s] = "store" /\ dom'[s] = d /\ opinion'[s] = v /\ v.court = "session"
        /\ was'[s] = decision[d] /\ UNCHANGED <<policy, verdict, decision, back, plan, todo, batch, held>>
    BY <1>0, <1>1, <2>2, EnforcedCourt DEF SessionVerdict, Work, Goto, SystemOK
  <2>4. Lists(s, S)'
    BY <1>0, <2>3 DEF Lists, InRegate, Acting
  <2>5. Opened(s, S)' /\ Writes(s, S)' /\ Opinions(s, S)'
    BY <1>0, <2>3 DEF Opened, Writes, Opinions
  <2>6. \A e \in S : Facts(s, e)'
    BY <1>0, <2>3, FactsStay DEF Between
  <2> QED BY <2>4, <2>5, <2>6 DEF Mine, Turn
<1>2. CASE SessionDecide(s)
  <2>1. /\ pc[s] = "session" /\ pc[s] \in Acting
        /\ UNCHANGED <<policy, verdict, decision, back, todo, batch, held>>
        /\ dom[s] \in S =>
             opinion[s] = verdict[dom[s]] /\ was[s] = decision[dom[s]] /\ opinion[s].court = "session"
    BY <1>0, <1>2 DEF SessionDecide, Acting, Opinions
  <2>2. dom[s] \in Domains /\ opinion[s] \in Verdict
    BY <1>0, <2>1, AtHand
  <2>3. CASE was[s] \in UserStates
    <3>1. Return(s)
      BY <1>2, <2>3 DEF SessionDecide
    <3>2. ASSUME NEW e \in S PROVE Facts(s, e)'
      <4>1. Facts(s, e)
        BY <1>0
      <4> QED BY <2>1, <2>3, <4>1 DEF Facts, Fits, Spent, Earns, Mending, UserStates, BlockAgreement
    <3> QED BY <1>0, <2>1, <3>1, <3>2, LetGo
  <2>4. CASE was[s] \notin UserStates
    <3>1. /\ UNCHANGED <<dom, opinion, was>>
          /\ \/ plan'[s] = [policy |-> NoRule, state |-> "protected"] /\ pc'[s] = "mark"
             \/ /\ plan'[s] = [policy |-> NoRule, state |-> "red-kept"] /\ pc'[s] = "mark"
                /\ ~Protected(dom[s], callers[dom[s]]) /\ ~GateAllows(dom[s], callers[dom[s]])
             \/ plan'[s] = [policy |-> SessionBlock, state |-> "session-blocked"] /\ pc'[s] = "policy"
             \/ /\ opinion[s].call # "redSafe" /\ pc'[s] = "sessionLift"
                /\ \/ plan'[s] = [policy |-> SessionOpen, state |-> "red-kept"]
                   \/ plan'[s] = [policy |-> SessionOpen, state |-> "watching"]
      BY <1>0, <1>2, <2>4 DEF SessionDecide, Means, Goto, SystemOK
    <3>2. plan'[s].state = "red-kept" /\ pc'[s] = "mark" => dom[s] \in Operational
      BY <3>1 DEF Protected, GateAllows
    <3>3. /\ pc'[s] \in {"mark", "policy", "sessionLift"}
          /\ plan'[s].state \in {"protected", "red-kept", "session-blocked", "watching"}
      BY <3>1
    <3>4. Lists(s, S)'
      BY <1>0, <2>1, <3>1, <3>3 DEF Lists, InRegate, Acting
    <3>5. Opened(s, S)'
      BY <1>0, <2>1, <3>3 DEF Opened
    <3>6. Opinions(s, S)'
      BY <1>0, <2>1, <3>1 DEF Opinions
    <3>7. Writes(s, S)'
      BY <1>0, <2>1, <3>1, <3>2 DEF Writes, Fits, Spent, NoRule, SessionBlock, SessionOpen, GuardOpen, AutoBlock
    <3>8. ASSUME NEW e \in S PROVE Facts(s, e)'
      <4>1. Facts(s, e)
        BY <1>0
      <4> QED BY <2>1, <3>1, <3>3, <4>1 DEF Facts, Fits, Spent, Earns, Mending, BlockAgreement
    <3> QED BY <3>4, <3>5, <3>6, <3>7, <3>8 DEF Mine, Turn
  <2> QED BY <2>3, <2>4
<1>3. CASE SessionLift(s)
  <2>1. /\ pc[s] = "sessionLift" /\ pc'[s] = (IF policy[dom[s]].action = "block" THEN "policy" ELSE "mark")
        /\ UNCHANGED <<policy, verdict, decision, dom, back, plan, todo, batch, held, opinion, was>>
        /\ plan[s].policy = SessionOpen
    BY <1>0, <1>3 DEF SessionLift, Goto, Blocked, SystemOK, Earned
  <2>2. dom[s] \in S =>
        /\ verdict[dom[s]].court = "session" /\ verdict[dom[s]].call # "redSafe"
        /\ plan[s].state \in {"red-kept", "watching"}
    BY <1>0, <2>1 DEF Opinions
  <2>3. Lists(s, S)'
    BY <1>0, <2>1 DEF Lists, InRegate, Acting
  <2>4. Opened(s, S)' /\ Opinions(s, S)'
    BY <1>0, <2>1 DEF Opened, Opinions
  <2>5. Writes(s, S)'
    BY <2>1, <2>2 DEF Writes, Fits, Spent, SessionOpen, GuardOpen, AutoBlock
  <2>6. ASSUME NEW e \in S PROVE Facts(s, e)'
    <3>1. Facts(s, e)
      BY <1>0
    <3> QED BY <2>1, <2>2, <3>1 DEF Facts, Fits, Spent, Earns, Mending, BlockAgreement
  <2> QED BY <2>3, <2>4, <2>5, <2>6 DEF Mine, Turn
<1> QED BY <1>1, <1>2, <1>3

\* The mail watcher asks, and lifts or lets go.
LEMMA MailTurns ==
  ASSUME NEW S \in SUBSET Domains, SystemOK, NEW m \in Mailers, Earned(m), Mine(m, S),
         MailCheck(m) \/ MailRelease(m) \/ \E d \in Domains : MailImage(m, d)
  PROVE  Mine(m, S)'
<1>0. /\ m \in Threads /\ m \notin Reviewers /\ m \notin Sessions /\ m \notin Users
      /\ todo[m] = {} /\ batch[m] = {} /\ back[m] = "idle"
      /\ Lists(m, S) /\ Opened(m, S) /\ Writes(m, S) /\ Opinions(m, S) /\ \A e \in S : Facts(m, e)
      /\ pc[m] \in {"idle", "mail", "mailSource"}
      /\ UNCHANGED <<policy, verdict, decision, back, todo, batch, held>>
  BY KindsAssumption DEF Mine, Turn, Lists, MailCheck, MailRelease, MailImage
<1>1. \A e \in S : Facts(m, e)'
  BY <1>0, FactsStay DEF Between
<1>2. CASE Return(m) /\ pc[m] # "idle"
  BY <1>0, <1>1, <1>2, LetGo DEF Acting
<1>3. CASE pc'[m] \in {"mail", "mailSource", "lift"} /\ dom'[m] \in Domains
  <2>1. Lists(m, S)'
    BY <1>0, <1>3 DEF Lists, InRegate, Acting
  <2>2. Opened(m, S)' /\ Writes(m, S)' /\ Opinions(m, S)'
    BY <1>0, <1>3 DEF Opened, Writes, Opinions
  <2> QED BY <1>1, <2>1, <2>2 DEF Mine, Turn
<1>4. \/ Return(m) /\ pc[m] # "idle"
      \/ pc'[m] \in {"mail", "mailSource", "lift"} /\ dom'[m] \in Domains
  <2>1. ASSUME NEW d \in Domains, MailImage(m, d) PROVE pc'[m] = "mail" /\ dom'[m] \in Domains
    BY <1>0, <2>1 DEF MailImage, Work, Goto, SystemOK
  <2>2. CASE MailCheck(m) \/ MailRelease(m)
    <3>1. dom[m] \in Domains /\ pc[m] # "idle"
      BY <1>0, <2>2, AtHand DEF MailCheck, MailRelease, Acting
    <3> QED BY <1>0, <2>2, <3>1 DEF MailCheck, MailRelease, Goto, SystemOK
  <2> QED BY <2>1, <2>2
<1> QED BY <1>2, <1>3, <1>4

\* Of the domains: each but the one that some thread has in hand.
Told(d)      == \/ Fits(policy[d], decision[d])
                \/ \E t \in Threads : dom[t] = d /\ pc[t] \in {"mark", "forget"}
Explained(d) == decision[d] = "auto-blocked" =>
                  Earns(verdict[d]) \/ \E t \in Threads : dom[t] = d /\ Mending(t)
Freed(d)     == policy[d] = GuardOpen =>
                  \/ Spent(d, decision[d])
                  \/ \E t \in Threads : dom[t] = d /\ pc[t] \in {"session", "sessionLift", "policy", "mark"}

HandInv == /\ \A d \in Domains : Contested(d) => d \in met
           /\ \A t \in Threads : \A S \in SUBSET (Domains \ met) : Turn(t, S)
           /\ \A d \in Domains \ met : Told(d) /\ Explained(d) /\ Freed(d)

\* A step of thread t.
Moves(t) == (t \in Reviewers /\ (ReviewStep(t) \/ FailCycle(t))) \/ DashboardStep(t) \/ FailCall(t)

\* The thread that moves keeps its turn with the domains only it has in hand.
LEMMA MoverTurns ==
  ASSUME NEW S \in SUBSET Domains, SystemOK, NEW t \in Threads, Earned(t), Mine(t, S), Moves(t),
         failures' # failures => dom[t] \notin S
  PROVE  Mine(t, S)'
<1>1. CASE (t \in Reviewers /\ FailCycle(t)) \/ FailCall(t)
  <2>1. failures' # failures
    <3>1. failures \in Nat
      BY ConstantsAssumption DEF SystemOK
    <3>2. failures' = failures + 1
      BY <1>1 DEF FailCycle, FailCall
    <3> QED BY <3>1, <3>2
  <2> QED BY <1>1, <2>1, FailTurns
<1>2. CASE t \in Reviewers /\ ReviewStep(t)
  BY <1>2, CycleTurns, TakingTurns, WritesTurn, StoreTurns, ProtectedTurns, DecideTurns DEF ReviewStep
<1>3. CASE DashboardStep(t)
  BY <1>3, UserTurns, SessionTurns, MailTurns, WritesTurn, StoreTurns DEF DashboardStep
<1> QED BY <1>1, <1>2, <1>3 DEF Moves

\* A thread writes of no domain but those it has at hand.
LEMMA WritesAtHand ==
  ASSUME SystemOK, NEW t \in Threads, Moves(t), NEW d \in Domains, d # dom[t], d # dom'[t]
  PROVE  policy'[d] = policy[d] /\ verdict'[d] = verdict[d] /\ decision'[d] = decision[d]
<1>1. CASE t \in Reviewers /\ ReviewStep(t)
  BY <1>1 DEF ReviewStep, StartRegate, StartReview, TriageProtected, BuildPackets, Court, NoCourt, Decide, NextBatch,
       StartGuard, EndCycle, Regate, Triage, Rule, Guard, Lift, WritePolicy, Mark, StoreVerdict, SystemOK
<1>2. CASE FailCycle(t) \/ FailCall(t)
  BY <1>2 DEF FailCycle, FailCall, SystemOK
<1>3. CASE DashboardStep(t)
  <2>1. ASSUME NEW e \in Domains, UserDecide(t, e)
        PROVE  policy'[d] = policy[d] /\ verdict'[d] = verdict[d] /\ decision'[d] = decision[d]
    <3>1. dom'[t] = e
      BY <2>1 DEF UserDecide, Work, SystemOK
    <3> QED BY <2>1, <3>1 DEF UserDecide, SystemOK
  <2>2. ASSUME ~ \E e \in Domains : UserDecide(t, e)
        PROVE  policy'[d] = policy[d] /\ verdict'[d] = verdict[d] /\ decision'[d] = decision[d]
    BY <1>3, <2>2 DEF DashboardStep, UserForget, SessionDecide, SessionLift, SessionVerdict, MailCheck, MailRelease,
         MailImage, Lift, WritePolicy, Mark, StoreVerdict, SystemOK
  <2> QED BY <2>1, <2>2
<1> QED BY <1>1, <1>2, <1>3 DEF Moves

\* A thread keeps its turn while nothing is written of the domains it has.
LEMMA OthersTurn ==
  ASSUME NEW S \in SUBSET Domains, NEW u \in Threads, Turn(u, S),
         pc'[u] = pc[u], back'[u] = back[u], dom'[u] = dom[u], plan'[u] = plan[u], todo'[u] = todo[u],
         batch'[u] = batch[u], held'[u] = held[u], opinion'[u] = opinion[u], was'[u] = was[u],
         \A d \in S : Holds(u, d) =>
           policy'[d] = policy[d] /\ verdict'[d] = verdict[d] /\ decision'[d] = decision[d]
  PROVE  Turn(u, S)'
<1>1. Lists(u, S)'
  BY DEF Turn, Lists, InRegate, Holds
<1>2. Opened(u, S)'
  BY DEF Turn, Opened, Holds
<1>3. Writes(u, S)'
  BY DEF Turn, Writes, Fits, Spent, Earns, BlockAgreement, Holds
<1>4. Opinions(u, S)'
  BY DEF Turn, Opinions, Holds
<1> QED BY <1>1, <1>2, <1>3, <1>4 DEF Turn

\* The turn of a thread says nothing of the domains it does not have.
LEMMA TurnOfMine ==
  ASSUME NEW S \in SUBSET Domains, NEW Q \in SUBSET Domains, NEW t \in Threads, Turn(t, Q)',
         \A d \in S \ Q : ~Holds(t, d)'
  PROVE  Turn(t, S)'
<1>1. Lists(t, S)'
  BY DEF Turn, Lists, Holds
<1>2. Opened(t, S)'
  BY DEF Turn, Opened, Holds
<1>3. Writes(t, S)' /\ Opinions(t, S)'
  BY DEF Turn, Writes, Opinions, Holds
<1> QED BY <1>1, <1>2, <1>3 DEF Turn

\* With a domain that only t has in hand, its facts are those of t.
LEMMA FactsOfMine ==
  ASSUME NEW t \in Threads, NEW d \in Domains, Told(d), Explained(d), Freed(d),
         \A u \in Threads \ {t} : ~Holds(u, d)
  PROVE  Facts(t, d)
<1>1. \A u \in Threads : dom[u] = d => u = t
  BY DEF Holds
<1> QED BY <1>1 DEF Told, Explained, Freed, Facts

\* A step of one thread keeps the invariant.
LEMMA HandKept ==
  ASSUME SystemOK, ThreadInv, HandInv, NEW t \in Threads, Moves(t), Noted
  PROVE  HandInv'
<1>1. Others(t) /\ Earned(t)
  BY ReviewOthers, DashboardOthers DEF Moves, ThreadInv
<1>2. met \subseteq met' /\ \A d \in Domains : (Contested(d) \/ Contested(d)' \/ Fails(t, d)) => d \in met'
  BY DEF Noted, HandInv
<1>3. ASSUME NEW d \in Domains, d \notin met', NEW u \in Threads \ {t}, Holds(u, d)
      PROVE  /\ ~Holds(t, d) /\ ~Holds(t, d)'
             /\ policy'[d] = policy[d] /\ verdict'[d] = verdict[d] /\ decision'[d] = decision[d]
  <2>1. ~Holds(t, d)
    BY <1>2, <1>3 DEF Contested
  <2>2. Holds(u, d)'
    BY <1>1, <1>3 DEF Others, Holds
  <2>3. ~Holds(t, d)'
    BY <1>2, <1>3, <2>2 DEF Contested
  <2> QED BY <2>1, <2>3, WritesAtHand DEF Holds
<1>4. failures' # failures => dom[t] \notin Domains \/ dom[t] \in met'
  <2> SUFFICES ASSUME failures' # failures, dom[t] \in Domains PROVE dom[t] \in met'
    OBVIOUS
  <2>1. FailCycle(t) \/ FailCall(t)
    BY DEF Moves, ReviewStep, DashboardStep, StartRegate, StartReview, TriageProtected, BuildPackets, Court, NoCourt,
       Decide, NextBatch, StartGuard, EndCycle, Regate, Triage, Rule, Guard, Lift, WritePolicy, Mark, StoreVerdict,
       UserForget, UserDecide, SessionDecide, SessionLift, SessionVerdict, MailCheck, MailRelease, MailImage
  <2>2. dom'[t] = NoDomain
    BY <2>1 DEF FailCycle, FailCall, Return, SystemOK
  <2> QED BY <1>2, <2>2, ConstantsAssumption DEF Fails
<1>5. ASSUME NEW Q \in SUBSET Domains, \A d \in Q : d \notin met' /\ \A u \in Threads \ {t} : ~Holds(u, d)
      PROVE  Mine(t, Q)'
  <2>1. Q \in SUBSET (Domains \ met)
    BY <1>2, <1>5
  <2>2. Turn(t, Q) /\ \A d \in Q : Facts(t, d)
    BY <1>5, <2>1, FactsOfMine DEF HandInv
  <2> QED BY <1>1, <1>4, <1>5, <2>2, MoverTurns DEF Mine
<1>6. ASSUME NEW S \in SUBSET (Domains \ met') PROVE Turn(t, S)'
  <2>1. PICK Q \in SUBSET Domains : Q = {d \in S : \A u \in Threads \ {t} : ~Holds(u, d)}
    OBVIOUS
  <2>2. Turn(t, Q)'
    BY <1>5, <2>1 DEF Mine
  <2>3. \A d \in S \ Q : ~Holds(t, d)'
    BY <1>3, <2>1
  <2> QED BY <2>2, <2>3, TurnOfMine
<1>7. ASSUME NEW u \in Threads \ {t}, NEW S \in SUBSET (Domains \ met') PROVE Turn(u, S)'
  <2>1. Turn(u, S)
    BY <1>2 DEF HandInv
  <2>2. /\ pc'[u] = pc[u] /\ back'[u] = back[u] /\ dom'[u] = dom[u] /\ plan'[u] = plan[u] /\ todo'[u] = todo[u]
        /\ batch'[u] = batch[u] /\ held'[u] = held[u] /\ opinion'[u] = opinion[u] /\ was'[u] = was[u]
    BY <1>1 DEF Others
  <2>3. \A d \in S : Holds(u, d) =>
           policy'[d] = policy[d] /\ verdict'[d] = verdict[d] /\ decision'[d] = decision[d]
    BY <1>3
  <2> QED BY <2>1, <2>2, <2>3, OthersTurn
<1>8. ASSUME NEW d \in Domains \ met' PROVE Told(d)' /\ Explained(d)' /\ Freed(d)'
  <2>1. CASE \A u \in Threads \ {t} : ~Holds(u, d)
    <3>1. Facts(t, d)'
      <4>1. Mine(t, {d})'
        BY <1>5, <2>1
      <4> QED BY <4>1 DEF Mine
    <3> QED BY <3>1 DEF Facts, Told, Explained, Freed
  <2>2. CASE \E u \in Threads \ {t} : Holds(u, d)
    <3>1. Told(d) /\ Explained(d) /\ Freed(d)
      BY <1>2 DEF HandInv
    <3>2. /\ policy'[d] = policy[d] /\ verdict'[d] = verdict[d] /\ decision'[d] = decision[d]
          /\ dom[t] # d
      BY <1>3, <2>2 DEF Holds
    <3>3. \A w \in Threads : dom[w] = d => dom'[w] = d /\ pc'[w] = pc[w] /\ plan'[w] = plan[w]
      BY <1>1, <3>2 DEF Others
    <3> QED BY <3>1, <3>2, <3>3 DEF Told, Explained, Freed, Fits, Spent, Earns, Mending, BlockAgreement
  <2> QED BY <2>1, <2>2
<1>9. \A d \in Domains : Contested(d)' => d \in met'
  BY <1>2
<1> QED BY <1>6, <1>7, <1>8, <1>9 DEF HandInv

\* What the machine does touches nothing of this.
LEMMA MachineHands ==
  ASSUME HandInv, Resting, UNCHANGED <<policy, verdict, decision, failures>>, UNCHANGED vars \/ Noted
  PROVE  HandInv'
<1>1. met \subseteq met' /\ \A d \in Domains : Contested(d)' => d \in met'
  <2>1. CASE UNCHANGED vars
    <3>1. \A d \in Domains : Contested(d)' <=> Contested(d)
      BY DEF Resting, Contested, Holds
    <3> QED BY <2>1, <3>1 DEF vars, HandInv
  <2>2. CASE Noted
    BY <2>2 DEF Noted
  <2> QED BY <2>1, <2>2
<1>2. ASSUME NEW u \in Threads, NEW S \in SUBSET (Domains \ met') PROVE Turn(u, S)'
  <2>1. Turn(u, S)
    BY <1>1 DEF HandInv
  <2> QED BY <2>1, OthersTurn DEF Resting
<1>3. ASSUME NEW d \in Domains \ met' PROVE Told(d)' /\ Explained(d)' /\ Freed(d)'
  <2>1. Told(d) /\ Explained(d) /\ Freed(d)
    BY <1>1 DEF HandInv
  <2> QED BY <2>1 DEF Resting, Told, Explained, Freed, Fits, Spent, Earns, Mending, BlockAgreement
<1> QED BY <1>1, <1>2, <1>3 DEF HandInv

\* In every state of the threads.
LEMMA Hands == Spec => [](SystemOK /\ ThreadInv /\ HandInv)
<1>1. Init => HandInv
  <2> SUFFICES ASSUME Init PROVE HandInv
    OBVIOUS
  <2>1. ASSUME NEW d \in Domains PROVE ~Contested(d)
    BY ConstantsAssumption DEF Init, Contested, Holds
  <2>2. ASSUME NEW t \in Threads, NEW S \in SUBSET (Domains \ met) PROVE Turn(t, S)
    BY DEF Init, Turn, Lists, Opened, Writes, Opinions, InRegate, Acting
  <2>3. ASSUME NEW d \in Domains PROVE Told(d) /\ Explained(d) /\ Freed(d)
    BY DEF Init, Told, Explained, Freed, Fits, NoRule, GuardOpen
  <2> QED BY <2>1, <2>2, <2>3 DEF HandInv
<1>2. SystemOK /\ ThreadInv /\ HandInv /\ [Next]_vars => HandInv'
  <2> SUFFICES ASSUME SystemOK, ThreadInv, HandInv, [Next]_vars PROVE HandInv'
    OBVIOUS
  <2>1. UNCHANGED vars \/ Noted
    BY DEF Next
  <2>2. CASE Resting /\ UNCHANGED <<policy, verdict, decision, failures>>
    BY <2>1, <2>2, MachineHands
  <2>3. ASSUME NEW t \in Threads, Moves(t) PROVE HandInv'
    <3>1. CASE Noted
      BY <2>3, <3>1, HandKept
    <3>2. CASE UNCHANGED vars
      BY <2>1, <3>2, MachineHands, MachineRests
    <3> QED BY <2>1, <3>1, <3>2
  <2> QED BY <2>2, <2>3, WhoMoves DEF Moves
<1> QED BY <1>1, <1>2, Grounds, PTL DEF Spec

-----------------------------------------------------------------------------
(* What follows.                                                           *)

\* A domain is marked as blocked by the review only with a verdict stored that may block, or while
\* some thread has it at hand: unless two threads have had it at once, or one failed with it.
THEOREM MarksExplained == Spec => []BlockExplained
<1>1. HandInv => BlockExplained
  BY DEF HandInv, Explained, Earns, BlockExplained
<1> QED BY <1>1, Hands, PTL

\* What the guard has opened no review blocks again, whatever verdicts, programs and sessions come
\* after it, if one thread at a time takes the domain up and none fails with it.
THEOREM ReleaseStands == Spec => ReleasedStaysOpen
<1> DEFINE Stays == \A d \in Domains \ met : policy[d] = GuardOpen => policy'[d] # AutoBlock
<1>1. SystemOK /\ ThreadInv /\ HandInv /\ [Next]_vars => Stays
  <2> SUFFICES ASSUME SystemOK, HandInv, [Next]_vars, NEW d \in Domains \ met,
                      policy[d] = GuardOpen, policy'[d] = AutoBlock
               PROVE  FALSE
    OBVIOUS
  <2>1. policy'[d] # policy[d] /\ policy'[d] \notin {UserAllow, UserBlock, NoRule}
    BY DEF GuardOpen, AutoBlock, UserAllow, UserBlock, NoRule
  <2>2. PICK t \in Threads : dom[t] = d /\ pc[t] = "policy" /\ plan[t].policy = AutoBlock
    BY <2>1, RuleWritten
  <2>3. Writes(t, {d})
    BY DEF HandInv, Turn
  <2> QED BY <2>2, <2>3 DEF Writes
<1> QED BY <1>1, Hands, PTL DEF Spec, ReleasedStaysOpen

=============================================================================
