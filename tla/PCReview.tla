------------------------------ MODULE PCReview ------------------------------
(***************************************************************************)
(* How the PC section decides what to block (pc_protection.py,             *)
(* PCProtection), with every thread that decides something about a domain: *)
(*                                                                         *)
(*   Loopers   the pc-review thread: regate, then review_cycle, for ever   *)
(*   Runners   a review_cycle started by POST /api/pc/review               *)
(*   Users     user_decision, from the dashboard                           *)
(*   Sessions  apply_session_verdict, the user's own verdict               *)
(*   Mailers   release_mail_images, called by the mail watcher             *)
(*                                                                         *)
(* Shared state is the PC policy (what the resolver obeys, PolicyStore)    *)
(* and the domain entries (verdict, decision, calling programs). Each has  *)
(* a lock of its own and no operation holds both, so an action here is one *)
(* critical section: what a thread copied under a lock stays in its locals *)
(* (held, was, opinion, plan) until it is used, stale or not.        *)
(***************************************************************************)
EXTENDS BlockGates, Naturals

CONSTANTS
  Loopers, Runners, Users, Sessions, Mailers,
  NoDomain,      \* the domain of a thread that works on none
  MaxFailures    \* bound: review cycles that end with an exception

Reviewers == Loopers \cup Runners
Threads   == Reviewers \cup Users \cup Sessions \cup Mailers

ASSUME ConstantsAssumption ==
  /\ MaxFailures \in Nat
  /\ NoDomain \notin Domains

\* A thread is of one kind.
ASSUME KindsAssumption ==
  /\ Reviewers \cap Users = {} /\ Reviewers \cap Sessions = {}
  /\ Reviewers \cap Mailers = {} /\ Users \cap Sessions = {}
  /\ Users \cap Mailers = {} /\ Sessions \cap Mailers = {}

-----------------------------------------------------------------------------
(* The rules of the PC policy, and the states of a domain's entry.         *)

Action == {"none", "monitor", "allow", "block"}
Source == {"none", "pc-auto", "pc-guard", "pc-user", "pc-session"}
Policy == [action : Action, source : Source]

NoRule       == [action |-> "none",    source |-> "none"]
AutoBlock    == [action |-> "block",   source |-> "pc-auto"]
GuardOpen    == [action |-> "monitor", source |-> "pc-guard"]
UserAllow    == [action |-> "allow",   source |-> "pc-user"]
UserBlock    == [action |-> "block",   source |-> "pc-user"]
SessionBlock == [action |-> "block",   source |-> "pc-session"]
SessionOpen  == [action |-> "monitor", source |-> "pc-session"]

UserStates == {"user-allowed", "user-blocked"}
State == UserStates \cup
  {"watching", "red-kept", "protected", "auto-blocked", "guard-released", "session-blocked"}

Plan == [policy : Policy, state : State]
Idle == [policy |-> NoRule, state |-> "watching"]

Phase == {"idle", "regate", "triage", "guarded", "court", "rule", "store", "decide",
          "guard", "lift", "policy", "mark", "forget", "session", "sessionLift", "mail", "mailSource"}

VARIABLES
  policy,     \* policy[d]: the PC rule the resolver obeys
  verdict,    \* verdict[d], decision[d], callers[d], recheck[d]: the domain's entry
  decision,
  callers,
  recheck,
  storm,      \* storm[d]: sixty calls in the last ten minutes while it was blocked
  pc, back,   \* where each thread is, and where it goes on after a decision
  dom,        \* the domain it is working on
  todo,       \* the domains left of the list it took
  batch,      \* the domains its review still has to put before the court
  held,       \* verdicts it copied (regate) or got from the court (review)
  was,        \* decision it copied
  opinion,    \* the verdict it is applying
  plan,       \* the writes it has decided on
  failures,
  met,        \* history: domains two threads had in hand at once, or a thread that failed
  cut, torn   \* history: threads at their second write whose first another has changed since; domains
              \* that such a thread was the last to decide on, or one that failed before the second

store  == <<policy, verdict, decision, callers, recheck>>
world  == <<storm, hosts, images, apps>>
locals == <<todo, batch, held, was, opinion>>
system == <<store, world, pc, back, dom, plan, locals, failures>>
vars   == <<system, met, cut, torn>>

-----------------------------------------------------------------------------
(* What becomes of a verdict.                                              *)

\* local_guard: a protected host, or a function of its callers.
Protected(d, cs) == ProtectedHost(d) \/ Role(d, cs) = "function"

\* Broken on purpose (mutant): the agreement is not asked for.
OutcomeAnyAgreement(d, cs, v) ==
  CASE v.court = "pending" \/ v.call = "clear" -> "watching"
    [] v.call = "red"                          -> "red-kept"
    [] ~GateAllows(d, cs)                      -> "red-kept"
    [] cs = {} /\ d \notin Additional          -> "red-kept"
    [] OTHER                                   -> "auto-blocked"

\* decide: the gates in the order the code asks them.
Outcome(d, cs, v) ==
  CASE v.court = "pending" \/ v.call = "clear"      -> "watching"
    [] v.call = "red" \/ ~BlockAgreement(v)         -> "red-kept"
    [] ~GateAllows(d, cs)                           -> "red-kept"
    [] cs = {} /\ d \notin Additional               -> "red-kept"
    [] OTHER                                        -> "auto-blocked"

Blocked(d) == policy[d].action = "block"

-----------------------------------------------------------------------------
Init ==
  /\ policy   = [d \in Domains |-> NoRule]
  /\ verdict  = [d \in Domains |-> NoVerdict]
  /\ decision = [d \in Domains |-> "watching"]
  /\ callers  = [d \in Domains |-> {}]
  /\ recheck  = [d \in Domains |-> FALSE]
  /\ storm    = [d \in Domains |-> FALSE]
  /\ hosts    = {}
  /\ images   = {}
  /\ apps     = {}
  /\ pc       = [t \in Threads |-> "idle"]
  /\ back     = [t \in Threads |-> "idle"]
  /\ dom      = [t \in Threads |-> NoDomain]
  /\ todo     = [t \in Threads |-> {}]
  /\ batch    = [t \in Threads |-> {}]
  /\ held     = [t \in Threads |-> [d \in Domains |-> NoVerdict]]
  /\ was      = [t \in Threads |-> "watching"]
  /\ opinion  = [t \in Threads |-> NoVerdict]
  /\ plan     = [t \in Threads |-> Idle]
  /\ failures = 0
  /\ met = {} /\ cut = {} /\ torn = {}

Goto(t, phase) == pc' = [pc EXCEPT ![t] = phase]

\* What a thread does when the decision on its domain is done: _set_decision's caller returns.
Return(t) ==
  /\ Goto(t, back[t])
  /\ dom'     = [dom     EXCEPT ![t] = NoDomain]
  /\ opinion' = [opinion EXCEPT ![t] = NoVerdict]
  /\ plan'    = [plan    EXCEPT ![t] = Idle]
  /\ was'     = [was     EXCEPT ![t] = "watching"]

Work(t, d) == dom' = [dom EXCEPT ![t] = d]
Take(t, d) == d \in todo[t] /\ todo' = [todo EXCEPT ![t] = @ \ {d}]
Means(t, p, s) == plan' = [plan EXCEPT ![t] = [policy |-> p, state |-> s]]

-----------------------------------------------------------------------------
(* The writes every thread ends in.                                        *)

\* Broken on purpose (mutants): the decision is released and the rule stays; a released
\* domain is only watched again; a state no one knows.
LiftNothing(t) ==
  /\ pc[t] = "lift"
  /\ Goto(t, "mark")
  /\ Means(t, GuardOpen, "guard-released")
  /\ UNCHANGED <<store, world, back, dom, locals, failures>>

LiftToWatching(t) ==
  /\ pc[t] = "lift"
  /\ Goto(t, IF Blocked(dom[t]) THEN "policy" ELSE "mark")
  /\ Means(t, GuardOpen, "watching")
  /\ UNCHANGED <<store, world, back, dom, locals, failures>>

LiftToUnknown(t) ==
  /\ pc[t] = "lift"
  /\ Goto(t, IF Blocked(dom[t]) THEN "policy" ELSE "mark")
  /\ Means(t, GuardOpen, "released")
  /\ UNCHANGED <<store, world, back, dom, locals, failures>>

\* _unblock, first half: the policy is asked whether there is a block to lift.
Lift(t) ==
  /\ pc[t] = "lift"
  /\ Goto(t, IF Blocked(dom[t]) THEN "policy" ELSE "mark")
  /\ Means(t, GuardOpen, "guard-released")
  /\ UNCHANGED <<store, world, back, dom, locals, failures>>

\* PolicyStore.update, saved before it returns.
WritePolicy(t) ==
  /\ pc[t] = "policy"
  /\ policy' = [policy EXCEPT ![dom[t]] = plan[t].policy]
  /\ Goto(t, "mark")
  /\ UNCHANGED <<verdict, decision, callers, recheck, world, back, dom, plan, locals, failures>>

\* _set_decision: whatever the decision was, and any recheck asked meanwhile, is overwritten.
Mark(t) ==
  /\ pc[t] = "mark"
  /\ decision' = [decision EXCEPT ![dom[t]] = plan[t].state]
  /\ recheck'  = [recheck  EXCEPT ![dom[t]] = FALSE]
  /\ Return(t)
  /\ UNCHANGED <<policy, verdict, callers, world, back, todo, batch, held, failures>>

\* A verdict is stored in the domain's entry: by a review before decide, by a session before
\* it looks at the decision it copied.
StoreVerdict(t) ==
  /\ pc[t] = "store"
  /\ verdict' = [verdict EXCEPT ![dom[t]] = opinion[t]]
  /\ Goto(t, IF t \in Sessions THEN "session" ELSE "decide")
  /\ UNCHANGED <<policy, decision, callers, recheck, world, back, dom, plan, locals, failures>>

-----------------------------------------------------------------------------
(* The review threads.                                                     *)

\* regate: a copy of every red that was kept open although the main model upheld it.
Kept(d) == /\ decision[d] = "red-kept"
           /\ verdict[d].call = "redSafe"
           /\ DecidedByMain(verdict[d])

StartRegate(r) ==
  /\ r \in Loopers /\ pc[r] = "idle"
  /\ todo' = [todo EXCEPT ![r] = {d \in Domains : Kept(d)}]
  /\ held' = [held EXCEPT ![r] = verdict]
  /\ Goto(r, "regate")
  /\ UNCHANGED <<store, world, back, dom, plan, batch, was, opinion, failures>>

Regate(r, d) ==
  /\ pc[r] = "regate" /\ Take(r, d)
  /\ IF Protected(d, callers[d])
     THEN UNCHANGED <<pc, back, dom, opinion>>
     ELSE /\ Work(r, d)
          /\ opinion' = [opinion EXCEPT ![r] = held[r][d]]
          /\ back' = [back EXCEPT ![r] = "regate"]
          /\ Goto(r, "decide")
  /\ UNCHANGED <<store, world, plan, batch, held, was, failures>>

\* Broken on purpose (mutant): the user's decisions are reviewed like any other.
CandidateOfUser(d) ==
  /\ decision[d] \notin {"guard-released", "session-blocked"}
  /\ verdict[d].court # "session"
  /\ decision[d] = "protected" => recheck[d]

\* candidates: what may be reviewed. Whether it is due (age, backoff of failed reviews, the
\* judge's window, the quota) is a matter of clocks: any subset of these may be.
Candidate(d) ==
  /\ decision[d] \notin UserStates \cup {"guard-released", "session-blocked"}
  /\ verdict[d].court # "session"
  /\ decision[d] = "protected" => recheck[d]

StartReview(r) ==
  /\ \/ r \in Runners /\ pc[r] = "idle"
     \/ pc[r] = "regate" /\ todo[r] = {}
  /\ \E due \in SUBSET {d \in Domains : Candidate(d)} :
       todo' = [todo EXCEPT ![r] = due]
  /\ Goto(r, "triage")
  /\ UNCHANGED <<store, world, back, dom, plan, batch, held, was, opinion, failures>>

\* The entry is copied and the local guard asked. A domain nobody was seen calling yet waits
\* two minutes for its program unless its name is enough.
Triage(r, d) ==
  /\ pc[r] = "triage" /\ Take(r, d)
  /\ IF Protected(d, callers[d])
     THEN /\ Work(r, d)
          /\ was' = [was EXCEPT ![r] = decision[d]]
          /\ Goto(r, "guarded")
          /\ UNCHANGED batch
     ELSE /\ \/ batch' = [batch EXCEPT ![r] = @ \cup {d}]
             \/ callers[d] = {} /\ d \notin Additional /\ UNCHANGED batch
          /\ UNCHANGED <<pc, dom, was>>
  /\ UNCHANGED <<store, world, back, plan, held, opinion, failures>>

\* A protected domain: its automatic block is lifted, else it is marked as protected.
TriageProtected(r) ==
  /\ pc[r] = "guarded"
  /\ back' = [back EXCEPT ![r] = "triage"]
  /\ Means(r, NoRule, "protected")
  /\ Goto(r, IF Blocked(dom[r]) /\ was[r] = "auto-blocked" THEN "lift" ELSE "mark")
  /\ UNCHANGED <<store, world, dom, locals, failures>>

\* memory.hold may keep the whole batch for later; else packets are built from the callers
\* known now, and the court is asked, or the built-in rules when AI review is off.
BuildPackets(r) ==
  /\ pc[r] = "triage" /\ todo[r] = {}
  /\ \E held_back \in BOOLEAN :
       batch' = [batch EXCEPT ![r] = IF held_back THEN {} ELSE @]
  /\ Goto(r, "court")
  /\ UNCHANGED <<store, world, back, dom, plan, todo, held, was, opinion, failures>>

\* review_batch, research and decide_batch: minutes without a lock. What gets no answer is
\* left for another cycle; the rest comes back pending or decided.
Court(r) ==
  /\ pc[r] = "court" /\ todo[r] = {} /\ batch[r] # {}
  /\ \E some \in SUBSET batch[r] \ {{}} :
       /\ batch' = [batch EXCEPT ![r] = @ \ some]
       /\ \E answered \in SUBSET some :
            /\ todo' = [todo EXCEPT ![r] = answered]
            /\ \E answer \in [answered -> {Pending} \cup
                                [court : {"judged", "single"}, call : Calls]] :
                 held' = [held EXCEPT ![r] =
                            [d \in Domains |-> IF d \in answered THEN answer[d] ELSE NoVerdict]]
  /\ Goto(r, "rule")
  /\ UNCHANGED <<store, world, back, dom, plan, was, opinion, failures>>

\* AI review off: no court, the verdict is the built-in rules' (BuiltIn, at Rule).
NoCourt(r) ==
  /\ pc[r] = "court" /\ todo[r] = {} /\ batch[r] # {}
  /\ todo'  = [todo  EXCEPT ![r] = batch[r]]
  /\ batch' = [batch EXCEPT ![r] = {}]
  /\ held'  = [held  EXCEPT ![r] = [d \in Domains |-> NoVerdict]]
  /\ Goto(r, "rule")
  /\ UNCHANGED <<store, world, back, dom, plan, was, opinion, failures>>

\* The user's rules correct the answer, for the callers known at this moment.
Rule(r, d) ==
  /\ pc[r] = "rule" /\ Take(r, d)
  /\ Work(r, d)
  /\ \E v \in IF held[r][d] = NoVerdict THEN BuiltIn(d, callers[d])
              ELSE Enforced(d, callers[d], held[r][d]) :
       opinion' = [opinion EXCEPT ![r] = v]
  /\ back' = [back EXCEPT ![r] = "rule"]
  /\ Goto(r, "store")
  /\ UNCHANGED <<store, world, plan, batch, held, was, failures>>

\* decide: the entry is copied once, and the gates are asked about that copy. Only a release
\* by the guard is looked at; the user's own decision is not.
Decide(r) ==
  /\ pc[r] = "decide"
  /\ IF decision[dom[r]] = "guard-released"
     THEN Return(r)
     ELSE LET s == Outcome(dom[r], callers[dom[r]], opinion[r])
          IN  /\ Means(r, IF s = "auto-blocked" THEN AutoBlock ELSE NoRule, s)
              /\ Goto(r, IF s = "auto-blocked" THEN "policy" ELSE "mark")
              /\ UNCHANGED <<dom, opinion, was>>
  /\ UNCHANGED <<store, world, back, todo, batch, held, failures>>

\* The next batch of the same cycle.
NextBatch(r) ==
  /\ pc[r] = "rule" /\ todo[r] = {} /\ batch[r] # {}
  /\ Goto(r, "court")
  /\ UNCHANGED <<store, world, back, dom, plan, locals, failures>>

\* Broken on purpose (mutant): only the user's session blocks are looked after.
StartGuardSessions(r) ==
  /\ pc[r] \in {"court", "rule"} /\ todo[r] = {} /\ batch[r] = {}
  /\ todo' = [todo EXCEPT ![r] = {d \in Domains : decision[d] = "session-blocked"}]
  /\ Goto(r, "guard")
  /\ UNCHANGED <<store, world, back, dom, plan, batch, held, was, opinion, failures>>

\* guard_blocked: the list of blocks the review or a session made.
StartGuard(r) ==
  /\ pc[r] \in {"court", "rule"} /\ todo[r] = {} /\ batch[r] = {}
  /\ todo' = [todo EXCEPT ![r] =
                {d \in Domains : decision[d] \in {"auto-blocked", "session-blocked"}}]
  /\ Goto(r, "guard")
  /\ UNCHANGED <<store, world, back, dom, plan, batch, held, was, opinion, failures>>

\* Lifted if a program turns out to need it, or if it is asked for like something needed.
Needed(d) == \/ Protected(d, callers[d])
             \/ storm[d] /\ decision[d] = "auto-blocked"

Guard(r, d) ==
  /\ pc[r] = "guard" /\ Take(r, d)
  /\ IF Needed(d)
     THEN /\ Work(r, d)
          /\ back' = [back EXCEPT ![r] = "guard"]
          /\ Goto(r, "lift")
     ELSE UNCHANGED <<pc, back, dom>>
  /\ UNCHANGED <<store, world, plan, batch, held, was, opinion, failures>>

\* A cycle is over, and its locals with it.
Reset(r) ==
  /\ back'  = [back  EXCEPT ![r] = "idle"]
  /\ todo'  = [todo  EXCEPT ![r] = {}]
  /\ batch' = [batch EXCEPT ![r] = {}]
  /\ held'  = [held  EXCEPT ![r] = [d \in Domains |-> NoVerdict]]

EndCycle(r) ==
  /\ pc[r] = "guard" /\ todo[r] = {}
  /\ Goto(r, "idle")
  /\ Reset(r)
  /\ UNCHANGED <<store, world, dom, plan, was, opinion, failures>>

\* A cycle ends with an exception, which review_loop swallows: the court's; one about callers that
\* changed while they were read, without the lock; that of a rule's save, the rule being changed in memory
\* by then; or that of the decision's log, the decision being written. The guard is not reached.
FailCycle(r) ==
  /\ failures < MaxFailures
  /\ failures' = failures + 1
  /\ \/ /\ pc[r] \in {"regate", "triage", "court", "rule", "decide", "guard"}
        /\ UNCHANGED <<policy, decision, recheck>>
     \/ /\ pc[r] = "policy" /\ policy' = [policy EXCEPT ![dom[r]] = plan[r].policy]
        /\ UNCHANGED <<decision, recheck>>
     \/ /\ pc[r] = "mark" /\ decision[dom[r]] # plan[r].state
        /\ decision' = [decision EXCEPT ![dom[r]] = plan[r].state]
        /\ recheck'  = [recheck  EXCEPT ![dom[r]] = FALSE]
        /\ UNCHANGED policy
  /\ Goto(r, "idle")
  /\ Reset(r)
  /\ dom'     = [dom     EXCEPT ![r] = NoDomain]
  /\ opinion' = [opinion EXCEPT ![r] = NoVerdict]
  /\ plan'    = [plan    EXCEPT ![r] = Idle]
  /\ was'     = [was     EXCEPT ![r] = "watching"]
  /\ UNCHANGED <<verdict, callers, world>>

ReviewStep(r) ==
  \/ StartRegate(r) \/ StartReview(r) \/ TriageProtected(r) \/ BuildPackets(r)
  \/ Court(r) \/ NoCourt(r) \/ Decide(r) \/ NextBatch(r) \/ StartGuard(r) \/ EndCycle(r)
  \/ \E d \in Domains : Regate(r, d) \/ Triage(r, d) \/ Rule(r, d) \/ Guard(r, d)
  \/ Lift(r) \/ WritePolicy(r) \/ Mark(r) \/ StoreVerdict(r)

-----------------------------------------------------------------------------
(* The dashboard threads: the user's decision, and the user's own verdict. *)

\* user_decision: the policy first.
UserDecide(u, d) ==
  /\ pc[u] = "idle"
  /\ \E choice \in {[policy |-> UserAllow, state |-> "user-allowed"],
                    [policy |-> UserBlock, state |-> "user-blocked"],
                    [policy |-> NoRule,    state |-> "watching"]} :
       /\ policy' = [policy EXCEPT ![d] = choice.policy]
       /\ plan' = [plan EXCEPT ![u] = choice]
       /\ Goto(u, IF choice.policy = NoRule THEN "forget" ELSE "mark")
  /\ Work(u, d)
  /\ UNCHANGED <<verdict, decision, callers, recheck, world, back, locals, failures>>

\* "reset" also forgets the verdict.
UserForget(u) ==
  /\ pc[u] = "forget"
  /\ verdict' = [verdict EXCEPT ![dom[u]] = NoVerdict]
  /\ Goto(u, "mark")
  /\ UNCHANGED <<policy, decision, callers, recheck, world, back, dom, plan, locals, failures>>

\* apply_session_verdict: the entry is copied, and the user's rules corrected for its callers.
SessionVerdict(s, d) ==
  /\ pc[s] = "idle"
  /\ \E c \in Calls : \E v \in Enforced(d, callers[d], [court |-> "session", call |-> c]) :
       opinion' = [opinion EXCEPT ![s] = v]
  /\ was'  = [was  EXCEPT ![s] = decision[d]]
  /\ Work(s, d)
  /\ Goto(s, "store")
  /\ UNCHANGED <<store, world, back, plan, todo, batch, held, failures>>

\* The gates, asked about the decision it copied and the callers known by now: the copy of an entry is
\* shallow, and its programs are those of the entry.
SessionDecide(s) ==
  /\ pc[s] = "session"
  /\ LET d == dom[s]
         cs == callers[d]
     IN  \/ /\ was[s] \in UserStates
            /\ Return(s)
         \/ /\ was[s] \notin UserStates
            /\ \/ /\ Protected(d, cs)
                  /\ Means(s, NoRule, "protected") /\ Goto(s, "mark")
               \/ /\ ~Protected(d, cs) /\ opinion[s].call = "redSafe" /\ ~GateAllows(d, cs)
                  /\ Means(s, NoRule, "red-kept") /\ Goto(s, "mark")
               \/ /\ ~Protected(d, cs) /\ opinion[s].call = "redSafe" /\ GateAllows(d, cs)
                  /\ Means(s, SessionBlock, "session-blocked") /\ Goto(s, "policy")
               \/ /\ ~Protected(d, cs) /\ opinion[s].call # "redSafe"
                  /\ Means(s, SessionOpen,
                           IF opinion[s].call = "red" THEN "red-kept" ELSE "watching")
                  /\ Goto(s, "sessionLift")
            /\ UNCHANGED <<dom, opinion, was>>
  /\ UNCHANGED <<store, world, back, todo, batch, held, failures>>

\* Not to be blocked: an existing block is lifted, whoever made it.
SessionLift(s) ==
  /\ pc[s] = "sessionLift"
  /\ Goto(s, IF Blocked(dom[s]) THEN "policy" ELSE "mark")
  /\ UNCHANGED <<store, world, back, dom, plan, locals, failures>>

\* mail_watch finds an image of d in a message: recorded as protected, then released.
MailImage(m, d) ==
  /\ pc[m] = "idle" /\ d \notin images
  /\ images' = images \cup {d}
  /\ Work(m, d)
  /\ Goto(m, "mail")
  /\ UNCHANGED <<store, storm, hosts, apps, back, plan, locals, failures>>

\* release_mail_images asks the policy twice: is it blocked, and by whom.
MailCheck(m) ==
  /\ pc[m] = "mail"
  /\ IF Blocked(dom[m])
     THEN Goto(m, "mailSource") /\ UNCHANGED <<dom, opinion, plan, was>>
     ELSE Return(m)
  /\ UNCHANGED <<store, world, back, todo, batch, held, failures>>

\* Broken on purpose (mutant): any block, the user's own too.
MailReleaseAny(m) ==
  /\ pc[m] = "mailSource"
  /\ Goto(m, "lift")
  /\ UNCHANGED <<store, world, back, dom, plan, locals, failures>>

\* Any block but the user's own is lifted.
MailRelease(m) ==
  /\ pc[m] = "mailSource"
  /\ IF policy[dom[m]].source # "pc-user"
     THEN Goto(m, "lift") /\ UNCHANGED <<dom, opinion, plan, was>>
     ELSE Return(m)
  /\ UNCHANGED <<store, world, back, todo, batch, held, failures>>

DashboardStep(t) ==
  \/ /\ t \in Users
     /\ UserForget(t) \/ \E d \in Domains : UserDecide(t, d)
  \/ /\ t \in Sessions
     /\ \/ SessionDecide(t) \/ SessionLift(t) \/ StoreVerdict(t)
        \/ \E d \in Domains : SessionVerdict(t, d)
  \/ /\ t \in Mailers
     /\ MailCheck(t) \/ MailRelease(t) \/ Lift(t) \/ \E d \in Domains : MailImage(t, d)
  \/ /\ t \in Threads \ Reviewers
     /\ WritePolicy(t) \/ Mark(t)

\* A rule's save fails: the request, or the mail watcher's, ends with the rule changed in memory only.
FailCall(t) ==
  /\ t \in Threads \ Reviewers
  /\ failures < MaxFailures
  /\ failures' = failures + 1
  /\ \/ pc[t] = "policy" /\ policy' = [policy EXCEPT ![dom[t]] = plan[t].policy]
     \/ t \in Users /\ pc[t] = (IF plan[t].policy = NoRule THEN "forget" ELSE "mark") /\ UNCHANGED policy
  /\ Return(t)
  /\ UNCHANGED <<verdict, decision, callers, recheck, world, back, todo, batch, held>>

-----------------------------------------------------------------------------
(* What the machine does meanwhile.                                        *)

\* _attribute: a program was seen calling the domain; a new one asks for another review.
Attribute(d, p) ==
  /\ p \notin callers[d]
  /\ callers' = [callers EXCEPT ![d] = @ \cup {p}]
  /\ recheck' = [recheck EXCEPT ![d] = TRUE]
  /\ UNCHANGED <<policy, verdict, decision, world, pc, back, dom, plan, locals, failures>>

\* blocked_calls: a program insists on a blocked domain; ten minutes later it is forgotten.
Insist(d) ==
  /\ Blocked(d) /\ ~storm[d]
  /\ storm' = [storm EXCEPT ![d] = TRUE]
  /\ UNCHANGED <<store, hosts, images, apps, pc, back, dom, plan, locals, failures>>

Forget(d) ==
  /\ storm[d]
  /\ storm' = [storm EXCEPT ![d] = FALSE]
  /\ UNCHANGED <<store, hosts, images, apps, pc, back, dom, plan, locals, failures>>

\* prune_programs: p was removed from the machine; nothing is reviewed for that.
Uninstall(p) ==
  /\ callers' = [d \in Domains |-> callers[d] \ {p}]
  /\ UNCHANGED <<policy, verdict, decision, recheck, world, pc, back, dom, plan, locals, failures>>

\* user_exceptions.apply: Settings replaces the trusted lists.
Trust ==
  /\ hosts' \in SUBSET Domains
  /\ apps'  \in SUBSET Programs
  /\ UNCHANGED <<store, storm, images, pc, back, dom, plan, locals, failures>>

-----------------------------------------------------------------------------
(* What is noted about a step, for the properties.                         *)

\* A thread has d in its lists or at hand.
Holds(t, d) == d \in todo[t] \cup batch[t] \/ dom[t] = d
Contested(d) == \E t, u \in Threads : t # u /\ Holds(t, d) /\ Holds(u, d)

\* A thread's two writes to d, rule and mark: the first is done, or both are over.
Halfway(t) == pc[t] \in {"mark", "forget"}
Ends(t, d) == dom[t] = d /\ dom'[t] # d /\ (Halfway(t) \/ pc[t] = "policy")
Fails(t, d) == dom[t] = d /\ dom'[t] # d /\ failures' # failures
Interrupted(t) == Halfway(t) /\ policy'[dom[t]] # policy[dom[t]]
Unmarked(t, d) == decision'[d] # plan[t].state

Noted ==
  /\ met'  = met \cup {d \in Domains : Contested(d)' \/ (\E t \in Threads : Fails(t, d))}
  /\ cut'  = {t \in Threads : Halfway(t)' /\ (t \in cut \/ Interrupted(t))}
  /\ torn' = {d \in Domains : IF \E t \in Threads : Ends(t, d)
                              THEN \E t \in Threads : Ends(t, d) /\ (t \in cut \/ Unmarked(t, d))
                              ELSE d \in torn}

Step ==
  \/ \E r \in Reviewers : ReviewStep(r) \/ FailCycle(r)
  \/ \E t \in Threads : DashboardStep(t) \/ FailCall(t)
  \/ \E d \in Domains : Insist(d) \/ Forget(d) \/ \E p \in Programs : Attribute(d, p)
  \/ \E p \in Programs : Uninstall(p)
  \/ Trust

Next == Step /\ Noted

Spec == Init /\ [][Next]_vars

\* The pc-review thread is a loop that never ends and waits for no one but the court.
FairSpec == Spec /\ \A r \in Loopers : WF_system(ReviewStep(r))

-----------------------------------------------------------------------------
(* Properties.                                                             *)

SystemOK ==
  /\ policy   \in [Domains -> Policy]
  /\ verdict  \in [Domains -> Verdict]
  /\ decision \in [Domains -> State]
  /\ callers  \in [Domains -> SUBSET Programs]
  /\ recheck  \in [Domains -> BOOLEAN]
  /\ storm    \in [Domains -> BOOLEAN]
  /\ hosts \subseteq Domains /\ images \subseteq Domains /\ apps \subseteq Programs
  /\ pc   \in [Threads -> Phase]
  /\ back \in [Threads -> Phase]
  /\ dom  \in [Threads -> Domains \cup {NoDomain}]
  /\ todo  \in [Threads -> SUBSET Domains]
  /\ batch \in [Threads -> SUBSET Domains]
  /\ held \in [Threads -> [Domains -> Verdict]]
  /\ was  \in [Threads -> State]
  /\ opinion \in [Threads -> Verdict]
  /\ plan \in [Threads -> Plan]
  /\ failures \in 0 .. MaxFailures

TypeOK == SystemOK /\ met \subseteq Domains /\ cut \subseteq Threads /\ torn \subseteq Domains

\* Which threads have d in hand: a session that copied the user's decision will not act on
\* it, and neither will a mailer before it has found a block that is not the user's.
InHand(t, d) ==
  \/ d \in todo[t] \cup batch[t]
  \/ /\ dom[t] = d /\ pc[t] \notin {"mail", "mailSource"}
     /\ t \in Sessions => was[t] \notin UserStates

AtRest(d) == \A t \in Threads : ~InHand(t, d)

\* What the user decided is in force and written down, and no thread has the domain in hand.
Settled(d) ==
  /\ \/ policy[d] = UserAllow /\ decision[d] = "user-allowed"
     \/ policy[d] = UserBlock /\ decision[d] = "user-blocked"
  /\ AtRest(d)

\* Once the user's decision on a domain is settled, no review, guard, session verdict or mail
\* ever takes it up or changes it: only the user's next decision does (candidates, regate,
\* guard_blocked, apply_session_verdict and release_mail_images each have to leave it out).
SettledDecisionStands ==
  [][\A d \in Domains :
       Settled(d) => \/ Settled(d)' /\ policy'[d] = policy[d]
                     \/ \E u \in Users : dom'[u] = d /\ pc[u] = "idle"]_vars

\* An automatic block is only ever written by a review holding a verdict of a court, the user
\* or the built-in rules that is red and safe to block; a pending verdict, a single opinion
\* or an unsafe red never blocks ("doubt never blocks").
AutoBlockEarned ==
  [][\A d \in Domains :
       policy'[d] = AutoBlock /\ policy[d] # AutoBlock =>
         \E r \in Reviewers : /\ dom[r] = d
                              /\ opinion[r].call = "redSafe"
                              /\ BlockAgreement(opinion[r])]_vars

\* What the guard has opened is not blocked again by the review: not by a new verdict, not by
\* regate, not by the next cycle (test_guard_release_is_never_reblocked). The rule in the policy
\* is what must stay; that it does hangs on the state written after it, which candidates and
\* decide look at. It may not when two threads have had the domain in hand at once, or one has failed
\* with it: nothing tells a review, or a session's verdict, that the other has just lifted the block.
ReleasedStaysOpen ==
  [][\A d \in Domains \ met : policy[d] = GuardOpen => policy'[d] # AutoBlock]_vars

\* What a domain's entry says about blocking is what the resolver does, unless a thread is between its
\* two writes, which are made one after the other under two locks: rule, then mark. Only a decision
\* that another thread's rule came between, or an exception, may leave them apart, and only until the
\* next decision that is written whole.
DecisionsEnforced ==
  \A d \in Domains \ torn : (\A t \in Threads : ~(dom[t] = d /\ Halfway(t))) =>
    /\ decision[d] \in {"auto-blocked", "user-blocked", "session-blocked"} => Blocked(d)
    /\ decision[d] = "user-allowed" => policy[d] = UserAllow
    /\ decision[d] = "guard-released" => ~Blocked(d)

\* While a domain is marked as blocked by the review, its stored verdict is one that may block, or a
\* thread has it at hand; but for a domain two threads have had in hand at once (each stores its verdict
\* and acts on its own copy) or one has failed with, between verdict and mark.
BlockExplained ==
  \A d \in Domains \ met : decision[d] = "auto-blocked" =>
    \/ verdict[d].call = "redSafe" /\ BlockAgreement(verdict[d])
    \/ \E t \in Threads : dom[t] = d

\* The post-block guard: no automatic block stays for ever on a domain that a program needs
\* (protected or insisted on) while its entry says who put the block there.
GuardLifts ==
  \A d \in Domains :
    []<>~(Needed(d) /\ decision[d] = "auto-blocked" /\ policy[d] = AutoBlock)

-----------------------------------------------------------------------------
(* What the code's comments and tests say, and its threads do not keep.    *)

\* decide says of a verdict that is not a red to block "monitored but not blocked".
WatchedIsOpen ==
  \A d \in Domains : AtRest(d) /\ decision[d] = "watching" => ~Blocked(d)

=============================================================================
