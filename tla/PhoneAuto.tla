------------------------------ MODULE PhoneAuto ------------------------------
(***************************************************************************)
(* How the phone section decides what to block (phone_auto.py,             *)
(* PhoneAutoProtection), with every thread that writes a phone rule or a   *)
(* phone verdict:                                                          *)
(*                                                                         *)
(*   Loopers   the phone-auto thread: review, apply_verdicts, guard        *)
(*   Posters   dashboard requests: a review asked for (/api/ai/review),    *)
(*             and the user's own verdicts followed by apply_verdicts      *)
(*             (/api/pc/session-verdicts)                                  *)
(*   Mailers   release_mail_images, called by the mail watcher             *)
(*                                                                         *)
(* and the user's rules, written in one step from the dashboard. Unlike    *)
(* the PC section there is no entry that remembers the decision: the rule  *)
(* in the policy, and who wrote it, is all there is. apply_verdicts and    *)
(* guard work through copies of the verdicts and of the policy taken       *)
(* before the first domain (held, seen, todo, hot).                        *)
(***************************************************************************)
EXTENDS BlockGates, Naturals

CONSTANTS
  Loopers, Posters, Mailers,
  NoDomain,      \* the domain of a thread that works on none
  MaxFailures    \* bound: loops and requests that end with an exception

Threads == Loopers \cup Posters \cup Mailers

ASSUME ConstantsAssumption ==
  /\ MaxFailures \in Nat
  /\ NoDomain \notin Domains

\* A thread is of one kind.
ASSUME KindsAssumption ==
  Loopers \cap Posters = {} /\ Loopers \cap Mailers = {} /\ Posters \cap Mailers = {}

-----------------------------------------------------------------------------
Policy == [action : {"none", "monitor", "allow", "block"},
           source : {"none", "phone-auto", "phone-guard", "manual"}]

NoRule    == [action |-> "none",    source |-> "none"]
AutoBlock == [action |-> "block",   source |-> "phone-auto"]
GuardOpen == [action |-> "monitor", source |-> "phone-guard"]
MailOpen  == [action |-> "monitor", source |-> "phone-auto"]

\* A rule of the user's that blocks, or one that does not: "monitor" or "allow", which no
\* thread here tells apart.
UserRules == [action : {"allow", "block"}, source : {"manual"}]

Phase == {"idle", "court", "rows", "existing", "apply", "block", "blocks", "guard", "open",
          "mail", "mailSource", "mailWrite"}

VARIABLES
  policy,     \* policy[d]: the phone rule the resolver obeys
  verdict,    \* verdict[d]: aiVerdict of the domain's entry
  callers,    \* callers[d]: the apps seen calling it (appBundles, appContexts)
  storm,      \* storm[d]: sixty blocked queries in the last ten minutes
  ai,         \* AI review is on
  pc,         \* where each thread is
  dom,        \* the domain it is working on
  todo,       \* the domains left of the list it took
  held,       \* verdicts it copied
  seen,       \* callers it copied
  hot,        \* domains that stormed when it looked
  failures

store  == <<policy, verdict, callers>>
world  == <<storm, ai, hosts, images, apps>>
locals == <<todo, held, seen, hot>>
vars   == <<store, world, pc, dom, locals, failures>>

-----------------------------------------------------------------------------
\* A copy of no verdicts, and of no callers.
NoneHeld == [d \in Domains |-> NoVerdict]
NoneSeen == [d \in Domains |-> {}]

Init ==
  /\ policy   = [d \in Domains |-> NoRule]
  /\ verdict  = [d \in Domains |-> NoVerdict]
  /\ callers  = [d \in Domains |-> {}]
  /\ storm    = [d \in Domains |-> FALSE]
  /\ ai       = TRUE
  /\ hosts    = {}
  /\ images   = {}
  /\ apps     = {}
  /\ pc       = [t \in Threads |-> "idle"]
  /\ dom      = [t \in Threads |-> NoDomain]
  /\ todo     = [t \in Threads |-> {}]
  /\ held     = [t \in Threads |-> NoneHeld]
  /\ seen     = [t \in Threads |-> NoneSeen]
  /\ hot      = [t \in Threads |-> {}]
  /\ failures = 0

Goto(t, phase) == pc' = [pc EXCEPT ![t] = phase]
Work(t, d)     == dom' = [dom EXCEPT ![t] = d]
Take(t, d)     == d \in todo[t] /\ todo' = [todo EXCEPT ![t] = @ \ {d}]
Write(d, rule) == policy' = [policy EXCEPT ![d] = rule]

\* A thread is done, and its copies with it.
Reset(t) ==
  /\ Goto(t, "idle")
  /\ Work(t, NoDomain)
  /\ todo' = [todo EXCEPT ![t] = {}]
  /\ held' = [held EXCEPT ![t] = NoneHeld]
  /\ seen' = [seen EXCEPT ![t] = NoneSeen]
  /\ hot'  = [hot  EXCEPT ![t] = {}]

-----------------------------------------------------------------------------
(* Reviews.                                                                *)

\* Broken on purpose (mutant): the user's own verdict is no review.
CandidateOfSession(d) == verdict[d].court # "judged"

\* candidates, scope "unreviewed": what no main verdict is held for. Whether it is due (the
\* backoff, the judge's window, hold) is a matter of clocks: any subset of these may be.
Candidate(d) == ~DecidedByMain(verdict[d])

\* cycle: nothing is reviewed while a background review runs, or when it holds all back.
StartCycle(l) ==
  /\ pc[l] = "idle"
  /\ \E due \in SUBSET {d \in Domains : Candidate(d)} : todo' = [todo EXCEPT ![l] = due]
  /\ Goto(l, "court")
  /\ UNCHANGED <<store, world, dom, held, seen, hot, failures>>

\* A review asked for: any domains, the decided ones too.
Request(p) ==
  /\ pc[p] = "idle"
  /\ \E asked \in SUBSET Domains \ {{}} : todo' = [todo EXCEPT ![p] = asked]
  /\ Goto(p, "court")
  /\ UNCHANGED <<store, world, dom, held, seen, hot, failures>>

\* The court answered for d: the user's rules correct it for the callers known now, and it
\* replaces whatever verdict is there. Or nobody answered.
Answer(t, d) ==
  /\ pc[t] = "court" /\ Take(t, d)
  /\ \/ /\ ai
        /\ \E v \in {Pending} \cup [court : {"judged"}, call : Calls] :
             \E w \in Enforced(d, callers[d], v) : verdict' = [verdict EXCEPT ![d] = w]
     \/ UNCHANGED verdict
  /\ UNCHANGED <<policy, callers, world, pc, dom, held, seen, hot, failures>>

EndRequest(p) ==
  /\ pc[p] = "court" /\ todo[p] = {}
  /\ Reset(p)
  /\ UNCHANGED <<store, world, failures>>

\* The user's own verdict on d, row after row: stored as it is, no rule corrects it.
SessionRow(p, d) ==
  /\ pc[p] \in {"idle", "rows"}
  /\ \E c \in Calls : verdict' = [verdict EXCEPT ![d] = [court |-> "session", call |-> c]]
  /\ Goto(p, "rows")
  /\ UNCHANGED <<policy, callers, world, dom, locals, failures>>

-----------------------------------------------------------------------------
(* apply_verdicts.                                                         *)

\* eligible: the verdict, then the gates. An approval of the gate saved with the verdict and
\* one asked now differ in the callers only, and the role is asked again for these.
Eligible(d, cs, v) ==
  /\ v.call = "redSafe" /\ BlockAgreement(v)
  /\ v.court = "builtin" \/ GateAllows(d, cs)
  /\ ~ProtectedHost(d)
  /\ Role(d, cs) # "function"
  /\ cs # {} \/ Role(d, cs) = "additional"

\* verdict(): the stored one, or with AI review off and none stored the built-in rules'.
Opinions(d, cs, v) == IF v = NoVerdict /\ ~ai THEN BuiltIn(d, cs) ELSE {v}

\* The classifier's entries are copied: after the review, or after the user's rows.
StartApply(t) ==
  /\ \/ t \in Loopers /\ pc[t] = "court" /\ todo[t] = {}
     \/ pc[t] = "rows"
  /\ held' = [held EXCEPT ![t] = verdict]
  /\ seen' = [seen EXCEPT ![t] = callers]
  /\ Goto(t, "existing")
  /\ UNCHANGED <<store, world, dom, todo, hot, failures>>

\* Broken on purpose (mutant): nothing is new.
SeePolicyNothing(t) ==
  /\ pc[t] = "existing"
  /\ Goto(t, "apply")
  /\ UNCHANGED <<store, world, dom, locals, failures>>

\* The policy is copied: what has a rule, whoever wrote it, is left out.
SeePolicy(t) ==
  /\ pc[t] = "existing"
  /\ todo' = [todo EXCEPT ![t] = {d \in Domains : policy[d] = NoRule}]
  /\ Goto(t, "apply")
  /\ UNCHANGED <<store, world, dom, held, seen, hot, failures>>

\* The gates are asked about the copies, and what the user trusts at this moment.
Apply(t, d) ==
  /\ pc[t] = "apply" /\ Take(t, d)
  /\ \E v \in Opinions(d, seen[t][d], held[t][d]) :
       IF Eligible(d, seen[t][d], v)
       THEN Goto(t, "block") /\ Work(t, d)
       ELSE UNCHANGED <<pc, dom>>
  /\ UNCHANGED <<store, world, held, seen, hot, failures>>

\* The rule is written, whatever is there by now.
Block(t) ==
  /\ pc[t] = "block"
  /\ Write(dom[t], AutoBlock)
  /\ Goto(t, "apply")
  /\ Work(t, NoDomain)
  /\ UNCHANGED <<verdict, callers, world, locals, failures>>

EndPost(p) ==
  /\ p \in Posters /\ pc[p] = "apply" /\ todo[p] = {}
  /\ Reset(p)
  /\ UNCHANGED <<store, world, failures>>

-----------------------------------------------------------------------------
(* guard.                                                                  *)

\* The callers are copied again.
StartGuard(l) ==
  /\ l \in Loopers /\ pc[l] = "apply" /\ todo[l] = {}
  /\ held' = [held EXCEPT ![l] = NoneHeld]
  /\ seen' = [seen EXCEPT ![l] = callers]
  /\ Goto(l, "blocks")
  /\ UNCHANGED <<store, world, dom, todo, hot, failures>>

\* Broken on purpose (mutant): whoever wrote the block.
SeeBlocksOfAll(l) ==
  /\ pc[l] = "blocks"
  /\ todo' = [todo EXCEPT ![l] = {d \in Domains : policy[d].action = "block"}]
  /\ hot'  = [hot  EXCEPT ![l] = {d \in Domains : storm[d]}]
  /\ Goto(l, "guard")
  /\ UNCHANGED <<store, world, dom, held, seen, failures>>

\* The policy is copied and the blocked queries counted: only the automatic blocks are left.
SeeBlocks(l) ==
  /\ pc[l] = "blocks"
  /\ todo' = [todo EXCEPT ![l] = {d \in Domains : policy[d] = AutoBlock}]
  /\ hot'  = [hot  EXCEPT ![l] = {d \in Domains : storm[d]}]
  /\ Goto(l, "guard")
  /\ UNCHANGED <<store, world, dom, held, seen, failures>>

\* Broken on purpose (mutant): only what stormed is opened.
GuardStorms(l, d) ==
  /\ pc[l] = "guard" /\ Take(l, d)
  /\ IF d \in hot[l]
     THEN Goto(l, "open") /\ Work(l, d)
     ELSE UNCHANGED <<pc, dom>>
  /\ UNCHANGED <<store, world, held, seen, hot, failures>>

\* Opened if it turned out to be a function, or if the phone insists on it.
Guard(l, d) ==
  /\ pc[l] = "guard" /\ Take(l, d)
  /\ IF Role(d, seen[l][d]) = "function" \/ d \in hot[l]
     THEN Goto(l, "open") /\ Work(l, d)
     ELSE UNCHANGED <<pc, dom>>
  /\ UNCHANGED <<store, world, held, seen, hot, failures>>

\* Broken on purpose (mutant): signed with a name nobody knows.
OpenUnknown(l) ==
  /\ pc[l] = "open"
  /\ Write(dom[l], [GuardOpen EXCEPT !.source = "guard"])
  /\ Goto(l, "guard")
  /\ Work(l, NoDomain)
  /\ UNCHANGED <<verdict, callers, world, locals, failures>>

\* Opened, whatever is there by now.
Open(l) ==
  /\ pc[l] = "open"
  /\ Write(dom[l], GuardOpen)
  /\ Goto(l, "guard")
  /\ Work(l, NoDomain)
  /\ UNCHANGED <<verdict, callers, world, locals, failures>>

EndCycle(l) ==
  /\ pc[l] = "guard" /\ todo[l] = {}
  /\ Reset(l)
  /\ UNCHANGED <<store, world, failures>>

\* An exception ends the cycle, or the request, where it is: the court's, or one of a save
\* that comes after the rule changed in memory. Rules already written stay.
Fail(t) ==
  /\ t \notin Mailers /\ pc[t] # "idle"
  /\ failures < MaxFailures
  /\ failures' = failures + 1
  /\ Reset(t)
  /\ UNCHANGED <<store, world>>

-----------------------------------------------------------------------------
(* The mail watcher: an image of d in a message is recorded, then released. *)

MailImage(m, d) ==
  /\ pc[m] = "idle" /\ d \notin images
  /\ images' = images \cup {d}
  /\ Work(m, d)
  /\ Goto(m, "mail")
  /\ UNCHANGED <<store, storm, ai, hosts, apps, locals, failures>>

\* The policy is asked twice: is it blocked, and by whom.
MailCheck(m) ==
  /\ pc[m] = "mail"
  /\ IF policy[dom[m]].action = "block"
     THEN Goto(m, "mailSource") /\ UNCHANGED <<dom, locals>>
     ELSE Reset(m)
  /\ UNCHANGED <<store, world, failures>>

MailSource(m) ==
  /\ pc[m] = "mailSource"
  /\ IF policy[dom[m]].source = "phone-auto"
     THEN Goto(m, "mailWrite") /\ UNCHANGED <<dom, locals>>
     ELSE Reset(m)
  /\ UNCHANGED <<store, world, failures>>

MailWrite(m) ==
  /\ pc[m] = "mailWrite"
  /\ Write(dom[m], MailOpen)
  /\ Reset(m)
  /\ UNCHANGED <<verdict, callers, world, failures>>

-----------------------------------------------------------------------------
(* The user, and what the phone does meanwhile.                            *)

\* POST /api/policy, and the protection modes of an app: no source is given, so "manual".
UserRule(d) ==
  /\ \E rule \in UserRules : Write(d, rule)
  /\ UNCHANGED <<verdict, callers, world, pc, dom, locals, failures>>

\* DELETE /api/policy: the rule is gone, and that the user decided with it.
UserForget(d) ==
  /\ policy[d] # NoRule
  /\ Write(d, NoRule)
  /\ UNCHANGED <<verdict, callers, world, pc, dom, locals, failures>>

\* Settings replaces the trusted lists.
Trust ==
  /\ hosts' \in SUBSET Domains
  /\ apps'  \in SUBSET Programs
  /\ UNCHANGED <<store, storm, ai, images, pc, dom, locals, failures>>

\* The switch of AI review.
Toggle ==
  /\ ai' = ~ai
  /\ UNCHANGED <<store, storm, hosts, images, apps, pc, dom, locals, failures>>

\* An app is seen calling d: an app never leaves the list.
Observe(d, p) ==
  /\ p \notin callers[d]
  /\ callers' = [callers EXCEPT ![d] = @ \cup {p}]
  /\ UNCHANGED <<policy, verdict, world, pc, dom, locals, failures>>

\* The phone insists on a blocked domain; ten minutes later it is forgotten.
Insist(d) ==
  /\ policy[d].action = "block" /\ ~storm[d]
  /\ storm' = [storm EXCEPT ![d] = TRUE]
  /\ UNCHANGED <<store, ai, hosts, images, apps, pc, dom, locals, failures>>

Calm(d) ==
  /\ storm[d]
  /\ storm' = [storm EXCEPT ![d] = FALSE]
  /\ UNCHANGED <<store, ai, hosts, images, apps, pc, dom, locals, failures>>

-----------------------------------------------------------------------------
ApplyStep(t) ==
  \/ StartApply(t) \/ SeePolicy(t) \/ Block(t)
  \/ \E d \in Domains : Answer(t, d) \/ Apply(t, d)

Loop(l) ==
  \/ StartCycle(l) \/ ApplyStep(l) \/ StartGuard(l) \/ SeeBlocks(l) \/ Open(l) \/ EndCycle(l)
  \/ \E d \in Domains : Guard(l, d)

Post(p) ==
  \/ Request(p) \/ EndRequest(p) \/ ApplyStep(p) \/ EndPost(p)
  \/ \E d \in Domains : SessionRow(p, d)

Mail(m) ==
  \/ MailCheck(m) \/ MailSource(m) \/ MailWrite(m)
  \/ \E d \in Domains : MailImage(m, d)

World ==
  \/ Trust \/ Toggle
  \/ \E d \in Domains :
       \/ UserRule(d) \/ UserForget(d) \/ Insist(d) \/ Calm(d)
       \/ \E p \in Programs : Observe(d, p)

Next ==
  \/ \E l \in Loopers : Loop(l)
  \/ \E p \in Posters : Post(p)
  \/ \E m \in Mailers : Mail(m)
  \/ \E t \in Threads : Fail(t)
  \/ World

Spec == Init /\ [][Next]_vars

\* The phone-auto thread never ends, and what it waits for has a timeout.
FairSpec == Spec /\ \A l \in Loopers : WF_vars(Loop(l))

-----------------------------------------------------------------------------
(* Properties.                                                             *)

TypeOK ==
  /\ policy  \in [Domains -> Policy]
  /\ verdict \in [Domains -> Verdict]
  /\ callers \in [Domains -> SUBSET Programs]
  /\ storm   \in [Domains -> BOOLEAN]
  /\ ai \in BOOLEAN
  /\ hosts \subseteq Domains /\ images \subseteq Domains /\ apps \subseteq Programs
  /\ pc   \in [Threads -> Phase]
  /\ dom  \in [Threads -> Domains \cup {NoDomain}]
  /\ todo \in [Threads -> SUBSET Domains]
  /\ held \in [Threads -> [Domains -> Verdict]]
  /\ seen \in [Threads -> [Domains -> SUBSET Programs]]
  /\ hot  \in [Threads -> SUBSET Domains]
  /\ failures \in 0 .. MaxFailures

\* A thread that will write a rule for d without looking at the one that is there.
InHand(t, d) ==
  \/ d \in todo[t] /\ pc[t] \in {"apply", "block", "guard", "open"}
  \/ dom[t] = d /\ pc[t] \in {"block", "open", "mailWrite"}

\* The user or the guard has spoken last on d, and no thread took its copies before.
Settled(d) ==
  /\ policy[d].source \in {"manual", "phone-guard"}
  /\ \A t \in Threads : ~InHand(t, d)

\* Once a rule of the user, or the guard's release, has been seen by every list in use, no
\* later cycle, request or mail takes the domain up: the rule stands until the user changes it
\* (apply_verdicts, guard and release_mail_images each have to leave it out).
SettledRuleStands ==
  [][\A d \in Domains :
       Settled(d) => \/ Settled(d)' /\ policy'[d] = policy[d]
                     \/ policy'[d] # policy[d] /\ policy'[d] \in UserRules \cup {NoRule}]_vars

\* The judge or the user has ruled on d, and no review has it in its list.
Ruling(d) ==
  /\ DecidedByMain(verdict[d])
  /\ \A t \in Threads : ~(pc[t] = "court" /\ d \in todo[t])

\* Such a ruling is final for the loop: no cycle puts the domain before the court again, only a
\* review asked for from the dashboard does, or the user's own verdict ("models never send it
\* back for review").
RulingStands ==
  [][\A d \in Domains :
       Ruling(d) => \/ Ruling(d)' /\ verdict'[d] = verdict[d]
                    \/ verdict'[d] # verdict[d] /\ verdict'[d].court = "session"
                    \/ \E p \in Posters : pc[p] = "idle" /\ d \in todo'[p]]_vars

\* The guard: no automatic block stays for ever on a domain that is a function of its callers,
\* nor on one that the phone goes on insisting on.
GuardLifts ==
  \A d \in Domains :
    /\ []<>~(policy[d] = AutoBlock /\ Role(d, callers[d]) = "function")
    /\ []<>~(policy[d] = AutoBlock /\ storm[d])

\* The loop: a domain with a verdict that passes every gate does not stay without a rule.
VerdictsApplied ==
  \A d \in Domains :
    []<>~(policy[d] = NoRule /\ Eligible(d, callers[d], verdict[d]))

-----------------------------------------------------------------------------
(* What phone_auto.py says of itself, and its copies do not keep.          *)

\* "the user's decision is never overridden"; the guard "never touches a block the user placed
\* by hand".
UserRuleStands ==
  [][\A d \in Domains :
       policy[d] \in UserRules => policy'[d] \in UserRules \cup {NoRule}]_vars

=============================================================================
