# Privacy Protector in TLA+

Models, model-checking runs and machine-checked proofs for the decisions of Privacy Protector: what it
blocks, what it opens, and what it promises never to do to a decision of the user. Everything here is
translated from the Python source; `PROJECT.json` names for each definition the lines it stands for.

    tlc -workers 2 -config PCReviewAlone.cfg MCPCReview.tla     # one run
    tlapm PCReviewProofs.tla                                    # the proofs

## 1. The system

One Python process, the engine, answers DNS for a phone and for the PC it runs on, decides which domains
to block, and serves a dashboard. Its parts are threads of that process sharing a few stores, each store
with a lock of its own. No operation holds two of them while it decides, which is where most of the
difficulty lies: almost every handler copies what it needs under a lock, lets go, thinks (for minutes,
when it asks a model), and writes under another lock.

| Part | State | Operations | Talks to | What makes it correct |
|---|---|---|---|---|
| **PC review** (`pc_protection.py`) | per domain: verdict, decision, callers, recheck request; dirty sets | regate, review_cycle, decide, guard_blocked, user_decision, apply_session_verdict, release_mail_images, prune_programs | PC policy, AI review, classifier, user lists | only earned blocks; the user's word stands; what a program needs opens again; the entry says what the resolver does |
| **Policy stores** (`app.py` `PolicyStore`, one for the phone, one for the PC) | domain to rule | update, delete, action_for, save at each change | resolver, review, dashboard | a rule in force is the last one written; memory and file agree |
| **Phone automatic blocking** (`phone_auto.py`) | decisions, blocked counts | cycle, apply_verdicts, guard | phone policy, classifier, court | never touches the user's rule; releases what is needed, and does not block it again |
| **Resolver** (`dns_engine.py` `Resolver`) | per-provider health, in-flight slots, self-test | resolve, _forward, run_self_test | policies, cache, DoH providers, logs | a block is seen before the cache; SERVFAIL only when nothing answers; slots do not leak; a sick provider is retried |
| **DNS cache** (`DNSCache`) | key to answer and expiry, LRU order | get, put, invalidate, clear | resolver, policy changes | nothing outlives its TTL; an entry invalidated by a rule does not come back |
| **DoH pool** (`DoHConnectionPool`) | idle and busy connections | acquire, release, discard, close | resolver | a connection has one user; a dead one is retried once |
| **Listeners, handoff, start** (`app.py`, `privacy_protector.py`, `detached_start.py`) | bound sockets, health record | bind, close, /api/handoff, take over | old engine, stores | ports all bound or none; no change is lost between the old engine and the new |
| **Persistence** (`PCProtection.flush`, `PolicyStore.save`) | dirty sets, files, `.tmp` | flush every 30 s, on decisions, at shutdown | review, handoff | a crash loses no decision, and leaves no block that nobody owns |
| **Domain classifier** (`domain_classifier.py`) | catalogue entry per domain, a queue of studies | observe, schedule, analyze, apply_ai_verdict, flush | resolver (observations), phone blocking | each domain studied once at a time; a study of old evidence does not overwrite newer; the queue drains |
| **AI review** (`ai_reviewer.py`, `ai_domain_review.py`, `ai_providers.py`, `ai_calibration.py`) | provider states, calibration, batches | decide_batch, jury, judge, reconfirm | PC review, phone blocking | doubt never blocks: no agreement from fewer voices than it claims |
| **Review memory** (`review_memory.py`) | backoff, holds, judge window | failed, succeeded, hold, judge probe | AI review | retries slow down and never stop |
| **Settings and features** (`settings.py`, `features.py`) | switches; which parts run | update, changed, start | every part, Windows scripts | a part runs exactly when its switch is on; declined changes nothing |
| **Watchdog and routing history** (`PC-DNS-Watchdog.ps1`, `routing_history.py`) | the PC's DNS servers; periods outside | probe each minute, switch, record | engine, Windows | the PC is never without DNS; every period outside is recorded once |
| **Reminder** (`ConnectionReminderMonitor`) | last phone query, episode | evaluate, notify | listeners, Windows | one notice per episode, none while the phone speaks |
| **Capability monitor** (`capability_monitor.py`, `capability_judge.py`, `capability_audio.py`) | uses, open and closed | poll_live, poll_history, poll_registry, sweep, close | Windows sources | a use seen by several sources is one use; none is open for ever |
| **Mail watch** (`mail_watch.py`, `mail_images.py`) | handled messages, badge, image hosts | handle, catch up, reconnect | Outlook, PC review | no message is missed or handled twice; its images are not blocked |
| **Program inventory** (`program_inventory.py`) | scan, installed names | refresh_scan, apply_pc | PC review | a program still installed is never dropped |
| **Smaller parts** (color judge, tray, Defender bridge, temp cleanup, tracker lists, iPhone capture, app profiles, logs, address watch, tools, web pages) | their own small stores | polls and displays | the above | see `components` in PROJECT.json |

### What is hard here

- **Stale copies.** `decide`, `guard_blocked`, `regate`, `apply_session_verdict`, `apply_verdicts` and the
  phone's `guard` act on copies that are seconds or minutes old, while the user clicks.
- **Two writes, two locks.** A block is a rule in the policy and a decision in the entry. A thread between
  the two sees one of them; an exception between the two leaves it so.
- **Sequences.** A domain is reviewed again and again, by new callers, by the judge coming back, by hand.
  What an earlier decision left behind meets a later one.
- **Failure.** Providers time out and cool down; a cycle dies in the middle; a save fails after the memory
  changed; the engine is killed, or replaced by another engine while it runs.
- **Clocks.** TTLs, cool-downs, ten-minute windows, backoff.

The list of hazards with their lines is in PROJECT.json `hazards`; each names the properties that watch it,
or says why none does.

## 2. Plan

The order followed what matters most to the person the program protects.

| Step | Modules | State |
|---|---|---|
| 1 | `PCReview`: who may block or open a PC domain | done, with proofs |
| 2 | `Resolver`, refining `DnsService`: what a query is answered with | done, with proofs |
| 3 | `PhoneAuto`: the phone's loop against the user's rules | done, with proofs |
| 4 | `Court` with `ReviewMemory`: writer, jury, judge, notes, backoff | done, with proofs |
| 5 | `DomainEntry` and `Studies`: the classifier's rules and its queue | done, with proofs |
| 6 | `Features` over `SystemDns`: switches, scripts, the watchdog | done, with proofs |
| 7 | `Handoff`: engines that take over, and the stores over crashes | done, with proofs |
| 8 | `MailWatch`, `Reminder`; `CapabilityUses`, `MicSessions`, `Permissions`, `PhoneHelpers`, `PrivacyControls`, `PhoneApps`, `DohPool` | done, with proofs |
| 9 | proofs about 4 to 8, and about rule and mark of `PCReview` with threads at work at once | done: every safety property of a passing run has its theorem |
| 10 | the scan of the program inventory; the logs of attribution | open |

How modules compose: `BlockGates` is extended by `PCReview` and `PhoneAuto`; `Resolver` refines `DnsService`;
`Court` extends `ReviewMemory`, `Studies` extends `DomainEntry`, `Features` extends `SystemDns`. The MC modules
instantiate them; `MCServices` and `MCRecords` each hold several components that share nothing and play one at
a time, so that the runs stay few and each module keeps its own state and specification. A run's *scene* says
which threads are at work and which faults happen; what a step does is the module's alone.

| Property of a run | Its named parts |
|---|---|
| `NothingLost`, `ColoursStand`, `WorkEnds` (studies) | `PendingInOnePlace`, `NothingUnmarked`; `LocalRedStands`, `LowersOnly`, `ReviewKept`; `StudiesEnd`, `SavesEnd` |
| `SwitchesFollow`, `WindowsKept` (services) | `PartsFollow`, `ListenFirst`; `WindowsFollows`, `BackupIsOwn`, `Watched` |
| `MailInspected`, `Reminded`, `TakesOver` (services) | `MissedIsOld`, `InspectedOnce`, `RemovedIsLogged`; `NoticedOnce`, `Latched`, `AddressTold`; `StoresPass` (`DecisionsPass`, `RulesExplained`), `Answered` |
| `UsesTold`, `SessionsTold` (records) | `CountedOnce`, `CountedAll`, `InUseTold`; `CapturingTold`, `Recorded`, `OpenIsLive` |
| `HelpersHeld`, `AppsKept`, `ButtonsHonest` (records) | `NoOrphan`, `OffIsOff`, `StopFinds`, `ResultKept`; `ChoiceStands`, `VerdictTrue`, `IncidentsKept`, `Repaired`, `Remembered`, `AppleStays`; `JudgedAfter`, `Restores`, `DenyOnRecord` |
| `PoolKept` (records) | `OneUser`, `NoneLeft`, `FailsLate` |

PROJECT.json lists a mutant for every part, not only for every property.

## 3. The modules

### PCReview: what the PC blocks

`PCReview.tla` is `PCProtection` and the five kinds of thread that decide about a domain: the review loop,
a review started from the dashboard, the user's decision, the user's session verdict, and the mail watcher.

| Model | Code |
|---|---|
| `policy` | `PolicyStore` of the PC: action and source of the rule |
| `verdict`, `decision`, `callers`, `recheck` | the domain's entry: `verdict`, `decision.state`, `programs`, `needsRecheck` |
| `storm` | `blocked_calls` over the threshold in the last ten minutes |
| `hosts`, `apps`, `images` | `user_exceptions` (trusted hosts and programs), `mail_images` |
| `pc`, `back`, `dom`, `plan` | where a thread is in its handler and what it is about to write |
| `held`, `was`, `opinion`, `todo`, `batch` | its local copies |
| `met`, `cut`, `torn` | histories: domains two threads had in hand at once or one failed with; threads whose rule another changed before their mark; domains last decided on by such a thread, or by one that failed before its mark |

An action is one critical section. `Decide` copies the entry and asks the gates; `WritePolicy` and `Mark`
are the two writes that follow, and any other thread may run between them. `Lift` is the question
`_unblock` asks (is there a block?), separate from its write. `Regate` works through copies taken at
`StartRegate`; `Court` is the minutes without a lock, after which each domain's answer is corrected by the
user's rules (`Rule`), stored (`StoreVerdict`) and decided. `FailCycle` is an exception that `review_loop`
swallows, at any place of the cycle from `regate` on: in a court, between the two writes, in the save of a rule that is already changed in
memory. `FailCall` is a request, or the mail watcher's call, whose save of the rule fails. `Noted` keeps the
histories. `Attribute`, `Insist`, `Forget`, `Uninstall` and
`Trust` are the rest of the machine.

A verdict is abstracted to its court (`judged`, `session`, `builtin`, `single` for every agreement that
may not block, `pending` for the judge's answer still to come) and its call (`clear`, `red`, `redSafe`).
The gates are in `BlockGates.tla`, shared with the phone section; the catalogues behind them are constants: `Owner` (first-party programs), `Additional` (the name says
it is extra to any function), `Functional` (or else that it is one: in no instance of TLC's, in every proof), `Operational` (the block gate refuses it), `Ruled` (a user rule binds it).
Whether a candidate is due is a matter of clocks, so a review takes any subset of them.

| Run | Instance | Shows |
|---|---|---|
| `pc_review_alone` | one domain, its own program and a stranger; scene "lists": the fair loop, a cycle that may fail, while trust changes; scene "turns": the loop, the user and a session's verdicts, one after the other | `GuardLifts`, types |
| `pc_review_threads` | scenes: on one domain the user with the loop, with a session, with the mail watcher, where one of them may fail, and the user with the loop and a program that starts to call; a review of two domains in several batches | `DecisionsEnforced`, `BlockExplained`, `ReleasedStaysOpen`, `AutoBlockEarned`, `SettledDecisionStands` |
| `pc_review_watched` | as alone | finding: a domain reviewed again and no longer to be blocked keeps its block |

*Bounds.* A domain's fate depends on no other domain but through the lists a thread works off, so one
domain shows every interleaving on it and two show batches and lists. Two programs are the least that tell
"its own" from "a stranger" and one new caller from the next. One thread of a kind meets each other kind in
some run; the proofs cover any number. `MaxFailures` bounds failing cycles and requests: one, the least that
leaves a rule without its mark for what follows to meet.

*What holds within a cycle, and what does not.* A review in flight that took the domain before the user
decided writes its block over the user's `allow`, and the user's other thread over it: `SettledDecisionStands`
therefore speaks of a decision in force while no thread has the domain in hand. The rule and the mark are written
under two locks, and the code checks nothing between them. Where another thread writes its rule in between, or a
failure keeps the mark from being written, mark and rule disagree until the domain is next decided on:
`DecisionsEnforced` excepts exactly the domains whose *last* decision was such a one (`torn`).
`BlockExplained` and `ReleasedStaysOpen` each relate a copy to a later write: two threads with the
same domain at once, or a failed one, may break them (a review that took the domain before the guard lifted
its block blocks it again), so they speak of the domains that never had two (`met`), among whatever other
threads are at work.

*Fairness.* `FairSpec` is weak fairness of the review loop's own steps: `review_loop` is `while not stop`
around a wait with a time-out, swallows every exception, and every call to a provider has a time-out. The
court may answer nothing for ever; the guard is then reached all the same.

*Proved* (`PCReviewProofs.tla`), for every value of the constants, any number of threads of every kind:

- `TypeCorrect`: `Spec => []TypeOK`.
- `BlocksEarned`: `Spec => AutoBlockEarned`. The action property needs to know what a thread about to
  write holds. `ThreadInv` says it: a thread at `policy` with an automatic block planned is a reviewer
  whose opinion is red, safe and agreed; a session about to write did not copy a user's decision; a
  thread returns only to a place where it decides anew. It is inductive with `SystemOK`, the types of all but the histories (`Grounds`).
- `DecisionsStand`: `Spec => SettledDecisionStands`. From `Grounds`: a thread that does not have the domain
  in hand neither writes it (`Others`) nor takes it up (`Spares`), because `Candidate`, `Kept`, the guard's
  list, the session's copy and the mail watcher's question each leave out what the user decided.
- `Enforcing`, `MarksExplained`, `ReleaseStands`: `Spec` implies `[]DecisionsEnforced`, `[]BlockExplained` and
  `ReleasedStaysOpen`, with threads at work at once and failing anywhere. For the first, `WholeInv`
  says that a thread at its second write which is not `cut` finds its rule in force (`Written`), and that
  a domain neither `torn` nor half written is marked as what its rule says (`Bound`). For the other
  two, `HandInv` says that a domain two threads have is in `met`, and of the domains outside `met`, for any
  set of them that only one thread has: what its lists hold (`Lists`), which it opened (`Opened`),
  on what it writes (`Writes`), whose opinion it has (`Opinions`); that what is marked is in force or being
  marked (`Told`), explained or being taken back (`Explained`), and that a domain the guard opened is spent
  or in hand (`Freed`). A step of one thread keeps its own turn and disturbs no other's, because what it
  writes of is at hand and so, outside `met`, in nobody else's hand.

*Only model-checked:* `GuardLifts`, which is liveness.

### DnsService and Resolver: what a query is answered with

`DnsService.tla` is the promise to a client: a question is judged once, by the policy of the device that
asks, at one moment while it waits; a blocked name is answered as blocked, any other with data or a refusal;
an answer that cannot be logged may be lost. `Resolver.tla` is `Resolver.resolve` and what it calls, each
query a thread of its own (`UDPDNSHandler`, `TCPDNSHandler`), and it implements `DnsService`.

| Model | Code |
|---|---|
| `policy` | the phone's and the PC's `PolicyStore`, by device (`_action_for`) |
| `cache` | `DNSCache.items`, one for all devices: the kind of answer kept for a name |
| `free` | `capacity`, the semaphore of `maximum_concurrent` |
| `strikes`, `cooling` | `provider_health`: `consecutiveFailures` (two stands for more), `cooldownUntil` in the future |
| `pc`, `dev`, `dom` | a query's place in `resolve`, who asks and for what |
| `order`, `partial` | locals of `_forward`: providers left, whether there is a partial result |
| `said` | what each provider told the query: the answers `_forward` has seen so far, of which it keeps the partial one and the texts in `failures` |
| `result`, `reply` | what it is about to answer, and what the client got |

An action is what runs under one lock or between two calls: `CheckPolicy`, `CheckCache`, `TakeSlot` or
`NoSlot` (the semaphore's quarter second), `Order` (`_provider_order`), then one `Reached` or `Unreached`
per provider with its report to the health record, `Exhausted`, `Put`, `Note` (the log, inside the `try`),
`Refuse` (the handler's own log), `Release` (the `finally`). Queries that end without a slot go through
`Log`. `LogFault` is an `OSError` of `ActivityLog.add`: outside the `try` it ends the thread and the answer
is lost, inside it is caught by the handler meant for the providers. Meanwhile policies change, entries
leave the cache (expired, evicted, invalidated, cleared), cool-downs end and the self-test reports. A
TC-bit retry is part of the one `Reached` or `Unreached`; an answer is `complete` or `dangling` (an A query
answered with a chain of names and no address), the one distinction `_forward` acts on.

| Run | Instance | Shows |
|---|---|---|
| `resolver_service` | scenes: one query at a time from the phone or the PC; two queries at once. One slot, one name, two providers, one log fault; each query fair | `SlotsKept`, `BestAnswer`, `CoolingMeansFailing`, types; `ServiceJudged` and `ServiceKept`: `Resolver` refines `DnsService`, with its fairness |

*Bounds.* Queries meet in the cache, the slots and the health of the providers only, and two queries
exhaust each of these: one slot between them, one entry, two reports in either order. Names do not meet at
all, so one is enough. `MaxFaults` bounds failing writes of the log.

*What `BestAnswer` compares.* The result with all the answers, not with the ones `_forward` still has: a
provider's complete answer that is passed over for the other's incomplete one breaks it, as does giving up
with a provider unasked or with an incomplete answer in hand.

*Fairness.* Weak fairness of each query's own steps. A query has a thread of its own, waits a quarter of a
second for a slot, and every connection has a time-out. None is assumed of the providers: they may all fail
for ever.

*Proved* (`ResolverProofs.tla`), for any number of queries, devices, names and slots:

- `TypeCorrect`, `CapacityKept`, `AnswersAreBest` and `AsideForFailing`: `TypeOK`, `SlotsKept`, `BestAnswer`
  and `CoolingMeansFailing` always hold.
  They are proved together (`Inv`): `free` stays in range only because the slots taken are counted by the
  queries that hold one, and `BestAnswer` needs to know of each query (`Fits`) that while it asks, the
  providers not in its remaining `order` are those that told it something (`said`), that none of them gave a
  complete answer, that `partial` is set exactly if one gave an incomplete one, and which results belong to
  which place.
- `Judges`: `Spec => ServiceJudged`, the safety half of the refinement. `stage` maps a query's place to
  the stage of its question; `Inv` tells where a result may be blocked or garbled, and each of the
  query's steps is then `Judge`, `Answer` or a stutter.

*Only model-checked:* `ServiceKept`, a refinement of fairness.

*Seen on the way.* When writing the log fails after a provider has answered (`dns_engine.py:963`), the
exception is caught by the handler meant for the providers (`:976`): the client gets SERVFAIL, and the log says
"Unable to reach encrypted DNS providers". The service allows the refusal; only the words are wrong.

### PhoneAuto: what the phone's loop blocks

`PhoneAuto.tla` is `PhoneAutoProtection` with every thread that writes a phone rule or a phone verdict. It
shares the verdicts and the gates with PCReview (`BlockGates.tla`) and little else: the phone section keeps
no decision of its own, the rule in the policy and its source are all that says who decided.

| Model | Code |
|---|---|
| `policy` | the phone's `PolicyStore`: action and source; `NoRule` is a domain that is not in it |
| `verdict`, `callers` | the classifier's entry: `aiVerdict`, `appBundles` and `appContexts` |
| `storm` | 60 blocked queries in the last ten minutes (`_recent_blocked_counts`) |
| `ai`, `hosts`, `apps`, `images` | `ai_providers.enabled`, `user_exceptions`, `mail_images` |
| `pc`, `dom`, `todo` | where a thread is, the domain it is about to write, what its list still holds |
| `held`, `seen`, `hot` | its copies of verdicts, callers and blocked counts |

| Actions | Code |
|---|---|
| `StartCycle`, `Answer` | `cycle` up to the review; `_finalize`, one domain at a time |
| `StartApply`, `SeePolicy`, `Apply`, `Block` | `apply_verdicts`: two snapshots, the gates, the write |
| `StartGuard`, `SeeBlocks`, `Guard`, `Open`, `EndCycle` | `guard`: two snapshots, the question, the write |
| `Request`, `EndRequest` | `POST /api/ai/review` |
| `SessionRow`, then `StartApply` | `POST /api/pc/session-verdicts` for the phone, which ends in `apply_verdicts` |
| `MailImage`, `MailCheck`, `MailSource`, `MailWrite` | `mail_images.record` and `release_mail_images` |
| `UserRule`, `UserForget` | `POST` and `DELETE /api/policy`, the modes of an app |
| `Fail` | an exception in the cycle or the request |
| `Trust`, `Toggle`, `Observe`, `Insist`, `Calm` | settings, a new caller, the phone's queries |

The user's rules that do not block (`monitor`, `allow`) are one action, `allow`: no thread here tells them
apart. Callers only grow, as lists of the entry do. `NoDomain` is the domain of a thread that has none.

| Run | Instance | Shows |
|---|---|---|
| `phone_auto_threads` | any two of the fair loop, a request and the mail watcher, with the user; one domain, one app, one failing cycle | `SettledRuleStands`, `RulingStands`, types, `GuardLifts`, `VerdictsApplied` |
| `phone_auto_overruled` | the three at once | finding: the loop's block replaces a rule the user gave meanwhile |

*What holds and what does not.* The module promises that the user's decision is never overridden. The code
keeps that promise between cycles and not within one: the run `phone_auto_overruled` has the loop copy the
policy, the user give a rule, and the loop write its block. What does hold is `SettledRuleStands`: once no
thread has the domain in hand, nobody takes it up again. That is what the theorem says.

*Bounds.* Domains meet in the lists only, and a list works its domains off one by one, so one domain shows
what can happen to a domain. One app that the user may trust is enough to change a domain's role in either
direction. Two threads of different kinds meet in each scene; the proofs cover any number. Next to a request
no cycle fails and no block is insisted on; these happen in the other scenes.

*Fairness.* Weak fairness of the loop's steps: `loop` is `while not stop_event`, `cycle` swallows every
exception, and what it waits for has a time-out. Nothing is assumed of the user, the mail or the phone.

*Proved* (`PhoneAutoProofs.tla`), for any number of domains, apps and threads of each kind:

- `TypeCorrect`: `Spec => []TypeOK`.
- `RulesStand`: `Spec => SettledRuleStands`. A thread's step leaves the others where they are (`Others`)
  and spares a settled domain (`StepSpares`): it is in no list made from a copy of the policy
  (`ApplySpares`, `GuardSpares`), and the mail watcher asks whose block it is (`MailSpares`).
- `RulingsStand`: `Spec => RulingStands`. Only `StartCycle`, `Request` and `Answer` lead to the court
  (`AwayFromCourt`), and the first takes candidates only (`CourtRespects`).

No strengthening is needed beyond the types: both properties carry their invariant (`Settled`, `Ruling`)
from one step to the next. *Only model-checked:* the liveness properties.

### Court and ReviewMemory: how the phone's domains are ruled on

`Court.tla` is `AIReviewer`: the automatic review of `phone_auto`, the background one of the panel, those
asked for by name, their workers, and the court each batch goes through. It extends `ReviewMemory.tla`, the
memory the reviews share (`review_memory.py`): each method of it is one step under its lock.

| Model | Code |
|---|---|
| `stage`, `needs` | the saved `aiVerdict`: none, awaiting the jury or the judge, ruled; `needsSession` |
| `notes` | the judge's open notes |
| `running`, `stopped`, `again` | `running`, `stop_flag`; whether the background review's scope lets through what is ruled ("all", "red") or not ("unreviewed", "weak") |
| `targets`, `queue`, `done` | a review's domains, its batches with their empty answers, what is finalised |
| `case[t]` | the locals of `_court` in thread t: readings, jury verdicts, what the judge is asked |
| `rest`, `held`, `judge`, `probeDue`, `capped` | `ReviewMemory`: backoff, hold, the judge's rest, probe and daily cap |
| `mixed` (history) | domains that two reviews had in hand at once |

`Take`, `Read`, `GiveBack`, `GiveUp` and `Single` are a worker's loop over the batches; `Jury`, `Weigh`, `Call`,
`Judge`, `NoJudge`, `Rule` the court; `Store` and `End` its results. Any provider may answer
for some of the domains of a call, or for none. `Tick` lets each wait end at any moment. `Candidates` is what
a review may have on its list: the automatic one all of `Unreviewed` (its limit of 60 is above the instance),
the background one whatever part of its scope category, colour and limit leave. `Asked` are the reviews that
are to take up what is ruled, and may end with less than a ruling: `NoStepBack` promises nothing of what they
have.

| Run | Instance | Shows |
|---|---|---|
| `court` | two domains, batches of one, a judge called for two; the automatic review with two workers, next to the panel's of either scope, a named one, the user's rulings or the PC's court, a scene each; scene "alone" is fair | `InOneHand`, `NotesTrue`, `NoStepBack`, types, and `Settles`: a new domain is ruled on in the end |
| `court_stopped` | scene "alone" | finding: after the user's Stop the automatic review goes round without reading anything |

*Bounds.* Two domains and batches of one make two workers meet on a queue; a `JudgeBatch` of two makes a
domain wait for another or for its hour. The second worker only passes its start and its queue in the scenes
with a rival review.

*Fairness.* The threads run, waits end (`Tick`), and a writer, the jurors and the judge that are asked over and
over answer in the end for all they were asked (strong fairness). Without the last nobody can promise a ruling.
`Settles` makes an exception of a user who stopped a review: that is the finding.

*Proved* (`CourtProofs.tla`), for any reviews, workers, domains and sizes of a batch:

- `OneHand`: `InOneHand` always holds. It is not inductive: that a batch taken from the list is in no
  other hand rests on how the list was dealt (`Dealt`: only while the review waits, of what is not finalised,
  each batch of other domains), on what workers and reviews hold (`Held0`, `Own`) and on which places have an
  empty case (`Settled`): `HandsInv`.
- `CourtTyped`: the types, of the backoff and of what is saved too (`TypeInv`).
- `NotesStand`: `NotesTrue`. While a ruling is being stored its notes may be ahead of what is saved, so
  `NotesInv` says of each domain for which of the two they stand; a domain that two reviews had in hand at
  once (`Contested`) is in `mixed`, and is excepted.
- `VerdictsStand`: `NoStepBack`, an action property, from `StandsInv`: what a review that is not `Asked` has on its list
  has no verdict that rules, what a review puts before the court itself has the verdict it had when it was
  opened, and a review without a list (`Before`) is about nothing when its scope is chosen.

*Only model-checked:* `Settles`, which is liveness.

### DomainEntry and Studies: what the classifier believes

`DomainEntry.tla` is what `domain_classifier.py` knows of one domain and the rules that rewrite it, each an
operator from an entry to the next: the reviewed catalogue, the name, a public study, an app's purpose, sharing
among apps, local evidence, sensitive apps, the model's verdict, a rebuild of all, a start. `Studies.tla` is
the engine around it: DNS handlers and requests that ask for studies (`Sees`, `Schedule`, `Enqueue`: two
steps, as in the code), the workers (`Look`, `Get`, `Analyze` or `Raise`, `Discard`), the flusher, a clean end
and a crash.

An entry is its `stage`, `risk` and `kind` (risk level, category), the apps that called, the last study, the
model's colour, and of the evidence how many more lines push out the two lines later rules look for (`kept`):
"local", which protects a red found in a session of the user's, and "sharing".

| Run | Scenes | Shows |
|---|---|---|
| `studies` | "rules" and "listed": every rule over an uncatalogued and a catalogued domain; "queue": two callers, two workers; "file": writes that fail, ends, crashes, starts; "fair": one worker, one caller | types; `NothingLost`: a pending domain is in exactly one place, a change is on the disk or marked; `ColoursStand`: local evidence stands, nothing but the rules that may lowers a colour, a review outlives all but an unsaved crash; `WorkEnds`: studies asked for end, changes are saved |

*Bounds.* One catalogued and one other domain, an app of a bank and one whose purpose needs the second domain;
two apps make an SDK shared, two lines of evidence push out the oldest. A rule reads no other domain's entry.

*Fairness*, in scene "fair" only: workers and callers run; a write tried over and over succeeds in the end.

*Seen on the way.* A study forced for a domain the catalogue knows puts the catalogue's colour over local red
evidence (`domain_classifier.py:1511`), which the refresh at a start or an observation would have spared
(`:1186`); `LocalRedStands` is about domains outside the catalogue.

*Proved* (`StudiesProofs.tla`), for any domains, catalogue, apps, callers and workers:

- `NothingIsLost`: `NothingLost` always holds. `QueueInv` gives each pending domain its one place:
  in a caller's hand, once in the queue, or with one worker, and in no two (`OneEach`, `Apart`, `Marked`). Its
  hard step is `Enqueue`: what it appends is in no other place, because `Schedule` marked it as pending under
  the lock, in the step before.
- `TypeCorrect`: the types, through every rule of the classifier.
- `ColoursAreKept`: `ColoursStand`. Every rule is shown to lower a colour only for the reasons the property
  names, and `EntriesInv` says that both memory and file are tables of entries, and that an engine that is
  down has in memory what is in the file.

*Only model-checked:* `WorkEnds`, which is liveness.

### Features, SystemDns, MailWatch, Reminder, Handoff: the services

These five share nothing but the process, so one run plays them a scene at a time (`MCServices.tla`).

| Module | Models | Its state and steps |
|---|---|---|
| `SystemDns` | the two elevated scripts, the watchdog task and Windows' DNS servers | per adapter the servers it has, the backup, the task; each script command by command, any of which may fail; the watchdog look by look |
| `Features` (extends it) | `settings.py`, `features.py`, the listeners, `elevated.py` | settings in memory and in the file; each request's way through `changed`: lock, listeners, phone script, PC script behind its prompt and two minutes, services |
| `MailWatch` | `mail_watch.py` | two lives of the watch's thread (the old one may still be at work), Outlook and its events, `handle` step by step, its file and log |
| `Reminder` | `ConnectionReminderMonitor`, `pc_address.py` | the latched state of a boot and its file, the notices sent, the address and its confirmations |
| `Handoff` | `main`, `take_over`, `/api/handoff`, `PCProtection.flush`, `PolicyStore.save` | up to four engines: where `main` is, the ports, rules and entries in memory and in files, the three threads that save entries |

In `Handoff` a store is the number of the last decision in it: rules are saved at each change, entries by a
timer, a request or an engine that leaves, each in two steps between which another thread may write the
same `.tmp`. An engine loads, asks the old one to leave or stops it by force, waits for its ports, and gives
up when they do not come free.

| Run | Scenes | Shows |
|---|---|---|
| `services` | "calls", "script": two requests, or one with failing scripts, the watchdog and crashes; "mail", "errors", "faults", "clicks": the watch; "notices", "address"; "takeover": four engines; "stores": two that decide | types; `SwitchesFollow`: what runs is what was last switched, and the engine listens before Windows is sent to it; `WindowsKept`: Windows follows, the backup is the user's own, no adapter is on an engine nothing watches; `MailInspected`: each message inspected, logged once but for a named race or lost mark, and what was removed on record; `Reminded`: each notice once, no connected phone reported lost, each address told; `TakesOver`: what was promised is obeyed by every later engine, what is loaded explains the rules, and names go on being answered |
| `handoff_saved` | `Handoff`, two engines | finding: what the old engine saves as it leaves, the new one has not loaded |

*Bounds.* Two adapters (one is there from the start; it is taken out, or the other plugged in), one elevated script at a time, two requests; two messages, one
of them dangerous, and two threads; grace one step and silence two; four engines where nothing is decided, two
with two decisions. A scene that faults one thing does not fault the others.

*What the properties except, and why.* Each exception is a history variable that names a cause in the code: a
save that failed and was reported (`mixed`), a prompt refused (`agreed`), a script cut off or outliving its
caller (`broken`), a line or mark a failure or crash lost (`slipped`), a message two lives of the watch looked
at before either marked it (`raced`: no failure, but what off and on again does), a decision made after the successor had
loaded (`stale`) or before its predecessor had saved (`behind`), an end that cut entries off or an older write
over a newer one (`cut`), a predecessor that left too late (`late`).

*Seen on the way.* `stale`, `behind` and `cut` are real losses: an answered decision of the last seconds
before a handoff is lost, or undone by the successor's next save. An adapter plugged in while the watchdog is
on is moved by it to the engine, is not in the backup, and stays there when protection is disabled;
one that is out while protection is disabled is passed over and keeps the engine. The properties about what each
adapter has speak of those that were there all the time.
Off and on again within a cycle of the mail watch leaves two threads at work (the stop event is a new one), and
`handle` looks and marks without a lock: the same message may be judged, removed and logged twice with nothing
failing. `InspectedOnce` says that this window and lost marks are the only way to that. What `_reassess_unread`
does to the kind of a verdict is data left out; its save is the one `CatchUp` may ask for. Not modelled: a
foreground engine ended by Ctrl+C, a second request to leave while the first is at work.

*Proved*, each for its own specification, which is more than the scenes allow: any number of engines, decisions,
addresses, messages, threads, callers, adapters and scripts, and all faults together.

- `EnginesTakeOver` (`ServicesProofs.tla`): `TakesOver`. `EngineInv` relates rules and entries to the number
  of the last decision (`Numbers`, `Latest`), says that the entry of a rule in the file is in the file, marked,
  or being written (`Explained`), who has the ports (`Ports`), and that somebody comes or serves who is not
  about to leave (`Served`); `Answered` alone forgets the engine that has yet to open its port.
- `RemindersAreSent`: `Reminded`. `ReminderInv` holds the notes of memory against those of the file
  (`Remembered`): after a restart the file stands for them, unless a crash came before the save.
- `MailIsInspected`: `MailInspected`. `MailInv` says where a message is between its mark and its line
  (`Once`, `Logged`), that the date in memory is that of a message seen (`Dated`), and that the search by
  date covers what it does not find (`Caught`). The proof found `MissedIsOld` too strong: a thread whose
  switch is off by then may still pass, so the property now asks for a switch that is on.
- `WindowsIsKept` and `PartsAreMoved` (`WindowsProofs.tla`): `WindowsKept`, and `SwitchesFollow`, an action
  property. `WindowsInv` says what each command of a script finds (`Chain`), that a script has a caller who
  waits for it and does what it asked (`Awaited`, `Obedient`), and who is inside (`OneInside`); all while
  nothing `broken`, `mixed` or refused happened. Here the proof showed that a restoring script has to keep
  what it has read of the backup (`had`), as the script does.
- `ServicesAreTyped`: `TypesOK`. The types of the reminder need one fact more (a query that was not noted has a
  time), those of the mail watch need `MailInv` (a thread that logs has a message in hand).

### CapabilityUses, MicSessions, Permissions, PhoneHelpers, PhoneApps, PrivacyControls, DohPool: the records

Six records of what programs and apps did and what the user wants of them, and the pool of connections to the
DNS providers, one scene each (`MCRecords.tla`).

| Module | Models | Its state and steps |
|---|---|---|
| `CapabilityUses` | the history part of `capability_monitor.py` | Windows' rows, written at the start of a use and completed at its end; the copy a task makes; the cursor, the open series and their file; the log |
| `MicSessions` | `poll_live`, `capability_audio.py` | processes, their numbers and sessions per device; live series, the file, the log |
| `Permissions` | `set_permission`, `verify_permissions`, `permission_state` | the registry key, the uses Windows logs afterwards, the record in memory and in its file, the button on a page that may be old |
| `PhoneHelpers` | `PrivacyCaptureManager`, `IPhoneEvidenceMonitor` | helper processes, the capture session, the worker between its look at the switch, the start of a helper and its listing |
| `PrivacyControls` | `privacy_control.py` | choices, last results, verdicts, the list of incidents and what of it is kept, in memory and in the file; the second calls still due |
| `PhoneApps` | the detected list of `AppProfileStore`, `ProgramInventory.sync_phone` | the list and the removals, each in memory and in its file; per thread a reading or a report, and what it took off the list on its way to the removals |
| `DohPool` | `DoHConnectionPool`, `_doh_request_pooled`, `_doh_exchange` | idle, shut and closed connections; per query its phase, the connection in its hand, and its one retry |

| Run | Scenes | Shows |
|---|---|---|
| `records` | "uses", "mic", "judged" and "buttons" (of `Permissions`), "phone", "controls", "apps", "pool" | types; `UsesTold`: every use read is counted once, in the log or an open series, and one that goes on is shown so; `SessionsTold`: who captures is told, who has captured is on record, no series is open on a process not watched; `HelpersHeld`: no helper in nobody's hand, off is off, a capture can be stopped and yields its result; `AppsKept`: choices stand, verdicts are on the present choice, incidents stay until as many as are kept are as recent, what left the phone is on record as removed, and a sync that meets nobody puts list and removals right; `ButtonsHonest`: what is said of Windows is borne out by uses after the change, a restore gives back what was there, a denial stays on record; `PoolKept`: a connection has one user, none is left open in nobody's hand, no query fails over a pooled one at once |

*Bounds.* Three uses with a gap of one step; two processes with one number, two devices; five helpers, two
sessions; one app with two permissions, three calls that record a
result and two incidents kept (200 in the code), so that the third drops one; three uses and one visit to Windows' settings;
three apps, one of them Apple's, a sync and reports that name one app, of which at most one meets the sync; two
queries, two providers, three connections, of which one may be idle.

A poll of the history adds its rows one by one, and between two of them the engine may crash, a line fail, or a
request that changes a permission close the old series; `UsesTold` excepts the crash after a line, the line that
fails and the series closed while the end of a use is still to be added (`torn`). A
switch-off waits for the poll, three seconds at most; a poll that takes longer is left out. A reading of the live
sessions ends at a line that fails, with the processes it has not reached as they were.

A helper may stray: the switch goes off between the worker's look at it and the helper's start, or before its
listing; its worker fails over a line; the engine ends. `HelpersHeld` names these cases (`strayed`) and excludes
every other. An incident's place in the list is the call that put it there, its age the time of its capture.
The two disagree only when a request's second call, with what its containment found, comes after the incident
of a later capture (`late`); from then on the list may drop the newer first, and `IncidentsKept` no longer speaks
of it.

*Seen on the way.* (1) Windows is judged by whole series: one that spans the change counts its earlier,
allowed uses, and a program that was blocked from then on is found "not-effective"
(`capability_monitor.py:1143`), which marks the whole platform (`desktopPerAppDeny`) and takes the button away;
`JudgedAfter` excepts it (`Across`). (2) A second Deny from an old page takes the first one's value for the
original, and a restore then "restores" Deny (`twice`). (3) An engine that ends between the registry's write
and the record's leaves a Deny nobody knows of (`lost`). (4) A use that begins and whose predecessor ends between
two copies is marked as over by that end (`Crosses`). (5) A process that captures on one device and is idle on
the next is told as idle (`Torn`), although `capability_audio.py:3-6` speaks of one row per process. (6) The
evidence monitor never empties its list of workers (`hired`), so it does not start again after its worker ended. (7) The "fresh
attempt" after a pooled connection has failed (`dns_engine.py:683`) takes the next idle connection, which the
provider may have closed as well: `FailsLate` promises a second attempt, not a fresh connection.

*Proved* (`RecordsProofs.tla`), each for its own specification and any number of uses, processes, helpers, apps
and connections:

- `UsesAreTold`: `UsesTold`. What is counted depends on the cursor, on the open series and on three views of
  the same uses: Windows' rows, the copy of them that a task makes, and the rows a poll has in hand. `UsesInv`
  accounts for them: the copy is of one moment (`Copied`), what the cursor has passed is counted
  and what it has not is new (`Told`, `Fits`), a use that runs is in the open series (`Rest`), and during a poll
  the rows to be added make up the difference (`AtWork`, `NoneTwice`); and the same of the file, unless a line is
  ahead of it.
- `CapturesAreTold`: `SessionsTold`, with `MicInv` (processes that run have numbers of their own; whom the
  monitor watches has a series).
- `DenialsAreHonest`: `ButtonsHonest`, with `GrantsInv` (what was judged is borne out by a use, what a request
  under way has read or left).
- `HelpersAreHeld`: `HelpersHeld`, with `PhoneInv` (what others see is what the worker has, once it is listed; a
  helper it has not listed when the switch is off has strayed).
- `AppsAreKept`: `AppsKept`, from `ControlsInv` (memory and file each hold the choices, and memory a verdict on
  each), `ListInOrder` (calls and times order the incidents alike, and an owed incident is lacking only where the
  list is full of newer ones, which cutting it keeps) and `ListInv` (a sync that met nobody is the only thread; what it took off the list is on its way to
  the removals).
- `ConnectionsAreKept`: `PoolKept`, with `PoolInv` (who exchanges has an open connection; what is made is shut,
  in a hand or in a bucket; no bucket is over its limit).
- `RecordsAreTyped`: `TypesOK`. The types of the choices need that a result has a time, or it could put an
  incident on record that has none.

## 4. Findings

| Run | Finding |
|---|---|
| `pc_review_watched` | a domain reviewed again and no longer to be blocked is marked as watched and stays blocked |
| `phone_auto_overruled` | the loop's block replaces a rule the user gave since the loop copied the policy |
| `court_stopped` | after the user stops a background review, the automatic one reads no new domain until another is started |
| `handoff_saved` | the entries an engine saves as it leaves are never loaded by its successor, which writes its own over them |

## 5. What is proved and what is only checked

Every safety property of a passing run is stated by a theorem, under *Proved* of its module above, for every
value of the constants that the assumptions below admit. A theorem is about the component's own `Spec`, which
is more than the scene of its run: all its threads and all its faults together.
A proof module extends the module of its run, so that the theorem states the property the run checks.

| Proof module | Specification | Inductive invariant | Rests on the assumptions |
|---|---|---|---|
| `PCReviewProofs` | `Spec` | `SystemOK /\ ThreadInv`, `WholeInv`, `HandInv` | `GatesAssumption`, `ConstantsAssumption`, `KindsAssumption` |
| `ResolverProofs` | `Spec` | `Inv` | `ResolverAssumption` |
| `PhoneAutoProofs` | `Spec` | `TypeOK` with `Settled`, `Ruling` | `GatesAssumption`, `ConstantsAssumption`, `KindsAssumption` |
| `CourtProofs` | `Spec` | `HandsInv`, `TypeInv`, `NotesInv`, `StandsInv` | `CourtAssumption` |
| `StudiesProofs` | `Spec` | `QueueInv`, `EntriesInv` | `DomainEntryAssumption`, `StudiesAssumption` |
| `ServicesProofs` | `Spec` of `Handoff`, `Reminder`, `MailWatch` | `EngineInv`, `ReminderInv`, `MailInv` | `ServicesAssumption` |
| `WindowsProofs` | `Spec` of `Features` | `WindowsInv`, `PartsInv` | `SystemAssumption`, `FeaturesAssumption` |
| `RecordsProofs` | `Spec` of each of the seven records | `UsesInv`, `MicInv`, `GrantsInv`, `PhoneInv`, `ControlsInv`, `ListInv`, `PoolInv` | `UsesAssumption`, `RecordsAssumption` |

The assumptions say that sets are finite, that bounds are natural numbers (positive where the code's constant
is), and that a placeholder (`NoDomain`, `NoMsg`, `Nobody`) is none of what it stands for. None is about what
the program does.

*Only model-checked*, because the prover reaches neither fairness nor ENABLED: `GuardLifts` of `PCReview` and
of `PhoneAuto`, `VerdictsApplied`, `Settles`, `WorkEnds`, and the fairness half of `ServiceKept` (its safety half is
`Judges`).

*What the proofs changed.* An invariant that would not go through was either too weak or wrong, and four
times the reason was in a model: `MissedIsOld` spoke of a switch that was off by then; a restoring script forgot the backup it had read; a poll was one step
although the engine may end between two of its rows; an incident could have
come from a result without a time. `Heard` of `MicSessions`, a walk over a process's devices, is now stated by its
result, which can be reasoned about.

## 6. Not modelled

Parsing and formatting (DNS messages, prompts, HTTP, JSON, views), the catalogues and evidence weights,
Windows and iOS reads (registry, COM, event logs, USB), and the web pages: each is data or I/O to the parts
above, and each has a row in `components` of PROJECT.json with its reason. Clocks are modelled by what may
have expired, not by numbers, except where a deadline itself is the question.

One hazard is below the models and not in the list: the TTL fields of a cached answer are aged in place, and
the field of an OPT record is none (`dns_engine.py:394`).
