---------------------------- MODULE ReviewMemory ----------------------------
(***************************************************************************)
(* What the reviews remember between them (review_memory.py): the domains  *)
(* whose review failed and that rest, whether the judge and the jurors may *)
(* be asked, and since when the domains of the phone's list are held back. *)
(* One ReviewMemory serves the phone's reviews and the PC's; each of its   *)
(* methods is one step under its lock. Times are kept as what has passed:  *)
(* a wait is over when the clock says so, at any moment.                   *)
(***************************************************************************)
EXTENDS Naturals, FiniteSets

CONSTANTS Domains,
          Gather      \* GATHER_SIZE: as many domains are not held back any longer

VARIABLES
  rest,       \* domains whose nextAt lies ahead
  judge,      \* may the judge be asked: "ready", "backoff" after a failure, "capped" for the day
  probeDue,   \* a quarter of an hour has passed since the judge was last tried
  capped,     \* the jurors have reached their limit of the day
  held        \* held[d]: in the list, for less ("new") or more ("old") than an hour, or "out"

memory == <<rest, judge, probeDue, capped, held>>

MemoryInit ==
  /\ rest = {}
  /\ judge = "ready" /\ probeDue = FALSE
  /\ capped = FALSE
  /\ held = [d \in Domains |-> "out"]

MemoryType ==
  /\ rest \subseteq Domains
  /\ judge \in {"ready", "backoff", "capped"}
  /\ probeDue \in BOOLEAN /\ capped \in BOOLEAN
  /\ held \in [Domains -> {"out", "new", "old"}]

\* succeeded, then failed, at the end of a review.
Remember(done, lost) == rest' = (rest \ done) \cup lost

\* sonnet_failed: of a daily limit, until midnight; else a wait that doubles.
SonnetFailed(daily) ==
  /\ judge' = IF daily THEN "capped" ELSE "backoff"
  /\ probeDue' = FALSE

SonnetAnswered == judge' = "ready" /\ probeDue' = FALSE

\* sonnet_probe_due: only in a wait that is no daily limit.
ProbeDue == judge = "backoff" /\ probeDue

SonnetProbed(ok) ==
  /\ judge' = IF ok THEN "ready" ELSE judge
  /\ probeDue' = FALSE

\* Broken on purpose (mutant): the ages are taken anew at each call.
AgesAnew(ds) == [d \in Domains |-> IF d \in ds THEN "new" ELSE "out"]

\* hold: whoever left the list loses his age, whoever stays keeps it.
Ages(ds) ==
  [d \in Domains |-> IF d \notin ds THEN "out" ELSE IF held[d] = "out" THEN "new" ELSE held[d]]

Enough(ds) == Cardinality(ds) >= Gather \/ \E d \in ds : Ages(ds)[d] = "old"

Hold(ds) == held' = IF Enough(ds) THEN [d \in Domains |-> "out"] ELSE Ages(ds)

-----------------------------------------------------------------------------
(* Time.                                                                   *)

RestOver(d) == d \in rest /\ rest' = rest \ {d} /\ UNCHANGED <<judge, probeDue, capped, held>>

HeldAnHour(d) ==
  /\ held[d] = "new"
  /\ held' = [held EXCEPT ![d] = "old"]
  /\ UNCHANGED <<rest, judge, probeDue, capped>>

QuarterPassed ==
  /\ judge = "backoff" /\ ~probeDue
  /\ probeDue' = TRUE
  /\ UNCHANGED <<rest, judge, capped, held>>

BackoffOver ==
  /\ judge = "backoff"
  /\ judge' = "ready" /\ probeDue' = FALSE
  /\ UNCHANGED <<rest, capped, held>>

Midnight ==
  /\ judge = "capped" \/ capped
  /\ judge' = IF judge = "capped" THEN "ready" ELSE judge
  /\ capped' = FALSE
  /\ UNCHANGED <<rest, probeDue, held>>

Clock == QuarterPassed \/ BackoffOver \/ Midnight \/ \E d \in Domains : RestOver(d) \/ HeldAnHour(d)

=============================================================================
