----------------------------- MODULE DnsService -----------------------------
(***************************************************************************)
(* What the DNS engine promises to a client, whatever is behind it: a      *)
(* question is judged by the policy of the device that asks it, at one     *)
(* moment between the question and the answer. A blocked name is answered  *)
(* as blocked, any other with data or, if there is none to be had, with a  *)
(* refusal. An answer that cannot be written to the activity log is lost,  *)
(* and the client asks again.                                              *)
(***************************************************************************)

CONSTANTS Queries, Devices, Domains

VARIABLES
  policy,   \* policy[v]: the domains blocked for device v
  dev, dom, \* who asks query q, and for what
  stage,    \* stage[q]: idle, asked, or judged to be open, blocked or garbled
  reply     \* reply[q]: what was answered last

vars == <<policy, dev, dom, stage, reply>>

\* What may be answered to a question so judged.
Answers(verdict) ==
  CASE verdict = "blocked" -> {"blocked", "lost"}
    [] verdict = "garbled" -> {"refused", "lost"}
    [] verdict = "open"    -> {"data", "refused", "lost"}

Init ==
  /\ policy = [v \in Devices |-> {}]
  /\ dev \in [Queries -> Devices]
  /\ dom \in [Queries -> Domains]
  /\ stage = [q \in Queries |-> "idle"]
  /\ reply = [q \in Queries |-> "none"]

SetPolicy(v) ==
  /\ policy' \in {[policy EXCEPT ![v] = ds] : ds \in SUBSET Domains}
  /\ UNCHANGED <<dev, dom, stage, reply>>

Ask(q) ==
  /\ stage[q] = "idle"
  /\ dev' \in {[dev EXCEPT ![q] = v] : v \in Devices}
  /\ dom' \in {[dom EXCEPT ![q] = d] : d \in Domains}
  /\ stage' \in {[stage EXCEPT ![q] = s] : s \in {"asked", "garbled"}}
  /\ reply' = [reply EXCEPT ![q] = "none"]
  /\ UNCHANGED policy

Judge(q) ==
  /\ stage[q] = "asked"
  /\ stage' = [stage EXCEPT ![q] = IF dom[q] \in policy[dev[q]] THEN "blocked" ELSE "open"]
  /\ UNCHANGED <<policy, dev, dom, reply>>

Answer(q) ==
  /\ stage[q] \in {"blocked", "garbled", "open"}
  /\ \E a \in Answers(stage[q]) : reply' = [reply EXCEPT ![q] = a]
  /\ stage' = [stage EXCEPT ![q] = "idle"]
  /\ UNCHANGED <<policy, dev, dom>>

Next ==
  \/ \E v \in Devices : SetPolicy(v)
  \/ \E q \in Queries : Ask(q) \/ Judge(q) \/ Answer(q)

Spec == Init /\ [][Next]_vars

\* Every question asked is judged and answered.
FairSpec == Spec /\ \A q \in Queries : WF_vars(Judge(q) \/ Answer(q))

=============================================================================
