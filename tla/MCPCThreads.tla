----------------------------- MODULE MCPCThreads ----------------------------
(***************************************************************************)
(* The threads of PCReview, for TLC. A run of the model plays one scene:   *)
(* the threads of its cast, on the domains of its stage, where cycles and  *)
(* requests fail or not. Any other thread stays idle, and nothing happens  *)
(* to any other domain. A program calls d1 only, a block is insisted on    *)
(* only on d2 with the loop at work, and the trusted hosts change only     *)
(* where no review is.                                                     *)
(***************************************************************************)
EXTENDS PCReview, TLC

CONSTANTS d1, d2, p2

\* The one program is a stranger to both domains.
MCOwner == [d \in Domains |-> {}]

VARIABLE scene

\* The user with the loop, with a session or with the mail watcher; a review of two domains.
Scenes ==
  {[cast |-> Users \cup Loopers, stage |-> {d1}, failing |-> FALSE],
   [cast |-> Runners, stage |-> {d1, d2}, failing |-> FALSE]}
  \cup {[cast |-> Users \cup c, stage |-> {d2}, failing |-> TRUE] : c \in {Loopers, Sessions, Mailers}}

MCInit == Init /\ scene \in Scenes

Untouched(d) ==
  /\ policy'[d] = NoRule /\ decision'[d] = "watching"
  /\ d \notin hosts' \cup images'
  /\ \A t \in Threads : dom'[t] # d /\ d \notin todo'[t]

\* Next (a step and what it notes), with the bounds of the scene in between.
MCNext ==
  /\ Step
  /\ UNCHANGED scene
  /\ \A t \in Threads \ scene.cast : pc'[t] = "idle"
  /\ \A d \in Domains \ scene.stage : Untouched(d)
  /\ \A d \in Domains : callers'[d] # {} => scene.stage = {d1} /\ d = d1
  /\ failures' = 0 \/ scene.failing
  /\ apps' = {} /\ (Reviewers \cap scene.cast # {} => hosts' = {})
  /\ \A d \in Domains : storm'[d] => scene.stage = {d2} /\ Loopers \subseteq scene.cast
  /\ Noted

MCSpec == MCInit /\ [][MCNext]_<<vars, scene>>

=============================================================================
