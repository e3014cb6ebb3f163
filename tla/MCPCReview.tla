----------------------------- MODULE MCPCReview -----------------------------
(***************************************************************************)
(* Instances of PCReview for TLC, with one thread at work at a time. A run *)
(* of the model plays one scene: "lists", the review loop alone, while the *)
(* domain and the stranger get trusted or not and a cycle may fail;        *)
(* "turns", the loop, the user and a session's verdicts one after the      *)
(* other, no program trusted and nothing failing.                          *)
(***************************************************************************)
EXTENDS PCReview, TLC

CONSTANTS d1, p1, p2

\* p1 is d1's own program, p2 a stranger to every domain.
MCOwner == [d \in Domains |-> IF d = d1 THEN {p1} ELSE {}]

\* One thread at a time is at work.
Alone == \A t, u \in Threads : t = u \/ pc[t] = "idle" \/ pc[u] = "idle"

VARIABLE scene

MCInit == Init /\ scene \in {"lists", "turns"}

MCNext ==
  /\ Next
  /\ UNCHANGED scene
  /\ Alone'
  /\ scene = "lists" => \A t \in Threads \ Loopers : pc'[t] = "idle"
  /\ scene = "turns" => failures' = 0
  /\ apps' \subseteq {p2} /\ (scene = "turns" => apps' = {})

MCSpec == MCInit /\ [][MCNext]_<<vars, scene>> /\ \A r \in Loopers : WF_system(ReviewStep(r))

=============================================================================
