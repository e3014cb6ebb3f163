------------------------------ MODULE MCCourt -------------------------------
(***************************************************************************)
(* Instances of Court for TLC. A run of the model plays one scene: "cycle",*)
(* the automatic review alone, with two workers and new domains; "panel"   *)
(* and "named", a review the user asks for next to it, on one domain with  *)
(* a worker each (in "named" a limit is a limit of the day, and of the     *)
(* judge); "user", his rulings and the PC's court next to it; "alone", one *)
(* worker and fair threads, for what happens in the end.                   *)
(***************************************************************************)
EXTENDS Court

CONSTANTS Scenes, d1, w1, w2, w3, w4

MCCrew == w1 :> Cycle @@ w2 :> Cycle @@ w3 :> Panel @@ w4 :> CHOOSE r \in Named : TRUE

VARIABLE scene

MCInit ==
  /\ Init
  /\ scene \in Scenes
  /\ scene \in {"cycle", "alone"} => \A d \in Domains : stage[d] = "none"
  /\ scene \notin {"cycle", "alone"} => \A d \in Domains \ {d1} : stage[d] = "ruled" /\ d \notin notes

MCNext ==
  /\ Next
  /\ UNCHANGED scene
  /\ scene # "panel" => at'[Panel] = "idle"
  /\ scene # "named" => \A r \in Named : at'[r] = "idle"
  /\ scene = "named" => judge' # "backoff" /\ capped' = FALSE
  /\ scene # "user"  => session' = NoDomain /\ ~PCJudge
  /\ session' \in {NoDomain, d1} /\ \A r \in Named \cup {Panel} : targets'[r] \subseteq {d1}
  /\ scene # "cycle" => at'[w2] \in {"off", "loop"}

\* The cycle is started every two minutes and its threads run; waits end. A writer, the jurors
\* and the judge, asked over and over, answer in the end for all they are asked about.
Alone == scene = "alone"

Answers(t) ==
  /\ SF_state(Alone /\ Jury(t, case[t].read \ case[t].saved, FALSE))
  /\ SF_state(Alone /\ \E asked \in Docket(case[t]) : Judge(t, asked, asked, {}))

Fairness ==
  /\ WF_state(Alone /\ (StartCycle \/ ReviewStep(Cycle))) /\ Answers(Cycle)
  /\ WF_state(Alone /\ WorkerStep(w1)) /\ Answers(w1)
  /\ SF_state(Alone /\ Read(w1, case[w1].ds))
  /\ WF_state(Alone /\ WorkerStep(w2))
  /\ WF_state(Alone /\ Tick /\ (BackoffOver \/ Midnight))
  /\ WF_state(Alone /\ Tick /\ \E d \in Domains : RestOver(d))
  /\ WF_state(Alone /\ Tick /\ \E d \in Domains : HeldAnHour(d))
  /\ WF_state(Alone /\ \E d \in Domains : Age(d))

MCSpec == MCInit /\ [][MCNext]_<<vars, scene>> /\ Fairness

\* A new domain is ruled on in the end: neither a batch held back, nor providers that fail, nor a
\* judge who rests keep it waiting for ever. Unless the user has stopped a review, and starts none.
Settles ==
  Alone => <>[]stopped \/ \A d \in Domains : stage[d] = "none" ~> stage[d] = "ruled"

\* phone_auto.py: "it reviews every domain not yet reviewed".
ReviewsEvery == Alone => \A d \in Domains : stage[d] = "none" ~> stage[d] # "none"

=============================================================================
