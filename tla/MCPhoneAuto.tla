----------------------------- MODULE MCPhoneAuto -----------------------------
(***************************************************************************)
(* Instances of PhoneAuto for TLC. A run of the model plays one scene: the *)
(* two threads of its cast are at work, and the user; any other thread     *)
(* stays idle. Exceptions and storms come only where no request is at work.*)
(***************************************************************************)
EXTENDS PhoneAuto, TLC

CONSTANTS d1, d2, p1, p2

\* p1 is the app d1 belongs to, p2 a stranger to every domain.
MCOwner == [d \in Domains |-> IF d = d1 THEN {p1} \cap Programs ELSE {}]

VARIABLE cast

MCInit == Init /\ cast \in {Loopers \cup Posters, Loopers \cup Mailers, Posters \cup Mailers}

MCNext ==
  /\ Next
  /\ UNCHANGED cast
  /\ \A t \in Threads \ cast : pc'[t] = "idle"
  /\ Posters \cap cast # {} => failures' = 0 /\ \A d \in Domains : ~storm'[d]

MCSpec ==
  /\ MCInit
  /\ [][MCNext]_<<vars, cast>>
  /\ \A l \in Loopers : WF_vars(Loop(l))

=============================================================================
