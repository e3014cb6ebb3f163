----------------------------- MODULE MCResolver -----------------------------
(***************************************************************************)
(* Instances of Resolver for TLC. A run of the model plays one scene:      *)
(* "devices", one query, from any device at a time, or "queries", all of   *)
(* them at once from the phone. The scene only says what is asked and      *)
(* whose rules change; what becomes of a query is Resolver's.              *)
(***************************************************************************)
EXTENDS Resolver

CONSTANTS q1, phone

VARIABLE scene

MCInit ==
  /\ Init
  /\ scene \in {"devices", "queries"}
  /\ dev = [q \in Queries |-> phone]

MCNext ==
  /\ Next
  /\ UNCHANGED scene
  /\ scene = "devices" => \A q \in Queries \ {q1} : pc'[q] = "idle"
  /\ scene = "queries" => dev' = dev /\ \A v \in Devices \ {phone} : policy'[v] = {}

MCSpec == MCInit /\ [][MCNext]_<<vars, scene>> /\ \A q \in Queries : WF_vars(QueryStep(q))

=============================================================================
