------------------------------ MODULE MCStudies -----------------------------
(***************************************************************************)
(* Instances of Studies for TLC: p, a domain with a telemetry name, and c, *)
(* a catalogued tracker; an app of a bank, and one whose purpose needs p.  *)
(* A run plays one scene: "rules" and "listed", every rule over p or c     *)
(* "queue", two callers and two workers; "file", writes that fail, ends,   *)
(* crashes and starts; "fair", one worker and one caller, fair, for what   *)
(* happens in the end.                                                     *)
(***************************************************************************)
EXTENDS Studies, TLC

CONSTANTS Scenes, p, c, bank, pulse, dns, user, w1, w2

MCCatalog  == p :> "none" @@ c :> "orange"
MCKind     == p :> "service" @@ c :> "tracking"
MCNamed    == p :> "orange" @@ c :> "green"
MCPurpose  == bank :> "none" @@ pulse :> "green"
MCExpected == bank :> {} @@ pulse :> {p}

VARIABLE scene

MCInit == Init /\ scene \in Scenes

\* Nothing happens to any domain but d.
On(d) == \A e \in Domains \ {d} : ~Known(mem'[e]) /\ \A t \in Callers : e \notin hand'[t].todo
Plain == \A d \in Domains : mem'[d].apps = {} /\ mem'[d].kept["local"] = 0 /\ mem'[d].verdict = "none"
Alone == hand'[user] = NoHand /\ work'[w2] = AtTop

Fair  == scene = "fair"

MCNext ==
  /\ Next
  /\ UNCHANGED scene
  /\ scene \in {"rules", "file"} => On(p)
  /\ scene = "listed" => On(c) /\ mem'[c].apps \subseteq {bank}
  /\ mem'[p].verdict # "orange"
  /\ scene \in {"rules", "listed"} =>
       up' /\ ~stopping' /\ disk' = disk /\ hand'[dns] = NoHand /\ work'[w2] = AtTop
  /\ scene = "queue" =>
       /\ Plain /\ disk' = Empty /\ up'
       /\ ~unsaved' /\ mem'[p].risk # "red" /\ mem'[c].study = "none" /\ mem'[p].study # "failed"
       /\ c \notin hand'[dns].todo
  /\ scene = "file" =>
       /\ Alone /\ hand'[dns] = NoHand /\ work'[w1] = AtTop
       /\ mem'[p].apps \subseteq {pulse}
  /\ Fair => Plain /\ Alone /\ On(p) /\ mem'[p].risk # "red" /\ mem'[p].kind # "tracking" /\ mem'[p].study # "red"

\* The engine's threads run; a public study ends, in one way or another; a write that is tried over
\* and over succeeds in the end.
Fairness ==
  /\ WF_vars(Fair /\ Worker(w1))
  /\ WF_vars(Fair /\ (Enqueue(dns) \/ Schedule(dns, p)))
  /\ SF_vars(Fair /\ Flusher /\ dirty /\ ~dirty')

MCSpec == MCInit /\ [][MCNext]_<<vars, scene>> /\ Fairness

\* What a query asks to be studied is studied, or has been tried: no thread waits for ever behind
\* a study that raised or was asked for twice. Unless the engine stops.
StudiesEnd ==
  /\ Fair /\ p \in pending ~> p \notin pending \/ stopping
  /\ Fair /\ p \in hand[dns].todo ~> p \notin hand[dns].todo \/ stopping

\* What is marked as unsaved is written in the end, after any number of writes that fail.
SavesEnd == Fair /\ dirty ~> ~dirty \/ stopping

\* The queue of studies and the saves both make way.
WorkEnds == StudiesEnd /\ SavesEnd

=============================================================================
