----------------------------- MODULE BlockGates -----------------------------
(***************************************************************************)
(* What the PC section and the phone section share: the verdicts a domain  *)
(* can have, and the local gates every automatic block passes              *)
(* (domain_verdicts.py, user_rules.py, local_decider.py). No model and no  *)
(* user is asked here. What the gates look up in catalogues, categories    *)
(* and name patterns are the CONSTANTS; what the user and the mail watcher *)
(* change while the program runs are the VARIABLES.                        *)
(***************************************************************************)

CONSTANTS
  Domains,       \* domains the device asks for
  Programs,      \* programs or apps that call them
  Owner,         \* [Domains -> SUBSET Programs]: callers the domain is first party to
  Additional,    \* domains whose name says they are extra to any function
  Functional,    \* domains whose name, if it does not say that, says they are a function
  Operational,   \* domains the block gate refuses: their category or name is a runtime path
  Ruled          \* domains a user rule binds by what they are: health, infrastructure, path

ASSUME GatesAssumption ==
  /\ Owner \in [Domains -> SUBSET Programs]
  /\ Additional \subseteq Domains
  /\ Functional \subseteq Domains
  /\ Operational \subseteq Domains
  /\ Ruled \subseteq Domains

VARIABLES
  hosts,      \* hosts the user trusts
  images,     \* hosts whose images a mail showed
  apps        \* programs and apps the user trusts

-----------------------------------------------------------------------------
(* Verdicts: who decided, and what it means for blocking.                  *)

NoVerdict == [court |-> "none", call |-> "clear"]
Pending   == [court |-> "pending", call |-> "red"]   \* pendingSonnet: its color is never used
Calls     == {"clear", "red", "redSafe"}     \* green or orange; red; red and blockSafe
Decided   == [court : {"judged", "session", "builtin", "single"}, call : Calls]
Verdict   == Decided \cup {NoVerdict, Pending}

\* BLOCK_AGREEMENTS: "single" stands for every agreement outside it.
BlockAgreement(v) == v.court \in {"judged", "session", "builtin"}
DecidedByMain(v)  == v.court \in {"judged", "session"}

-----------------------------------------------------------------------------
(* The gates.                                                              *)

\* domain_function_role: a trusted caller first, then the name, then first-party callers.
Role(d, cs) ==
  CASE cs \cap apps # {}     -> "function"
    [] d \in Additional      -> "additional"
    [] d \in Functional      -> "function"
    [] cs \cap Owner[d] # {} -> "function"
    [] OTHER                 -> "unknown"

\* protected_reason: a host the user trusts, or one whose images a mail showed.
ProtectedHost(d) == d \in hosts \cup images

GateAllows(d, cs) == Role(d, cs) # "function" /\ d \notin Operational

\* user_rules.matching_rule: a function, or a rule for its kind, unless its name says it is extra.
RuleMatches(d, cs) ==
  \/ Role(d, cs) = "function"
  \/ Role(d, cs) = "unknown" /\ d \in Ruled

\* user_rules.enforce: a matching rule takes blockSafe away, and some rules also the color.
Enforced(d, cs, v) ==
  IF v # Pending /\ RuleMatches(d, cs)
  THEN {[v EXCEPT !.call = "clear"],
        [v EXCEPT !.call = IF v.call = "redSafe" THEN "red" ELSE v.call]}
  ELSE {v}

\* local_decider: with AI review off, fixed rules decide; a block is never for a function.
BuiltIn(d, cs) ==
  {[court |-> "builtin", call |-> c] :
     c \in IF RuleMatches(d, cs) \/ ProtectedHost(d) \/ Role(d, cs) = "function"
           THEN {"clear"} ELSE {"clear", "redSafe"}}

=============================================================================
