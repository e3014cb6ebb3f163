---------------------------- MODULE DomainEntry ----------------------------
(***************************************************************************)
(* What the classifier (domain_classifier.py) knows of one domain, and the *)
(* rules that change it: the reviewed catalogue, the name, a study of its  *)
(* public page, the purpose of an app that calls it, sharing among apps,   *)
(* local evidence, sensitive apps, the model's verdict. Every operator     *)
(* takes an entry to the next one and is applied under the engine's lock.  *)
(***************************************************************************)
EXTENDS Integers, FiniteSets

CONSTANTS
  Domains, Apps,
  Catalog, CatalogKind,  \* the reviewed colour and category of a domain; "none" when it has none
  Named,                 \* Named[d]: the colour its name suggests
  Purpose, Expected,     \* an app's purpose caps a colour at "green" or "orange", for the domains it expects
  Sensitive,             \* bank and government apps
  SharedMin,             \* SHARED_SDK_MIN_APPS: apps that make a domain a shared SDK
  EvidenceKept           \* lines of evidence kept, 30 in the code

Colours == {"green", "orange", "red"}
Order   == [unclassified |-> -1, green |-> 0, orange |-> 1, red |-> 2]
Kinds   == {"unclassified", "service", "signal", "telemetry", "health", "tracking", "confirmed"}
Markers == {"local", "sharing"}

ASSUME DomainEntryAssumption ==
  /\ IsFiniteSet(Domains) /\ IsFiniteSet(Apps)
  /\ Catalog \in [Domains -> Colours \cup {"none"}]
  /\ CatalogKind \in [Domains -> {"service", "tracking"}]
  /\ Named \in [Domains -> Colours]
  /\ Purpose \in [Apps -> {"none", "green", "orange"}]
  /\ Expected \in [Apps -> SUBSET Domains]
  /\ Sensitive \subseteq Apps
  /\ SharedMin \in Nat \ {0} /\ EvidenceKept \in Nat \ {0}

\* kept[m]: how many more lines of evidence push out the line that begins with m; 0, it is not
\* there. study: the last study, failed or the colour of what the page said. verdict: the colour
\* the model gave (aiVerdict).
Entry == [stage : {"absent", "new", "preliminary", "studied"}, risk : DOMAIN Order, kind : Kinds,
          kept : [Markers -> 0..EvidenceKept], apps : SUBSET Apps,
          study : Colours \cup {"none", "failed"}, verdict : Colours \cup {"none"}]

Blank == [stage |-> "absent", risk |-> "unclassified", kind |-> "unclassified",
          kept |-> [m \in Markers |-> 0], apps |-> {}, study |-> "none", verdict |-> "none"]
NewEntry == [Blank EXCEPT !.stage = "new"]
Known(e)   == e.stage # "absent"
Opened(e)  == IF Known(e) THEN e ELSE NewEntry
Judged(e)  == e.stage # "new" /\ e.risk # "unclassified"

Higher(a, b) == IF Order[a] > Order[b] THEN a ELSE b
NameKind(c)  == CASE c = "red" -> "signal" [] c = "orange" -> "telemetry" [] OTHER -> "service"
Catalogued(d) == Catalog[d] # "none"
LocalRed(e)   == e.risk = "red" /\ e.kept["local"] > 0

\* The evidence list keeps its last lines: a new one pushes the older ones out.
Line(e, new) ==
  IF new THEN [e EXCEPT !.kept = [m \in Markers |-> IF @[m] = 0 THEN 0 ELSE @[m] - 1]] ELSE e

\* Broken on purpose (mutant): one line more than are kept.
MarkOneMore(e, m) == [Line(e, TRUE) EXCEPT !.kept[m] = EvidenceKept + 1]

Mark(e, m) == [Line(e, TRUE) EXCEPT !.kept[m] = EvidenceKept]

\* What the catalogue, or else the name and a text, say of a domain.
Base(d, text) ==
  IF Catalogued(d)
  THEN [risk |-> Catalog[d], kind |-> CatalogKind[d], stage |-> "studied"]
  ELSE LET colour == Higher(Named[d], text) IN [risk |-> colour, kind |-> NameKind(colour), stage |-> "preliminary"]
Rebuilt(e, b) == [e EXCEPT !.risk = b.risk, !.kind = b.kind, !.stage = b.stage]

Refreshed(d, e, new) ==
  IF ~Catalogued(d) THEN e
  ELSE Line(IF LocalRed(e) THEN e ELSE Rebuilt(e, Base(d, "green")), new)

\* Broken on purpose (mutant): local evidence does not stand against a purpose.
CapsEvidence(d, e, a) ==
  /\ d \in Expected[a] /\ ~Catalogued(d)
  /\ Purpose[a] = "green" /\ Order[e.risk] > Order["green"]

\* An app whose purpose needs the domain caps its colour, unless it is catalogued or has local evidence.
Caps(d, e, a) ==
  /\ d \in Expected[a] /\ e.kept["local"] = 0 /\ ~Catalogued(d)
  /\ \/ Purpose[a] = "green" /\ Order[e.risk] > Order["green"]
     \/ Purpose[a] = "orange" /\ e.risk = "red" /\ e.kind \in {"signal", "health"}

Capped(d, e, apps, new) ==
  LET caps == {Purpose[a] : a \in {b \in apps : Caps(d, e, b)}} IN
  IF caps = {} THEN e
  ELSE Line([e EXCEPT !.risk = IF "green" \in caps THEN "green" ELSE "orange",
                      !.kind = "health", !.stage = "studied"], new)

\* Behavioural collection within a bank's or government's app is red.
Escalated(e, new) ==
  IF e.risk # "red" /\ e.kind = "tracking" /\ e.apps \cap Sensitive # {}
  THEN Line([e EXCEPT !.risk = "red", !.stage = "studied"], new)
  ELSE e

\* A public study: the catalogue's colour, or a higher one than before.
NetStudied(d, e, result, new) ==
  LET b    == Base(d, IF result = "failed" THEN "green" ELSE result)
      over == Catalogued(d) \/ Order[b.risk] > Order[e.risk]
      f    == IF over THEN Line([e EXCEPT !.risk = b.risk, !.kind = b.kind], new) ELSE e
  IN  Line([f EXCEPT !.study = result, !.stage = IF result = "failed" THEN @ ELSE "studied"], new)

\* A telemetry name that many apps call is a third party's SDK: studied, and never lowered by it.
Shared(d, e, colour) ==
  IF \/ Catalogued(d) \/ Cardinality(e.apps) < SharedMin
     \/ Order[colour] < Order["orange"] \/ e.kept["sharing"] > 0
  THEN e
  ELSE Mark([e EXCEPT !.risk = Higher(@, colour), !.stage = "studied"], "sharing")

\* analyze, under the lock, with the study's result.
Analyzed(d, e, result, new) ==
  LET text == IF result = "failed" THEN "green" ELSE result
      f    == NetStudied(d, Opened(e), result, new)
  IN  Shared(d, Capped(d, f, f.apps, new), Base(d, text).risk)

\* Broken on purpose (mutant): the last hint counts.
HintedLast(e, b) ==
  IF e.stage = "preliminary" THEN [e EXCEPT !.risk = b.risk, !.kind = b.kind] ELSE e

\* A preliminary colour goes up with what a label or note hints at.
Hinted(e, b) ==
  IF e.stage = "preliminary" /\ Order[b.risk] > Order[e.risk]
  THEN [e EXCEPT !.risk = b.risk, !.kind = b.kind] ELSE e

\* observe: a domain is seen, in an app or in none (app = {}), with a hint of what it is for.
Observed(d, e, app, hint, new) ==
  LET b == Base(d, hint)
      f == IF ~Known(e) THEN Rebuilt(NewEntry, b)
           ELSE IF Judged(e) THEN Refreshed(d, e, new) ELSE e
      g == [f EXCEPT !.apps = @ \cup app]
      h == Hinted(g, b)
  IN  IF h.stage = "new" THEN h ELSE Escalated(Capped(d, h, app, new), new)

\* mark_privacy_evidence: a verification session of the user's found a violation.
Confirmed(e, new) ==
  LET f == [Opened(e) EXCEPT !.risk = "red", !.kind = "confirmed", !.stage = "studied"] IN
  IF new \/ f.kept["local"] = 0 THEN Mark(f, "local") ELSE f

\* apply_ai_verdict: kept in any case; the colour follows unless the catalogue or local evidence stands.
Verdict(d, e, colour, new) ==
  LET f == [Opened(e) EXCEPT !.verdict = colour] IN
  IF Catalogued(d) \/ (LocalRed(f) /\ colour # "red") THEN f
  ELSE Line([f EXCEPT !.risk = colour, !.stage = "studied"], new)

\* reclassify_all: the rules again, over what was observed; then the review on top.
Reclassified(d, e, new) ==
  LET b == Base(d, "green")
      f == Rebuilt(e, b)
      g == IF e.study = "none" THEN f ELSE NetStudied(d, f, e.study, new)
      h == Shared(d, Capped(d, g, g.apps, new), b.risk)
  IN  IF ~Known(e) \/ (LocalRed(e) /\ b.risk # "red") THEN e
      ELSE IF e.verdict = "none" THEN h ELSE Verdict(d, h, e.verdict, new)

\* Broken on purpose (mutant): the review goes too.
DeferredAll(e) == IF Known(e) THEN [NewEntry EXCEPT !.apps = e.apps] ELSE e

\* defer_all_classifications: what was observed, and the review, stay.
Deferred(e) == IF Known(e) THEN [NewEntry EXCEPT !.apps = e.apps, !.verdict = e.verdict] ELSE e

\* _load: every entry that has a judgment meets today's rules.
Reloaded(d, e, new) ==
  IF ~Known(e) \/ ~Judged(e) THEN e
  ELSE LET f == Escalated(Refreshed(d, e, new), new) IN Capped(d, f, f.apps, new)

=============================================================================
