----------------------------- MODULE MCServices -----------------------------
(***************************************************************************)
(* Instances of four services for TLC: the switches and Windows' DNS       *)
(* (Features, over SystemDns), the Outlook watch (Mail), the phone         *)
(* reminders (Phone) and engines that take over (Engine). They share       *)
(* nothing, so a run plays one scene of one of them while the others stay  *)
(* as they start: "calls", two requests and                                *)
(* no failing command; "script", one, with scripts that fail, a watchdog   *)
(* and crashes; "mail", two lives of the watch; "errors", two which fail,  *)
(* without mail; "faults", one which fails; "clicks", the envelope and the *)
(* user's own hand; "notices", the phone's connection; "address", this     *)
(* computer's address; "takeover", four engines in which nothing is        *)
(* decided; "stores", two.                                                 *)
(***************************************************************************)
EXTENDS Features, Sequences, TLC

CONSTANTS Scenes, Msgs, Danger, Threads, CatchUpLimit, MaxTime, NoMsg, t1, t2, good,
          Grace, Lost, Addresses, Confirm,
          Engines, MaxDecisions, Nobody

VARIABLES
  scene,
  open, inbox, fresh, received, stop, pending, dirty, quit, show, said, seen, since, unread,
  at, todo, hand, found, file, lines, gone, slipped, raced,
  alive, on, same, heard, noted, mem, unsaved, kept, sent, asked, lost,
  address, known, candidate, checks, tell, written, told, missed,
  where, handed, leaving, stuck, through, rules, entries, marked, half, writes, ruleFile, entryFile,
  shares, web, port, made, promised, stale, behind, cut, late

Mail  == INSTANCE MailWatch
Phone == INSTANCE Reminder WITH up <- alive, file <- kept, slipped <- lost, pending <- candidate,
                                saved <- written
Engine == INSTANCE Handoff WITH at <- where, asked <- leaving, dirty <- marked, dns <- port, last <- made

ASSUME ServicesAssumption == Mail!MailAssumption /\ Phone!ReminderAssumption /\ Engine!HandoffAssumption

mail  == <<open, inbox, fresh, received, stop, pending, dirty, quit, show, said, seen, since, unread,
           at, todo, hand, found, file, lines, gone, slipped, raced>>
phone == <<alive, on, same, heard, noted, mem, unsaved, kept, sent, asked, lost,
           address, known, candidate, checks, tell, written, told, missed>>
handoff == <<where, handed, leaving, stuck, through, rules, entries, marked, half, writes, ruleFile, entryFile,
             shares, web, port, made, promised, stale, behind, cut, late>>

InFeatures == scene \in {"calls", "script"}
InMail     == scene \in {"mail", "errors", "faults", "clicks"}
InPhone    == scene \in {"notices", "address"}
InEngine   == scene \in {"takeover", "stores"}

MCInit ==
  /\ Init /\ Mail!Init /\ Phone!Init /\ Engine!Init
  /\ scene \in Scenes
  /\ here = IF InFeatures THEN {CHOOSE a \in Adapters : TRUE} ELSE {}
  /\ scene # "address" => address = Nowhere
  /\ ~InEngine => shares

FeaturesBound ==
  /\ scene = "calls" =>
       /\ here' = here /\ ~broken' /\ ~dog'.runs /\ firewall' = firewall
       /\ \A s \in Scripts : script'[s].at \notin {"save", "restore"}
       /\ (\A u \in Callers : call'[u].at \in {"idle", "wait"}) => ~mixed' \/ saved' = data'
  /\ scene = "script" =>
       (here' = here \/ plugged = {}) /\ data' \subseteq {"pc"} /\ ~mixed' /\ call'["u2"].at = "idle" /\ (broken => Crash \/ Start)

Fails   == \E t \in Threads : at'[t] \in {"retry", "dead"}
Unhanded == (\A m \in inbox : m \in inbox' \/ m \in gone') /\ fresh' = inbox'
MailBound ==
  /\ \A m \in Msgs : lines'[m] <= 2
  /\ Len(pending') <= 2
  /\ scene = "mail"   => ~Fails /\ slipped' = {} /\ ~show' /\ Unhanded
  /\ scene = "errors" => received' = received /\ ~show'
  /\ scene = "faults" => at'[t2] = "off" /\ (stop' => at'[t1] = "off") /\ ~show' /\ Unhanded
  /\ scene = "clicks" => at'[t2] = "off" /\ ~Fails /\ inbox' \subseteq {good} /\ received'[good] <= 1

PhoneBound ==
  /\ scene = "notices" => address' = address
  /\ scene = "address" => heard' = -1 /\ mem'.waited = 0

EngineBound ==
  /\ scene = "takeover" => made' = 0
  /\ scene = "stores"   => where'[3] = "off"

MCNext ==
  /\ UNCHANGED scene
  /\ \/ InFeatures /\ Next /\ FeaturesBound /\ UNCHANGED <<mail, phone, handoff>>
     \/ InMail /\ Mail!Next /\ MailBound /\ UNCHANGED <<vars, phone, handoff>>
     \/ InPhone /\ Phone!Next /\ PhoneBound /\ UNCHANGED <<vars, mail, handoff>>
     \/ InEngine /\ Engine!Next /\ EngineBound /\ UNCHANGED <<vars, mail, phone>>

MCSpec == MCInit /\ [][MCNext]_<<vars, mail, phone, handoff, scene>>

\* The types of the four.
TypesOK == TypeOK /\ Mail!TypeOK /\ Phone!TypeOK /\ Engine!TypeOK

MailInspected == Mail!MailInspected
Reminded      == Phone!Reminded

\* Of engines that take over: what one has decided reaches the next, and somebody answers.
TakesOver == Engine!StoresPass /\ Engine!Answered

=============================================================================
