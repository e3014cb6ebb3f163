------------------------------ MODULE MCRecords -----------------------------
(***************************************************************************)
(* Instances of seven records for TLC: the uses of a capability, the live  *)
(* microphone sessions (Mic), the buttons that deny a capability (Grants), *)
(* the helpers that listen to the iPhone (Phone), its apps (List), the     *)
(* choices of their permissions (Controls), and the connections to the DNS *)
(* providers (Pool). They share nothing: a run plays one of them, its      *)
(* scene, while the others stay as they start. Two processes may have the  *)
(* same number, one after the other.                                       *)
(***************************************************************************)
EXTENDS CapabilityUses, TLC

CONSTANTS Scenes, Procs, Pid, Devices, Helpers, Sessions, None, Apps, Keys, MaxIncidents, MaxResults,
          MaxUses, MaxMoves, NoChange, Bundles, Apple, Syncs, Posts,
          Queries, Hosts, Conns, MaxIdle

MCPid == [p \in Procs |-> 1]

VARIABLES
  scene,
  alive, born, held, heard, live, series, kept, lines, caught, left, mistaken, slipped, read,
  processes, used, procs, session, begun, results, worker, child, listed, halted, hired, dropped, strayed,
  up, choices, disk, recorded, due, chosen, unclear, owed, late,
  reg, uses, moves, running, change, saved, busy, polled, copied, page, own, touched, twice, lost,
  found, foundFile, removed, removedFile, place, told, gone, ever, met, missing, lone, settled,
  idle, old, made, shut, dead, stage, host, hand, reused, again

Mic      == INSTANCE MicSessions WITH on <- heard
Phone    == INSTANCE PhoneHelpers WITH alive <- processes, stop <- halted
Controls == INSTANCE PrivacyControls WITH mem <- choices, file <- disk
Grants   == INSTANCE Permissions WITH up <- running, mem <- change, disk <- saved
List     == INSTANCE PhoneApps WITH Apps <- Bundles, listed <- found, listFile <- foundFile, at <- place,
                                    held <- told, slipped <- missing
Pool     == INSTANCE DohPool WITH NoConn <- None, at <- stage

ASSUME RecordsAssumption ==
  /\ Mic!MicAssumption /\ Phone!HelpersAssumption /\ Controls!ControlsAssumption
  /\ Grants!PermissionsAssumption /\ List!AppsAssumption /\ Pool!PoolAssumption

mic      == <<alive, born, held, heard, live, series, kept, lines, caught, left, mistaken, slipped, read>>
phone    == <<processes, used, procs, session, begun, results, worker, child, listed, halted, hired, dropped, strayed>>
controls == <<up, choices, disk, recorded, due, chosen, unclear, owed, late>>
grants   == <<reg, uses, moves, running, change, saved, busy, polled, copied, page, own, touched, twice, lost>>
apps     == <<found, foundFile, removed, removedFile, place, told, gone, ever, met, missing, lone, settled>>
pool     == <<idle, old, made, shut, dead, stage, host, hand, reused, again>>

\* The first provider.
Primary == CHOOSE h \in Hosts : TRUE

MCInit ==
  /\ Init /\ Mic!Init /\ Phone!Init /\ Controls!Init /\ Grants!Init /\ List!Init /\ Pool!Init
  /\ scene \in Scenes
  /\ scene # "controls" => disk.apps = <<>>
  /\ scene # "buttons" => reg = "no key"
  /\ host = [q \in Queries |-> Primary]

\* Nothing more is asked of a record the code has let part from the log.
UsesBound == torn => ~torn'
\* Where a save fails there is one result at most.
ControlsBound == recorded' < 2 \/ unclear' = {}

\* The uses that judge a change, in an engine that goes on; the buttons, while the program is not used.
GrantsBound ==
  /\ scene = "judged"  => moves' = 0 /\ running' /\ saved' = change' /\ twice' = FALSE
  /\ scene = "buttons" => uses' = {}

\* A report names one app; where two threads have met the engine goes on, and no other report comes.
AppsBound ==
  /\ \A t \in Posts : place'[t] = "merge" => Cardinality(told'[t]) <= 1
  /\ met => \A t \in Posts : place[t] = "idle" => place'[t] = "idle"
  /\ met => missing' = missing /\ \E t \in Syncs \cup Posts : place'[t] # place[t]

\* One request at a time asks another provider than the first.
PoolBound == Cardinality({q \in Queries : host'[q] # Primary}) <= 1

MCNext ==
  /\ UNCHANGED scene
  /\ \/ scene = "uses" /\ Next /\ UsesBound /\ UNCHANGED <<mic, phone, controls, grants, apps, pool>>
     \/ scene = "mic" /\ Mic!Next /\ UNCHANGED <<vars, phone, controls, grants, apps, pool>>
     \/ scene = "phone" /\ Phone!Next /\ UNCHANGED <<vars, mic, controls, grants, apps, pool>>
     \/ /\ scene = "controls" /\ Controls!Next /\ ControlsBound
        /\ UNCHANGED <<vars, mic, phone, grants, apps, pool>>
     \/ /\ scene \in {"judged", "buttons"} /\ Grants!Next /\ GrantsBound
        /\ UNCHANGED <<vars, mic, phone, controls, apps, pool>>
     \/ scene = "apps" /\ List!Next /\ AppsBound /\ UNCHANGED <<vars, mic, phone, controls, grants, pool>>
     \/ scene = "pool" /\ Pool!Next /\ PoolBound /\ UNCHANGED <<vars, mic, phone, controls, grants, apps>>

MCSpec == MCInit /\ [][MCNext]_<<vars, mic, phone, controls, grants, apps, pool, scene>>

\* The types of the seven.
TypesOK ==
  TypeOK /\ Mic!TypeOK /\ Phone!TypeOK /\ Controls!TypeOK /\ Grants!TypeOK /\ List!TypeOK /\ Pool!TypeOK

SessionsTold  == Mic!SessionsTold
HelpersHeld   == Phone!HelpersHeld
ButtonsHonest == Grants!ButtonsHonest
PoolKept      == Pool!PoolKept

\* Of the iPhone's apps: what the user chose for them, and which there are.
AppsKept == Controls!ControlsKept /\ List!AppsListed

=============================================================================
