------------------------------ MODULE Reminder ------------------------------
(***************************************************************************)
(* The phone reminders (app.py ConnectionReminderMonitor, pc_address.py):  *)
(* after each Windows boot a notice when no device has asked within the    *)
(* grace, a green one when one does, an orange one when it goes silent for *)
(* long, each once; and a notice when this computer's address, which the   *)
(* phone has as its DNS server, has changed. What was sent is in files, so *)
(* that a restart does not send it again. A notice takes seconds to send.  *)
(***************************************************************************)
EXTENDS Integers, FiniteSets

CONSTANTS
  Grace, Lost,   \* CONNECTION_REMINDER_SECONDS and CONNECTION_LOST_SECONDS, in steps of the clock
  Addresses,     \* the LAN addresses this computer may have; it may also have none
  Confirm,       \* CONFIRM_CHECKS
  Nowhere

ReminderAssumption ==
  /\ Grace \in Nat \ {0} /\ Lost \in Nat \ {0} /\ Confirm \in Nat \ {0} /\ Nowhere \notin Addresses

VARIABLES
  up, on,        \* the engine, and the thread of its reminder
  same,          \* the state was loaded from this boot's file
  heard,         \* the resolver: how long ago the last query it has seen was, -1 without one
  noted,         \* the last query it has seen is the one the monitor took note of
  mem, unsaved,  \* the monitor's state, and whether it goes to the file next
  file,          \* connection-reminder-state.json: that of this boot, or nothing of use
  sent,          \* history: the notices of each colour, green of this connection, orange of this silence, red of this boot
  asked,         \* history: the monitor took note of a device in this boot
  slipped,       \* history: a crash came before a change was saved
  \* AddressWatch: the computer's address, the one it knows, the one it is confirming, a notice due,
  \* the one in its file; history: the last one told of, a change of which nothing was or will be told
  address, known, pending, checks, tell, saved, told, missed

reminder == <<same, mem, unsaved, file, sent, asked, slipped>>
resolver == <<heard, noted>>
watch    == <<address, known, pending, checks, tell, saved, told, missed>>
vars     == <<up, on, reminder, resolver, watch>>

Ages   == -1..Lost
States == [state : {"waiting", "connected", "lost", "disconnected"}, quiet : Ages, waited : 0..Grace,
           green : BOOLEAN, orange : BOOLEAN, red : BOOLEAN]
First  == [state |-> "waiting", quiet |-> -1, waited |-> 0, green |-> FALSE, orange |-> FALSE, red |-> FALSE]
None   == [First EXCEPT !.state = "lost"]   \* no state of this boot: never reached otherwise

Somewhere == Addresses \cup {Nowhere}
TypeOK ==
  /\ {up, on, same, noted, unsaved, asked, slipped, tell, missed} \subseteq BOOLEAN
  /\ heard \in Ages /\ mem \in States /\ file \in States
  /\ sent \in [{"green", "orange", "red"} -> 0..2]
  /\ {address, known, pending, saved, told} \subseteq Somewhere /\ checks \in 0..Confirm

Unsent == [c \in {"green", "orange", "red"} |-> 0]
Init ==
  /\ up = FALSE /\ on = FALSE /\ same = FALSE /\ heard = -1 /\ noted = TRUE
  /\ mem = First /\ unsaved = FALSE /\ file = None /\ sent = Unsent /\ asked = FALSE /\ slipped = FALSE
  /\ address \in Somewhere /\ known = Nowhere /\ pending = Nowhere /\ checks = 0 /\ tell = FALSE
  /\ saved = Nowhere /\ told = Nowhere /\ missed = FALSE

-----------------------------------------------------------------------------
(* Time, the phone, and what happens to the engine and to Windows.         *)

Older(age, limit) == IF age < 0 \/ age = limit THEN age ELSE age + 1
Aged(s) == [s EXCEPT !.quiet = Older(@, Lost), !.waited = Older(@, Grace)]
Tick ==
  /\ heard' = Older(heard, Lost) /\ mem' = Aged(mem) /\ file' = IF file = None THEN None ELSE Aged(file)
  /\ <<heard, mem, file>>' # <<heard, mem, file>>
  /\ UNCHANGED <<up, on, same, unsaved, sent, slipped, noted, asked, watch>>
Ask ==
  /\ up /\ heard' = 0 /\ noted' = FALSE /\ UNCHANGED <<up, on, reminder, watch>>
Move(a) == /\ address # a /\ address' = a
           /\ UNCHANGED <<up, on, reminder, resolver, known, pending, checks, tell, saved, told, missed>>

\* __init__, with what this boot's file says.
Start ==
  /\ ~up /\ up' = TRUE /\ same' = (file # None) /\ mem' = IF file = None THEN First ELSE file
  /\ known' = saved /\ UNCHANGED <<on, unsaved, file, sent, asked, slipped, resolver, address, pending, checks, tell, saved, told, missed>>
\* The process is gone; what the resolver saw is gone with it. At a new boot the file is another boot's.
Stops ==
  /\ up' = FALSE /\ on' = FALSE /\ heard' = -1 /\ noted' = TRUE /\ unsaved' = FALSE
  /\ mem' = First /\ same' = FALSE /\ pending' = Nowhere /\ checks' = 0 /\ tell' = FALSE /\ known' = Nowhere
  /\ missed' = (missed \/ tell) /\ UNCHANGED <<address, saved, told>>
Crash ==
  /\ up /\ Stops /\ slipped' = (slipped \/ file # mem) /\ UNCHANGED <<file, sent, asked>>
Boot ==
  /\ Stops /\ file' = None /\ sent' = Unsent /\ asked' = FALSE /\ slipped' = FALSE

TurnOn ==
  /\ up /\ ~on /\ on' = TRUE /\ unsaved' = (unsaved \/ ~same)
  /\ UNCHANGED <<up, same, mem, file, sent, asked, slipped, resolver, watch>>
TurnOff ==
  /\ on /\ ~unsaved /\ ~tell /\ on' = FALSE /\ UNCHANGED <<up, reminder, resolver, watch>>

-----------------------------------------------------------------------------
(* evaluate.                                                               *)

\* A new query starts over; after a loss the green notice is due again.
Noted(m) ==
  IF noted THEN m
  ELSE [m EXCEPT !.quiet = heard, !.waited = IF heard < Grace THEN heard ELSE Grace,
                 !.red = FALSE, !.orange = FALSE, !.green = @ /\ m.state # "lost"]
\* Broken on purpose (mutant): a device that has been silent for long is not connected.
JudgedNow(m) ==
  IF m.quiet >= 0 /\ m.quiet < Lost THEN "connected"
  ELSE IF m.waited < Grace THEN "waiting" ELSE "disconnected"

Judged(m) ==
  IF m.quiet >= 0 THEN IF m.green /\ m.quiet = Lost THEN "lost" ELSE "connected"
  ELSE IF m.waited < Grace THEN "waiting" ELSE "disconnected"
Entered(m, state) == [m EXCEPT !.state = state,
                               !.green = @ /\ ~(state = "disconnected" /\ m.state # "disconnected")]

\* Broken on purpose (mutant): that the silence was told of is not remembered.
DueAgain(m) ==
  IF m.state = "connected" /\ ~noted /\ ~m.green THEN "green"
  ELSE IF m.state = "lost" THEN "orange"
  ELSE IF m.state = "disconnected" /\ ~m.red THEN "red" ELSE "none"

Due(m) ==
  IF m.state = "connected" /\ ~noted /\ ~m.green THEN "green"
  ELSE IF m.state = "lost" /\ ~m.orange THEN "orange"
  ELSE IF m.state = "disconnected" /\ ~m.red THEN "red" ELSE "none"

Evaluate ==
  /\ on /\ ~unsaved /\ ~tell
  /\ LET n == Noted(mem)  m == Entered(n, Judged(n))  due == Due(m) IN
     /\ mem' = CASE due = "green" -> [m EXCEPT !.green = TRUE] [] due = "orange" -> [m EXCEPT !.orange = TRUE]
                 [] due = "red" -> [m EXCEPT !.red = TRUE] [] OTHER -> m
     /\ unsaved' = (~noted \/ mem' # mem)
     /\ LET over == {c \in DOMAIN sent : \/ c = "green" /\ (mem.state = "lost" \/ m.state = "disconnected")
                                         \/ c = "orange" /\ ~noted}
            before == [c \in DOMAIN sent |-> IF c \in over THEN 0 ELSE sent[c]]
        IN sent' = [c \in DOMAIN sent |-> IF c = due /\ before[c] < 2 THEN before[c] + 1 ELSE before[c]]
  /\ noted' = TRUE /\ asked' = (asked \/ ~noted)
  /\ UNCHANGED <<up, on, same, file, slipped, heard, watch>>
\* _save. A failed one is not tried again before the next change.
Save ==
  /\ on /\ unsaved /\ unsaved' = FALSE
  /\ file' \in {mem, file}
  /\ UNCHANGED <<up, on, same, mem, sent, asked, slipped, resolver, watch>>

-----------------------------------------------------------------------------
(* AddressWatch.check, in the same thread. A new address is known, saved,   *)
(* and told of, in that order, when it was seen often enough in a row.      *)

Check ==
  /\ on /\ ~unsaved /\ ~tell
  /\ UNCHANGED <<up, on, reminder, resolver, address>>
  /\ \/ /\ address \in {Nowhere, known} /\ pending' = Nowhere /\ checks' = 0
        /\ UNCHANGED <<known, tell, saved, told, missed>>
     \/ /\ address # Nowhere /\ known = Nowhere /\ known' = address /\ told' = address
        /\ saved' \in {address, saved} /\ UNCHANGED <<pending, checks, tell, missed>>
     \/ /\ address \notin {Nowhere, known} /\ known # Nowhere /\ UNCHANGED told
        /\ LET n == IF address = pending THEN checks + 1 ELSE 1 IN
           IF n < Confirm THEN /\ pending' = address /\ checks' = n
                               /\ UNCHANGED <<known, tell, saved, missed>>
           ELSE /\ known' = address /\ pending' = Nowhere /\ checks' = 0
                /\ \/ saved' = address /\ tell' = TRUE /\ UNCHANGED missed
                   \/ missed' = TRUE /\ UNCHANGED <<saved, tell>>
\* Broken on purpose (mutant): the notice names the address of the moment.
NotifyNow ==
  /\ on /\ tell /\ tell' = FALSE /\ told' = address /\ missed' = FALSE
  /\ UNCHANGED <<up, on, reminder, resolver, address, known, pending, checks, saved>>

Notify ==
  /\ on /\ tell /\ tell' = FALSE /\ told' = known /\ missed' = FALSE
  /\ UNCHANGED <<up, on, reminder, resolver, address, known, pending, checks, saved>>

Thread == Evaluate \/ Save \/ Check \/ Notify
Next ==
  \/ Tick \/ Ask \/ \E a \in Somewhere : Move(a)
  \/ Start \/ Crash \/ Boot \/ TurnOn \/ TurnOff \/ Thread

Spec == Init /\ [][Next]_vars

-----------------------------------------------------------------------------
(* Properties.                                                             *)

\* "Remind after login until DNS traffic proves the phone is connected, then remind once more each time":
\* one green notice for a connection, one orange for a silence, one red for a boot, whatever
\* restarts and switches come between, unless a crash came before a change was saved.
NoticedOnce == slipped \/ \A c \in DOMAIN sent : sent[c] <= 1

\* "Once proved, keep the connection latched for the current Windows boot": no device that asked in this boot
\* is said to be disconnected, after a restart as well.
Latched == mem.state = "disconnected" => slipped \/ ~asked

\* "If it changes the phone leaves protection without anyone noticing": the address the watch goes by is the
\* one it told of last, or is about to tell, unless its file could not be written or a crash came between.
AddressTold == up /\ known # Nowhere => known = told \/ tell \/ missed

\* What the user is told of the connections and of the address: everything, and once.
Reminded == NoticedOnce /\ Latched /\ AddressTold

=============================================================================
