------------------------------ MODULE MailWatch -----------------------------
(***************************************************************************)
(* The Outlook watch (mail_watch.py): a thread attached to Outlook, which  *)
(* inspects every new message, removes a dangerous one and keeps the       *)
(* envelope of the unread ones. Outlook calls it back when mail arrives or *)
(* an item changes; what arrived while it was away it finds by date. A     *)
(* thread of the switch's last life may still be at work when the next one *)
(* starts: they share everything but where they are.                       *)
(***************************************************************************)
EXTENDS Integers, FiniteSets, Sequences, SequencesExt, FiniteSetsExt

CONSTANTS
  Msgs, Danger,    \* messages, and those with an executable attachment or a blocked sender
  Threads,
  CatchUpLimit,    \* CATCH_UP_LIMIT, the newest items it looks at
  MaxTime,         \* bound: times of receipt, in seconds
  NoMsg

MailAssumption ==
  /\ IsFiniteSet(Msgs) /\ Danger \subseteq Msgs /\ NoMsg \notin Msgs /\ IsFiniteSet(Threads)
  /\ CatchUpLimit \in Nat \ {0} /\ MaxTime \in Nat \ {0}

VARIABLES
  \* Outlook
  open, inbox, fresh, received,  \* it runs; its messages; the unread ones; received[m], 0 before
  \* the service
  stop, pending, dirty, quit, show, said, seen, since, unread,
  \* its threads: where each is, what it is to handle, the message in hand, and whether it logged any
  at, todo, hand, found,
  \* files: mail-watch.json, and the lines of each message in mail-watch-events.ndjson
  file, lines,
  \* history: messages taken out of the inbox; those whose line or mark a failure or a crash lost; those
  \* two lives of the watch had between look and mark at once
  gone, slipped, raced

outlook == <<open, inbox, fresh, received>>
service == <<stop, pending, dirty, quit, show, said, seen, since, unread>>
threads == <<at, todo, hand, found>>
files   == <<file, lines>>
history == <<gone, slipped, raced>>
vars    == <<outlook, service, threads, files, history>>

Phases == {"off", "attach", "catch", "loop", "assess", "judge", "log", "save", "retry", "dead"}
Saved  == [seen : SUBSET Msgs, since : 0..MaxTime, unread : SUBSET Msgs]
Live(t)  == at[t] \notin {"off", "dead"}
Bound(t) == at[t] \in {"catch", "loop", "assess", "judge", "log", "save"}

TypeOK ==
  /\ open \in BOOLEAN /\ fresh \subseteq inbox /\ inbox \subseteq Msgs
  /\ received \in [Msgs -> 0..MaxTime]
  /\ {stop, dirty, quit, show} \subseteq BOOLEAN /\ pending \in Seq(Msgs)
  /\ said \in {"closed", "running", "error"}
  /\ [seen |-> seen, since |-> since, unread |-> unread] \in Saved /\ file \in Saved
  /\ at \in [Threads -> Phases] /\ todo \in [Threads -> SUBSET (Msgs \X BOOLEAN)]
  /\ hand \in [Threads -> Msgs \cup {NoMsg}] /\ found \in [Threads -> BOOLEAN]
  /\ lines \in [Msgs -> Nat] /\ gone \subseteq Danger
  /\ slipped \subseteq Msgs /\ raced \subseteq Msgs

Init ==
  /\ open = FALSE /\ inbox = {} /\ fresh = {} /\ received = [m \in Msgs |-> 0]
  /\ stop = TRUE /\ pending = <<>> /\ dirty = FALSE /\ quit = FALSE /\ show = FALSE
  /\ said = "closed" /\ seen = {} /\ since = 0 /\ unread = {}
  /\ at = [t \in Threads |-> "off"] /\ todo = [t \in Threads |-> {}]
  /\ hand = [t \in Threads |-> NoMsg] /\ found = [t \in Threads |-> FALSE]
  /\ file = [seen |-> {}, since |-> 0, unread |-> {}] /\ lines = [m \in Msgs |-> 0]
  /\ gone = {} /\ slipped = {} /\ raced = {}

-----------------------------------------------------------------------------
(* Outlook and the user.                                                   *)

Called == \E t \in Threads : Bound(t)
Told(m) == IF Called THEN pending' = Append(pending, m) ELSE UNCHANGED pending
Changed == dirty' = (dirty \/ Called)
Outside == UNCHANGED <<stop, show, said, seen, since, unread, threads, files, history>>

\* A message arrives, received now or a while ago (an account that was offline).
Arrive(m, when) ==
  /\ open /\ received[m] = 0
  /\ received' = [received EXCEPT ![m] = when]
  /\ inbox' = inbox \cup {m} /\ fresh' = fresh \cup {m} /\ Told(m)
  /\ UNCHANGED <<open, dirty, quit>> /\ Outside
ReadIt(m) == /\ open /\ m \in fresh /\ fresh' = fresh \ {m} /\ Changed
             /\ UNCHANGED <<open, inbox, received, pending, quit>> /\ Outside
DeleteIt(m) == /\ open /\ m \in inbox /\ inbox' = inbox \ {m} /\ fresh' = fresh \ {m} /\ Changed
               /\ UNCHANGED <<open, received, pending, quit>> /\ Outside
OpenOutlook == /\ ~open /\ open' = TRUE
               /\ UNCHANGED <<inbox, fresh, received, pending, dirty, quit>> /\ Outside
CloseOutlook == /\ open /\ open' = FALSE /\ quit' = (quit \/ Called)
                /\ UNCHANGED <<inbox, fresh, received, pending, dirty>> /\ Outside
Click == /\ ~show /\ show' = TRUE
         /\ UNCHANGED <<outlook, stop, pending, dirty, quit, said, seen, since, unread, threads, files, history>>

-----------------------------------------------------------------------------
(* The thread.                                                             *)

GoTo(t, p) == at' = [at EXCEPT ![t] = p]
Save == file' = [seen |-> seen', since |-> since', unread |-> unread']

\* An exception ends _serve: what the thread had to handle it forgets. What has no line slips.
Raise(t) ==
  /\ GoTo(t, "retry")
  /\ todo' = [todo EXCEPT ![t] = {}] /\ hand' = [hand EXCEPT ![t] = NoMsg]
  /\ found' = [found EXCEPT ![t] = FALSE]
  /\ slipped' = slipped \cup ({hand[t]} \ {NoMsg})
  /\ UNCHANGED <<outlook, stop, dirty, quit, show, seen, since, unread, files, gone, raced>>

Attach(t) ==
  /\ at[t] = "attach" /\ ~stop /\ open
  /\ quit' = FALSE /\ dirty' = TRUE /\ pending' = <<>>
  /\ UNCHANGED <<outlook, stop, show, seen, since, unread, lines, history>>
  /\ \/ /\ said' = "running" /\ GoTo(t, "catch") /\ UNCHANGED <<todo, hand, found>>
        /\ IF said = "running" THEN UNCHANGED file ELSE Save
     \/ said # "running" /\ said' = "running" /\ GoTo(t, "retry") /\ UNCHANGED <<todo, hand, found, file>>
NotThere(t) ==
  /\ at[t] = "attach" /\ ~stop /\ ~open
  /\ said' = "closed"
  /\ UNCHANGED <<outlook, stop, pending, dirty, quit, show, seen, since, unread, todo, hand, found, lines, history>>
  /\ \/ GoTo(t, "attach") /\ IF said = "closed" THEN UNCHANGED file ELSE Save
     \/ said # "closed" /\ GoTo(t, "retry") /\ UNCHANGED file

\* Broken on purpose (mutant): the items are not sorted by date.
NewestUnsorted ==
  LET new == {m \in inbox : received[m] > since} IN
  {s \in SUBSET new : Cardinality(s) = Min({CatchUpLimit, Cardinality(new)})}

\* The newest items, down to the one it knows the date of.
Newest ==
  LET new == {m \in inbox : received[m] > since} IN
  {s \in SUBSET new : /\ Cardinality(s) = Min({CatchUpLimit, Cardinality(new)})
                      /\ \A m \in s, n \in new \ s : received[m] >= received[n]}
Mails(s) == {<<m, m \in fresh>> : m \in s}
Onward(some, rest) == IF rest # {} THEN "assess" ELSE IF some THEN "save" ELSE "loop"

\* After them, when the unread ones were judged by rules that are old now, it judges those again and
\* saves, whether it found any or not.
CatchUp(t) ==
  /\ at[t] = "catch"
  /\ \/ /\ open
        /\ \E s \in Newest, old \in BOOLEAN :
             /\ todo' = [todo EXCEPT ![t] = Mails(s \ seen)] /\ found' = [found EXCEPT ![t] = old]
             /\ GoTo(t, Onward(old, Mails(s \ seen)))
        /\ UNCHANGED <<outlook, service, hand, files, history>>
     \/ Raise(t) /\ UNCHANGED <<pending, said>>

\* Broken on purpose (mutants): handle does not look whether it knows the message; it removes any.
HandledNever(m) == FALSE
DangerousAny(m) == TRUE

Handled(m)   == m \in seen
Dangerous(m) == m \in Danger

\* handle, of the oldest it has left, if it has not been seen. Nothing holds the other thread off
\* between this look and the mark.
Assess(t) ==
  /\ at[t] = "assess"
  /\ \E mail \in todo[t] :
       LET m == mail[1]  rest == todo[t] \ {mail} IN
       /\ \A other \in rest : received[m] <= received[other[1]]
       /\ IF Handled(m)
          THEN /\ todo' = [todo EXCEPT ![t] = rest] /\ GoTo(t, Onward(found[t], rest))
               /\ UNCHANGED <<hand, raced>>
          ELSE /\ hand' = [hand EXCEPT ![t] = m] /\ GoTo(t, "judge")
               /\ raced' = raced \cup {n \in {m} : \E u \in Threads \ {t} : at[u] = "judge" /\ hand[u] = n}
               /\ UNCHANGED todo
  /\ UNCHANGED <<outlook, service, found, files, gone, slipped>>

\* Seen, judged, and removed or shown. Its line is next.
Judge(t) ==
  \E mail \in todo[t] :
    LET m == mail[1] IN
    /\ at[t] = "judge" /\ hand[t] = m
    /\ todo' = [todo EXCEPT ![t] = @ \ {mail}]
    /\ seen' = seen \cup {m} /\ GoTo(t, "log")
    /\ IF Dangerous(m)
       THEN /\ UNCHANGED unread
            /\ \/ m \in inbox /\ open /\ inbox' = inbox \ {m} /\ fresh' = fresh \ {m} /\ gone' = gone \cup {m}
               \/ UNCHANGED <<inbox, fresh, gone>>
       ELSE /\ unread' = IF mail[2] THEN unread \cup {m} ELSE unread
            /\ UNCHANGED <<inbox, fresh, gone>>
    /\ UNCHANGED <<open, received, stop, pending, dirty, quit, show, said, since, hand, found, files, slipped, raced>>

\* Broken on purpose (mutant): the line is made from the message, as it is in the inbox by then.
LineOfMessage(m) == IF m \in inbox THEN [lines EXCEPT ![m] = @ + 1] ELSE lines

Line(m) == [lines EXCEPT ![m] = @ + 1]

Log(t) ==
  /\ at[t] = "log"
  /\ \/ LET m == hand[t] IN
        /\ lines' = Line(m) /\ since' = Max({since, received[m]})
        /\ hand' = [hand EXCEPT ![t] = NoMsg] /\ found' = [found EXCEPT ![t] = TRUE]
        /\ GoTo(t, IF todo[t] = {} THEN "save" ELSE "assess")
        /\ UNCHANGED <<outlook, stop, pending, dirty, quit, show, said, seen, unread, todo, file, history>>
     \/ Raise(t) /\ UNCHANGED <<pending, said>>

Store(t) ==
  /\ at[t] = "save"
  /\ \/ /\ GoTo(t, "loop") /\ found' = [found EXCEPT ![t] = FALSE]
        /\ UNCHANGED <<outlook, service, todo, hand, lines, history>> /\ Save
     \/ Raise(t) /\ UNCHANGED <<pending, said>>

\* What Outlook told of: read, and handled if it has not been seen.
Take(t) ==
  /\ at[t] = "loop" /\ ~stop /\ ~quit /\ pending # <<>>
  /\ pending' = Tail(pending)
  /\ \/ /\ Head(pending) \in seen
        /\ UNCHANGED <<outlook, stop, dirty, quit, show, said, seen, since, unread, threads, files, history>>
     \/ /\ Head(pending) \in inbox \ seen /\ open
        /\ todo' = [todo EXCEPT ![t] = Mails({Head(pending)})] /\ GoTo(t, "assess")
        /\ UNCHANGED <<outlook, stop, dirty, quit, show, said, seen, since, unread, hand, found, files, history>>
     \/ Head(pending) \notin seen /\ Raise(t) /\ UNCHANGED said

Resting(t) == at[t] = "loop" /\ ~stop /\ ~quit /\ pending = <<>>

\* After a change, and every minute while the envelope shows.
Refresh(t) ==
  /\ Resting(t) /\ (dirty \/ unread # {})
  /\ dirty' = FALSE /\ unread' = (IF open THEN unread \cap fresh ELSE {})
  /\ UNCHANGED <<outlook, stop, pending, quit, show, said, seen, since, todo, hand, found, lines, history>>
  /\ \/ at' = at /\ Save
     \/ GoTo(t, "retry") /\ UNCHANGED file

\* A click on the envelope opens a clean unread message, or shows the inbox; no failure ends the loop.
OpenInbox(t) ==
  /\ Resting(t) /\ show /\ show' = FALSE
  /\ UNCHANGED <<open, inbox, received, stop, pending, dirty, quit, said, seen, since, threads, lines, history>>
  /\ \/ \E m \in unread : /\ unread' = unread \ {m}
                          /\ fresh' = (IF open THEN fresh \ {m} ELSE fresh)
                          /\ Save \/ UNCHANGED file
     \/ UNCHANGED <<fresh, unread, file>>

\* The loop ends: Outlook quit, or the switch is off.
Leave(t) ==
  /\ at[t] = "loop" /\ (stop \/ quit)
  /\ said' = "closed"
  /\ UNCHANGED <<outlook, stop, pending, dirty, quit, show, seen, since, unread, todo, hand, found, lines, history>>
  /\ \/ GoTo(t, "attach") /\ IF said = "closed" THEN UNCHANGED file ELSE Save
     \/ said # "closed" /\ GoTo(t, "retry") /\ UNCHANGED file
End(t) == /\ at[t] = "attach" /\ stop /\ GoTo(t, "off")
          /\ UNCHANGED <<outlook, service, todo, hand, found, files, history>>

\* The error is saved and the thread waits for the next try. When that write fails as well, it ends.
Retry(t) ==
  /\ at[t] = "retry" /\ said' = "error"
  /\ UNCHANGED <<outlook, stop, pending, dirty, quit, show, seen, since, unread, todo, hand, found, lines, history>>
  /\ \/ GoTo(t, "attach") /\ (Save \/ (said = "error" /\ UNCHANGED file))
     \/ GoTo(t, "dead") /\ UNCHANGED file

Step(t) == \/ Attach(t) \/ NotThere(t) \/ CatchUp(t) \/ Assess(t) \/ Judge(t) \/ Log(t) \/ Store(t) \/ Take(t)
           \/ Refresh(t) \/ OpenInbox(t) \/ Leave(t) \/ End(t) \/ Retry(t)

-----------------------------------------------------------------------------
(* The switch, and the process.                                            *)

\* Switch.set: a new stop_event, and a thread. One that did not come to look at the old event goes on.
On(t) ==
  /\ stop /\ at[t] \in {"off", "dead"}
  /\ stop' = FALSE /\ GoTo(t, "attach")
  /\ UNCHANGED <<outlook, pending, dirty, quit, show, said, seen, since, unread, todo, hand, found, files, history>>
Off ==
  /\ ~stop /\ stop' = TRUE
  /\ UNCHANGED <<outlook, pending, dirty, quit, show, said, seen, since, unread, threads, files, history>>

\* The engine's process is gone, and starts again with what is in the file.
Restart ==
  /\ stop' = TRUE /\ pending' = <<>> /\ dirty' = FALSE /\ quit' = FALSE /\ show' = FALSE
  /\ said' \in {"closed", "running", "error"}
  /\ seen' = file.seen /\ since' = file.since /\ unread' = file.unread
  /\ at' = [t \in Threads |-> "off"] /\ todo' = [t \in Threads |-> {}]
  /\ hand' = [t \in Threads |-> NoMsg] /\ found' = [t \in Threads |-> FALSE]
  /\ slipped' = slipped \cup (seen \ file.seen) \cup ({hand[t] : t \in Threads} \ {NoMsg})
  /\ UNCHANGED <<outlook, files, gone, raced>>

World ==
  \/ \E m \in Msgs : (\E when \in 1..MaxTime : Arrive(m, when)) \/ ReadIt(m) \/ DeleteIt(m)
  \/ OpenOutlook \/ CloseOutlook \/ Click

Next == World \/ (\E t \in Threads : Step(t) \/ On(t)) \/ Off \/ Restart

Spec == Init /\ [][Next]_vars

-----------------------------------------------------------------------------
(* Properties.                                                             *)

\* "Inspects every new message": while it is on and every thread has caught up, a message of the inbox has
\* been seen, is told of or in hand, or is no newer than one that has been. Where the search by date ends.
Held(m) == m \in Range(pending) \/ \E t \in Threads : m \in {mail[1] : mail \in todo[t]}
MissedIsOld ==
  (/\ \E t \in Threads : at[t] = "loop"
   /\ \A t \in Threads : at[t] \notin {"attach", "catch", "retry", "dead"}
   /\ ~stop /\ open /\ ~quit)
  => \A m \in inbox \ seen :
       Held(m) \/ \E n \in Msgs : (n \in seen \/ Held(n)) /\ received[n] >= received[m]

\* Catch-ups, repeated calls of Outlook, and two threads: a message has one line. It has more only when a
\* failed write or a crash lost the mark that it was seen, or when two lives of the watch (the switch off
\* and on within a cycle) both looked before either had marked it: handle takes no lock for that.
InspectedOnce == \A m \in Msgs : lines[m] > 1 => m \in slipped \cup raced

\* A removed message "remains in the log", or its line is the next thing written; one whose line
\* could not be written, or whose engine crashed before, has none.
RemovedIsLogged == \A m \in gone : lines[m] > 0 \/ m \in slipped \/ \E t \in Threads : hand[t] = m

\* A message is inspected, once, and what was removed is on record.
MailInspected == MissedIsOld /\ InspectedOnce /\ RemovedIsLogged

=============================================================================
