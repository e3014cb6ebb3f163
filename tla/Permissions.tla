---------------------------- MODULE Permissions ----------------------------
(***************************************************************************)
(* The buttons that deny a program a capability and give it back           *)
(* (capability_monitor.py, over the registry), for one desktop program:    *)
(* what was there before is kept, and the uses Windows logs afterwards     *)
(* tell whether it obeys. The user also has Windows' own settings, and may *)
(* press a button on a page that is out of date.                           *)
(***************************************************************************)
EXTENDS Integers, FiniteSets

CONSTANTS
  Gap,       \* MERGE_GAP_SECONDS
  MaxUses,   \* bound: the uses of the program
  MaxMoves,  \* bound: what the user does in Windows' settings
  NoChange

Values  == {"no key", "no value", "Allow", "Deny"}
Changes == [state : {"recommended", "setting-changed", "verified-blocked", "not-effective", "restored"},
            before : Values, at : Nat, allowed : BOOLEAN]

PermissionsAssumption == Gap \in Nat /\ MaxUses \in Nat /\ MaxMoves \in Nat /\ NoChange \notin Changes

VARIABLES
  reg, uses, moves,     \* the program's key; its uses, and the changes made in Windows' settings
  up, mem, disk,        \* the engine; its record of changes and capability-permissions.json
  busy,                 \* the request that holds the lock, and the record it will make
  polled, copied,       \* the key when last read, and how far Windows' log has been read
  page,                 \* the button on a page of the dashboard
  own, touched, twice,  \* history: what was there before the change; since, by Windows; denied again
  lost                  \* history: the engine ended between a change and its record on disk

vars == <<reg, uses, moves, up, mem, disk, busy, polled, copied, page, own, touched, twice, lost>>

Free    == <<"no", "no key">>
Records == [change : Changes \cup {NoChange}, platform : {"unknown", "verified-blocked", "not-effective"}]

TypeOK ==
  /\ reg \in Values /\ uses \subseteq [at : Nat, blocked : BOOLEAN] /\ moves \in 0..MaxMoves
  /\ mem \in Records /\ disk \in Records /\ busy \in {Free} \cup ({"deny", "restore"} \X Values)
  /\ polled \in {"", "Allow", "Deny"} /\ copied \in Nat /\ page \in {"none", "deny", "restore"} /\ own \in Values
  /\ {up, touched, twice, lost} \subseteq BOOLEAN

\* What the registry gives for the program: registry_rows.
Row == IF reg \in {"no key", "no value"} THEN "" ELSE reg

Empty == [change |-> NoChange, platform |-> "unknown"]
Init ==
  /\ reg \in Values \ {"Deny"} /\ uses = {} /\ moves = 0
  /\ up = TRUE /\ mem = Empty /\ disk = Empty /\ busy = Free
  /\ polled = Row /\ copied = 0 /\ page = "none"
  /\ own = reg /\ touched = FALSE /\ twice = FALSE /\ lost = FALSE

-----------------------------------------------------------------------------
(* Windows: it may or may not block a desktop program it is told to deny.  *)

Last == IF uses = {} THEN 0 ELSE CHOOSE t \in {u.at : u \in uses} : \A u \in uses : u.at <= t
Use(after, blocked) ==
  /\ Cardinality(uses) < MaxUses /\ (blocked => reg = "Deny")
  /\ uses' = uses \cup {[at |-> Last + after, blocked |-> blocked]}
  /\ UNCHANGED <<reg, moves, up, mem, disk, busy, polled, copied, page, own, touched, twice, lost>>
Outside(value) ==
  /\ moves < MaxMoves /\ value # reg /\ moves' = moves + 1
  /\ reg' = value /\ touched' = TRUE
  /\ UNCHANGED <<uses, up, mem, disk, busy, polled, copied, page, own, twice, lost>>

-----------------------------------------------------------------------------
(* The two buttons.                                                        *)

\* permission_state.
Changed    == mem.change # NoChange /\ mem.change.state # "restored"
Writable   == mem.platform # "not-effective"
Offered ==
  CASE Changed -> "restore"
    [] ~Changed /\ Writable /\ polled # "Deny" -> "deny"
    [] OTHER -> "none"
Show ==
  /\ up /\ page # Offered /\ page' = Offered
  /\ UNCHANGED <<reg, uses, moves, up, mem, disk, busy, polled, copied, own, touched, twice, lost>>

\* set_permission, deny: what is there is read, and Deny written.
Deny ==
  /\ up /\ busy = Free /\ page = "deny" /\ busy' = <<"deny", reg>> /\ reg' = "Deny"
  /\ twice' = (Changed /\ reg = "Deny") /\ own' = (IF twice' THEN own ELSE reg) /\ touched' = FALSE
  /\ UNCHANGED <<uses, moves, up, mem, disk, polled, copied, page, lost>>

\* Broken on purpose (mutant): a program that had no key, or no value, is allowed afterwards.
BackAllowed(before) == {IF before \in {"no key", "no value"} THEN "Allow" ELSE before}

\* What a restore leaves: a key that was not there may be beyond deleting, and only loses its value.
Back(before) == IF before = "no key" THEN {"no key", "no value"} ELSE {before}

\* set_permission, restore: a value that is gone already cannot be deleted.
Gone == mem.change.before = "no key" /\ reg \in {"no key", "no value"}
Restore ==
  /\ up /\ busy = Free /\ page = "restore" /\ Changed /\ (Gone => reg = "no value" /\ reg' = "no key")
  /\ reg' \in Back(mem.change.before) /\ busy' = <<"restore", reg'>> /\ touched' = FALSE
  /\ UNCHANGED <<uses, moves, up, mem, disk, polled, copied, page, own, twice, lost>>
\* That fails the request, which leaves a key without a value, and its record as it was.
RestoreFails ==
  /\ up /\ busy = Free /\ page = "restore" /\ Changed /\ Gone /\ reg' = "no value"
  /\ UNCHANGED <<uses, moves, up, mem, disk, busy, polled, copied, page, own, touched, twice, lost>>

\* The key is read again and the record made and saved, and then the registry read; if the save fails
\* the record is in memory only, and the request says it failed.
Made(before) ==
  [state |-> IF reg = "Deny" THEN "setting-changed" ELSE "recommended", before |-> before,
   at |-> IF reg = "Deny" THEN Last ELSE 0, allowed |-> FALSE]
Record(ok) ==
  /\ busy # Free /\ busy' = Free
  /\ mem' = [mem EXCEPT !.change = IF busy[1] = "deny" THEN Made(busy[2]) ELSE [@ EXCEPT !.state = "restored"]]
  /\ disk' = IF ok THEN mem' ELSE disk
  /\ polled' = IF ok THEN Row ELSE polled
  /\ UNCHANGED <<reg, uses, moves, up, copied, page, own, touched, twice, lost>>

-----------------------------------------------------------------------------
(* The monitor's loop.                                                     *)

\* poll_registry, and poll_history.
Poll ==
  /\ up /\ polled # Row /\ polled' = Row
  /\ UNCHANGED <<reg, uses, moves, up, mem, disk, busy, copied, page, own, touched, twice, lost>>
Read ==
  /\ up /\ copied # Last /\ copied' = Last
  /\ UNCHANGED <<reg, uses, moves, up, mem, disk, busy, polled, page, own, touched, twice, lost>>

\* The uses read, and those of a series: each within a gap of the one before it.
Known     == {u \in uses : u.at <= copied}
Joined(u, v) == u.at <= v.at /\ \A w \in Known :
                  (u.at < w.at /\ w.at <= v.at) => \E x \in Known : x.at < w.at /\ w.at - x.at <= Gap
\* Broken on purpose (mutant): the uses from before the change count.
SinceEver(t) == Known

\* The uses of the series that went on after the change.
Since(t)  == {u \in Known : \E v \in Known : v.at > t /\ Joined(u, v)} \cup {u \in Known : u.at > t}

Blocked(t) == {u \in Since(t) : u.blocked}
Allowed(t) == Since(t) \ Blocked(t)
Awaited == {"setting-changed", "not-effective", "verified-blocked"}
State(c) ==
  CASE c.state \notin Awaited -> c.state
    [] c.state \in Awaited /\ Allowed(c.at) # {} -> "not-effective"
    [] c.state \in Awaited /\ Allowed(c.at) = {} /\ Blocked(c.at) # {} -> "verified-blocked"
    [] OTHER -> c.state
Judged(c) == [c EXCEPT !.state = State(c), !.allowed = IF State(c) # c.state THEN Allowed(c.at) # {} ELSE @]

\* verify_permissions: what was found before stands for the platform, then the uses since the change.
Proven(m) == m.platform = "unknown" /\ (m.change.state = "not-effective" \/ m.change.allowed)
Verify(ok) ==
  /\ up /\ busy = Free /\ mem.change # NoChange
  /\ Proven(mem) \/ State(mem.change) # mem.change.state
  /\ mem' = [change   |-> Judged(mem.change),
             platform |-> IF State(mem.change) # mem.change.state THEN State(mem.change)
                          ELSE "not-effective"]
  /\ disk' = IF ok THEN mem' ELSE disk
  /\ UNCHANGED <<reg, uses, moves, up, busy, polled, copied, page, own, touched, twice, lost>>

-----------------------------------------------------------------------------
\* Broken on purpose (mutant): a record without a confirmation is not read.
LoadedConfirmed(d) ==
  IF d.change # NoChange /\ d.change.state = "setting-changed" THEN [d EXCEPT !.change = NoChange] ELSE d

\* _load.
Loaded(d) == d
Crash ==
  /\ up /\ up' = FALSE /\ busy' = Free
  /\ lost' = (lost \/ busy # Free \/ mem.change # disk.change)
  /\ UNCHANGED <<reg, uses, moves, mem, disk, polled, copied, page, own, touched, twice>>
Start ==
  /\ ~up /\ up' = TRUE /\ mem' = Loaded(disk) /\ polled' = Row
  /\ UNCHANGED <<reg, uses, moves, disk, busy, copied, page, own, touched, twice, lost>>

Next ==
  \/ \E after \in 1..(Gap + 1), b \in BOOLEAN : Use(after, b)
  \/ \E v \in Values : Outside(v)
  \/ Show \/ Deny \/ Restore \/ RestoreFails \/ Poll \/ Read \/ Crash \/ Start
  \/ \E ok \in BOOLEAN : Record(ok) \/ Verify(ok)

Spec == Init /\ [][Next]_vars

-----------------------------------------------------------------------------
(* Properties.                                                             *)

\* "Did Windows actually block? Based on log events after the change": the judgement on a change is borne
\* out by a use after it, unless a series went on across the change; its uses from before then count too.
Across(t) == \E u, v \in Known : u.at <= t /\ t < v.at /\ Joined(u, v)
JudgedAfter ==
  LET c == mem.change IN
  c # NoChange =>
    /\ c.state = "verified-blocked" => \E u \in uses : u.at > c.at /\ u.blocked
    /\ (c.state = "not-effective" /\ ~Across(c.at)) => \E u \in uses : u.at > c.at /\ ~u.blocked

\* "Setting restored to its original value": a restore gives back what was there before the user's first
\* deny, through refused saves and restarts; a second deny, from a page that is out of date, takes the
\* first one's Deny for what was there, and an engine that ended in between leaves no record.
Restores ==
  (mem.change # NoChange /\ mem.change.state = "restored" /\ busy = Free /\ ~touched /\ ~twice /\ ~lost) =>
    reg = own \/ <<own, reg>> = <<"no key", "no value">>

\* A Deny of ours is on record as long as it is there, so that the user is offered to take it back; unless
\* the engine ended before the record was on disk, or the user was in Windows' settings.
DenyOnRecord ==
  (up /\ busy = Free /\ reg = "Deny" /\ own # "Deny" /\ ~touched /\ ~twice /\ ~lost) => Changed

\* The user can trust the two buttons: what was found is borne out, what was denied can be given back.
ButtonsHonest == JudgedAfter /\ Restores /\ DenyOnRecord

=============================================================================
