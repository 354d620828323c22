------------------------------ MODULE EventLog ------------------------------
(***************************************************************************)
(* The retained, cursor-based event log between a harness and the server:   *)
(* crates/giskard-harness/src/event_log.rs.                                 *)
(*                                                                          *)
(* Every method of EventLog and EventLogReader runs under one mutex, so     *)
(* each is one action here.  The exception is the wake-up: append and close *)
(* call notify_waiters after the mutex is released, and a reader that finds *)
(* nothing registers itself before it releases the mutex, so the wake-up is *)
(* an action of its own.                                                    *)
(*                                                                          *)
(* An event is its append number.  The overflowed flag only rate-limits a   *)
(* log line and is left out.                                                *)
(***************************************************************************)
EXTENDS Integers, Sequences, FiniteSetsExt

CONSTANTS
    Limit,          \* the retention cap of with_limit
    MaxAppends,     \* bound: events appended in a behaviour
    MaxReaders,     \* bound: readers created in a behaviour
    MaxNotifies     \* bound: append/close calls between unlock and notify

ASSUME LogAssumption ==
    /\ Limit \in Nat \ {0}
    /\ MaxAppends \in Nat
    /\ MaxReaders \in Nat
    /\ MaxNotifies \in Nat

VARIABLES
    base,           \* number of the oldest retained event
    entries,        \* the retained events
    cursors,        \* live reader -> [next, pendingGap]
    nextReader,     \* the id the next reader gets
    unreported,     \* evictions no reader could observe
    closed,
    waiting,        \* readers parked on the Notify
    notifies,       \* notify_waiters calls still to be made
    \* History variables: what readers were told.
    appended,       \* number of events accepted
    delivered,      \* events some reader received
    reported,       \* events some reader was told it lost
    account,        \* reader -> [start, got, lost]
    overlapped      \* readers created while another one was live

logVars == <<base, entries, cursors, nextReader, unreported, closed>>
wakeVars == <<waiting, notifies>>
ghostVars == <<appended, delivered, reported, account, overlapped>>
vars == <<logVars, wakeVars, ghostVars>>

Readers == 0 .. MaxReaders - 1
Live == DOMAIN cursors
-----------------------------------------------------------------------------
Init ==
    /\ base = 0
    /\ entries = <<>>
    /\ cursors = [r \in {} |-> [next |-> 0, pendingGap |-> 0]]
    /\ nextReader = 0
    /\ unreported = 0
    /\ closed = FALSE
    /\ waiting = {}
    /\ notifies = 0
    /\ appended = 0
    /\ delivered = {}
    /\ reported = {}
    /\ account = [r \in Readers |-> [start |-> 0, got |-> 0, lost |-> 0]]
    /\ overlapped = {}

\* append evicts one entry when the retained ones exceed the cap.
OverCap(es) == Len(es) > Limit

\* append: the oldest entry makes room once the cap is exceeded.  A closed log
\* discards the event and changes nothing.
AppendEvent ==
    /\ ~closed
    /\ appended < MaxAppends
    /\ notifies < MaxNotifies
    /\ LET grown == Append(entries, appended)
           evict == OverCap(grown)
       IN  /\ entries' = IF evict THEN Tail(grown) ELSE grown
           /\ base' = IF evict THEN base + 1 ELSE base
           /\ unreported' = IF evict /\ Live = {} THEN unreported + 1
                                                  ELSE unreported
    /\ appended' = appended + 1
    /\ notifies' = notifies + 1
    /\ UNCHANGED <<cursors, nextReader, closed, waiting, delivered, reported,
                   account, overlapped>>

\* close: events already retained stay readable.
Close ==
    /\ notifies < MaxNotifies
    /\ closed' = TRUE
    /\ notifies' = notifies + 1
    /\ UNCHANGED <<base, entries, cursors, nextReader, unreported, waiting,
                   ghostVars>>

\* Mutant: the call reaches only readers that have nothing to read yet.
NotifyTooEarly ==
    /\ notifies > 0
    /\ notifies' = notifies - 1
    /\ waiting' = {r \in waiting : cursors[r].next < appended}
    /\ UNCHANGED <<logVars, ghostVars>>

\* The notify_waiters call that ends append and close.
NotifyWaiters ==
    /\ notifies > 0
    /\ notifies' = notifies - 1
    /\ waiting' = {}
    /\ UNCHANGED <<logVars, ghostVars>>

\* reader: starts at the oldest retained event and takes over the evictions
\* nobody could observe.
NewReader ==
    /\ nextReader < MaxReaders
    /\ cursors' = [r \in Live \cup {nextReader} |->
                     IF r = nextReader
                     THEN [next |-> base, pendingGap |-> unreported]
                     ELSE cursors[r]]
    /\ nextReader' = nextReader + 1
    /\ unreported' = 0
    /\ account' = [account EXCEPT ![nextReader] =
                     [start |-> base - unreported, got |-> 0, lost |-> 0]]
    /\ overlapped' = IF Live = {} THEN overlapped
                                    ELSE overlapped \cup {nextReader}
    /\ UNCHANGED <<base, entries, closed, wakeVars, appended, delivered,
                   reported>>

\* trim: where the retained window, len entries from b, starts once the entries
\* that every cursor in cs has passed are gone.
TrimmedBase(b, len, cs) ==
    LET least == Min({cs[r].next : r \in DOMAIN cs})
    IN  IF DOMAIN cs = {} \/ least < b THEN b
        ELSE IF least > b + len THEN b + len
        ELSE least

Trim(cs) ==
    LET kept == TrimmedBase(base, Len(entries), cs)
    IN  /\ base' = kept
        /\ entries' = SubSeq(entries, kept - base + 1, Len(entries))

\* Mutant: an inherited gap is reported again and again.
GapKeptPending(r) ==
    LET c == cursors[r] IN
    /\ c.pendingGap > 0
    /\ reported' = reported \cup (c.next - c.pendingGap) .. (c.next - 1)
    /\ account' = [account EXCEPT ![r].lost = @ + c.pendingGap]
    /\ UNCHANGED <<logVars, wakeVars, appended, delivered, overlapped>>

\* poll_reader, one action per outcome.  First an inherited gap ...
PollPendingGap(r) ==
    LET c == cursors[r] IN
    /\ c.pendingGap > 0
    /\ cursors' = [cursors EXCEPT ![r].pendingGap = 0]
    /\ reported' = reported \cup (c.next - c.pendingGap) .. (c.next - 1)
    /\ account' = [account EXCEPT ![r].lost = @ + c.pendingGap]
    /\ UNCHANGED <<base, entries, nextReader, unreported, closed, wakeVars,
                   appended, delivered, overlapped>>

\* ... then a gap of its own ...
PollGap(r) ==
    LET c == cursors[r] IN
    /\ c.pendingGap = 0
    /\ c.next < base
    /\ cursors' = [cursors EXCEPT ![r].next = base]
    /\ reported' = reported \cup c.next .. (base - 1)
    /\ account' = [account EXCEPT ![r].lost = @ + (base - c.next)]
    /\ UNCHANGED <<base, entries, nextReader, unreported, closed, wakeVars,
                   appended, delivered, overlapped>>

\* ... then the next retained event ...
PollEvent(r) ==
    LET c == cursors[r]
        moved == [cursors EXCEPT ![r].next = @ + 1]
    IN
    /\ c.pendingGap = 0
    /\ c.next >= base
    /\ c.next < base + Len(entries)
    /\ cursors' = moved
    /\ Trim(moved)
    /\ delivered' = delivered \cup {entries[c.next - base + 1]}
    /\ account' = [account EXCEPT ![r].got = @ + 1]
    /\ UNCHANGED <<nextReader, unreported, closed, wakeVars, appended,
                   reported, overlapped>>

\* ... and otherwise recv parks the reader, unless the log is closed: then it
\* returns Closed, which changes nothing.
PollNothing(r) ==
    LET c == cursors[r] IN
    /\ c.pendingGap = 0
    /\ c.next >= base + Len(entries)
    /\ ~closed
    /\ waiting' = waiting \cup {r}
    /\ UNCHANGED <<logVars, notifies, ghostVars>>

\* One turn of the loop in recv; try_recv is the same without the parking.
Recv(r) ==
    /\ r \in Live \ waiting
    /\ PollPendingGap(r) \/ PollGap(r) \/ PollEvent(r) \/ PollNothing(r)

\* A pending recv future is dropped; the reader itself lives on.
CancelRecv(r) ==
    /\ r \in waiting
    /\ waiting' = waiting \ {r}
    /\ UNCHANGED <<logVars, notifies, ghostVars>>

\* base.saturating_sub(next): what the cap evicted ahead of a cursor.
Behind(c) == IF base > c.next THEN base - c.next ELSE 0
\* Mutant: only the reader's own lag is handed on.
DeficitWithoutInherited(c) == Behind(c)

\* The loss a dropped reader was never told of, what it inherited included.
Deficit(c) == c.pendingGap + Behind(c)

\* Drop for EventLogReader: the last reader hands its deficit on.
DropReader(r) ==
    LET c == cursors[r]
        rest == [q \in Live \ {r} |-> cursors[q]]
    IN
    /\ r \in Live \ waiting
    /\ cursors' = rest
    /\ unreported' = IF Live = {r} THEN unreported + Deficit(c)
                                   ELSE unreported
    /\ Trim(rest)
    /\ UNCHANGED <<nextReader, closed, wakeVars, ghostVars>>

Next ==
    \/ AppendEvent
    \/ Close
    \/ NotifyWaiters
    \/ NewReader
    \/ \E r \in Readers : Recv(r) \/ CancelRecv(r) \/ DropReader(r)

Spec == Init /\ [][Next]_vars

\* Appending threads finish their call, and a live reader keeps calling recv
\* (the project driver polls every stream it holds).
FairSpec ==
    /\ Spec
    /\ WF_vars(NotifyWaiters)
    /\ \A r \in Readers : WF_vars(Recv(r))
-----------------------------------------------------------------------------
(* Properties *)

\* The types, and that a cursor always belongs to a reader already created.
TypeOK ==
    /\ base \in Nat
    /\ entries \in Seq(Nat)
    /\ nextReader \in 0 .. MaxReaders
    /\ Live \subseteq 0 .. nextReader - 1
    /\ cursors \in [Live -> [next : Nat, pendingGap : Nat]]
    /\ unreported \in Nat
    /\ closed \in BOOLEAN
    /\ waiting \subseteq Live
    /\ notifies \in 0 .. MaxNotifies
    /\ appended \in 0 .. MaxAppends
    /\ delivered \subseteq Nat
    /\ reported \subseteq Nat
    /\ account \in [Readers -> [start : Nat, got : Nat, lost : Nat]]
    /\ overlapped \subseteq Readers

\* The retained entries are exactly the newest events, in append order, and
\* never more than the cap; no cursor is past the last event.
RetainedWindow ==
    /\ Len(entries) =< Limit
    /\ base + Len(entries) = appended
    /\ \A i \in 1 .. Len(entries) : entries[i] = base + i - 1
    /\ \A r \in Live : cursors[r].next =< appended

\* "An appended event is kept until every reader has consumed it", and no
\* longer: while readers exist, the oldest retained event is one that some
\* reader still has to read.
KeptForSomeReader ==
    Live # {} => \E r \in Live : cursors[r].next =< base

\* What a reader was told adds up: from where it started, the events it
\* received, the losses reported to it and the loss still to be reported lead
\* exactly to its cursor, however appends, evictions, trims and other readers
\* interleave with it.
ReaderAccounting ==
    \A r \in Live :
        LET a == account[r] IN
        a.start + a.got + a.lost + cursors[r].pendingGap = cursors[r].next

\* Evictions that a live reader will report, or that the next one inherits.
Owed ==
    ((base - unreported) .. (base - 1))
      \cup UNION {(cursors[r].next - cursors[r].pendingGap) .. (base - 1)
                    : r \in Live}

\* "The only way to lose an event is the retention cap, and that loss is
\* reported ... instead of happening silently": as long as readers
\* followed one another (no overlap), every event that left the log was received by a
\* reader, or reported lost, or is still owed as a loss, and exactly one of
\* these.
ExactlyAccounted ==
    overlapped = {} =>
        /\ delivered \cup reported \cup Owed = 0 .. base - 1
        /\ delivered \cap reported = {}
        /\ (delivered \cup reported) \cap Owed = {}

\* The register-before-unlock protocol of recv loses no wake-up: a parked
\* reader with something to read has a notify_waiters call coming.
NoLostWakeup ==
    \A r \in waiting :
        closed \/ cursors[r].next < appended \/ cursors[r].pendingGap > 0
            => notifies > 0

\* A live reader reaches every appended event: it receives it, or is told it
\* was lost, or is dropped first.
ReaderProgress ==
    \A r \in Readers, e \in 0 .. MaxAppends - 1 :
        (r \in Live /\ e < appended)
            ~> (r \notin Live \/ cursors[r].next > e)
=============================================================================
