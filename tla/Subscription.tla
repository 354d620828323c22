---------------------------- MODULE Subscription ----------------------------
(***************************************************************************)
(* One thread, one browser tab and the connection between them: the event  *)
(* owner applies and publishes the turn's events, the hub queues them for  *)
(* a subscribed client, the subscribe bootstrap reads history and the live *)
(* turn and sends them on the same queue, and the browser rebuilds its     *)
(* transcript (registry/event_forwarder.rs, hub.rs, ws.rs, static/app.js). *)
(*                                                                         *)
(* Turns are numbered in the order they run, the items of a turn in the    *)
(* order they complete, so the contents of a turn is a number of items. An *)
(* item is a message, with a row of its own, or a task (a command or tool  *)
(* call), shown inside a task group.                                       *)
(* Not modelled: streamed deltas, running tasks, requests (RequestClaims), *)
(* file changes merged into one row, older pages over HTTP, the rows of    *)
(* prompts not yet echoed, and a second subscribe on one socket.           *)
(***************************************************************************)
EXTENDS Integers, Sequences, SequencesExt

CONSTANTS
    MaxTurns,       \* bound on the turns that run
    MaxItems,       \* bound on the items of all turns together
    QueueCap,       \* capacity of the client's ordered queue (256 in ws.rs)
    PageSize,       \* turns of a first history page (history.initial)
    MaxConnects,    \* bound on the connections the tab makes
    Kind(_, _)      \* the kind of a turn's item

ASSUME SubscriptionConstants ==
    /\ {MaxTurns, MaxItems, PageSize, MaxConnects} \subseteq Nat
    /\ QueueCap \in Nat \ {0}
    /\ \A t \in 1 .. MaxTurns, i \in 1 .. MaxItems : Kind(t, i) \in {"message", "task"}

VARIABLES
    disk,       \* items of each persisted turn, in order
    live,       \* the live buffer: turn (0: none), items, ended
    gate,       \* the thread's turn gate is held
    owner,      \* the event owner: its stage, the message it must publish
    chan,       \* the client's ordered queue, the socket included
    subscribed, \* the hub lists the client under this thread
    boot,       \* the subscribe bootstrap: its stage and what it has read
    ui,         \* the browser's view of the thread
    connects,   \* connections made so far
    harm        \* what befell this page's stream (see the properties)

vars == <<disk, live, gate, owner, chan, subscribed, boot, ui, connects, harm>>
server == <<disk, live, gate, owner>>

Turns == 1 .. MaxTurns
NoMsg == [kind |-> "none"]
NoLive == [turn |-> 0, items |-> 0, ended |-> FALSE]
NoBoot == [pc |-> "off", since |-> 0, active |-> FALSE, history |-> NoMsg, snap |-> NoLive]
-----------------------------------------------------------------------------
(***************************************************************************)
(* The browser. A transcript row is an item of a turn. Its stamp is the    *)
(* data-turn of the transcript's child that shows it (0 for "pending"). A  *)
(* message is that child, stamped with its own turn when its body is       *)
(* registered; a task sits in a group's wrapper, which keeps the turn that *)
(* was being rendered when the wrapper was created. Both its own turn and  *)
(* its stamp can have a row removed.                                       *)
(***************************************************************************)
Row(t, i, s) == [turn |-> t, item |-> i, stamp |-> s]

Rendered(rows, t, i) == \E k \in DOMAIN rows : rows[k].turn = t /\ rows[k].item = i

\* A view of a thread just opened, locked when its first turn is starting.
Fresh(starting) ==
    [rows |-> <<>>, active |-> starting, current |-> 0, cursor |-> 0, oldest |-> 0,
     first |-> starting, full |-> FALSE, reconcile |-> FALSE]

\* The turn whose rows a resync treats as live.
LiveId(u) == IF u.active THEN u.current ELSE 0

\* A registered message carries its own turn; a task's group the turn now rendered.
Stamp(u, t, i) == IF Kind(t, i) = "task" THEN u.current ELSE t

\* An item of a turn that is not the current one joins that turn's rows.
LateRows(u, t) == {k \in DOMAIN u.rows : t # u.current /\ u.rows[k].stamp = t}

\* item_completed: an item already shown is refreshed in place, a late one goes
\* after its turn's rows, any other at the end.
ItemCompleted(u, t, i) ==
    IF Rendered(u.rows, t, i) THEN u
    ELSE IF LateRows(u, t) # {}
         THEN [u EXCEPT !.rows = InsertAt(u.rows, Max(LateRows(u, t)) + 1, Row(t, i, t))]
         ELSE [u EXCEPT !.rows = Append(u.rows, Row(t, i, Stamp(u, t, i)))]

\* Mutant: the resume cursor moves when a turn starts.
TurnStartedAsPersisted(u, t) ==
    [u EXCEPT !.first = FALSE, !.reconcile = FALSE, !.current = t, !.active = TRUE,
              !.cursor = t]

TurnStarted(u, t) ==
    [u EXCEPT !.first = FALSE, !.reconcile = FALSE, !.current = t, !.active = TRUE,
              !.rows = [k \in DOMAIN u.rows |->
                            IF u.rows[k].stamp = 0 THEN [u.rows[k] EXCEPT !.stamp = t]
                                                   ELSE u.rows[k]]]

TurnCompleted(u, t) ==
    [u EXCEPT !.first = FALSE, !.cursor = t, !.current = 0, !.active = FALSE]

\* The transcript is emptied for an authoritative snapshot; the resume cursor
\* and a first turn's lock stay.
ResetTranscript(u) ==
    [u EXCEPT !.rows = <<>>, !.current = 0, !.oldest = 0, !.reconcile = FALSE,
              !.active = u.first /\ u.active]

\* The rows a removal of the pending and the in-flight turn's rows leaves: a row
\* goes with its own turn or with its group's wrapper.
KeptRows(u) == SelectSeq(u.rows, LAMBDA r : {r.turn, r.stamp} \cap {0, LiveId(u)} = {})

\* Mutant: the composer keeps its lock.
ReconcileStaysActive(u) ==
    [u EXCEPT !.rows = KeptRows(u), !.current = 0, !.reconcile = FALSE]

\* Mutant: every row is removed.
ReconcileEverything(u) ==
    [u EXCEPT !.rows = <<>>, !.current = 0, !.active = FALSE, !.reconcile = FALSE]

\* The rows of the in-flight turn and the pending ones are removed.
ReconcileInFlight(u) ==
    [u EXCEPT !.rows = KeptRows(u), !.current = 0, !.active = FALSE, !.reconcile = FALSE]

TurnRows(t, n) == [i \in 1 .. n |-> Row(t, i, t)]
RowsOf(turns) == FlattenSeq([k \in DOMAIN turns |-> TurnRows(turns[k].turn, turns[k].items)])

RenderThreadState(u, m) ==
    LET v == IF u.full THEN ResetTranscript([u EXCEPT !.full = FALSE]) ELSE u
    IN  IF v.first /\ ~m.active THEN [v EXCEPT !.first = FALSE, !.active = FALSE] ELSE v

RenderReset(u, m) ==
    LET v == [ResetTranscript(u) EXCEPT !.rows = RowsOf(m.turns)]
    IN  IF m.turns = <<>> THEN v
        ELSE [v EXCEPT !.cursor = Last(m.turns).turn, !.oldest = Head(m.turns).turn]

\* Turns completed since the cursor go before the rows of the turn still live.
RenderIncremental(u, m) ==
    LET id     == LiveId(u)
        done   == id # 0 /\ \E k \in DOMAIN m.turns : m.turns[k].turn = id
        v      == IF done THEN ReconcileInFlight(u) ELSE [u EXCEPT !.reconcile = (id # 0)]
        new    == SelectSeq(RowsOf(m.turns), LAMBDA r : ~Rendered(v.rows, r.turn, r.item))
        anchor == {k \in DOMAIN v.rows : v.rows[k].stamp \in {0, id}}
        at     == IF done \/ anchor = {} THEN Len(v.rows) + 1 ELSE Min(anchor)
    IN  IF m.turns = <<>> THEN v
        ELSE [v EXCEPT !.cursor = Last(m.turns).turn,
                       !.rows = SubSeq(v.rows, 1, at - 1) \o new
                                    \o SubSeq(v.rows, at, Len(v.rows))]

RenderLiveTurnSnapshot(u, m) ==
    LET v    == IF u.reconcile THEN ReconcileInFlight(u) ELSE u
        base == TurnStarted([v EXCEPT !.current = m.turn], m.turn)
        show == FoldLeft(LAMBDA w, i : ItemCompleted(w, m.turn, i), base,
                         [i \in 1 .. m.items |-> i])
    IN  IF m.ended THEN TurnCompleted(show, m.turn) ELSE show

Handle(u, m) ==
    CASE m.kind = "state"     -> RenderThreadState(u, m)
      [] m.kind = "history"   -> IF m.reset THEN RenderReset(u, m) ELSE RenderIncremental(u, m)
      [] m.kind = "live"      -> RenderLiveTurnSnapshot(u, m)
      [] m.kind = "started"   -> TurnStarted(u, m.turn)
      [] m.kind = "item"      -> ItemCompleted(u, m.turn, m.item)
      [] m.kind = "completed" -> TurnCompleted(u, m.turn)
      [] m.kind = "error"     -> u
-----------------------------------------------------------------------------
(***************************************************************************)
(* The event owner. An event reaches the live buffer first and the hub in  *)
(* a later step; a completed turn is persisted, then settled, then         *)
(* published.                                                              *)
(***************************************************************************)
Room == Len(chan) < QueueCap

\* The bootstrap has registered with the hub and still has messages to send.
Bootstrapping == boot.pc \in {"active", "state", "history", "read", "sendHistory", "sendLive"}

ReserveTurn ==
    /\ owner.pc = "idle" /\ owner.msg = NoMsg /\ ~gate
    /\ Len(disk) < MaxTurns
    /\ gate' = TRUE
    /\ owner' = [owner EXCEPT !.pc = "reserved"]
    /\ UNCHANGED <<disk, live, chan, subscribed, boot, ui, connects, harm>>

ApplyStarted ==
    /\ owner.pc = "reserved"
    /\ live' = [turn |-> Len(disk) + 1, items |-> 0, ended |-> FALSE]
    /\ owner' = [pc |-> "turn", msg |-> [kind |-> "started", turn |-> live'.turn]]
    /\ UNCHANGED <<disk, gate, chan, subscribed, boot, ui, connects, harm>>

ApplyItem ==
    /\ owner.pc = "turn" /\ owner.msg = NoMsg
    /\ live.items + FoldLeft(LAMBDA n, items : n + items, 0, disk) < MaxItems
    /\ live' = [live EXCEPT !.items = @ + 1]
    /\ owner' = [owner EXCEPT !.msg = [kind |-> "item", turn |-> live.turn, item |-> live'.items]]
    /\ UNCHANGED <<disk, gate, chan, subscribed, boot, ui, connects, harm>>

PersistTurn ==
    /\ owner.pc = "turn" /\ owner.msg = NoMsg
    /\ disk' = Append(disk, live.items)
    /\ owner' = [owner EXCEPT !.pc = "persisted"]
    /\ UNCHANGED <<live, gate, chan, subscribed, boot, ui, connects, harm>>

SettleTurn ==
    /\ owner.pc = "persisted"
    /\ live' = NoLive
    /\ gate' = FALSE
    /\ owner' = [pc |-> "idle", msg |-> [kind |-> "completed", turn |-> live.turn]]
    /\ harm' = IF boot.pc = "read" /\ ~\E k \in DOMAIN boot.history.turns :
                                        boot.history.turns[k].turn = live.turn
               THEN harm \cup {"raced"} ELSE harm
    /\ UNCHANGED <<disk, chan, subscribed, boot, ui, connects>>

\* The append failed: the gate and the live buffer stay, the buffer now holding
\* the completion too, and the owner exits after an error notice.
BlockTurn ==
    /\ owner.pc = "turn" /\ owner.msg = NoMsg
    /\ live' = [live EXCEPT !.ended = TRUE]
    /\ owner' = [pc |-> "blocked", msg |-> [kind |-> "error"]]
    /\ UNCHANGED <<disk, gate, chan, subscribed, boot, ui, connects, harm>>

\* A publication is "dropped" at a full queue, "mixed" with a bootstrap that has
\* subscribed, and "raced" by one that has read the live turn and not sent it.
PublishHarm ==
    IF ~subscribed THEN {}
    ELSE {h \in {"dropped", "mixed", "raced"} :
            \/ h = "dropped" /\ ~Room
            \/ h = "mixed" /\ Bootstrapping
            \/ h = "raced" /\ boot.pc \in {"sendHistory", "sendLive"}}

Publish ==
    /\ owner.msg # NoMsg
    /\ chan' = IF subscribed /\ Room THEN Append(chan, owner.msg) ELSE chan
    /\ owner' = [owner EXCEPT !.msg = NoMsg]
    /\ harm' = harm \cup PublishHarm
    /\ UNCHANGED <<disk, live, gate, subscribed, boot, ui, connects>>
-----------------------------------------------------------------------------
(***************************************************************************)
(* The subscribe bootstrap, one step for each await or lock of             *)
(* run_subscribe_bootstrap. Its sends wait for room in the queue.          *)
(***************************************************************************)
BootSubscribe ==
    /\ boot.pc = "open"
    /\ subscribed' = TRUE
    /\ boot' = [boot EXCEPT !.pc = "active"]
    /\ UNCHANGED <<server, chan, ui, connects, harm>>

BootReadActive ==
    /\ boot.pc = "active"
    /\ boot' = [boot EXCEPT !.pc = "state", !.active = gate]
    /\ UNCHANGED <<server, chan, subscribed, ui, connects, harm>>

BootSendState ==
    /\ boot.pc = "state" /\ Room
    /\ chan' = Append(chan, [kind |-> "state", active |-> boot.active])
    /\ boot' = [boot EXCEPT !.pc = "history", !.active = FALSE]
    /\ UNCHANGED <<server, subscribed, ui, connects, harm>>

\* The persisted turns from t on, oldest first.
TurnsFrom(t) == [k \in 1 .. Len(disk) - t + 1 |-> [turn |-> t + k - 1, items |-> disk[t + k - 1]]]

\* Mutant: the turn after the cursor is skipped.
LoadHistorySkipsOne ==
    LET known == boot.since \in DOMAIN disk
        from  == IF known THEN boot.since + 2 ELSE Max({1, Len(disk) - PageSize + 1})
    IN  /\ boot.pc = "history"
        /\ boot' = [boot EXCEPT !.pc = "read",
                        !.history = [kind |-> "history", reset |-> ~known,
                                     turns |-> TurnsFrom(from)]]
        /\ UNCHANGED <<server, chan, subscribed, ui, connects, harm>>

\* The turns after the cursor, or a first page when there is no such cursor.
BootLoadHistory ==
    LET known == boot.since \in DOMAIN disk
        from  == IF known THEN boot.since + 1 ELSE Max({1, Len(disk) - PageSize + 1})
    IN  /\ boot.pc = "history"
        /\ boot' = [boot EXCEPT !.pc = "read",
                        !.history = [kind |-> "history", reset |-> ~known,
                                     turns |-> TurnsFrom(from)]]
        /\ UNCHANGED <<server, chan, subscribed, ui, connects, harm>>

BootReadLive ==
    /\ boot.pc = "read"
    /\ boot' = [boot EXCEPT !.pc = "sendHistory", !.snap = live]
    /\ harm' = IF live.turn \in DOMAIN disk THEN harm \cup {"raced"} ELSE harm
    /\ UNCHANGED <<server, chan, subscribed, ui, connects>>

BootSendHistory ==
    /\ boot.pc = "sendHistory" /\ Room
    /\ chan' = Append(chan, boot.history)
    /\ boot' = [boot EXCEPT !.pc = IF boot.snap = NoLive THEN "done" ELSE "sendLive",
                            !.history = NoMsg]
    /\ UNCHANGED <<server, subscribed, ui, connects, harm>>

BootSendLive ==
    /\ boot.pc = "sendLive" /\ Room
    /\ chan' = Append(chan, [kind |-> "live", turn |-> boot.snap.turn,
                             items |-> boot.snap.items, ended |-> boot.snap.ended])
    /\ boot' = [boot EXCEPT !.pc = "done", !.snap = NoLive]
    /\ UNCHANGED <<server, subscribed, ui, connects, harm>>

\* Metadata or history cannot be read: the bootstrap ends with an error.
BootFail ==
    /\ boot.pc \in {"active", "history"} /\ Room
    /\ chan' = Append(chan, [kind |-> "error"])
    /\ boot' = [boot EXCEPT !.pc = "failed"]
    /\ harm' = harm \cup {"failed"}
    /\ UNCHANGED <<server, subscribed, ui, connects>>

Bootstrap ==
    \/ BootSubscribe \/ BootReadActive \/ BootSendState \/ BootLoadHistory
    \/ BootReadLive \/ BootSendHistory \/ BootSendLive \/ BootFail
-----------------------------------------------------------------------------
(***************************************************************************)
(* The connection and the page.                                            *)
(***************************************************************************)
\* A socket opens and the page subscribes, from its cursor when it has one.
Connect ==
    /\ boot.pc = "off" /\ connects < MaxConnects
    /\ connects' = connects + 1
    /\ boot' = [NoBoot EXCEPT !.pc = "open", !.since = ui.cursor]
    /\ ui' = [ui EXCEPT !.full = (ui.cursor = 0)]
    /\ UNCHANGED <<server, chan, subscribed, harm>>

\* The socket is lost with everything in its queue.
LoseSocket ==
    /\ boot' = NoBoot
    /\ chan' = <<>>
    /\ subscribed' = FALSE

\* The page has not received the history of this connection.
HistoryOutstanding ==
    \/ boot.pc \notin {"sendLive", "done"}
    \/ \E k \in DOMAIN chan : chan[k].kind = "history"

Disconnect ==
    /\ boot.pc # "off" /\ connects < MaxConnects
    /\ LoseSocket
    /\ harm' = IF ui.cursor # boot.since /\ HistoryOutstanding THEN harm \cup {"skipped"} ELSE harm
    /\ UNCHANGED <<server, ui, connects>>

\* The page is loaded again, or the thread is opened again.
Reload ==
    /\ connects \in 1 .. MaxConnects - 1
    /\ LoseSocket
    /\ ui' = Fresh(FALSE)
    /\ harm' = {}
    /\ UNCHANGED <<server, connects>>

\* A turn ends while a group of it is still stamped "pending": the task came before
\* anything named its turn, and the next turn_started will claim the group.
LeavesPendingRow(m) ==
    m.kind = "completed" /\ \E k \in DOMAIN ui.rows : ui.rows[k].stamp = 0

Deliver ==
    /\ chan # <<>>
    /\ ui' = Handle(ui, Head(chan))
    /\ chan' = Tail(chan)
    /\ harm' = IF LeavesPendingRow(Head(chan)) THEN harm \cup {"orphaned"} ELSE harm
    /\ UNCHANGED <<server, subscribed, boot, connects>>

\* A thread opened from the list, or one whose first turn was just requested.
Init ==
    /\ disk = <<>> /\ live = NoLive /\ chan = <<>> /\ subscribed = FALSE
    /\ boot = NoBoot /\ connects = 0 /\ harm = {}
    /\ gate \in BOOLEAN
    /\ owner = [pc |-> IF gate THEN "reserved" ELSE "idle", msg |-> NoMsg]
    /\ ui = Fresh(gate)

Next ==
    \/ ReserveTurn \/ ApplyStarted \/ ApplyItem \/ PersistTurn \/ SettleTurn \/ BlockTurn
    \/ Publish \/ Bootstrap \/ Connect \/ Disconnect \/ Reload \/ Deliver

Spec == Init /\ [][Next]_vars
-----------------------------------------------------------------------------
(***************************************************************************)
(* The properties. The bootstrap reads history and the live turn at        *)
(* different moments while the owner publishes, and what the interleaving  *)
(* can do to a page is recorded in harm:                                   *)
(*   dropped   a publication found the queue full;                         *)
(*   failed    a bootstrap ended with an error;                            *)
(*   mixed     a publication was queued among a bootstrap's messages;      *)
(*   raced     a turn settled, or an event was published, between the      *)
(*             bootstrap's reads and its sends;                            *)
(*   skipped   the cursor moved before the history it presumes arrived,    *)
(*             and the socket was lost;                                    *)
(*   orphaned  a turn ended with a task group still marked pending.        *)
(* Each property says which of them it survives.                           *)
(***************************************************************************)
Harms == {"dropped", "failed", "mixed", "orphaned", "raced", "skipped"}

TranscriptRow == [turn : Turns, item : 1 .. MaxItems, stamp : 0 .. MaxTurns]

\* Types of the state; the ordered queue never holds more than its capacity.
TypeOK ==
    /\ disk \in Seq(0 .. MaxItems) /\ Len(disk) <= MaxTurns
    /\ live \in [turn : 0 .. MaxTurns, items : 0 .. MaxItems, ended : BOOLEAN]
    /\ gate \in BOOLEAN /\ subscribed \in BOOLEAN
    /\ owner.pc \in {"idle", "reserved", "turn", "persisted", "blocked"}
    /\ Len(chan) <= QueueCap
    /\ ui.rows \in Seq(TranscriptRow)
    /\ {ui.active, ui.first, ui.full, ui.reconcile} \subseteq BOOLEAN
    /\ {ui.current, ui.cursor, ui.oldest} \subseteq 0 .. MaxTurns
    /\ connects \in 0 .. MaxConnects
    /\ harm \subseteq Harms

\* Nothing is on its way to the page.
Settled ==
    /\ boot.pc = "done" /\ chan = <<>>
    /\ owner.msg = NoMsg /\ owner.pc # "persisted"

Identity(rows) == [k \in DOMAIN rows |-> <<rows[k].turn, rows[k].item>>]

\* What the page should show: the persisted turns of its window, then the live one.
Expected ==
    LET first == Max({1, ui.oldest})
        saved == [k \in 1 .. Len(disk) - first + 1 |-> TurnRows(first + k - 1, disk[first + k - 1])]
    IN  FlattenSeq(saved) \o TurnRows(live.turn, live.items)

\* Once everything sent has been rendered, the page shows exactly the items of
\* the persisted turns of its window and of the live turn, none missing and none
\* left over, whatever was disconnected, resumed from a cursor or published among
\* the bootstrap's messages (renderHistoryDelta, renderLiveTurnSnapshot).
SettledContents ==
    Settled /\ harm \subseteq {"mixed"} =>
        Range(Identity(ui.rows)) = Range(Identity(Expected))

\* When no publication fell among a bootstrap's messages either, the page shows
\* those items once each and in the order they happened.
SettledOrder ==
    Settled /\ harm = {} => Identity(ui.rows) = Identity(Expected)

\* A settled page shows the thread: the contents always, the order too when
\* nothing was published among a bootstrap's messages.
PageShowsThread == TypeOK /\ SettledContents /\ SettledOrder

\* A composer locked for the first turn of a new thread is unlocked once that
\* turn is over, whether it ended before, during or after the subscription
\* (releaseFirstTurnLockIfIdle); only a dropped message may leave it locked.
FirstTurnLockReleased ==
    Settled /\ "dropped" \notin harm => (ui.first => gate)

\* Once everything sent has been rendered, the composer is locked exactly while
\* the thread's gate is held, a reserved turn not yet started and a blocked one
\* excepted.
LockFollowsGate ==
    Settled /\ harm \subseteq {"mixed"} /\ owner.pc \notin {"blocked", "reserved"}
        => ui.active = gate

\* The composer follows the gate, the first turn's lock under weaker conditions.
ComposerFollowsGate == FirstTurnLockReleased /\ LockFollowsGate

Shown(t) == \A i \in 1 .. disk[t] : Rendered(ui.rows, t, i)
Window == Max({1, ui.oldest}) .. ui.cursor

\* Whenever a page may next subscribe from its cursor, it shows every item of
\* every turn from its oldest one to the cursor: a resync, which asks only for
\* the turns after the cursor (ws.onopen), never has to repair an earlier one.
CursorShown ==
    harm \subseteq {"mixed"} /\ (boot.pc = "off" \/ ~HistoryOutstanding) =>
        \A t \in DOMAIN disk \cap Window : Shown(t)

\* The page is opened anew, or a full snapshot replaces its transcript.
Clearing ==
    \/ ui' = Fresh(FALSE)
    \/ chan # <<>> /\ \/ Head(chan).kind = "history" /\ Head(chan).reset
                      \/ Head(chan).kind = "state" /\ ui.full

\* No message but a full snapshot takes an item of a turn up to the cursor off
\* the page: "Completed turns are immutable and stay put" (reconcileInFlightTurn).
KeepsCompletedTurns ==
    [][harm' \subseteq {"mixed"} /\ ~Clearing =>
        \A k \in DOMAIN ui.rows : ui.rows[k].turn <= ui.cursor =>
            Rendered(ui'.rows, ui.rows[k].turn, ui.rows[k].item)]_vars
=============================================================================
