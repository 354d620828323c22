---------------------------- MODULE Replacements ----------------------------
(***************************************************************************)
(* How two latest-wins views of one browser page follow the thread file:    *)
(* the open thread's metadata and its row in the thread catalog             *)
(* (thread_metadata.rs, delivery.rs, hub.rs, ws.rs and static/app.js).      *)
(*                                                                          *)
(* A metadata mutation commits a new revision under the store's per-thread  *)
(* lock and publishes it after the lock is released, so publications of two *)
(* revisions can reach the hub in either order.  The hub puts them into the *)
(* client's replacement mailbox, which holds one message per key; the       *)
(* socket writer takes from the mailbox and from the ordered queue in any   *)
(* order.  The page also learns revisions from the subscribe bootstrap,     *)
(* from HTTP replies and from the thread list it refetches when the catalog *)
(* is invalidated.                                                          *)
(*                                                                          *)
(* A thread file is its revision and, for each group of fields, the         *)
(* revision that changed it last: "common" (title, mode) is in both         *)
(* browser projections, "detail" and "catalog" are in one each.  A message  *)
(* carries the whole file; a comparison looks only at the groups of its     *)
(* projection.  What a page does after two payloads of one revision differ  *)
(* is left out: NoConflict shows that this does not happen.  The mailbox's  *)
(* other keys, the runtime overview and the progress of deletions, follow   *)
(* the same protocol and are left out too.                                  *)
(***************************************************************************)
EXTENDS Integers, Sequences, FiniteSets

CONSTANTS
    Publishers,         \* server tasks that mutate and publish
    Changes,            \* the groups of fields a mutation may change together
    MaxRevision,        \* bound: revisions of the thread file
    MaxFaults           \* bound: lost sockets, failed fetches and restarts

Fields == {"common", "detail", "catalog"}

ASSUME ReplacementAssumption ==
    /\ Changes \subseteq SUBSET Fields
    /\ MaxRevision \in Nat \ {0}
    /\ MaxFaults \in Nat

VARIABLES
    \* The server.
    file,               \* the durable thread file
    pub,                \* publisher -> [snap, work, notify]
    \* The connection.
    open,               \* the socket is open and its client registered
    subscribed,         \* the client is subscribed to the thread
    order,              \* the mailbox: keys in delivery order ...
    state,              \* ... and the pending thread state
    permit,             \* the stored permit of the mailbox's Notify
    writer,             \* the socket writer in recv
    ordered,            \* the ordered queue
    boot,               \* run_subscribe_bootstrap
    \* The page.
    authority,          \* threadAuthorities: common, detail, summary
    refresh,            \* projectThreadRefresh
    \* Bookkeeping.
    conflicted,         \* did two payloads of one revision differ?
    faults

mailboxVars == <<order, state, permit, writer>>
bootVars == <<ordered, boot>>
pageVars == <<authority, refresh>>
vars == <<file, pub, open, subscribed, mailboxVars, bootVars,
          pageVars, conflicted, faults>>
-----------------------------------------------------------------------------
Keys == {"thread", "catalog"}

NoSnap == [rev |-> 0, common |-> 0, detail |-> 0, catalog |-> 0]
Snapshot == [rev : Nat, common : Nat, detail : Nat, catalog : Nat]

Idle == [snap |-> NoSnap, work |-> <<>>, notify |-> FALSE]
NoAuthority == [common |-> NoSnap, detail |-> NoSnap, summary |-> NoSnap]

Init ==
    /\ file = [rev |-> 1, common |-> 1, detail |-> 1, catalog |-> 1]
    /\ pub = [p \in Publishers |-> Idle]
    /\ open = FALSE
    /\ subscribed = FALSE
    /\ order = <<>>
    /\ state = NoSnap
    /\ permit = FALSE
    /\ writer = "loop"
    /\ ordered = <<>>
    /\ boot = [pc |-> "idle", snap |-> NoSnap]
    /\ authority = NoAuthority
    /\ refresh = [dirty |-> FALSE, running |-> FALSE, fresh |-> FALSE,
                  catchup |-> FALSE, timer |-> FALSE, read |-> NoSnap]
    /\ conflicted = FALSE
    /\ faults = 0
-----------------------------------------------------------------------------
(* Server: mutations and their publication *)

\* The publications a mutation owes: thread state if the detail projection
\* changed, then an invalidation if the catalog projection did.
Owed(F) ==
    (IF F \cap {"common", "detail"} # {} THEN <<"thread">> ELSE <<>>)
      \o (IF F \cap {"common", "catalog"} # {} THEN <<"catalog">> ELSE <<>>)

\* update_thread_with_recency: a change advances the revision.
Committed(F) ==
    [f \in DOMAIN file |->
        IF f = "rev" \/ f \in F THEN file.rev + 1 ELSE file[f]]

\* mutate: the fields F change (none of them when the change is to fields no
\* browser sees), and the publication starts after the lock is released.
Mutate(p, F) ==
    /\ pub[p] = Idle
    /\ file.rev < MaxRevision
    /\ file' = Committed(F)
    /\ pub' = [pub EXCEPT ![p].snap = file', ![p].work = Owed(F)]
    /\ UNCHANGED <<open, subscribed, mailboxVars, bootVars, pageVars,
                   conflicted, faults>>

Queued(key) == \E i \in 1 .. Len(order) : order[i] = key

\* The order names each pending key once.
Enqueue(key) == order' = IF Queued(key) THEN order ELSE Append(order, key)

Published(p, notify) ==
    pub' = [pub EXCEPT ![p].work = Tail(@), ![p].notify = notify]

Publishing(p, key) == ~pub[p].notify /\ pub[p].work # <<>> /\ Head(pub[p].work) = key

SameDetail(a, b) == a.common = b.common /\ a.detail = b.detail
SameSummary(a, b) == a.common = b.common /\ a.catalog = b.catalog

\* insert_thread_state keeps a pending state that is newer, or that has the
\* same revision and other contents.
KeepsPending(snap) ==
    /\ Queued("thread")
    /\ \/ state.rev > snap.rev
       \/ state.rev = snap.rev /\ ~SameDetail(state, snap)

\* publish_metadata: nobody is told while the client is not subscribed.
InsertThreadState(p) ==
    /\ Publishing(p, "thread")
    /\ IF subscribed /\ ~KeepsPending(pub[p].snap)
       THEN /\ Enqueue("thread")
            /\ state' = pub[p].snap
            /\ Published(p, TRUE)
       ELSE /\ Published(p, FALSE)
            /\ UNCHANGED <<order, state>>
    /\ conflicted' = (conflicted \/ (subscribed /\ Queued("thread")
                                      /\ state.rev = pub[p].snap.rev
                                      /\ ~SameDetail(state, pub[p].snap)))
    /\ UNCHANGED <<file, open, subscribed, permit,
                   writer, bootVars, pageVars, faults>>

\* invalidate_thread_catalog reaches every registered client.
InvalidateCatalog(p) ==
    /\ Publishing(p, "catalog")
    /\ IF open THEN Enqueue("catalog") /\ Published(p, TRUE)
               ELSE Published(p, FALSE) /\ UNCHANGED order
    /\ UNCHANGED <<file, open, subscribed, state,
                   permit, writer, bootVars, pageVars, conflicted, faults>>

\* Mutant: only a task already parked is woken.
NotifyWithoutPermit(p) ==
    /\ pub[p].notify
    /\ pub' = [pub EXCEPT ![p].notify = FALSE]
    /\ writer' = IF writer = "parked" THEN "loop" ELSE writer
    /\ UNCHANGED <<file, open, subscribed, order, state, permit, bootVars, pageVars, conflicted,
                   faults>>

\* The notify_one that ends an insertion, after the mailbox lock is released:
\* it wakes the parked writer or leaves a permit.
NotifyOne(p) ==
    /\ pub[p].notify
    /\ pub' = [pub EXCEPT ![p].notify = FALSE]
    /\ IF writer = "parked" THEN writer' = "loop" /\ UNCHANGED permit
                            ELSE permit' = TRUE /\ UNCHANGED writer
    /\ UNCHANGED <<file, open, subscribed, order, state, bootVars, pageVars, conflicted, faults>>
-----------------------------------------------------------------------------
(* Page: reconciliation of revisions *)

\* reconcileThreadProjection for a detail or a summary payload.
Stale(kind, snap) == snap.rev < authority[kind].rev
Same(kind, a, b) ==
    IF kind = "detail" THEN SameDetail(a, b) ELSE SameSummary(a, b)
Conflict(kind, snap) ==
    \/ snap.rev = authority[kind].rev /\ ~Same(kind, snap, authority[kind])
    \/ snap.rev = authority.common.rev /\ snap.common # authority.common.common

\* Mutant: an accepted projection always sets the title and the mode.
AcceptOverCommon(kind, snap) ==
    IF Stale(kind, snap) \/ Conflict(kind, snap) THEN authority
    ELSE [authority EXCEPT ![kind] = snap, !.common = snap]

\* An accepted payload replaces its projection, and the fields both have in
\* common if it is newer than what set them.
Accept(kind, snap) ==
    IF Stale(kind, snap) \/ Conflict(kind, snap) THEN authority
    ELSE [authority EXCEPT
            ![kind] = snap,
            !.common = IF @ = NoSnap \/ snap.rev > @.rev THEN snap ELSE @]

\* loadThreads: a generation more is wanted; a fetch in progress no longer has
\* the wanted one, and a new fetch starts if none runs.
LoadThreads(r) ==
    IF r.running THEN [r EXCEPT !.dirty = TRUE, !.fresh = FALSE, !.timer = FALSE]
    ELSE [dirty |-> TRUE, running |-> TRUE, fresh |-> TRUE, catchup |-> FALSE,
          timer |-> FALSE, read |-> NoSnap]

\* A refused detail payload is dropped; a refused summary, or one older than the
\* common fields, asks for the list again.
ApplyDetail(snap) ==
    /\ authority' = Accept("detail", snap)
    /\ conflicted' = (conflicted \/ (~Stale("detail", snap) /\ Conflict("detail", snap)))

SummaryIsStale(snap) ==
    \/ Stale("summary", snap)
    \/ Conflict("summary", snap)
    \/ snap.rev < authority.common.rev

\* applyThreadSummary: the HTTP reply to a mutation this page asked for.
ReplySummary(p) ==
    LET snap == pub[p].snap IN
    /\ snap # NoSnap /\ pub[p].work = <<>> /\ ~pub[p].notify
    /\ pub' = [pub EXCEPT ![p] = Idle]
    /\ authority' = Accept("summary", snap)
    /\ conflicted' = (conflicted \/ (~Stale("summary", snap)
                                      /\ Conflict("summary", snap)))
    /\ refresh' = IF SummaryIsStale(snap) \/ authority.summary = NoSnap
                  THEN LoadThreads(refresh) ELSE refresh
    /\ UNCHANGED <<file, open, subscribed, mailboxVars, bootVars, faults>>

\* The mutation was not this page's.
Done(p) ==
    /\ pub[p] # Idle /\ pub[p].work = <<>> /\ ~pub[p].notify
    /\ pub' = [pub EXCEPT ![p] = Idle]
    /\ UNCHANGED <<file, open, subscribed, mailboxVars, bootVars,
                   pageVars, conflicted, faults>>

-----------------------------------------------------------------------------
(* The socket writer *)

\* recv finds a message and the page handles it.
PopReplacement ==
    /\ open
    /\ writer = "loop"
    /\ order # <<>>
    /\ order' = Tail(order)
    /\ IF Head(order) = "thread"
       THEN /\ ApplyDetail(state)
            /\ state' = NoSnap
            /\ UNCHANGED refresh
       ELSE /\ refresh' = LoadThreads(refresh)
            /\ UNCHANGED <<state, authority, conflicted>>
    /\ UNCHANGED <<file, pub, open, subscribed, permit, writer,
                   bootVars, faults>>

\* recv finds the mailbox empty, and awaits the Notify it prepared before it
\* looked.
FindEmpty ==
    /\ open
    /\ writer = "loop"
    /\ order = <<>>
    /\ writer' = "await"
    /\ UNCHANGED <<file, pub, open, subscribed, order, state, permit, bootVars, pageVars, conflicted,
                   faults>>

\* A stored permit sends it around the loop; otherwise it parks.
Await ==
    /\ open
    /\ writer = "await"
    /\ writer' = IF permit THEN "loop" ELSE "parked"
    /\ permit' = FALSE
    /\ UNCHANGED <<file, pub, open, subscribed, order, state, bootVars, pageVars, conflicted, faults>>

\* The other branch of the writer's select: an ordered message, after which
\* recv is called anew.
PopOrdered ==
    /\ open
    /\ ordered # <<>>
    /\ ordered' = Tail(ordered)
    /\ writer' = "loop"
    /\ ApplyDetail(Head(ordered))
    /\ UNCHANGED <<file, pub, open, subscribed, order, state, permit, boot, refresh, faults>>
-----------------------------------------------------------------------------
(* Connecting and subscribing *)

\* The socket opens: handle_ws registers the client; ws.onopen refetches the
\* thread lists and subscribes.
Open ==
    /\ ~open
    /\ open' = TRUE
    /\ boot' = [pc |-> "requested", snap |-> NoSnap]
    /\ refresh' = LoadThreads(refresh)
    /\ UNCHANGED <<file, pub, subscribed, mailboxVars, ordered,
                   authority, conflicted, faults>>

\* run_subscribe_bootstrap: the client is subscribed first ...
BootSubscribe ==
    /\ boot.pc = "requested"
    /\ subscribed' = TRUE
    /\ boot' = [boot EXCEPT !.pc = "subscribed"]
    /\ UNCHANGED <<file, pub, open, mailboxVars, ordered,
                   pageVars, conflicted, faults>>

\* ... then the file is read (a recomputation that changes it is a mutation
\* followed by this read) ...
BootRead ==
    /\ boot.pc = "subscribed"
    /\ boot' = [pc |-> "read", snap |-> file]
    /\ UNCHANGED <<file, pub, open, subscribed, mailboxVars, ordered, pageVars, conflicted, faults>>

\* ... and the state is queued.
BootSend ==
    /\ boot.pc = "read"
    /\ ordered' = Append(ordered, boot.snap)
    /\ boot' = [pc |-> "idle", snap |-> NoSnap]
    /\ UNCHANGED <<file, pub, open, subscribed, mailboxVars,
                   pageVars, conflicted, faults>>

\* The connection and everything queued on it are gone.
Disconnected ==
    /\ open' = FALSE
    /\ subscribed' = FALSE
    /\ order' = <<>>
    /\ state' = NoSnap
    /\ permit' = FALSE
    /\ writer' = "loop"
    /\ ordered' = <<>>
    /\ boot' = [pc |-> "idle", snap |-> NoSnap]

\* The socket is lost and Hub::disconnect forgets the client.
LoseSocket ==
    /\ open
    /\ faults < MaxFaults
    /\ faults' = faults + 1
    /\ Disconnected
    /\ pub' = [p \in Publishers |-> [pub[p] EXCEPT !.notify = FALSE]]
    /\ UNCHANGED <<file, pageVars, conflicted>>

\* The server restarts: publications in progress are lost, the thread file is
\* not.
Restart ==
    /\ faults < MaxFaults
    /\ faults' = faults + 1
    /\ Disconnected
    /\ pub' = [p \in Publishers |-> Idle]
    /\ UNCHANGED <<file, pageVars, conflicted>>
-----------------------------------------------------------------------------
(* Page: the thread list *)

\* The request reaches list_threads.
FetchRead ==
    /\ refresh.running /\ refresh.read = NoSnap
    /\ refresh' = [refresh EXCEPT !.read = file]
    /\ UNCHANGED <<file, pub, open, subscribed, mailboxVars, bootVars,
                   authority, conflicted, faults>>

\* Mutant: a reply is applied although an invalidation raced its request.
NeverSuperseded == FALSE

\* The reply is for a generation that is no longer the wanted one.
Superseded == ~refresh.fresh

\* The reply: discarded if an invalidation raced it, else reconciled.  A stale
\* row is refetched, once at once and then on the timer.
FetchReply ==
    /\ refresh.running /\ refresh.read # NoSnap
    /\ LET snap == refresh.read
           again == [refresh EXCEPT !.fresh = TRUE, !.read = NoSnap]
           stale == SummaryIsStale(snap)
       IN  IF Superseded
           THEN /\ refresh' = again
                /\ UNCHANGED <<authority, conflicted>>
           ELSE /\ authority' = Accept("summary", snap)
                /\ conflicted' = (conflicted \/ (~Stale("summary", snap)
                                                  /\ Conflict("summary", snap)))
                /\ refresh' = IF stale /\ ~refresh.catchup
                              THEN [again EXCEPT !.catchup = TRUE]
                              ELSE [again EXCEPT !.dirty = stale,
                                                 !.running = FALSE,
                                                 !.timer = stale]
    /\ UNCHANGED <<file, pub, open, subscribed, mailboxVars, bootVars, faults>>

\* Mutant: no retry is scheduled.
FetchFailForgotten ==
    /\ refresh.running
    /\ faults < MaxFaults
    /\ faults' = faults + 1
    /\ refresh' = [refresh EXCEPT !.running = FALSE, !.read = NoSnap]
    /\ UNCHANGED <<file, pub, open, subscribed, mailboxVars, bootVars,
                   authority, conflicted>>

\* The request fails: the timer retries.
FetchFail ==
    /\ refresh.running
    /\ faults < MaxFaults
    /\ faults' = faults + 1
    /\ refresh' = [refresh EXCEPT !.running = FALSE, !.timer = TRUE,
                                  !.read = NoSnap]
    /\ UNCHANGED <<file, pub, open, subscribed, mailboxVars, bootVars,
                   authority, conflicted>>

RetryTimer ==
    /\ refresh.timer
    /\ refresh' = [dirty |-> TRUE, running |-> TRUE, fresh |-> TRUE,
                   catchup |-> FALSE, timer |-> FALSE, read |-> NoSnap]
    /\ UNCHANGED <<file, pub, open, subscribed, mailboxVars, bootVars,
                   authority, conflicted, faults>>
-----------------------------------------------------------------------------
Publish(p) ==
    InsertThreadState(p) \/ InvalidateCatalog(p) \/ NotifyOne(p)

Writer == PopReplacement \/ FindEmpty \/ Await
Bootstrap == BootSubscribe \/ BootRead \/ BootSend
Refresh == FetchRead \/ FetchReply \/ RetryTimer

Next ==
    \/ \E p \in Publishers :
          \/ \E F \in Changes : Mutate(p, F)
          \/ Publish(p) \/ ReplySummary(p) \/ Done(p)
    \/ Writer \/ PopOrdered \/ Open \/ Bootstrap \/ Refresh
    \/ LoseSocket \/ Restart \/ FetchFail

Spec == Init /\ [][Next]_vars

\* Server tasks, the writer, the reconnecting page and its fetches all run on;
\* select! polls both branches, so a queued ordered message is taken.
FairSpec ==
    /\ Spec
    /\ \A p \in Publishers : WF_vars(Publish(p)) /\ WF_vars(Done(p))
    /\ WF_vars(PopReplacement) /\ WF_vars(FindEmpty) /\ WF_vars(Await)
    /\ WF_vars(PopOrdered) /\ WF_vars(Open) /\ WF_vars(Bootstrap)
    /\ WF_vars(Refresh)
-----------------------------------------------------------------------------
(* Properties *)

PublisherState ==
    [snap : Snapshot, work : Seq(Keys), notify : BOOLEAN]

\* The types, and that a mailbox never holds a key twice.
TypeOK ==
    /\ file \in Snapshot
    /\ pub \in [Publishers -> PublisherState]
    /\ open \in BOOLEAN
    /\ subscribed \in BOOLEAN
    /\ order \in Seq(Keys)
    /\ \A i, j \in 1 .. Len(order) : order[i] = order[j] => i = j
    /\ state \in Snapshot
    /\ permit \in BOOLEAN
    /\ writer \in {"loop", "await", "parked"}
    /\ ordered \in Seq(Snapshot)
    /\ boot \in [pc : {"idle", "requested", "subscribed", "read"},
                 snap : Snapshot]
    /\ authority \in [common : Snapshot, detail : Snapshot, summary : Snapshot]
    /\ refresh \in [dirty : BOOLEAN, running : BOOLEAN, fresh : BOOLEAN,
                    catchup : BOOLEAN, timer : BOOLEAN, read : Snapshot]
    /\ conflicted \in BOOLEAN
    /\ faults \in 0 .. MaxFaults

\* Two payloads that carry one revision never differ, neither in the mailbox
\* nor between the lanes that reach the page, so the conflict branches of
\* insert_thread_state and reconcileThreadProjection are never taken.
NoConflict == ~conflicted

\* The mailbox's notify_one protocol loses no wake-up: a parked writer with a
\* message to take has a notification coming.
NoLostWakeup ==
    order # <<>> /\ writer = "parked" => \E p \in Publishers : pub[p].notify

\* The mailbox keeps what it owes its writer and never meets a conflict.
MailboxIsSound == TypeOK /\ NoConflict /\ NoLostWakeup

\* Nothing is on its way to the page.
Quiet ==
    /\ open /\ subscribed
    /\ \A p \in Publishers : pub[p].work = <<>>
    /\ order = <<>> /\ ordered = <<>>
    /\ boot.pc = "idle"
    /\ ~refresh.dirty

\* What the page shows of a group of fields: composedThreadDetail and
\* composedThreadSummary.
Shown(f) ==
    IF f = "common" THEN authority.common.common
    ELSE IF f = "detail" THEN authority.detail.detail
    ELSE authority.summary.catalog

\* Once nothing is on its way, the page shows the thread file as it is,
\* however publications, the bootstrap, replies and fetches were
\* ordered, and whatever was lost with earlier connections or by a restart.
ViewsConverge ==
    Quiet => \A f \in Fields : Shown(f) = file[f]

\* For each group of fields the page is a view that shows only committed
\* values and never returns to an older one.
Common == INSTANCE LatestValue WITH MaxVersion <- MaxRevision,
    written <- file.common, shown <- Shown("common")
Detail == INSTANCE LatestValue WITH MaxVersion <- MaxRevision,
    written <- file.detail, shown <- Shown("detail")
Catalog == INSTANCE LatestValue WITH MaxVersion <- MaxRevision,
    written <- file.catalog, shown <- Shown("catalog")
FieldsAreRegisters == Common!Safety /\ Detail!Safety /\ Catalog!Safety

\* And it catches up with every commit, through lost sockets, failed fetches
\* and restarts: a page that is told of no further change is not left stale.
PageCatchesUp == Common!CatchesUp /\ Detail!CatchesUp /\ Catalog!CatchesUp
=============================================================================
