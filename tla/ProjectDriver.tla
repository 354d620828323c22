---------------------------- MODULE ProjectDriver ----------------------------
(***************************************************************************)
(* The event driver of one harness instance: the actor that installs and   *)
(* removes the event owners of a project's threads, admits the native       *)
(* threads the provider reports (by discovery, or by a link from the        *)
(* parent that spawned them) one at a time, keeps the admissions that       *)
(* cannot run yet, and is quiesced, resumed and stopped by the deletion of  *)
(* the project.                                                             *)
(*                                                                         *)
(* A native thread and the thread id the harness binds to it are one thing *)
(* here.  A branch of the driver's select! is one step; the admission in    *)
(* flight is polled by the same loop and takes a step at each of its        *)
(* effects, between which owners exit and other tasks change the store.     *)
(***************************************************************************)
EXTENDS Naturals, Sequences, FiniteSets

CONSTANTS
    Threads,      \* the project's native threads
    Primaries,    \* those the user started
    Links,        \* <<parent, child>>: the sub-agent activities their turns report
    Reported,     \* the native parent the provider reports for a thread, or None
    Callers,      \* requests waiting for the driver
    Project,      \* the deletion of the project, as a caller
    MaxCalls,     \* requests made
    MaxLinks,     \* sub-agent activities reported
    MaxFaults,    \* failures of the store, the harness or an owner
    MaxRemovals,  \* threads deleted
    None

ASSUME ProjectDriverAssumption ==
    /\ IsFiniteSet(Threads)
    /\ Primaries \subseteq Threads
    /\ Links \subseteq Threads \X Threads
    /\ Reported \in [Threads -> Threads \cup {None}]
    /\ None \notin Threads \cup Callers
    /\ Project \notin Callers \cup {None}
    /\ {MaxCalls, MaxLinks, MaxFaults, MaxRemovals} \subseteq Nat

VARIABLES
    file,       \* the thread files: kind and parent
    owner,      \* OwnerPhase of the thread's coordinator, or none
    class,      \* ClassificationPhase of that coordinator
    waiters,    \* the callers a detaching coordinator will answer
    rx,         \* the command channel
    parked,     \* attaches waiting for a detach of their thread
    admission,  \* the admission in flight
    deferred,   \* the admissions to try again
    discovered, \* the unread records of the discovery log
    known,      \* native threads the harness has bound to a thread id
    quiesced,
    closed,     \* the driver has exited
    teardown,   \* how far the deletion of the project has come
    snapshot,   \* the threads it has still to release
    waiting,    \* the callers without an answer
    owed,       \* links without a reply that neither settled nor lost their parent
    removed,    \* the threads deleted
    calls, sent, faults

driver  == <<rx, parked, admission, deferred, quiesced, closed>>
harness == <<discovered, known>>
threads == <<file, owner, class, waiters>>
bounds  == <<removed, calls, sent, faults>>
vars    == <<driver, harness, threads, bounds, teardown, snapshot, waiting, owed>>

Absent     == [kind |-> "none", parent |-> None]
PrimaryFile == [kind |-> "primary", parent |-> None]
Orphan     == [kind |-> "orphan", parent |-> None]
ChildOf(p) == [kind |-> "subagent", parent |-> p]

Clients == Callers \cup {Project}

Link(p, c, by) == [op |-> "link", parent |-> p, thread |-> c, by |-> by]
Discovery(c)   == [op |-> "discovery", parent |-> None, thread |-> c, by |-> None]
Admissions     == [op : {"link", "discovery"}, parent : Threads \cup {None},
                   thread : Threads, by : Callers \cup {None}]
NoAdmission    == [work |-> None, step |-> "idle", file |-> Absent]
Attach(t, k, by) == [op |-> "attach", thread |-> t, class |-> k, by |-> by]
Detach(t, by)    == [op |-> "detach", thread |-> t, by |-> by]

TypeOK ==
    /\ file \in [Threads -> {Absent, PrimaryFile, Orphan} \cup {ChildOf(p) : p \in Threads}]
    /\ owner \in [Threads -> {"none", "live", "detaching", "failed"}]
    /\ class \in [Threads -> {"none", "primary", "orphan", "subagent"}]
    /\ waiters \in [Threads -> SUBSET Clients]
    /\ \A t \in Threads : waiters[t] # {} => owner[t] = "detaching"
    /\ \A a \in parked : a.thread \in Threads /\ owner[a.thread] = "detaching"
    /\ \A i \in DOMAIN deferred : deferred[i] \in Admissions /\ deferred[i].by = None
    /\ \A i, j \in DOMAIN deferred : deferred[i].thread = deferred[j].thread => i = j
    /\ admission = NoAdmission \/ admission.work \in Admissions
    /\ quiesced \in BOOLEAN /\ closed \in BOOLEAN
    /\ teardown \in {"none", "quiescing", "quiesced", "resuming", "stopped", "gone"}
    /\ waiting \subseteq Clients /\ snapshot \subseteq Threads
    /\ owed \subseteq Links

\* The threads the user started are open.
Init ==
    /\ file = [t \in Threads |-> IF t \in Primaries THEN PrimaryFile ELSE Absent]
    /\ owner = [t \in Threads |-> IF t \in Primaries THEN "live" ELSE "none"]
    /\ class = [t \in Threads |-> IF t \in Primaries THEN "primary" ELSE "none"]
    /\ waiters = [t \in Threads |-> {}]
    /\ rx = <<>> /\ parked = {} /\ admission = NoAdmission /\ deferred = <<>>
    /\ discovered = <<>> /\ known = Primaries
    /\ quiesced = FALSE /\ closed = FALSE /\ teardown = "none" /\ snapshot = {}
    /\ waiting = {} /\ owed = {}
    /\ removed = {} /\ calls = 0 /\ sent = 0 /\ faults = 0

----------------------------------------------------------------------------
(* The thread graph.                                                       *)

\* The n-th thread of the parent chain that starts at a thread.
ParentChain(f, start) ==
    LET up[n \in 0..Cardinality(Threads)] ==
            IF n = 0 THEN start
            ELSE IF up[n - 1] = None THEN None ELSE f[up[n - 1]].parent
    IN  up

parent_chain_is_valid(f, start) ==
    LET up == ParentChain(f, start)
    IN  \E n \in DOMAIN up :
            /\ up[n] # None /\ f[up[n]].kind = "primary"
            /\ \A i \in 0..(n - 1) : f[up[i]].kind = "subagent"

\* A chain that does not end is a cycle, and taken to reach everything.
parent_chain_reaches(f, start, target) ==
    LET up == ParentChain(f, start)
    IN  \/ \E n \in DOMAIN up : up[n] = target
        \/ up[Cardinality(Threads)] # None

\* Mutant: the chain above the parent a link names is not looked at.
ReportedOnly(f, p, c) == Reported[c] \in {None, p}

\* Whether the parent a link names may own the thread.
MayOwn(f, p, c) == parent_chain_is_valid(f, p) /\ Reported[c] \in {None, p}

\* What admitting a thread makes of its file, and whether it is given an owner.
\* For an existing file this is classify_existing_link and what follows it.
Admitted(f, a) ==
    LET c == a.thread
        p == a.parent
        current == f[c]
        refused == [file |-> current, install |-> FALSE]
        as(g)   == [file |-> g, install |-> TRUE]
    IN  CASE a.op = "discovery" /\ current = Absent -> as(Orphan)
          [] a.op = "discovery" /\ current # Absent ->
                IF current.kind = "primary" THEN refused ELSE as(current)
          [] a.op = "link" /\ current = Absent -> as(IF MayOwn(f, p, c) THEN ChildOf(p) ELSE Orphan)
          [] a.op = "link" /\ current.kind = "primary" -> refused
          [] a.op = "link" /\ current.kind = "subagent" ->
                IF current.parent = p /\ ~ (f[p].parent = c) THEN as(current) ELSE refused
          [] OTHER ->
                IF c = p \/ parent_chain_reaches(f, p, c) THEN refused
                ELSE as(IF MayOwn(f, p, c) THEN ChildOf(p) ELSE Orphan)

----------------------------------------------------------------------------
(* The deferred admissions.                                                *)

\* One entry per native thread; a discovery never replaces a link.
queue_deferred(q, a) ==
    IF \E i \in DOMAIN q : q[i].thread = a.thread
    THEN [i \in DOMAIN q |->
             IF q[i].thread = a.thread /\ ~ (q[i].op = "link" /\ a.op = "discovery")
             THEN a ELSE q[i]]
    ELSE Append(q, a)

\* Mutant: a link is only kept while its parent's owner runs.
KeepLive(own, f, a) == a.op = "discovery" \/ own[a.parent] = "live"

\* Whether an admission that cannot start now may start later.
Keep(own, f, a) == a.op = "discovery" \/ f[a.parent] # Absent

Begin(a) == [work |-> a, step |-> "begun", file |-> Absent]

CanStart(own, a) == a.op = "discovery" \/ own[a.parent] = "live"

\* The entries of a queue that may start later, in their order.
Kept(own, f, q) ==
    LET kept[n \in 0..Len(q)] ==
            IF n = 0 THEN <<>>
            ELSE IF Keep(own, f, q[n]) THEN Append(kept[n - 1], q[n]) ELSE kept[n - 1]
    IN  kept[Len(q)]

\* start_deferred: the first entry that can start does; the ones before it go
\* to the back of the queue, or away when their parent's file is gone.
start_deferred(own, f, q, adm, quiet) ==
    LET ready == {i \in DOMAIN q : CanStart(own, q[i])}
        first == CHOOSE i \in ready : \A j \in ready : i <= j
    IN  IF quiet \/ adm # NoAdmission THEN [admission |-> adm, deferred |-> q]
        ELSE IF ready = {} THEN [admission |-> NoAdmission, deferred |-> Kept(own, f, q)]
        ELSE [admission |-> Begin(q[first]),
              deferred  |-> SubSeq(q, first + 1, Len(q)) \o Kept(own, f, SubSeq(q, 1, first - 1))]

\* The driver goes on with the deferred admissions, the owners being own, the
\* files f and the queue q.
Wake(own, f, q, adm, quiet) ==
    LET woken == start_deferred(own, f, q, adm, quiet)
    IN  admission' = woken.admission /\ deferred' = woken.deferred

----------------------------------------------------------------------------
(* The requests.                                                           *)

Busy(k) == k \in waiting

Send(k, command) ==
    /\ ~ closed /\ ~ Busy(k)
    /\ rx' = Append(rx, command)
    /\ waiting' = waiting \cup {k}

\* Handlers and openers each wait for one answer at a time.
Call(k, command) ==
    /\ teardown \notin {"stopped", "gone"}   \* event_driver finds no slot
    /\ calls < MaxCalls /\ calls' = calls + 1
    /\ Send(k, command)
    /\ UNCHANGED <<parked, admission, deferred, quiesced, closed, harness, threads,
                   sent, faults, removed, teardown, snapshot, owed>>

\* open_thread and attach_subagent_thread: a thread with a coordinator is
\* reused without asking, an orphan is never opened.
RequestAttach(k, t) ==
    /\ file[t].kind \in {"primary", "subagent"}
    /\ owner[t] = "none"
    /\ Call(k, Attach(t, file[t].kind, k))

\* forget_thread, for a thread of a subtree that is retired.
RequestDetach(k, t) ==
    /\ owner[t] # "none" /\ class[t] # "orphan"
    /\ Call(k, Detach(t, k))

\* open_subagent_link: the user opens the child an activity names.
RequestLink(k, p, c) ==
    /\ <<p, c>> \in Links /\ owner[p] # "none"
    /\ Call(k, Link(p, c, k))

\* send_subagent_link: the owner of a thread reports a sub-agent activity.
OwnerLink(p, c) ==
    /\ sent < MaxLinks /\ sent' = sent + 1
    /\ <<p, c>> \in Links /\ owner[p] \in {"live", "detaching"} /\ ~ closed
    /\ rx' = Append(rx, Link(p, c, None))
    /\ owed' = owed \cup {<<p, c>>}
    /\ UNCHANGED <<parked, admission, deferred, quiesced, closed, harness, threads,
                   calls, faults, removed, teardown, snapshot, waiting>>

\* The harness meets traffic of a native thread it has no binding for.
Announce(t) ==
    /\ t \notin known
    /\ known' = known \cup {t}
    /\ discovered' = Append(discovered, t)
    /\ UNCHANGED <<driver, threads, bounds, teardown, snapshot, waiting, owed>>

\* The last step of a thread's deletion, its owner retired or gone by itself.  Which
\* threads go, and in which order, is the deletion's plan: here it is any of them,
\* whatever is still recorded under it.
Remove(t) ==
    /\ Cardinality(removed) < MaxRemovals /\ removed' = removed \cup {t}
    /\ file[t].kind \in {"primary", "subagent"} /\ owner[t] = "none" /\ teardown = "none"
    /\ file' = [file EXCEPT ![t] = Absent]
    /\ UNCHANGED <<driver, harness, owner, class, waiters, calls, sent, faults,
                   teardown, snapshot, waiting, owed>>

----------------------------------------------------------------------------
(* The driver's own handlers.                                              *)

\* What comes of an attach; that of a detaching thread is parked with its reply.
AttachResult(own, cls, t, k) ==
    CASE quiesced -> "refused"
      [] ~ quiesced /\ own[t] = "detaching" -> "parked"
      [] ~ quiesced /\ own[t] = "live" -> IF cls[t] = k THEN "reused" ELSE "refused"
      [] ~ quiesced /\ own[t] = "failed" -> "refused"
      [] OTHER -> "installed"

Installed(own, t, result) == IF result = "installed" THEN [own EXCEPT ![t] = "live"] ELSE own
Classed(cls, t, k, result) == IF result = "installed" THEN [cls EXCEPT ![t] = k] ELSE cls

Answer(k) == waiting' = waiting \ {k}

TakeAttach ==
    /\ rx # <<>> /\ Head(rx).op = "attach"
    /\ LET a == Head(rx)
           r == AttachResult(owner, class, a.thread, a.class)
       IN  /\ owner' = Installed(owner, a.thread, r)
           /\ class' = Classed(class, a.thread, a.class, r)
           /\ parked' = IF r = "parked" THEN parked \cup {a} ELSE parked
           /\ IF r = "parked" THEN UNCHANGED waiting ELSE Answer(a.by)
    /\ UNCHANGED <<waiters, quiesced, teardown, snapshot, owed>>
    /\ Wake(owner', file, deferred, NoAdmission, quiesced)

\* A detach of a live owner is answered when that owner exits.
TakeDetach ==
    /\ rx # <<>> /\ Head(rx).op = "detach"
    /\ LET d == Head(rx)
       IN  \/ /\ owner[d.thread] \in {"live", "detaching"}
              /\ owner' = [owner EXCEPT ![d.thread] = "detaching"]
              /\ waiters' = [waiters EXCEPT ![d.thread] = @ \cup {d.by}]
              /\ UNCHANGED <<waiting, admission, deferred, class>>
           \/ /\ owner[d.thread] \in {"none", "failed"}
              /\ owner' = [owner EXCEPT ![d.thread] = "none"]
              /\ class' = [class EXCEPT ![d.thread] = "none"]
              /\ Answer(d.by)
              /\ Wake(owner', file, deferred, NoAdmission, quiesced)
              /\ UNCHANGED waiters
    /\ UNCHANGED <<parked, quiesced, teardown, snapshot, owed>>

\* begin_link.  Without a reply the link is kept for a parent that may return.
TakeLink ==
    /\ rx # <<>> /\ Head(rx).op = "link"
    /\ LET l == Head(rx)
           live == owner[l.parent] = "live"
       IN  \/ /\ ~ quiesced /\ live
              /\ admission' = Begin(l)
              /\ UNCHANGED <<deferred, waiting>>
           \/ /\ quiesced \/ ~ live
              /\ l.by # None
              /\ Answer(l.by)
              /\ UNCHANGED <<admission, deferred>>
           \/ /\ quiesced \/ ~ live
              /\ l.by = None
              /\ deferred' = IF quiesced \/ Keep(owner, file, l)
                             THEN queue_deferred(deferred, l) ELSE deferred
              /\ UNCHANGED <<admission, waiting>>
    /\ UNCHANGED <<owner, class, waiters, parked, quiesced, teardown, snapshot, owed>>

TakeQuiesce ==
    /\ rx # <<>> /\ Head(rx).op = "quiesce"
    /\ quiesced' = TRUE
    /\ teardown' = "quiesced"
    /\ Answer(Project)
    /\ UNCHANGED <<owner, class, waiters, parked, admission, deferred, snapshot, owed>>

TakeResume ==
    /\ rx # <<>> /\ Head(rx).op = "resume"
    /\ quiesced' = FALSE
    /\ teardown' = "none"
    /\ Answer(Project)
    /\ Wake(owner, file, deferred, NoAdmission, FALSE)
    /\ UNCHANGED <<owner, class, waiters, parked, snapshot, owed>>

\* The channel is read only between admissions.
Receives == ~ closed /\ admission = NoAdmission

TakeCommand ==
    /\ Receives
    /\ TakeAttach \/ TakeDetach \/ TakeLink \/ TakeQuiesce \/ TakeResume
    /\ rx' = Tail(rx)
    /\ UNCHANGED <<file, closed, harness, bounds>>

TakeDiscovery ==
    /\ ~ closed /\ admission = NoAdmission /\ ~ quiesced
    /\ discovered # <<>>
    /\ admission' = Begin(Discovery(Head(discovered)))
    /\ discovered' = Tail(discovered)
    /\ UNCHANGED <<rx, parked, deferred, quiesced, closed, known, threads, bounds,
                   teardown, snapshot, waiting, owed>>

----------------------------------------------------------------------------
(* The admission in flight.                                                *)

\* The parent's file is gone, or the provider no longer has the native thread.
ClaimRefused ==
    /\ admission.work.op = "link"
    /\ file[admission.work.parent] = Absent \/ admission.work.thread \in removed

\* The parent's file is read and the native thread claimed.
AdmitClaim ==
    /\ admission.step = "begun"
    /\ ~ ClaimRefused
    /\ admission' = [admission EXCEPT !.step = "claimed"]
    /\ known' = known \cup {admission.work.thread}
    /\ UNCHANGED <<rx, parked, deferred, quiesced, closed, discovered, threads, bounds,
                   teardown, snapshot, waiting, owed>>

\* Mutant: the coordinator of a classified orphan keeps calling it one.
ClassKept(f, t) == class[t]

\* classify_orphan_as_subagent on the coordinator, if there is one.
Reclassified(f, t) == IF owner[t] # "none" /\ class[t] = "orphan" THEN f.kind ELSE class[t]

\* The thread's file and the graph are read, and what to do is decided on them.
AdmitRead ==
    /\ admission.step = "claimed"
    /\ LET t == admission.work.thread
           r == Admitted(file, admission.work)
       IN  admission' = [work |-> admission.work, file |-> r.file,
                         step |-> CASE r.file # file[t] -> "writing"
                                    [] r.file = file[t] /\ r.install -> "recorded"
                                    [] OTHER -> "refused"]
    /\ UNCHANGED <<rx, parked, deferred, quiesced, closed, harness, threads, bounds,
                   teardown, snapshot, waiting, owed>>

\* The file is created or classified as the read decided, though the threads above it
\* may have gone in the meantime.
AdmitWrite ==
    /\ admission.step = "writing"
    /\ LET t == admission.work.thread
           g == admission.file
       IN  /\ file' = [file EXCEPT ![t] = g]
           /\ class' = [class EXCEPT ![t] = Reclassified(g, t)]
    /\ admission' = [admission EXCEPT !.step = "recorded"]
    /\ UNCHANGED <<rx, parked, deferred, quiesced, closed, harness, owner, waiters, bounds,
                   teardown, snapshot, waiting, owed>>

\* finish_admission_reply with an error: a link that nobody waits for, and
\* every discovery, is tried again.
AdmissionFailed ==
    /\ admission' = NoAdmission
    /\ deferred' = IF admission.work.by = None THEN queue_deferred(deferred, admission.work)
                   ELSE deferred
    /\ Answer(admission.work.by)
    /\ UNCHANGED owed

\* The store or the harness fails.
AdmitFault ==
    /\ faults < MaxFaults /\ faults' = faults + 1
    /\ admission.step \in {"begun", "claimed", "writing"}
    /\ AdmissionFailed
    /\ UNCHANGED <<rx, parked, quiesced, closed, harness, threads, calls, sent, removed,
                   teardown, snapshot>>

AdmitRefused ==
    /\ admission.step = "begun"
    /\ ClaimRefused
    /\ AdmissionFailed
    /\ UNCHANGED <<rx, parked, quiesced, closed, harness, threads, bounds, teardown, snapshot>>

\* finish_admission: the admitted thread is attached, its caller answered, and
\* the deferred admissions go on after a success.
AdmitFinish ==
    /\ admission.step \in {"recorded", "refused"}
    /\ LET a == admission.work
           t == a.thread
           k == admission.file.kind
           r == IF admission.step = "refused" THEN "nothing"
                ELSE AttachResult(owner, class, t, k)
       IN  /\ owner' = Installed(owner, t, r)
           /\ class' = Classed(class, t, k, r)
           /\ parked' = IF r = "parked" THEN parked \cup {Attach(t, k, None)} ELSE parked
           /\ \/ r = "refused" /\ AdmissionFailed
              \/ /\ r # "refused"
                 /\ Answer(a.by)
                 /\ owed' = IF a.op = "link" THEN {l \in owed : l[2] # t} ELSE owed
                 /\ Wake(owner', file, deferred, NoAdmission, quiesced)
    /\ UNCHANGED <<rx, quiesced, closed, harness, file, waiters, bounds, teardown, snapshot>>

----------------------------------------------------------------------------
(* The owners' exits.                                                      *)

\* Mutant: a detached owner answers only the request that detached it first.
AnswerOne(t) == IF waiters[t] = {} THEN {} ELSE {CHOOSE k \in waiters[t] : TRUE}

AnsweredBy(t) == waiters[t]

\* A detached owner's slot is cleared, its detaches are answered, and the
\* attaches parked on it are tried again: the first installs, the others find
\* its owner.
OwnerDetached(t) ==
    /\ owner[t] = "detaching"
    /\ LET again == {a \in parked : a.thread = t}
       IN  /\ parked' = parked \ again
           /\ waiters' = [waiters EXCEPT ![t] = {}]
           /\ waiting' = (waiting \ AnsweredBy(t)) \ {a.by : a \in again}
           /\ \/ /\ quiesced \/ again = {}
                 /\ owner' = [owner EXCEPT ![t] = "none"]
                 /\ class' = [class EXCEPT ![t] = "none"]
              \/ /\ ~ quiesced
                 /\ \E a \in again :
                        /\ owner' = [owner EXCEPT ![t] = "live"]
                        /\ class' = [class EXCEPT ![t] = a.class]
    /\ Wake(owner', file, deferred, admission, quiesced)
    /\ UNCHANGED <<rx, quiesced, closed, harness, file, bounds, teardown, snapshot, owed>>

\* An owner that fails is removed, unless a turn could not be persisted.
OwnerFails(t) ==
    /\ owner[t] = "live"
    /\ \/ /\ teardown \in {"stopped", "gone"}   \* its log was closed
          /\ owner' = [owner EXCEPT ![t] = "none"]
          /\ UNCHANGED faults
       \/ /\ faults < MaxFaults /\ faults' = faults + 1
          /\ \E phase \in {"none", "failed"} : owner' = [owner EXCEPT ![t] = phase]
    /\ class' = [class EXCEPT ![t] = IF owner'[t] = "none" THEN "none" ELSE @]
    /\ Wake(owner', file, deferred, admission, quiesced)
    /\ UNCHANGED <<rx, parked, quiesced, closed, harness, file, waiters, calls, sent, removed,
                   teardown, snapshot, waiting, owed>>

----------------------------------------------------------------------------
(* The deletion of the project.                                            *)

DeletionSends(command) ==
    /\ Send(Project, command)
    /\ UNCHANGED <<parked, admission, deferred, quiesced, closed, harness, threads,
                   sent, removed, owed>>

DeleteProject ==
    /\ teardown = "none" /\ ~ Busy(Project)
    /\ calls < MaxCalls /\ calls' = calls + 1
    /\ teardown' = "quiescing"
    /\ DeletionSends([op |-> "quiesce", by |-> Project])
    /\ UNCHANGED <<faults, snapshot>>

\* The harness would not stop: the driver is resumed and the deletion fails.
ShutdownFails ==
    /\ teardown = "quiesced" /\ ~ Busy(Project)
    /\ faults < MaxFaults /\ faults' = faults + 1
    /\ teardown' = "resuming"
    /\ DeletionSends([op |-> "resume", by |-> Project])
    /\ UNCHANGED <<calls, snapshot>>

\* The harness stops; the threads that had a coordinator are to be released.
StopHarness ==
    /\ teardown = "quiesced" /\ ~ Busy(Project)
    /\ teardown' = "stopped"
    /\ snapshot' = {t \in Threads : owner[t] # "none"}
    /\ UNCHANGED <<driver, harness, threads, bounds, waiting, owed>>

Release(t) ==
    /\ teardown = "stopped" /\ t \in snapshot
    /\ snapshot' = snapshot \ {t}
    /\ DeletionSends(Detach(t, Project))
    /\ UNCHANGED <<calls, faults, teardown>>

\* The project's files are removed.
FilesGone ==
    /\ teardown = "stopped" /\ snapshot = {} /\ ~ Busy(Project)
    /\ teardown' = "gone"
    /\ file' = [t \in Threads |-> Absent]
    /\ owed' = {}
    /\ UNCHANGED <<driver, harness, owner, class, waiters, bounds, waiting, snapshot>>

\* The last handle is dropped and the driver exits.
Exit ==
    /\ teardown = "gone" /\ rx = <<>> /\ waiting = {} /\ admission = NoAdmission /\ ~ closed
    /\ \A t \in Threads : owner[t] \in {"none", "failed"}
    /\ closed' = TRUE
    /\ parked' = {} /\ deferred' = <<>>
    /\ UNCHANGED <<rx, admission, quiesced, harness, threads, bounds, teardown, snapshot,
                   waiting, owed>>

----------------------------------------------------------------------------

Requests ==
    \/ \E k \in Callers, t \in Threads : RequestAttach(k, t) \/ RequestDetach(k, t)
    \/ \E k \in Callers, l \in Links : RequestLink(k, l[1], l[2])
    \/ DeleteProject

Admit == AdmitClaim \/ AdmitRead \/ AdmitWrite \/ AdmitRefused \/ AdmitFinish

Next ==
    \/ Requests
    \/ \E l \in Links : OwnerLink(l[1], l[2])
    \/ \E t \in Threads : Announce(t) \/ Remove(t)
    \/ TakeCommand
    \/ TakeDiscovery
    \/ Admit
    \/ AdmitFault
    \/ \E t \in Threads : OwnerDetached(t) \/ OwnerFails(t)
    \/ ShutdownFails \/ StopHarness \/ FilesGone \/ Exit
    \/ \E t \in Threads : Release(t)

Spec == Init /\ [][Next]_vars

----------------------------------------------------------------------------
(* Properties.                                                             *)

\* The files as they would be, were every thread of a set one the user started.
WithRoots(f, S) == [t \in Threads |-> IF t \in S THEN PrimaryFile ELSE f[t]]

\* Every sub-agent belongs, through sub-agents, to a thread the user started or to a
\* deleted one, and its chain of parents ends: whatever discoveries, links, retries and
\* deletions race, admission never makes a cycle or hangs a child from a thread that is
\* unclassified.  A thread deleted after an admission read the graph, or before its
\* children, leaves them under it.
ForestIsSound ==
    \A t \in Threads : file[t].kind = "subagent" =>
        /\ parent_chain_is_valid(WithRoots(file, removed), t)
        /\ parent_chain_is_valid(WithRoots(file, {x \in Threads : file[x].kind # "subagent"}), t)

\* The driver keeps one deferred admission per native thread, parks and waits only
\* behind an owner that is detaching, and leaves a sound forest in the files.
DriverIsSound == TypeOK /\ ForestIsSound

\* A link nobody waits for is the only record of a child's parent: until the
\* child is classified, an admission of it settles otherwise, or it or a thread
\* that names it is deleted, the driver holds a link for the child in its channel, in
\* flight or deferred.
Holds(t) ==
    \/ \E i \in DOMAIN rx : rx[i].op = "link" /\ rx[i].thread = t /\ rx[i].by = None
    \/ admission # NoAdmission /\ admission.work.op = "link" /\ admission.work.thread = t
    \/ \E i \in DOMAIN deferred : deferred[i].op = "link" /\ deferred[i].thread = t

OwedLinkIsHeld ==
    \A l \in owed :
        \/ Holds(l[2])
        \/ file[l[2]].kind \in {"primary", "subagent"}
        \/ \E t \in removed : t = l[2] \/ <<t, l[2]>> \in Links

\* Between admissions the kind of thread an owner runs as is the one its file
\* records, so that opening the thread finds a compatible owner.
OwnerKnowsItsKind ==
    admission = NoAdmission =>
        \A t \in Threads : owner[t] = "live" /\ t \notin removed => class[t] = file[t].kind

\* A deleted project leaves no owner behind: every thread that had one when the
\* harness stopped was released through the driver before the files went.
GoneProjectIsUnowned == teardown = "gone" => \A t \in Threads : owner[t] = "none"

\* The owners match the threads on disk, while the project lives and after.
OwnersMatchThreads == OwnerKnowsItsKind /\ GoneProjectIsUnowned

\* Nobody waits for an answer that cannot come: a caller without one is in the
\* channel, is the caller of the admission in flight, is parked behind a detach,
\* or waits for an owner that is detaching.
CallerIsHeld ==
    \A k \in waiting :
        \/ \E i \in DOMAIN rx : rx[i].by = k
        \/ admission # NoAdmission /\ admission.work.by = k
        \/ \E a \in parked : a.by = k
        \/ \E t \in Threads : owner[t] = "detaching" /\ k \in waiters[t]

=============================================================================
