--------------------------- MODULE ThreadDeletion ---------------------------
(***************************************************************************)
(* The background deletion of a thread and its sub-agents: the DELETE       *)
(* handler that takes the project's lifecycle lock, fences and retires the  *)
(* subtree and cuts the plan; the cascade that deletes the plan leaf-first  *)
(* under that lock, each step with a bound; and what runs beside them: the  *)
(* opening of a thread, turns, the admission of a sub-agent, the removal of *)
(* files on a task of its own, cancel and dismiss, the deletion of the      *)
(* project, a request dropped by its client, shutdown and a crash.          *)
(*                                                                         *)
(* One project.  A step is what a task does between two awaits that matter: *)
(* the reads of the thread graph and of the runtime state that follow one   *)
(* another are one step, and an attach or a detach, which ProjectDriver     *)
(* models, is one step of its caller.                                       *)
(***************************************************************************)
EXTENDS Naturals, Sequences, FiniteSets, SequencesExt

CONSTANTS
    Threads,     \* the threads that may exist in the project
    Parent,      \* the parent of each, or None for a thread the user started
    Late,        \* the threads that do not exist yet
    Requests,    \* DELETE requests, of a thread or of the project
    MaxFaults,   \* bound: restarts of the process and owners that exit by themselves
    None

ASSUME ThreadDeletionAssumption ==
    /\ IsFiniteSet(Threads) /\ None \notin Threads \cup Requests
    /\ Parent \in [Threads -> Threads \cup {None}]
    \* A parent is older than its children: no thread is its own ancestor.
    /\ \A S \in SUBSET Threads : S # {} => \E t \in S : Parent[t] \notin S
    /\ Late \subseteq {t \in Threads : Parent[t] # None}
    /\ MaxFaults \in Nat

VARIABLES
    file,      \* where each thread's directory is
    native,    \* the threads the provider still has
    owner,     \* the threads with an event owner
    busy,      \* the threads with an active turn or running commands
    admitting, \* sub-agents whose admission is in flight
    opener,    \* the one open of a thread in flight (opens of a thread are serialized)
    record,    \* Jobs.by_root
    members,   \* Jobs.members
    lock,      \* the request that holds the project's lifecycle lock
    req,       \* the requests, each with its cascade
    removal,   \* the file removal each request has spawned
    stopping,  \* the registry is shutting down
    faults     \* faults so far

sessions == <<native, owner, busy, admitting, opener>>
service  == <<record, members>>
vars     == <<file, sessions, service, lock, req, removal, stopping, faults>>

Primaries == {t \in Threads : Parent[t] = None}
NoRecord  == [state |-> "none", deleted |-> 0, cancel |-> FALSE]
Unclaimed == [t \in Threads |-> None]
Idle      == [pc |-> "idle", thread |-> None]
NoRemoval == [state |-> "none", thread |-> None]
New       == [pc |-> "new", root |-> None, plan |-> <<>>, retired |-> 0, deleted |-> 0]

Reserving == {"retiring", "retired"}              \* a DeletionReservation is held
Cascading == {"next", "native", "removing"}       \* the spawned task works through the plan
Guarded   == {"starting"} \cup Cascading          \* a RunGuard is held
Handling  == {"waiting", "locked", "checked", "starting"} \cup Reserving
Removing  == {"projectWaiting", "projectLocked", "projectStopped", "projectGone"}
Pcs       == Handling \cup Cascading \cup Removing \cup {"new", "ending", "over"}

TypeOK ==
    /\ file \in [Threads -> {"none", "listed", "renamed", "gone"}]
    /\ busy \subseteq owner /\ owner \subseteq Threads /\ native \subseteq Threads
    /\ admitting \subseteq Late
    /\ opener \in [pc : {"idle", "checked", "opened"}, thread : Threads \cup {None}]
    /\ record \in [Threads -> [state : {"none", "running", "failed", "cancelled"},
                               deleted : 0..Cardinality(Threads), cancel : BOOLEAN]]
    /\ members \in [Threads -> Threads \cup {None}]
    /\ lock \in Requests \cup {None}
    /\ \A h \in Requests :
          /\ req[h].pc \in Pcs
          /\ req[h].root \in Threads \cup {None}
          /\ req[h].plan \in Seq(Threads) /\ IsInjective(req[h].plan)
          /\ {req[h].retired, req[h].deleted} \subseteq 0..Len(req[h].plan)
    /\ removal \in [Requests -> [state : {"none", "waiting", "working", "ok", "err"},
                                 thread : Threads \cup {None}]]
    /\ stopping \in BOOLEAN

Init ==
    /\ file = [t \in Threads |-> IF t \in Late THEN "none" ELSE "listed"]
    /\ native = Threads \ Late /\ owner = Threads \ Late
    /\ busy = {} /\ admitting = {} /\ opener = Idle
    /\ record = [t \in Threads |-> NoRecord] /\ members = Unclaimed
    /\ lock = None /\ req = [h \in Requests |-> New]
    /\ removal = [h \in Requests |-> NoRemoval]
    /\ stopping = FALSE /\ faults = 0

----------------------------------------------------------------------------
(* The thread graph and the service's two maps.                            *)

Listed(t) == file[t] = "listed"

\* A set that holds the root, if it is listed, and the listed children of its members.
HoldsSubtree(root, S) ==
    /\ Listed(root) => root \in S
    /\ \A t \in Threads : Listed(t) /\ Parent[t] \in S => t \in S

\* A listed thread and the listed threads below it: the smallest such set.
Subtree(root) ==
    {t \in Threads : \A S \in SUBSET Threads : HoldsSubtree(root, S) => t \in S}

LeafFirstOrder(s) ==
    \A i, j \in DOMAIN s : Parent[s[i]] = s[j] => i < j

descendant_deletion_order(root) ==
    CHOOSE s \in SetToSeqs(Subtree(root)) : LeafFirstOrder(s)

project_has_running == \E r \in Threads : record[r].state = "running"

Released(root) == [t \in Threads |-> IF members[t] = root THEN None ELSE members[t]]

Claimed(root, s) == [t \in Threads |-> IF t \in Range(s) THEN root ELSE members[t]]

At(h, pc) == req[h].pc = pc
Goto(h, pc) == req' = [req EXCEPT ![h].pc = pc]
Over(h) == req' = [req EXCEPT ![h] = [New EXCEPT !.pc = "over"]]

\* The guard of a task that ends without a terminal state.
DropRunGuard(h) ==
    /\ members' = Released(req[h].root)
    /\ record' = [record EXCEPT ![req[h].root].state =
                     IF @ = "none" THEN "none" ELSE "failed"]

\* What a handler lets go of when it returns early or its client hangs up.
DropHandler(h) ==
    /\ Over(h)
    /\ lock' = IF lock = h THEN None ELSE lock
    /\ IF At(h, "starting") THEN DropRunGuard(h)
       ELSE IF req[h].pc \in Reserving
       THEN /\ members' = Released(req[h].root)
            /\ record' = [record EXCEPT ![req[h].root] = NoRecord]
       ELSE UNCHANGED service
    /\ UNCHANGED <<file, sessions, removal, stopping, faults>>

HangUp(h) == req[h].pc \in Handling \cup Removing /\ DropHandler(h)

----------------------------------------------------------------------------
(* DELETE of a thread: the preflight, the fence, the plan.                 *)

Request(h, r) ==
    /\ At(h, "new") /\ ~stopping
    /\ ~project_has_running
    /\ req' = [req EXCEPT ![h].pc = "waiting", ![h].root = r]
    /\ UNCHANGED <<file, sessions, service, lock, removal, stopping, faults>>

Acquire(h) ==
    /\ At(h, "waiting") /\ lock = None
    /\ lock' = h /\ Goto(h, "locked")
    /\ UNCHANGED <<file, sessions, service, removal, stopping, faults>>

AcquireTimesOut(h) ==
    /\ At(h, "waiting") /\ lock # None
    /\ DropHandler(h)

Live(t) == t \in busy

Preflight(h) ==
    /\ At(h, "locked")
    /\ LET order == descendant_deletion_order(req[h].root)
       IN  IF order # <<>> /\ \A t \in Range(order) : members[t] = None /\ ~Live(t)
           THEN /\ req' = [req EXCEPT ![h].pc = "checked", ![h].plan = order]
                /\ UNCHANGED <<file, sessions, service, lock, removal, stopping, faults>>
           ELSE DropHandler(h)

\* A worktree holds work, or Git cannot say.
WorktreeRefuses(h) == At(h, "checked") /\ DropHandler(h)

reserve(h) ==
    /\ At(h, "checked")
    /\ IF project_has_running THEN DropHandler(h)
       ELSE /\ record' = [record EXCEPT ![req[h].root] = [NoRecord EXCEPT !.state = "running"]]
            /\ members' = Claimed(req[h].root, req[h].plan)
            /\ Goto(h, "retiring")
            /\ UNCHANGED <<file, sessions, lock, removal, stopping, faults>>

\* The driver takes a detach once no admission is in flight; a thread without an
\* owner is not waited for.
MayRetire(t) == t \in owner => admitting = {}

\* The owners of the planned threads are detached one after another.
retire_threads(h) ==
    /\ At(h, "retiring")
    /\ IF req[h].retired = Len(req[h].plan)
       THEN Goto(h, "retired") /\ UNCHANGED <<owner, busy>>
       ELSE LET t == req[h].plan[req[h].retired + 1]
            IN  /\ MayRetire(t)
                /\ owner' = owner \ {t} /\ busy' = busy \ {t}
                /\ req' = [req EXCEPT ![h].retired = @ + 1]
    /\ UNCHANGED <<file, native, admitting, opener, service, lock, removal, stopping, faults>>

\* Mutant: the fence is not topped up with the threads admitted since.
FenceAsReserved(h, order) == members

TopUp(h, order) == Claimed(req[h].root, order)

\* The graph is read again, the subtree checked again, and the cascade takes over.
start(h) ==
    /\ At(h, "retired")
    /\ LET order == descendant_deletion_order(req[h].root)
       IN  IF order = <<>> \/ \E t \in Range(order) : Live(t)
           THEN DropHandler(h)
           ELSE /\ members' = TopUp(h, order)
                /\ req' = [req EXCEPT ![h].pc = "starting", ![h].plan = order, ![h].retired = 0]
                /\ UNCHANGED <<file, sessions, record, lock, removal, stopping, faults>>

\* The record's terminal state; the subtree is free again, the lock still held.
finish(h, state, deleted) ==
    /\ members' = Released(req[h].root)
    /\ record' = [record EXCEPT ![req[h].root] =
                     IF @.state = "none" \/ state = "done" THEN NoRecord
                     ELSE [@ EXCEPT !.state = state, !.deleted = deleted]]
    /\ req' = [req EXCEPT ![h].pc = "ending", ![h].deleted = deleted]

Stopped == IF stopping THEN "cancelled" ELSE "failed"

spawn(h) ==
    /\ At(h, "starting")
    /\ IF stopping THEN finish(h, "cancelled", 0)
       ELSE Goto(h, "next") /\ UNCHANGED service
    /\ UNCHANGED <<file, sessions, lock, removal, stopping, faults>>

----------------------------------------------------------------------------
(* The cascade.                                                            *)

Current(h) == req[h].plan[req[h].deleted + 1]
More(h)    == req[h].deleted < Len(req[h].plan)

CascadeOnly == UNCHANGED <<file, sessions, lock, removal, stopping, faults>>

\* The safe point between two threads.
CascadeStops(h) ==
    /\ At(h, "next") /\ More(h)
    /\ record[req[h].root].cancel \/ stopping
    /\ finish(h, "cancelled", req[h].deleted)
    /\ CascadeOnly

CascadeContinues(h) ==
    /\ At(h, "next") /\ More(h)
    /\ ~record[req[h].root].cancel /\ ~stopping
    /\ Goto(h, "native")
    /\ UNCHANGED service /\ CascadeOnly

CascadeDone(h) ==
    /\ At(h, "next") /\ ~More(h)
    /\ finish(h, "done", req[h].deleted)
    /\ CascadeOnly

\* The worktree cannot be removed, or the harness refuses.
StepFails(h) ==
    /\ At(h, "native")
    /\ finish(h, Stopped, req[h].deleted)
    /\ CascadeOnly

\* The native delete outran its bound, before or after the provider obeyed.
NativeTimesOut(h) ==
    /\ At(h, "native")
    /\ native' \in {native, native \ {Current(h)}}
    /\ finish(h, Stopped, req[h].deleted)
    /\ UNCHANGED <<file, owner, busy, admitting, opener, lock, removal, stopping, faults>>

\* The native thread is deleted, its owner retired, and the file removal spawned.
NativeDeleted(h) ==
    /\ At(h, "native") /\ ~stopping /\ MayRetire(Current(h))
    /\ native' = native \ {Current(h)}
    /\ owner' = owner \ {Current(h)} /\ busy' = busy \ {Current(h)}
    /\ removal' = [removal EXCEPT ![h] = [state |-> "waiting", thread |-> Current(h)]]
    /\ Goto(h, "removing")
    /\ UNCHANGED <<file, admitting, opener, service, lock, stopping, faults>>

\* One thread more: the running record is published with the new count.
Deleted(h) ==
    /\ req' = [req EXCEPT ![h].pc = "next", ![h].deleted = @ + 1]
    /\ record' = [record EXCEPT ![req[h].root].deleted =
                     IF record[req[h].root].state = "none" THEN @ ELSE @ + 1]
    /\ UNCHANGED members

RemovalSeen(h) ==
    /\ At(h, "removing") /\ removal[h].state \in {"ok", "err"}
    /\ IF removal[h].state = "ok" THEN Deleted(h)
       ELSE finish(h, Stopped, req[h].deleted)
    /\ removal' = [removal EXCEPT ![h] = NoRemoval]
    /\ UNCHANGED <<file, sessions, lock, stopping, faults>>

\* Mutant: the cascade goes on while the files of a thread are still there.
CarryOn(h) == Deleted(h)

\* Mutant: the cascade counts what is left as done.
ReportDone(h) == finish(h, "done", req[h].deleted + 1)

\* The removal outran its bound: the last thread counts, any other ends the cascade.
RemovalStillRunning(h) ==
    IF req[h].deleted + 1 = Len(req[h].plan) THEN Deleted(h)
    ELSE finish(h, Stopped, req[h].deleted + 1)

\* Mutant: the wait for the removal has no bound.
WaitForever(h) == FALSE

RemovalTimesOut(h) ==
    /\ At(h, "removing") /\ removal[h].state \in {"waiting", "working"}
    /\ RemovalStillRunning(h)
    /\ CascadeOnly

DropLock(h) ==
    /\ At(h, "ending")
    /\ lock' = None /\ Over(h)
    /\ UNCHANGED <<file, sessions, service, removal, stopping, faults>>

Cascade(h) ==
    \/ spawn(h) \/ CascadeStops(h) \/ CascadeContinues(h) \/ CascadeDone(h)
    \/ StepFails(h) \/ NativeTimesOut(h) \/ NativeDeleted(h)
    \/ RemovalSeen(h) \/ RemovalTimesOut(h) \/ DropLock(h)

----------------------------------------------------------------------------
(* PersistStore::delete_thread, on a task the cascade never cancels.       *)

RemovalOnly == UNCHANGED <<sessions, service, lock, req, stopping, faults>>

\* The result is for the cascade; what comes after its end is only logged.
Result(h, state) ==
    removal' = [removal EXCEPT ![h] =
                   IF At(h, "over") THEN NoRemoval ELSE [@ EXCEPT !.state = state]]

\* Under the store's lock of the thread the directory is renamed out of the listing.
RemovalRenames(h) ==
    /\ removal[h].state = "waiting"
    /\ \A k \in Requests : ~(removal[k].state = "working" /\ removal[k].thread = removal[h].thread)
    /\ file' = [file EXCEPT ![removal[h].thread] = IF @ = "listed" THEN "renamed" ELSE @]
    /\ removal' = [removal EXCEPT ![h].state = "working"]
    /\ RemovalOnly

RemovalEnds(h) ==
    /\ removal[h].state = "working"
    /\ file' = [file EXCEPT ![removal[h].thread] = IF @ = "renamed" THEN "gone" ELSE @]
    /\ Result(h, "ok")
    /\ RemovalOnly

RemovalFails(h) ==
    /\ removal[h].state \in {"waiting", "working"}
    /\ Result(h, "err")
    /\ UNCHANGED file
    /\ RemovalOnly

----------------------------------------------------------------------------
(* The other tasks.                                                        *)

ServiceOnly == UNCHANGED <<file, sessions, lock, req, removal, stopping, faults>>

cancel(r) ==
    /\ record[r].state = "running" /\ ~record[r].cancel
    /\ record' = [record EXCEPT ![r].cancel = TRUE]
    /\ UNCHANGED members /\ ServiceOnly

dismiss(r) ==
    /\ record[r].state \in {"failed", "cancelled"}
    /\ record' = [record EXCEPT ![r] = NoRecord]
    /\ UNCHANGED members /\ ServiceOnly

SessionsOnly == UNCHANGED <<file, service, lock, req, removal, stopping, faults>>

\* ensure_thread_open looks at the fence once, at its start.
OpenChecks(t) ==
    /\ opener = Idle /\ members[t] = None /\ t \notin owner /\ Listed(t)
    /\ opener' = [pc |-> "checked", thread |-> t]
    /\ UNCHANGED <<native, owner, busy, admitting>> /\ SessionsOnly

OpenNative ==
    /\ opener.pc = "checked"
    /\ opener' = IF Listed(opener.thread) /\ opener.thread \in native /\ ~stopping
                 THEN [opener EXCEPT !.pc = "opened"] ELSE Idle
    /\ UNCHANGED <<native, owner, busy, admitting>> /\ SessionsOnly

OpenAttaches ==
    /\ opener.pc = "opened"
    /\ owner' = owner \cup {opener.thread} /\ opener' = Idle
    /\ UNCHANGED <<native, busy, admitting>> /\ SessionsOnly

\* A turn of the user's, or the work a parent's turn gives to a sub-agent.
StartTurn(t) ==
    /\ t \in owner \ busy
    /\ IF t \in Primaries THEN members[t] = None ELSE Parent[t] \in busy
    /\ busy' = busy \cup {t}
    /\ UNCHANGED <<native, owner, admitting, opener>> /\ SessionsOnly

EndTurn(t) ==
    /\ t \in busy
    /\ busy' = busy \ {t}
    /\ UNCHANGED <<native, owner, admitting, opener>> /\ SessionsOnly

\* A thread's event stream ends, and its owner with it.
OwnerExits(t) ==
    /\ faults < MaxFaults /\ faults' = faults + 1
    /\ t \in owner \ busy
    /\ owner' = owner \ {t}
    /\ UNCHANGED <<native, busy, admitting, opener>>
    /\ UNCHANGED <<file, service, lock, req, removal, stopping>>

\* A link to a sub-agent that a turn of the parent spawned: with a live parent the
\* driver begins the admission, one at a time, which finds the parent in the graph, ...
AdmitBegins(t) ==
    /\ admitting = {}
    /\ t \in Late /\ file[t] = "none" /\ Parent[t] \in owner /\ Listed(Parent[t])
    /\ admitting' = {t}
    /\ UNCHANGED <<native, owner, busy, opener>> /\ SessionsOnly

\* ... and records the sub-agent later, whatever has become of the parent, ...
AdmitRecords(t) ==
    /\ t \in admitting /\ file[t] = "none"
    /\ admitting' = {}
    /\ file' = [file EXCEPT ![t] = "listed"]
    /\ native' = native \cup {t} /\ owner' = owner \cup {t}
    /\ UNCHANGED <<busy, opener, service, lock, req, removal, stopping, faults>>

\* ... or fails, and may be tried again.
AdmitFails(t) ==
    /\ t \in admitting
    /\ admitting' = {}
    /\ UNCHANGED <<native, owner, busy, opener>> /\ SessionsOnly

(* DELETE of the project.                                                  *)

RequestProject(h) ==
    /\ At(h, "new") /\ ~stopping /\ ~project_has_running
    /\ \E t \in Threads : Listed(t)
    /\ Goto(h, "projectWaiting")
    /\ UNCHANGED <<file, sessions, service, lock, removal, stopping, faults>>

ProjectAcquires(h) ==
    /\ At(h, "projectWaiting")
    /\ IF lock = None THEN lock' = h /\ Goto(h, "projectLocked")
       ELSE Over(h) /\ UNCHANGED lock
    /\ UNCHANGED <<file, sessions, service, removal, stopping, faults>>

\* The harness is shut down, with what it was opening or admitting, and the owners released.
ProjectStops(h) ==
    /\ At(h, "projectLocked")
    /\ IF \E t \in Threads : Listed(t) /\ Live(t)
       THEN lock' = None /\ Over(h) /\ UNCHANGED sessions
       ELSE /\ owner' = {} /\ busy' = {} /\ admitting' = {}
            /\ opener' = IF opener.pc = "opened" THEN Idle ELSE opener
            /\ Goto(h, "projectStopped") /\ UNCHANGED <<native, lock>>
    /\ UNCHANGED <<file, service, removal, stopping, faults>>

ProjectRemovesFiles(h) ==
    /\ At(h, "projectStopped")
    /\ file' = [t \in Threads |-> "gone"]
    /\ Goto(h, "projectGone")
    /\ UNCHANGED <<sessions, service, lock, removal, stopping, faults>>

forget_project(h) ==
    /\ At(h, "projectGone")
    /\ record' = [t \in Threads |-> NoRecord] /\ members' = Unclaimed
    /\ lock' = None /\ Over(h)
    /\ UNCHANGED <<file, sessions, removal, stopping, faults>>

(* The process.                                                            *)

Shutdown ==
    /\ ~stopping /\ faults < MaxFaults
    /\ stopping' = TRUE
    /\ UNCHANGED <<file, sessions, service, lock, req, removal, faults>>

\* The process ends, shut down or not, and starts again: what was renamed is swept,
\* unless the sweep fails.
Restart ==
    /\ faults < MaxFaults /\ faults' = faults + 1
    /\ \E swept \in SUBSET {t \in Threads : file[t] = "renamed"} :
          file' = [t \in Threads |-> IF t \in swept THEN "gone" ELSE file[t]]
    /\ owner' = {} /\ busy' = {} /\ admitting' = {} /\ opener' = Idle
    /\ record' = [t \in Threads |-> NoRecord] /\ members' = Unclaimed
    /\ lock' = None
    /\ req' = [h \in Requests |-> IF At(h, "new") THEN New ELSE [New EXCEPT !.pc = "over"]]
    /\ removal' = [h \in Requests |-> NoRemoval]
    /\ stopping' = FALSE
    /\ UNCHANGED native

Handler(h) ==
    \/ \E r \in Primaries : Request(h, r)
    \/ Acquire(h) \/ AcquireTimesOut(h) \/ Preflight(h) \/ WorktreeRefuses(h)
    \/ reserve(h) \/ retire_threads(h) \/ start(h) \/ HangUp(h)
    \/ RequestProject(h) \/ ProjectAcquires(h) \/ ProjectStops(h)
    \/ ProjectRemovesFiles(h) \/ forget_project(h)

Next ==
    \/ \E h \in Requests : Handler(h) \/ Cascade(h)
    \/ \E h \in Requests : RemovalRenames(h) \/ RemovalEnds(h) \/ RemovalFails(h)
    \/ \E r \in Primaries : cancel(r) \/ dismiss(r)
    \/ \E t \in Threads : OpenChecks(t) \/ StartTurn(t) \/ EndTurn(t)
                          \/ OwnerExits(t)
                          \/ AdmitBegins(t) \/ AdmitRecords(t) \/ AdmitFails(t)
    \/ OpenNative \/ OpenAttaches
    \/ Shutdown \/ Restart

Spec == Init /\ [][Next]_vars

\* The runtime polls the cascade, of which the lock admits one at a time: its own steps and the bounds of its waits.  Nothing
\* is assumed of the harness, the disk or the clients.
FairSpec == Spec /\ WF_vars(\E h \in Requests : Cascade(h))

----------------------------------------------------------------------------
(* Properties.                                                             *)

\* A running record belongs to a request that holds the lifecycle lock and is still
\* working on that root, and a thread is fenced only by a running record: no early
\* return, hang-up, failure or restart leaves a root fenced with nothing behind it.  And
\* every thread a cascade is going to delete is fenced, those admitted between the
\* reservation and the plan included.
FenceIsHeld ==
    /\ \A r \in Threads : record[r].state = "running" =>
          \E h \in Requests : /\ lock = h /\ req[h].root = r
                              /\ req[h].pc \in Reserving \cup Guarded
    /\ \A t \in Threads : members[t] # None => record[members[t]].state = "running"
    /\ \A h \in Requests : req[h].pc \in Guarded =>
          \A t \in Range(req[h].plan) : members[t] = req[h].root

\* Plans name threads once and are not overrun, and fences stand exactly while a
\* cascade works on them.
DeletionIsSound == TypeOK /\ FenceIsHeld

\* The files of a thread are handed to the removal only when no child of it in the plan
\* is listed any more, whatever the earlier removals of those children came to.
LeafFirst ==
    [][\A h \in Requests : \A t \in Threads :
          (removal'[h] # removal[h] /\ removal'[h] = [state |-> "waiting", thread |-> t])
          => \A c \in Range(req[h].plan) : Parent[c] = t => ~Listed(c)]_vars

\* A cascade that ends without a record of its failure has deleted its whole plan, but
\* for a root whose removal outran its bound.
DoneMeansDeleted ==
    [][\A h \in Requests :
          (req[h].pc \in Cascading /\ req'[h].pc = "ending" /\ record'[req[h].root] = NoRecord)
          => \A t \in Range(req[h].plan) :
                ~Listed(t) \/ (t = req[h].root /\ removal[h].thread = t)]_vars

\* A stuck disk or harness does not hold the lifecycle lock: every cascade ends, and
\* there comes a moment when no cascade has the project.
CascadeLetsGo ==
    LET working == {h \in Requests : At(h, "ending") \/ req[h].pc \in Cascading}
    IN  (working # {}) ~> (lock \notin working)
=============================================================================
