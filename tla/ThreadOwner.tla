----------------------------- MODULE ThreadOwner -----------------------------
(***************************************************************************)
(* The event owner of one primary thread and the turn gate it drives:      *)
(*                                                                         *)
(*   registry/event_forwarder.rs  the sequential owner loop: native events,*)
(*                                harness answers and turn intents         *)
(*   registry/thread.rs           the coordinator phase of the owner       *)
(*   registry/driver.rs           attach, detach and owner exit            *)
(*   thread_runtime/gate.rs       who owns the thread's turn               *)
(*   registry.rs                  start_turn and compact_thread            *)
(*                                                                         *)
(* The harness, its retained log (whose promise module EventLog states:    *)
(* loss is only by eviction at the cap and is reported before what is      *)
(* kept) and the history file are the environment.                         *)
(***************************************************************************)
EXTENDS Naturals, Sequences, FiniteSets

CONSTANTS
    Intents,        \* calls of start_turn and compact_thread
    Compactions,    \* the calls among them that are compact_thread
    MaxTurns,       \* bound: native turns
    MaxItems,       \* bound: item events of one turn
    LogCap,         \* retained events of the log (event_log.rs)
    QueueCap,       \* TURN_INTENT_CAPACITY
    MaxAttaches,    \* bound: owners installed one after the other
    Autonomous,     \* the harness may start turns nobody asked for
    Detaches,       \* archive and provider switch may detach the owner
    Closes,         \* the harness may shut down
    AppendMayFail,  \* a write of the history may fail
    SeenMayFail     \* a new owner may fail to read the history

None == "none"
External == "external"     \* the context of a turn Giskard did not start
Turns == 1 .. MaxTurns
NoTurn == 0

ASSUME OwnerConstants ==
    /\ None \notin Intents /\ External \notin Intents
    /\ Compactions \subseteq Intents
    /\ MaxTurns \in Nat /\ MaxItems \in Nat
    /\ LogCap \in Nat \ {0} /\ QueueCap \in Nat \ {0} /\ MaxAttaches \in Nat
    /\ {Autonomous, Detaches, Closes, AppendMayFail, SeenMayFail} \subseteq BOOLEAN

VARIABLES
    \* The harness and the log it retains for the thread.
    log, gap, closed, native, nextTurn, emitted, atEnd, request,
    \* The callers of start_turn and compact_thread, and the intent channel.
    reply, answered, queue,
    \* ThreadCoordinator, the driver's parked attach, the cancel watch.
    coord, cancel, parked, attaches,
    \* ThreadEventForwarder: where it is, and ForwardedTurnState.
    pc, exit, closing, admitted, inflight, ctx, owned, observed, items, lease, seen,
    \* TurnGate, and the turns the history file holds.
    gate, history

harnessVars == <<log, gap, closed, native, nextTurn, emitted, atEnd>>
callerVars == <<reply, answered, queue>>
coordVars == <<coord, cancel, parked, attaches>>
turnVars == <<ctx, owned, observed, items, lease>>
ownerVars == <<pc, exit, closing, admitted, inflight, seen>>
vars == <<harnessVars, request, callerVars, coordVars, ownerVars, turnVars, gate, history>>

Event == [kind : {"started", "completed"}, turn : Turns, n : {0}]
         \cup [kind : {"item"}, turn : Turns, n : 1 .. MaxItems]
Item == Turns \X (1 .. MaxItems)
Context == Intents \cup {None, External}
Gates == [active : BOOLEAN, kind : {None, "user", "compaction"},
          ack : Turns \cup {NoTurn}, blocked : Turns \cup {NoTurn}]
TurnRecord == [turn : Turns, status : {"completed", "interrupted"}, ctx : Context,
               whole : BOOLEAN, items : SUBSET Item]
NoRequest == [st |-> "none", turn |-> NoTurn]
Idle == [active |-> FALSE, kind |-> None, ack |-> NoTurn, blocked |-> NoTurn]
NotClosing == [turn |-> NoTurn, status |-> "completed", then |-> "run"]
PersistedTurns == {history[k].turn : k \in 1 .. Len(history)}

-----------------------------------------------------------------------------
(* TurnGate.                                                               *)

KindOf(c) == IF c \in Compactions THEN "compaction" ELSE "user"

\* TurnGate::reserve, once no turn is active.
Reserved(c) == [active |-> TRUE, kind |-> KindOf(c), ack |-> NoTurn, blocked |-> NoTurn]

\* TurnGate::acknowledge: no owner, no acknowledgement.
Acknowledged(g, t) == IF g.active THEN [g EXCEPT !.ack = t] ELSE g

\* TurnGate::block_on_persistence.
Blocked(g, t) == IF g.active THEN [g EXCEPT !.ack = t, !.blocked = t] ELSE g

\* TurnGate::release.
Released(g) == Idle

\* TurnGate::steerable_turn_id.
SteerableTurn == IF gate.active /\ gate.kind = "user" /\ gate.blocked = NoTurn
                   THEN gate.ack ELSE NoTurn

-----------------------------------------------------------------------------
(* The harness: it appends the events of its turns to the log and answers  *)
(* the one request the owner has in flight.  It starts a requested turn    *)
(* only when it is idle; a turn of its own may supersede one that then     *)
(* never completes.                                                        *)

\* The log evicts its oldest event at the cap and owes the reader a gap.
AppendEvent(e) ==
    IF Len(log) < LogCap
      THEN log' = Append(log, e) /\ UNCHANGED gap
      ELSE log' = Append(Tail(log), e) /\ gap' = TRUE

BeginNative ==
    /\ ~closed /\ nextTurn <= MaxTurns
    /\ native' = nextTurn /\ nextTurn' = nextTurn + 1
    /\ AppendEvent([kind |-> "started", turn |-> nextTurn, n |-> 0])
    /\ UNCHANGED <<closed, emitted, atEnd>>

HarnessStarts ==
    /\ request.st = "sent" /\ native = NoTurn /\ BeginNative
    /\ request' = [st |-> "started", turn |-> nextTurn]
    /\ UNCHANGED <<callerVars, coordVars, ownerVars, turnVars, gate, history>>

\* The answer may trail any number of the turn's events.
HarnessAnswers ==
    /\ request.st = "started" /\ request' = [request EXCEPT !.st = "ok"]
    /\ UNCHANGED <<harnessVars, callerVars, coordVars, ownerVars, turnVars, gate, history>>

HarnessRefuses ==
    /\ request.st = "sent" /\ request' = [st |-> "err", turn |-> NoTurn]
    /\ UNCHANGED <<harnessVars, callerVars, coordVars, ownerVars, turnVars, gate, history>>

\* A turn of the harness's own, or one whose start it answered with a timeout.
HarnessStartsUnasked ==
    /\ Autonomous /\ BeginNative
    /\ UNCHANGED <<request, callerVars, coordVars, ownerVars, turnVars, gate, history>>

\* An item completes; one of an ended turn is a command or a sub-agent that
\* outlived it.
HarnessEmits(t) ==
    /\ ~closed /\ t < nextTurn /\ emitted[t] < MaxItems
    /\ emitted' = [emitted EXCEPT ![t] = @ + 1]
    /\ AppendEvent([kind |-> "item", turn |-> t, n |-> emitted[t] + 1])
    /\ UNCHANGED <<closed, native, nextTurn, atEnd>>
    /\ UNCHANGED <<request, callerVars, coordVars, ownerVars, turnVars, gate, history>>

HarnessCompletes ==
    /\ ~closed /\ native # NoTurn
    /\ native' = NoTurn /\ atEnd' = [atEnd EXCEPT ![native] = emitted[native]]
    /\ AppendEvent([kind |-> "completed", turn |-> native, n |-> 0])
    /\ UNCHANGED <<closed, nextTurn, emitted>>
    /\ UNCHANGED <<request, callerVars, coordVars, ownerVars, turnVars, gate, history>>

\* Harness shutdown closes the log; what it retains can still be read.
HarnessCloses ==
    /\ Closes /\ ~closed /\ closed' = TRUE /\ native' = NoTurn
    /\ UNCHANGED <<log, gap, nextTurn, emitted, atEnd>>
    /\ UNCHANGED <<request, callerVars, coordVars, ownerVars, turnVars, gate, history>>

-----------------------------------------------------------------------------
(* registry.rs: start_turn and compact_thread.                             *)

\* coordinator() and intent_sender(): a clone of the live owner's sender.  The
\* driver may not yet know that the owner has closed its channel and exited.
CallIntent(i) ==
    /\ reply[i] = "idle"
    /\ reply' = [reply EXCEPT ![i] = IF coord = "live" /\ pc # "exited" THEN "sending" ELSE "err"]
    /\ UNCHANGED <<harnessVars, request, answered, queue, coordVars, ownerVars, turnVars,
                   gate, history>>

\* The bounded send; a closed channel fails it, which Finish models.
SendIntent(i) ==
    /\ reply[i] = "sending" /\ Len(queue) < QueueCap
    /\ reply' = [reply EXCEPT ![i] = "queued"] /\ queue' = Append(queue, i)
    /\ UNCHANGED <<harnessVars, request, answered, coordVars, ownerVars, turnVars, gate,
                   history>>

-----------------------------------------------------------------------------
(* The owner loop: a biased select over cancel, events, answer, intents.   *)

Exit(reason) == pc' = "finishing" /\ exit' = reason

EventReady == log # <<>> \/ gap \/ closed
Running == pc = "run" /\ ~cancel

OwnerCancelled ==
    /\ pc = "run" /\ cancel /\ Exit("stream_ended")
    /\ UNCHANGED <<closing, admitted, inflight, seen>>
    /\ UNCHANGED <<harnessVars, request, callerVars, coordVars, turnVars, gate, history>>

\* What the owner is busy with when it refuses an intent.
Busy == inflight # None \/ admitted # None \/ owned # NoTurn

AdmitIntent ==
    /\ Running /\ ~EventReady /\ ~(inflight # None /\ request.st \in {"ok", "err"})
    /\ queue # <<>> /\ queue' = Tail(queue)
    /\ LET i == Head(queue) IN
         IF Busy \/ gate.active
           THEN /\ reply' = [reply EXCEPT ![i] = "err"]
                /\ UNCHANGED <<gate, admitted, inflight, request>>
           ELSE /\ gate' = Reserved(i)
                /\ admitted' = i /\ inflight' = i
                /\ request' = [st |-> "sent", turn |-> NoTurn]
                /\ reply' = [reply EXCEPT ![i] = "inflight"]
    /\ UNCHANGED <<harnessVars, answered, coordVars, pc, exit, closing, seen, turnVars,
                   history>>

\* Mutant: the answer is acknowledged on whichever lease holds the gate.
AnswerAcknowledgesAttached ==
    /\ request.st = "ok"
    /\ LET id == IF inflight \in Compactions THEN NoTurn ELSE request.turn IN
         /\ gate' = IF id # NoTurn THEN Acknowledged(gate, id) ELSE gate
         /\ answered' = [answered EXCEPT ![inflight] = id]
    /\ reply' = [reply EXCEPT ![inflight] = "ok"]
    /\ UNCHANGED admitted

\* handle_answer, Ok: the admitted lease adopts the turn id (a compaction has
\* none); if an event already attached the lease, nothing is acknowledged.
AnswerAccepted ==
    /\ request.st = "ok"
    /\ LET id == IF inflight \in Compactions THEN NoTurn ELSE request.turn IN
         /\ gate' = IF admitted # None /\ id # NoTurn THEN Acknowledged(gate, id) ELSE gate
         /\ answered' = [answered EXCEPT ![inflight] = id]
    /\ reply' = [reply EXCEPT ![inflight] = "ok"]
    /\ UNCHANGED admitted

\* Mutant: the admitted lease outlives the refused request.
AnswerRefusedKeepsLease ==
    /\ request.st = "err"
    /\ UNCHANGED <<gate, admitted, answered>>
    /\ reply' = [reply EXCEPT ![inflight] = "err"]

\* handle_answer, Err: an admitted lease is released; an attached one stays.
AnswerRefused ==
    /\ request.st = "err"
    /\ gate' = IF admitted # None THEN Released(gate) ELSE gate
    /\ admitted' = None
    /\ reply' = [reply EXCEPT ![inflight] = "err"]
    /\ UNCHANGED answered

HandleAnswer ==
    /\ Running /\ ~EventReady /\ inflight # None
    /\ AnswerAccepted \/ AnswerRefused
    /\ inflight' = None /\ request' = NoRequest
    /\ UNCHANGED <<harnessVars, queue, coordVars, pc, exit, closing, seen, turnVars, history>>

-----------------------------------------------------------------------------
(* handle_event.  A gap is always reported before the retained events.     *)

NextEvent == Head(log)
TakeEvent == /\ Running /\ ~gap /\ log # <<>>
             /\ log' = Tail(log)
             /\ UNCHANGED <<gap, closed, native, nextTurn, emitted, atEnd>>

\* Mutants: the classification without one of its gates.
CrossTurnAccepted(e) == FALSE
LateAccepted(e) == FALSE

\* classify, the gates that read turn ids.
CrossTurn(e) == owned # NoTurn /\ e.turn # owned /\ e.turn \notin seen
Late(e) == e.turn \in seen
Owned(e) == ~CrossTurn(e) /\ ~Late(e)

DropCrossTurn ==
    /\ TakeEvent /\ CrossTurn(NextEvent)
    /\ UNCHANGED <<request, callerVars, coordVars, ownerVars, turnVars, gate, history>>

\* apply_late: an item is amended into its persisted turn, and nothing of it
\* reaches the current turn.
Amended(h, e) ==
    [k \in 1 .. Len(h) |-> IF h[k].turn = e.turn
                             THEN [h[k] EXCEPT !.items = @ \cup {<<e.turn, e.n>>}] ELSE h[k]]

ApplyLate ==
    /\ TakeEvent /\ Late(NextEvent)
    /\ \/ NextEvent.kind = "item" /\ history' = Amended(history, NextEvent)
       \/ (NextEvent.kind # "item" \/ AppendMayFail) /\ UNCHANGED history
    /\ UNCHANGED <<request, callerVars, coordVars, ownerVars, turnVars, gate>>

\* attach_to_turn: take the admitted intent, else reserve for an external turn.
AttachToTurn(t) ==
    /\ ctx' = IF admitted # None THEN admitted ELSE External
    /\ gate' = Acknowledged(IF admitted # None THEN gate ELSE Reserved(External), t)
    /\ admitted' = None /\ lease' = TRUE /\ owned' = t

CanAttach == admitted # None \/ ~gate.active

\* note_owned_event, and the start of finish_owned_turn.
NoteOwned(e) ==
    /\ observed' = IF e.kind = "started" THEN e.turn ELSE observed
    /\ items' = IF e.kind = "item" THEN items \cup {<<e.turn, e.n>>} ELSE items
    /\ IF e.kind = "completed"
         THEN /\ pc' = "persisting"
              /\ closing' = [turn |-> e.turn, status |-> "completed", then |-> "run"]
         ELSE UNCHANGED <<pc, closing>>

ApplyOwned ==
    /\ TakeEvent /\ Owned(NextEvent)
    /\ \/ owned # NoTurn /\ UNCHANGED <<ctx, gate, admitted, lease, owned>>
       \/ owned = NoTurn /\ CanAttach /\ AttachToTurn(NextEvent.turn)
    /\ NoteOwned(NextEvent)
    /\ UNCHANGED <<request, callerVars, coordVars, exit, inflight, seen, history>>

\* The gate is held by a turn whose persistence failed: the owner gives up.
AttachRefused ==
    /\ TakeEvent /\ Owned(NextEvent) /\ owned = NoTurn /\ ~CanAttach
    /\ Exit("authority_replaced")
    /\ UNCHANGED <<closing, admitted, inflight, seen>>
    /\ UNCHANGED <<request, callerVars, coordVars, turnVars, gate, history>>

\* handle_stream_error: a turn in progress is persisted as interrupted, after
\* a gap the owner goes on, after the end of the stream it exits.
Interrupting(next) ==
    /\ pc' = "persisting" /\ UNCHANGED exit
    /\ closing' = [turn |-> IF observed # NoTurn THEN observed ELSE owned,
                   status |-> "interrupted", then |-> next]

HandleGap ==
    /\ Running /\ gap /\ gap' = FALSE
    /\ IF owned # NoTurn THEN Interrupting("run") ELSE UNCHANGED <<pc, exit, closing>>
    /\ UNCHANGED <<log, closed, native, nextTurn, emitted, atEnd>>
    /\ UNCHANGED <<request, callerVars, coordVars, admitted, inflight, seen, turnVars, gate,
                   history>>

HandleClosed ==
    /\ Running /\ ~gap /\ log = <<>> /\ closed
    /\ IF owned # NoTurn THEN Interrupting("finishing")
                         ELSE Exit("stream_ended") /\ UNCHANGED closing
    /\ UNCHANGED <<admitted, inflight, seen>>
    /\ UNCHANGED <<harnessVars, request, callerVars, coordVars, turnVars, gate, history>>

-----------------------------------------------------------------------------
(* complete_forwarded_turn and finish.                                     *)

PersistedTurn == IF observed # NoTurn THEN observed ELSE closing.turn

\* persist_turn appends to the history; seen_turn_ids learns the turn.
AppendTurn ==
    /\ pc = "persisting" /\ pc' = "settling"
    /\ history' = Append(history, [turn |-> PersistedTurn, status |-> closing.status,
                                   ctx |-> ctx, whole |-> observed # NoTurn, items |-> items])
    /\ seen' = seen \cup {PersistedTurn}
    /\ UNCHANGED <<exit, closing, admitted, inflight>>
    /\ UNCHANGED <<harnessVars, request, callerVars, coordVars, turnVars, gate>>

\* Mutant: the blocked turn's lease stays attached, so finish releases it.
AppendFailsKeepsLease ==
    /\ AppendMayFail /\ pc = "persisting"
    /\ gate' = Blocked(gate, PersistedTurn) /\ lease' = lease
    /\ Exit("persistence_blocked")
    /\ UNCHANGED <<closing, admitted, inflight, seen, ctx, owned, observed, items>>
    /\ UNCHANGED <<harnessVars, request, callerVars, coordVars, history>>

\* The append failed: retain_after_persistence_failure keeps the gate and
\* detaches the lease, so no later release frees the gate.
AppendFails ==
    /\ AppendMayFail /\ pc = "persisting"
    /\ gate' = Blocked(gate, PersistedTurn) /\ lease' = FALSE
    /\ Exit("persistence_blocked")
    /\ UNCHANGED <<closing, admitted, inflight, seen, ctx, owned, observed, items>>
    /\ UNCHANGED <<harnessVars, request, callerVars, coordVars, history>>

ResetTurn == /\ ctx' = None /\ owned' = NoTurn /\ observed' = NoTurn /\ items' = {}
             /\ lease' = FALSE

\* commit_after_persistence, then the published completion and reset.  An
\* owner whose stream ended exits instead of resetting; its lease is detached.
SettleTurn ==
    /\ pc = "settling" /\ gate' = Released(gate)
    /\ pc' = closing.then /\ closing' = NotClosing
    /\ exit' = IF closing.then = "finishing" THEN "stream_ended" ELSE exit
    /\ ResetTurn
    /\ UNCHANGED <<admitted, inflight, seen>>
    /\ UNCHANGED <<harnessVars, request, callerVars, coordVars, history>>

\* Mutant: intents still queued are dropped without an answer.
FinishLeavesQueued ==
    /\ pc = "finishing" /\ pc' = "exited"
    /\ queue' = <<>>
    /\ reply' = [i \in Intents |-> IF reply[i] \in {"sending", "inflight"}
                                     THEN "err" ELSE reply[i]]
    /\ gate' = IF admitted # None \/ lease THEN Released(gate) ELSE gate
    /\ admitted' = None /\ inflight' = None /\ request' = NoRequest
    /\ ResetTurn /\ closing' = NotClosing /\ seen' = {}
    /\ UNCHANGED <<exit, answered, harnessVars, coordVars, history>>

\* finish: close the intent lane and reject what it holds and what is still
\* being sent, release the admitted lease, fail the request in flight, release
\* the lease of a turn that did not complete.
Finish ==
    /\ pc = "finishing" /\ pc' = "exited"
    /\ queue' = <<>>
    /\ reply' = [i \in Intents |-> IF reply[i] \in {"sending", "queued", "inflight"}
                                     THEN "err" ELSE reply[i]]
    /\ gate' = IF admitted # None \/ lease THEN Released(gate) ELSE gate
    /\ admitted' = None /\ inflight' = None /\ request' = NoRequest
    /\ ResetTurn /\ closing' = NotClosing /\ seen' = {}
    /\ UNCHANGED <<exit, answered, harnessVars, coordVars, history>>

-----------------------------------------------------------------------------
(* driver.rs: attach, detach and owner_exited are serialized by the driver.*)

\* The forwarder subscribes, and reads the ids of the persisted turns.
InstallOwner ==
    /\ attaches < MaxAttaches /\ attaches' = attaches + 1
    /\ coord' = "live" /\ cancel' = FALSE /\ pc' = "run" /\ exit' = None
    /\ \/ seen' = PersistedTurns
       \/ SeenMayFail /\ seen' = {}

AttachOwner ==
    /\ coord = "none" /\ InstallOwner
    /\ UNCHANGED <<parked, closing, admitted, inflight>>
    /\ UNCHANGED <<harnessVars, request, callerVars, turnVars, gate, history>>

\* An attach that finds a detaching owner waits for its exit.
ParkAttach ==
    /\ coord = "detaching" /\ ~parked /\ attaches < MaxAttaches /\ parked' = TRUE
    /\ UNCHANGED <<coord, cancel, attaches>>
    /\ UNCHANGED <<harnessVars, request, callerVars, ownerVars, turnVars, gate, history>>

RequestDetach ==
    /\ Detaches
    /\ \/ coord = "live" /\ coord' = "detaching" /\ cancel' = TRUE
       \/ coord = "failed" /\ coord' = "none" /\ UNCHANGED cancel
    /\ UNCHANGED <<parked, attaches>>
    /\ UNCHANGED <<harnessVars, request, callerVars, ownerVars, turnVars, gate, history>>

\* owner_exited: a detached owner leaves an empty slot and wakes the parked
\* attach, a persistence-blocked one stays as failed, any other is cleared.
OwnerExited ==
    /\ pc = "exited"
    /\ \/ /\ coord = "detaching" /\ parked /\ InstallOwner /\ parked' = FALSE
       \/ /\ coord = "detaching" /\ ~parked
          /\ coord' = "none" /\ pc' = "idle" /\ UNCHANGED <<cancel, parked, attaches, exit, seen>>
       \/ /\ coord = "live"
          /\ coord' = IF exit = "persistence_blocked" THEN "failed" ELSE "none"
          /\ pc' = "idle" /\ UNCHANGED <<cancel, parked, attaches, exit, seen>>
    /\ UNCHANGED <<closing, admitted, inflight>>
    /\ UNCHANGED <<harnessVars, request, callerVars, turnVars, gate, history>>

-----------------------------------------------------------------------------
Init ==
    /\ log = <<>> /\ gap = FALSE /\ closed = FALSE /\ native = NoTurn /\ nextTurn = 1
    /\ emitted = [t \in Turns |-> 0] /\ atEnd = [t \in Turns |-> 0] /\ request = NoRequest
    /\ reply = [i \in Intents |-> "idle"] /\ answered = [i \in Intents |-> NoTurn]
    /\ queue = <<>>
    /\ coord = "none" /\ cancel = FALSE /\ parked = FALSE /\ attaches = 0
    /\ pc = "idle" /\ exit = None /\ closing = NotClosing
    /\ admitted = None /\ inflight = None /\ seen = {}
    /\ ctx = None /\ owned = NoTurn /\ observed = NoTurn /\ items = {} /\ lease = FALSE
    /\ gate = Idle /\ history = <<>>

OwnerStep == \/ OwnerCancelled \/ AdmitIntent \/ HandleAnswer
             \/ DropCrossTurn \/ ApplyLate \/ ApplyOwned \/ AttachRefused
             \/ HandleGap \/ HandleClosed
             \/ AppendTurn \/ AppendFails \/ SettleTurn \/ Finish

Next ==
    \/ HarnessStarts \/ HarnessAnswers \/ HarnessRefuses \/ HarnessStartsUnasked
    \/ (\E t \in Turns : HarnessEmits(t)) \/ HarnessCompletes \/ HarnessCloses
    \/ \E i \in Intents : CallIntent(i) \/ SendIntent(i)
    \/ OwnerStep
    \/ AttachOwner \/ ParkAttach \/ RequestDetach \/ OwnerExited

Spec == Init /\ [][Next]_vars

\* The owner, the driver and the intent channel run whenever they can; the
\* harness answers every request (the adapters bound it with a timeout) and
\* ends every turn it starts.
FairSpec ==
    /\ Spec
    /\ WF_vars(OwnerStep) /\ WF_vars(OwnerExited)
    /\ \A i \in Intents : WF_vars(SendIntent(i))
    /\ WF_vars(HarnessStarts \/ HarnessAnswers \/ HarnessRefuses) /\ WF_vars(HarnessCompletes)

-----------------------------------------------------------------------------
\* The types, the retention cap of the log and the bound of the intent lane,
\* split by component: TypeOK below is their conjunction.
HarnessType ==
    /\ log \in Seq(Event) /\ Len(log) <= LogCap
    /\ native \in Turns \cup {NoTurn} /\ nextTurn \in 1 .. MaxTurns + 1
    /\ emitted \in [Turns -> 0 .. MaxItems] /\ atEnd \in [Turns -> 0 .. MaxItems]
    /\ request \in [st : {"none", "sent", "started", "ok", "err"}, turn : Turns \cup {NoTurn}]

CallerType ==
    /\ reply \in [Intents -> {"idle", "sending", "queued", "inflight", "ok", "err"}]
    /\ answered \in [Intents -> Turns \cup {NoTurn}]
    /\ queue \in Seq(Intents) /\ Len(queue) <= QueueCap

OwnerType ==
    /\ coord \in {"none", "live", "detaching", "failed"} /\ attaches \in 0 .. MaxAttaches
    /\ pc \in {"idle", "run", "persisting", "settling", "finishing", "exited"}
    /\ exit \in {None, "stream_ended", "persistence_blocked", "authority_replaced"}
    /\ closing \in [turn : Turns \cup {NoTurn}, status : {"completed", "interrupted"},
                    then : {"run", "finishing"}]
    /\ admitted \in Intents \cup {None} /\ inflight \in Intents \cup {None}
    /\ seen \subseteq Turns /\ items \subseteq Item
    /\ ctx \in Context /\ owned \in Turns \cup {NoTurn} /\ observed \in Turns \cup {NoTurn}

FlagType == {gap, closed, cancel, parked, lease} \subseteq BOOLEAN

GateType == gate \in Gates

HistoryType == history \in Seq(TurnRecord)

\* Everything has its type and no queue exceeds its bound.
TypeOK == HarnessType /\ CallerType /\ OwnerType /\ FlagType /\ GateType /\ HistoryType

\* Exactly one thing holds an active gate: the lease of an admitted intent,
\* the lease of the turn in progress, or a turn whose persistence failed.  So
\* a lease never leaks past the owner that took it, two turns never hold the
\* gate, and the turn the gate names is the turn in progress.
GateHasOneHolder ==
    /\ gate.active <=> (admitted # None \/ lease \/ gate.blocked # NoTurn)
    /\ admitted # None => ~lease
    /\ gate.blocked # NoTurn => admitted = None /\ ~lease
    /\ lease => owned # NoTurn /\ gate.ack = owned
    /\ pc \in {"idle", "exited"} => admitted = None /\ ~lease /\ inflight = None

\* An owner that knows the persisted turns never appends one of them again,
\* whatever arrives for it later: items of a turn that was interrupted by a log
\* overflow, its completion, or an answer that names it.
NoTurnPersistedTwice ==
    [][Len(history') > Len(history) /\ PersistedTurns \subseteq seen =>
         history'[Len(history')].turn \notin PersistedTurns]_vars

\* A persisted turn holds items of its own only, and one recorded as completed
\* whose start the owner saw lacks none that the harness emitted before it
\* ended: overflow, cross-turn events, late items and owner changes in between
\* may interrupt a turn but never leave a silently incomplete one.
HistoryIsFaithful ==
    \A k \in 1 .. Len(history) : LET h == history[k] IN
      /\ h.items \subseteq {h.turn} \X (1 .. MaxItems)
      /\ h.status = "completed" /\ h.whole =>
           {h.turn} \X (1 .. atEnd[h.turn]) \subseteq h.items

\* steer_turn is never offered a turn that its owner has already persisted,
\* whatever the order of a turn's events and the answer to its start request.
SteerableTurnIsLive ==
    SteerableTurn # NoTurn => SteerableTurn \notin seen \/ pc = "settling"

\* A gate blocked by a failed append stays as it is (RT5), through the exit of
\* its owner, a detach of the failed coordinator and any new owner.
BlockedGateIsRetained == [][gate.blocked # NoTurn => gate' = gate]_vars

\* Every native turn was started for a call that is answered or in flight.
EveryTurnWasAsked ==
    nextTurn - 1 = Cardinality({i \in Intents : reply[i] = "ok"})
                     + (IF request.st \in {"started", "ok"} THEN 1 ELSE 0)

\* Under its first owner, a thread whose turns were all asked for persists the
\* input of a call with the very turn that the call was answered with.
AnswerNamesItsTurn ==
    attaches <= 1 /\ EveryTurnWasAsked =>
      \A k \in 1 .. Len(history) : LET c == history[k].ctx IN
        c \in Intents \ Compactions /\ reply[c] = "ok" => answered[c] = history[k].turn

\* A turn id handed to a caller, or offered for steering, is the id of that very
\* turn, and of one that is still running.
AnswersNameLiveTurns == SteerableTurnIsLive /\ AnswerNamesItsTurn

\* Every call of start_turn and compact_thread is answered, whether its owner
\* keeps running, is detached, or exits with the call queued or in flight.
IntentsAnswered ==
    \A i \in Intents : reply[i] \in {"sending", "queued", "inflight"} ~> reply[i] \in {"ok", "err"}

\* "The gate is released when the owned turn completes, or earlier startup
\* paths fail or are cancelled" (TG1): no gate stays active for ever unless
\* persistence blocked it.
GateIsReleased ==
    gate.active /\ gate.blocked = NoTurn ~> ~gate.active \/ gate.blocked # NoTurn
=============================================================================
