---------------------------- MODULE ClaudeSession ----------------------------
(***************************************************************************)
(* One primary thread of the Claude Code adapter.  The thread's entry, held *)
(* under the lock `threads`, names its event log and the child serving it;  *)
(* every child is run by a supervisor task of its own.  An idle child is    *)
(* reaped: it leaves the entry and drains on its own while the next call    *)
(* respawns another child, which writes to the same log.  Archiving,        *)
(* deleting and shutting down take the entry away and stop the child.       *)
(*                                                                         *)
(* A call is one method of the harness; a command in a child's queue is the *)
(* number of the call that sent it, and so is the turn it starts.  A        *)
(* critical section of `threads` or of `pending` is one step, and so is an  *)
(* arm of the supervisor's select!, up to a write to the child that may     *)
(* fail or never return.  The child's turn stands for all that the mapper   *)
(* counts as busy: its turn, its open tasks and its sub-agent routes.       *)
(***************************************************************************)
EXTENDS Naturals, Sequences, FiniteSets

CONSTANTS
    MaxCalls,     \* calls of the harness
    MaxChildren,  \* children spawned and registered
    MaxLogs,      \* times the thread is opened
    QueueLimit,   \* COMMAND_QUEUE
    Asks          \* the approvals and server requests the CLI raises

ASSUME ClaudeSessionAssumption ==
    /\ {MaxCalls, MaxChildren, MaxLogs, QueueLimit} \subseteq Nat \ {0}
    /\ IsFiniteSet(Asks)

Calls    == 1..MaxCalls
Children == 1..MaxChildren
Logs     == 1..MaxLogs
None     == 0
Own      == MaxCalls + 1    \* a turn the CLI opened by itself

VARIABLES
    entry,     \* the thread's entry: its log and its child
    logs,      \* the event logs and the turn each shows as running
    gate,      \* who holds the respawn gate of the entry of a log
    sup,       \* the supervisors
    call,      \* the calls of the harness
    pending,   \* the asks that wait for an answer
    cli,       \* who raised an ask, and what has become of it there
    shutdown,  \* the shutdown flag
    lost       \* asks dropped by a full queue or by the end of another child

vars == <<entry, logs, gate, sup, call, pending, cli, shutdown, lost>>

Reading == {"serving", "interrupting", "draining"}
TurnOps == {"start", "compact"}
StopOps == {"stop", "shutdown"}
Ops     == {"none", "open", "control", "answer"} \cup TurnOps \cup StopOps
Steps   == {"idle", "opening", "gate", "spawn", "send", "waiting",
            "stopping", "joining", "forget", "done"}
Outcomes == {"ok", "broken", "hung"}   \* of a write to the child's stdin

Idle0  == [op |-> "none", pc |-> "idle", tries |-> 0, log |-> None,
           child |-> None, ask |-> {}]
Done   == [Idle0 EXCEPT !.pc = "done"]   \* returned, with a result or an error
Child0 == [phase |-> "none", reaped |-> FALSE, log |-> None, queue |-> <<>>,
           setup |-> None, turn |-> None, waiters |-> {}, withdrawn |-> {}]
NoEntry == [log |-> None, child |-> None]

Init ==
    /\ entry = NoEntry
    /\ logs = [i \in Logs |-> [state |-> "none", turn |-> None]]
    /\ gate = [i \in Logs |-> None]
    /\ sup = [g \in Children |-> Child0]
    /\ call = [k \in Calls |-> Idle0]
    /\ pending = {}
    /\ cli = [a \in Asks |-> [child |-> None, state |-> "unused"]]
    /\ shutdown = FALSE
    /\ lost = {}

-----------------------------------------------------------------------------
(* The calls *)

\* Calls start in the order of their numbers.
Starts(k) == call[k].pc = "idle" /\ \A j \in 1..(k - 1) : call[j].pc # "idle"

To(k, pc) == call' = [call EXCEPT ![k] = IF pc = "done" THEN Done ELSE [@ EXCEPT !.pc = pc]]

Queued(k) == \E g \in Children : \E n \in DOMAIN sup[g].queue : sup[g].queue[n] = k

\* The caller of k still holds the receiver of its reply.
Listening(k) == call[k].pc = "waiting"

\* The calls of S are replied to, or dropped where nobody listens any more.
Replied(S) == [k \in Calls |-> IF k \in S /\ call[k].pc \in {"waiting", "done"} THEN Done
                              ELSE call[k]]

Unused(f) == {x \in DOMAIN f : f[x] = Child0}
NextChild == CHOOSE g \in Unused(sup) : \A h \in Unused(sup) : g <= h
NextLog   == CHOOSE i \in Logs : logs[i].state = "none"
                                   /\ \A j \in 1..(i - 1) : logs[j].state # "none"

\* The child is there: open_thread returns, a turn is enqueued.
Ready(c) == IF c.op = "open" THEN Done ELSE [c EXCEPT !.pc = "send"]

\* ensure_child, up to the respawn gate of the entry it finds.
Ensured(c) ==
    IF entry.log = None THEN Done
    ELSE IF entry.child # None THEN Ready(c)
    ELSE [c EXCEPT !.log = entry.log, !.pc = "gate"]

\* open_thread looks for the entry, then spawns a child, respawns one, or is done.
OpenThread(k) ==
    /\ Starts(k)
    /\ call' = [call EXCEPT ![k] = IF shutdown THEN Done
            ELSE IF entry.log = None THEN [@ EXCEPT !.op = "open", !.pc = "opening"]
            ELSE Ensured([@ EXCEPT !.op = "open"])]
    /\ UNCHANGED <<entry, logs, gate, sup, pending, cli, shutdown, lost>>

\* register_child: a fresh supervisor on log i.
Spawned(i) == [Child0 EXCEPT !.phase = "serving", !.log = i]

\* The first open registers its child, with a log of its own.
RegisterOpened(k) ==
    /\ call[k].pc = "opening"
    /\ UNCHANGED <<gate, pending, cli, shutdown, lost>>
    /\ \/ /\ shutdown \/ entry.log # None
          /\ To(k, "done")
          /\ UNCHANGED <<entry, logs, sup>>
       \/ /\ ~shutdown /\ entry.log = None
          /\ Unused(sup) # {} /\ \E i \in Logs : logs[i].state = "none"
          /\ logs' = [logs EXCEPT ![NextLog].state = "open"]
          /\ sup' = [sup EXCEPT ![NextChild] = Spawned(NextLog)]
          /\ entry' = [log |-> NextLog, child |-> NextChild]
          /\ To(k, "done")

Released(i) == [gate EXCEPT ![i] = None]

\* The child could not be spawned or did not complete its handshake.
SpawnFails(k) ==
    /\ call[k].pc \in {"opening", "spawn"}
    /\ gate' = IF call[k].pc = "spawn" THEN Released(call[k].log) ELSE gate
    /\ To(k, "done")
    /\ UNCHANGED <<entry, logs, sup, pending, cli, shutdown, lost>>

\* start_turn and compact_thread.
StartTurn(k, op) ==
    /\ Starts(k)
    /\ call' = [call EXCEPT ![k] = Ensured([@ EXCEPT !.op = op])]
    /\ UNCHANGED <<entry, logs, gate, sup, pending, cli, shutdown, lost>>

\* ensure_child looks again once it holds the gate.
TakeGate(k) ==
    LET i == call[k].log IN
    /\ call[k].pc = "gate" /\ gate[i] = None
    /\ IF entry.log # None /\ entry.child = None /\ ~shutdown
       THEN gate' = [gate EXCEPT ![i] = k] /\ To(k, "spawn")
       ELSE /\ UNCHANGED gate
            /\ call' = [call EXCEPT ![k] = IF entry.child # None THEN Ready(@) ELSE Done]
    /\ UNCHANGED <<entry, logs, sup, pending, cli, shutdown, lost>>

CanRespawn == ~shutdown /\ entry.log # None /\ entry.child = None

\* register_child in the slot the reap left empty, on the entry's log.
Respawn(k) ==
    /\ call[k].pc = "spawn"
    /\ gate' = Released(call[k].log)
    /\ UNCHANGED <<logs, pending, cli, shutdown, lost>>
    /\ \/ ~CanRespawn /\ To(k, "done") /\ UNCHANGED <<entry, sup>>
       \/ /\ CanRespawn /\ Unused(sup) # {}
          /\ sup' = [sup EXCEPT ![NextChild] = Spawned(entry.log)]
          /\ entry' = [entry EXCEPT !.child = NextChild]
          /\ call' = [call EXCEPT ![k] = Ready(@)]

\* interrupt, set_thread_name and terminate_command: nothing is respawned for them.
Control(k) ==
    /\ Starts(k)
    /\ call' = [call EXCEPT ![k].op = "control", ![k].pc = "send"]
    /\ UNCHANGED <<entry, logs, gate, sup, pending, cli, shutdown, lost>>

\* respond_approval and respond_server_request take the ask before they enqueue its answer.
TakeAsk(k, a) ==
    /\ Starts(k)
    /\ pending' = pending \ {a}
    /\ call' = [call EXCEPT ![k] = IF a \notin pending THEN Done
            ELSE [@ EXCEPT !.op = "answer", !.ask = {a}, !.pc = "send"]]
    /\ UNCHANGED <<entry, logs, gate, sup, cli, shutdown, lost>>

\* enqueue finds no entry, or an entry without a child.
EnqueueNowhere(k) ==
    /\ call[k].pc = "send" /\ entry.child = None
    /\ call' = [call EXCEPT ![k] =
            IF entry.log # None /\ @.op \in TurnOps /\ @.tries = 0
            THEN Ensured([@ EXCEPT !.tries = 1]) ELSE Done]
    /\ UNCHANGED <<entry, logs, gate, sup, pending, cli, shutdown, lost>>

\* enqueue: the child is looked up and sent to under one lock; a full or closed queue refuses.
Enqueue(k) ==
    LET g    == entry.child
        full == Len(sup[g].queue) >= QueueLimit IN
    /\ call[k].pc = "send" /\ g # None
    /\ UNCHANGED <<entry, logs, gate, pending, cli, shutdown>>
    /\ \/ /\ sup[g].phase # "ended" /\ ~full
          /\ sup' = [sup EXCEPT ![g].queue = Append(@, k)]
          /\ To(k, "waiting")
          /\ UNCHANGED lost
       \/ /\ sup[g].phase = "ended" \/ full
          /\ To(k, "done")
          /\ lost' = lost \cup call[k].ask
          /\ UNCHANGED sup

\* answer's timeout: the receiver is dropped, a command still in a queue stays there.
GiveUp(k) ==
    /\ Listening(k)
    /\ call' = [call EXCEPT ![k] = IF Queued(k) THEN [@ EXCEPT !.pc = "done"] ELSE Done]
    /\ UNCHANGED <<entry, logs, gate, sup, pending, cli, shutdown, lost>>

-----------------------------------------------------------------------------
(* Stopping the thread *)

Closed(i) == [logs EXCEPT ![i] = [state |-> "closed", turn |-> None]]

\* stop_thread (archive, delete) and shutdown take the entry; a reaped one has no supervisor
\* left to close its log.
StopThread(k, op) ==
    LET pc == IF entry.child # None THEN "stopping"
              ELSE IF entry.log # None \/ op = "shutdown" THEN "forget" ELSE "done" IN
    /\ Starts(k)
    /\ shutdown' = (shutdown \/ op = "shutdown")
    /\ logs' = IF entry.log # None /\ entry.child = None THEN Closed(entry.log) ELSE logs
    /\ call' = [call EXCEPT ![k] = IF pc = "done" THEN Done
            ELSE [@ EXCEPT !.op = op, !.pc = pc, !.log = entry.log, !.child = entry.child]]
    /\ entry' = NoEntry
    /\ UNCHANGED <<gate, sup, pending, cli, lost>>

\* stop_handle waits for room in the queue, unless the supervisor is gone.
SendStop(k) ==
    LET g == call[k].child IN
    /\ call[k].pc = "stopping"
    /\ sup[g].phase = "ended" \/ Len(sup[g].queue) < QueueLimit
    /\ sup' = IF sup[g].phase = "ended" THEN sup
              ELSE [sup EXCEPT ![g].queue = Append(@, k)]
    /\ To(k, "joining")
    /\ UNCHANGED <<entry, logs, gate, pending, cli, shutdown, lost>>

\* stop_handle: the supervisor's task ended.
Joined(k) ==
    /\ call[k].pc = "joining" /\ sup[call[k].child].phase = "ended"
    /\ To(k, "forget")
    /\ UNCHANGED <<entry, logs, gate, sup, pending, cli, shutdown, lost>>

\* The task is over: its queue and its state are dropped.
Ended(g) == [Child0 EXCEPT !.phase = "ended", !.log = sup[g].log]

\* The asks of a child end with it.
Gone(g) ==
    [a \in Asks |-> IF cli[a].child = g THEN [cli[a] EXCEPT !.state = "gone"] ELSE cli[a]]
Live(g, A) == {a \in A : cli[a].child # g}

\* The callers a supervisor owes a reply when its task is dropped.
Owed(g) == {k \in Calls : \E n \in DOMAIN sup[g].queue : sup[g].queue[n] = k}
             \cup sup[g].waiters \cup {sup[g].setup}

\* Mutant: the log of an aborted supervisor stays open.
StopTimeoutOpen(k) ==
    LET g == call[k].child IN
    /\ call[k].pc \in {"stopping", "joining"} /\ sup[g].phase # "ended"
    /\ sup' = [sup EXCEPT ![g] = Ended(g)]
    /\ call' = [Replied(Owed(g)) EXCEPT ![k].pc = "forget"]
    /\ cli' = Gone(g)
    /\ UNCHANGED <<entry, logs, gate, pending, shutdown, lost>>

\* STOP_TIMEOUT: the supervisor is aborted, and its log closed for it.
StopTimeout(k) ==
    LET g == call[k].child IN
    /\ call[k].pc \in {"stopping", "joining"} /\ sup[g].phase # "ended"
    /\ sup' = [sup EXCEPT ![g] = Ended(g)]
    /\ logs' = Closed(call[k].log)
    /\ call' = [Replied(Owed(g)) EXCEPT ![k].pc = "forget"]
    /\ cli' = Gone(g)
    /\ lost' = Live(g, lost)
    /\ UNCHANGED <<entry, gate, pending, shutdown>>

\* remove_thread (shutdown clears the map): every ask of the thread goes, whoever raised it.
Forget(k) ==
    /\ call[k].pc = "forget"
    /\ lost' = lost \cup {a \in pending : cli[a].state = "awaiting"}
    /\ pending' = {}
    /\ To(k, "done")
    /\ UNCHANGED <<entry, logs, gate, sup, cli, shutdown>>

-----------------------------------------------------------------------------
(* The supervisor: commands *)

\* append: nothing from a reaped child, nothing on a closed log.
Appended(g, turn) ==
    IF sup[g].reaped \/ logs[sup[g].log].state # "open" THEN logs
    ELSE [logs EXCEPT ![sup[g].log].turn = turn]

\* A write that fails breaks the child; one that does not return stops the supervisor.
After(w, phase) == CASE w = "ok" -> phase [] w = "broken" -> "exiting" [] w = "hung" -> "hung"

\* What the caller of a command hears of a write.
Written(k, w) ==
    IF w = "hung" THEN call ELSE Replied({k})

\* enter_stopping: a turn in setup fails, a live turn is interrupted, else stdin is closed.
Stopping(s) ==
    [s EXCEPT !.setup = None,
              !.phase = IF s.turn # None THEN "interrupting" ELSE "draining"]

NextCommand(g) == Head(sup[g].queue)
Popped(g) == [sup[g] EXCEPT !.queue = Tail(@)]
Serves(g, op) ==
    /\ sup[g].phase = "serving" /\ sup[g].queue # <<>>
    /\ call[NextCommand(g)].op = op

\* on_command for Stop: the stop sequence starts, or the caller joins the one that runs.
OnStop(g) ==
    /\ sup[g].phase \in Reading /\ sup[g].queue # <<>>
    /\ call[NextCommand(g)].op \in StopOps
    /\ IF sup[g].phase = "serving"
       THEN /\ sup' = [sup EXCEPT ![g] = Stopping(Popped(g))]
            /\ call' = Replied({sup[g].setup})
       ELSE sup' = [sup EXCEPT ![g] = Popped(g)] /\ UNCHANGED call
    /\ UNCHANGED <<entry, logs, gate, pending, cli, shutdown, lost>>

\* refuse: a command that arrives during the stop sequence.
Refuse(g) ==
    /\ sup[g].phase \in Reading \ {"serving"} /\ sup[g].queue # <<>>
    /\ call[NextCommand(g)].op \notin StopOps
    /\ sup' = [sup EXCEPT ![g] = Popped(g)]
    /\ call' = Replied({NextCommand(g)})
    /\ UNCHANGED <<entry, logs, gate, pending, cli, shutdown, lost>>

\* busy and setup_in_flight.
Busy(g) == sup[g].turn # None \/ sup[g].setup # None

\* begin_turn_setup: the first settings request is written.
BeginTurnSetup(g) ==
    LET k == NextCommand(g) IN
    /\ Serves(g, "start")
    /\ IF ~Listening(k) \/ Busy(g)
       THEN /\ sup' = [sup EXCEPT ![g] = Popped(g)]
            /\ call' = Replied({k})
       ELSE sup' = [sup EXCEPT ![g] = [Popped(g) EXCEPT !.setup = k]] /\ UNCHANGED call
    /\ UNCHANGED <<entry, logs, gate, pending, cli, shutdown, lost>>

\* begin_turn forgets the withdrawals of earlier turns: those asks are stale from now on.
Staled(g) ==
    [a \in Asks |-> IF a \in sup[g].withdrawn THEN [cli[a] EXCEPT !.state = "stale"]
                    ELSE cli[a]]

\* begin_turn, TurnStarted, then the write of the user line.
Begun(g, s, k, w) ==
    /\ sup' = [sup EXCEPT ![g] = [s EXCEPT !.withdrawn = {}, !.turn = k, !.setup = None,
                                           !.phase = After(w, @)]]
    /\ cli' = Staled(g)
    /\ logs' = Appended(g, k)
    /\ call' = Written(k, w)

\* compact: a turn without settings.
Compact(g, w) ==
    LET k == NextCommand(g) IN
    /\ Serves(g, "compact")
    /\ \/ /\ ~Listening(k) \/ Busy(g)
          /\ sup' = [sup EXCEPT ![g] = Popped(g)]
          /\ call' = Replied({k})
          /\ UNCHANGED <<logs, cli>>
       \/ Listening(k) /\ ~Busy(g) /\ Begun(g, Popped(g), k, w)
    /\ UNCHANGED <<entry, gate, pending, shutdown, lost>>

\* A control request is written; its waiter is resolved by the CLI's response.
SendControl(g) ==
    LET k == NextCommand(g) IN
    /\ Serves(g, "control")
    /\ sup' = [sup EXCEPT ![g] = [Popped(g) EXCEPT !.waiters = @ \cup {k}]]
    /\ UNCHANGED <<entry, logs, gate, call, pending, cli, shutdown, lost>>

\* The CLI knows the asks it raised itself.
Told(g, A) ==
    [a \in Asks |-> IF a \in A /\ cli[a].child = g THEN [cli[a] EXCEPT !.state = "answered"]
                    ELSE cli[a]]

\* respond_approval and respond_server_request: a withdrawn ask is refused; one whose caller gave
\* up, or whose answer does not fit, is pending again; any other answer is written.
Respond(g, fits, w) ==
    LET k == NextCommand(g)
        a == call[k].ask
        withdrawn == a \cap sup[g].withdrawn # {} IN
    /\ Serves(g, "answer")
    /\ UNCHANGED <<entry, logs, gate, shutdown, lost>>
    /\ IF withdrawn \/ ~Listening(k) \/ ~fits
       THEN /\ sup' = [sup EXCEPT ![g] = [Popped(g) EXCEPT !.withdrawn = @ \ a]]
            /\ call' = Replied({k})
            /\ pending' = IF withdrawn THEN pending ELSE pending \cup a
            /\ UNCHANGED cli
       ELSE /\ sup' = [sup EXCEPT ![g] = [Popped(g) EXCEPT !.phase = After(w, @)]]
            /\ cli' = Told(g, a)
            /\ call' = Written(k, w)
            /\ UNCHANGED pending

-----------------------------------------------------------------------------
(* The supervisor: lines of the CLI *)

Hears(g) == sup[g].phase \in Reading

\* The CLI opens a turn of its own (a background task's continuation).
OwnTurn(g) ==
    /\ Hears(g) /\ sup[g].turn = None
    /\ sup' = [sup EXCEPT ![g].turn = Own]
    /\ logs' = Appended(g, Own)
    /\ UNCHANGED <<entry, gate, call, pending, cli, shutdown, lost>>

Awaits(g, a) == cli[a] = [child |-> g, state |-> "awaiting"]

\* A result ends the turn; after_line moves an interrupted child on to draining.
TurnResult(g) ==
    /\ Hears(g) /\ sup[g].turn # None /\ \A a \in Asks : ~Awaits(g, a)
    /\ sup' = [sup EXCEPT ![g].turn = None,
                          ![g].phase = IF @ = "interrupting" THEN "draining" ELSE @]
    /\ logs' = Appended(g, None)
    /\ UNCHANGED <<entry, gate, call, pending, cli, shutdown, lost>>

\* The CLI asks; a reaped child's ask is dropped.
Ask(g, a) ==
    /\ Hears(g) /\ sup[g].turn # None /\ cli[a].state = "unused"
    /\ cli' = [cli EXCEPT ![a] = [child |-> g, state |-> "awaiting"]]
    /\ pending' = IF sup[g].reaped THEN pending ELSE pending \cup {a}
    /\ UNCHANGED <<entry, logs, gate, sup, call, shutdown, lost>>

\* on_cancel_request: the ask is dropped, or its answer on the way is remembered as withdrawn.
CancelRequest(g, a) ==
    /\ Hears(g) /\ Awaits(g, a)
    /\ cli' = [cli EXCEPT ![a].state = "withdrawn"]
    /\ pending' = pending \ {a}
    /\ sup' = IF a \in pending THEN sup ELSE [sup EXCEPT ![g].withdrawn = @ \cup {a}]
    /\ UNCHANGED <<entry, logs, gate, call, shutdown, lost>>

\* The CLI answers a control request of a caller.
ControlResponse(g, k) ==
    /\ Hears(g) /\ k \in sup[g].waiters
    /\ sup' = [sup EXCEPT ![g].waiters = @ \ {k}]
    /\ call' = Replied({k})
    /\ UNCHANGED <<entry, logs, gate, pending, cli, shutdown, lost>>

\* Mutant: nobody looks whether the caller gave up while the settings were applied.
FinishTurnSetupBlind(g, w) ==
    LET k == sup[g].setup IN
    /\ sup[g].phase = "serving" /\ k # None
    /\ \/ /\ sup[g].turn # None
          /\ sup' = [sup EXCEPT ![g].setup = None]
          /\ call' = Replied({k})
          /\ UNCHANGED <<logs, cli>>
       \/ sup[g].turn = None /\ Begun(g, sup[g], k, w)
    /\ UNCHANGED <<entry, gate, pending, shutdown, lost>>

\* The last settings response: the turn starts, unless its caller gave up or the CLI has opened
\* a turn of its own meanwhile.
FinishTurnSetup(g, w) ==
    LET k == sup[g].setup IN
    /\ sup[g].phase = "serving" /\ k # None
    /\ \/ /\ ~Listening(k) \/ sup[g].turn # None
          /\ sup' = [sup EXCEPT ![g].setup = None]
          /\ call' = Replied({k})
          /\ UNCHANGED <<logs, cli>>
       \/ Listening(k) /\ sup[g].turn = None /\ Begun(g, sup[g], k, w)
    /\ UNCHANGED <<entry, gate, pending, shutdown, lost>>

\* A settings request is refused, reads back wrong, or misses its deadline.
FailTurnSetup(g) ==
    /\ sup[g].phase = "serving" /\ sup[g].setup # None
    /\ sup' = [sup EXCEPT ![g].setup = None]
    /\ call' = Replied({sup[g].setup})
    /\ UNCHANGED <<entry, logs, gate, pending, cli, shutdown, lost>>

\* stdout ends, or a read or a write of any other arm fails; a write that never returns, or a
\* child that does not exit, leaves the supervisor waiting.
StdoutEnds(g) ==
    /\ Hears(g)
    /\ \E p \in {"exiting", "hung"} : sup' = [sup EXCEPT ![g].phase = p]
    /\ UNCHANGED <<entry, logs, gate, call, pending, cli, shutdown, lost>>

-----------------------------------------------------------------------------
(* The supervisor: timers, the shutdown flag and the exit *)

\* busy_with names nothing.
IsIdle(g) ==
    /\ sup[g].setup = None /\ pending = {}
    /\ sup[g].waiters = {} /\ sup[g].turn = None

\* holds_entry.
HoldsEntry(g) == entry.log # None /\ entry.child = g

\* reap: the child leaves the entry with an empty queue (a queued command cancels the reap and is
\* served, which is the step that serves it); a child the entry does not hold is stopped.
Reap(g) ==
    /\ sup[g].phase = "serving" /\ IsIdle(g)
    /\ HoldsEntry(g) => sup[g].queue = <<>>
    /\ entry' = IF HoldsEntry(g) THEN [entry EXCEPT !.child = None] ELSE entry
    /\ sup' = [sup EXCEPT ![g] = [Stopping(@) EXCEPT !.reaped = HoldsEntry(g)]]
    /\ UNCHANGED <<logs, gate, call, pending, cli, shutdown, lost>>

\* The shutdown flag reaches the supervisor.
ShutdownSignal(g) ==
    /\ shutdown /\ sup[g].phase = "serving"
    /\ sup' = [sup EXCEPT ![g] = Stopping(@)]
    /\ call' = Replied({sup[g].setup})
    /\ UNCHANGED <<entry, logs, gate, pending, cli, shutdown, lost>>

\* on_deadline while stopping: stdin is closed, then the child is killed.
StopDeadline(g) ==
    /\ sup[g].phase \in {"interrupting", "draining"}
    /\ sup' = [sup EXCEPT ![g].phase = IF @ = "interrupting" THEN "draining" ELSE "exiting"]
    /\ UNCHANGED <<entry, logs, gate, call, pending, cli, shutdown, lost>>

\* Mutant: the exit of a reaped child closes the log too.
OnExitClosing(g) ==
    /\ sup[g].phase = "exiting"
    /\ sup' = [sup EXCEPT ![g].phase = "closing", ![g].turn = None, ![g].setup = None,
                          ![g].waiters = {}]
    /\ call' = Replied(sup[g].waiters \cup {sup[g].setup})
    /\ logs' = Closed(sup[g].log)
    /\ UNCHANGED <<entry, gate, pending, cli, shutdown, lost>>

\* on_exit: a turn in setup and the control requests fail; unless the child was reaped, the asks
\* of its thread are dropped, and its turn and then the log are closed.
OnExit(g) ==
    /\ sup[g].phase = "exiting"
    /\ sup' = [sup EXCEPT ![g].phase = "closing", ![g].turn = None, ![g].setup = None,
                          ![g].waiters = {}]
    /\ call' = Replied(sup[g].waiters \cup {sup[g].setup})
    /\ IF sup[g].reaped THEN UNCHANGED <<logs, pending, lost>>
       ELSE /\ logs' = Closed(sup[g].log)
            /\ lost' = Live(g, lost \cup pending)
            /\ pending' = {}
    /\ cli' = Gone(g)
    /\ UNCHANGED <<entry, gate, shutdown>>

\* The end of on_exit and of the task: the entry goes with the child it holds, the replies owed
\* to queued commands are dropped.
Unregister(g) ==
    /\ sup[g].phase = "closing"
    /\ entry' = IF HoldsEntry(g) /\ ~sup[g].reaped THEN NoEntry ELSE entry
    /\ sup' = [sup EXCEPT ![g] = Ended(g)]
    /\ call' = Replied(Owed(g))
    /\ UNCHANGED <<logs, gate, pending, cli, shutdown, lost>>

-----------------------------------------------------------------------------
(* The specification *)

Caller(k) ==
    \/ OpenThread(k) \/ RegisterOpened(k) \/ SpawnFails(k)
    \/ \E op \in TurnOps : StartTurn(k, op)
    \/ TakeGate(k) \/ Respawn(k)
    \/ Control(k) \/ \E a \in Asks : TakeAsk(k, a)
    \/ EnqueueNowhere(k) \/ Enqueue(k) \/ GiveUp(k)

StopCall(k) ==
    \/ \E op \in StopOps : StopThread(k, op)
    \/ SendStop(k) \/ Joined(k) \/ StopTimeout(k) \/ Forget(k)

Commands(g) ==
    \/ Refuse(g) \/ OnStop(g) \/ BeginTurnSetup(g) \/ SendControl(g)
    \/ \E w \in Outcomes : Compact(g, w) \/ \E fits \in BOOLEAN : Respond(g, fits, w)

Lines(g) ==
    \/ OwnTurn(g) \/ TurnResult(g) \/ StdoutEnds(g)
    \/ \E a \in Asks : Ask(g, a) \/ CancelRequest(g, a)
    \/ \E k \in Calls : ControlResponse(g, k)
    \/ FailTurnSetup(g) \/ \E w \in Outcomes : FinishTurnSetup(g, w)

Timers(g) == Reap(g) \/ StopDeadline(g) \/ ShutdownSignal(g)

Exits(g) == OnExit(g) \/ Unregister(g)

Next ==
    \/ \E k \in Calls : Caller(k) \/ StopCall(k)
    \/ \E g \in Children : Commands(g) \/ Lines(g) \/ Timers(g) \/ Exits(g)

\* A stop runs to its end under its timeout; a killed child is collected.
Fairness ==
    /\ \A k \in Calls : WF_vars(SendStop(k) \/ Joined(k) \/ StopTimeout(k) \/ Forget(k))
    /\ \A g \in Children : WF_vars(Exits(g))

Spec == Init /\ [][Next]_vars /\ Fairness

-----------------------------------------------------------------------------
(* Properties *)

Turns == 0..Own

TypeOK ==
    /\ entry \in [log : 0..MaxLogs, child : 0..MaxChildren]
    /\ logs \in [Logs -> [state : {"none", "open", "closed"}, turn : Turns]]
    /\ gate \in [Logs -> 0..MaxCalls]
    /\ \A g \in Children :
         /\ sup[g].phase \in Reading \cup {"none", "hung", "exiting", "closing", "ended"}
         /\ sup[g].queue \in Seq(Calls) /\ Len(sup[g].queue) <= QueueLimit
         /\ sup[g].turn \in Turns /\ sup[g].setup \in 0..MaxCalls
         /\ sup[g].waiters \subseteq Calls /\ sup[g].withdrawn \subseteq Asks
    /\ \A k \in Calls : call[k].op \in Ops /\ call[k].pc \in Steps
    /\ pending \cup lost \subseteq Asks

\* A thread's stream is open for as long as the harness has the thread: reaping a child and the
\* late exit of a reaped child leave it open, and only a child on its way out has closed it.
EntryLogIsOpen ==
    entry.log # None =>
        \/ logs[entry.log].state = "open"
        \/ entry.child # None /\ sup[entry.child].phase = "closing"

\* A turn the thread's stream shows as running runs in the child that serves the thread: the
\* frames of a reaped child never reach the stream another child now writes, and no child is
\* reaped in the middle of a turn.
ShownTurnRuns ==
    entry.log # None /\ logs[entry.log].turn # None =>
        entry.child # None /\ sup[entry.child].turn = logs[entry.log].turn

\* The answer to an ask is on its way to the child.
InFlight(a) ==
    \E k \in Calls :
        /\ a \in call[k].ask
        /\ \/ call[k].pc = "send"
           \/ \E g \in Children, n \in 1..QueueLimit :
                n \in DOMAIN sup[g].queue /\ sup[g].queue[n] = k

\* An ask the thread's serving child waits on can be answered, or its answer is on its way,
\* whoever gave up or answered badly before; only a full queue or the end of an older child of
\* the thread takes it away.
AskIsAnswerable ==
    \A a \in Asks : entry.child # None /\ Awaits(entry.child, a)
                       /\ sup[entry.child].phase = "serving" =>
        a \in pending \cup lost \/ InFlight(a)

\* The thread's stream, the turn it shows and the asks it owes an answer agree with the child
\* that serves the thread, whatever is reaped, respawned, stopped or reopened meanwhile.
SessionIsSound == TypeOK /\ EntryLogIsOpen /\ ShownTurnRuns /\ AskIsAnswerable

\* What a supervisor writes to its child somebody still wants: a user's turn starts only while its
\* caller waits for it, and no answer is written to an ask that its
\* child withdrew in the running turn.
WritesAreWanted ==
    [][/\ \A g \in Children, k \in Calls :
            sup'[g].turn = k /\ sup[g].turn # k => call[k].pc = "waiting"
       /\ \A a \in Asks :
            cli'[a].state = "answered" => cli[a].state # "withdrawn"]_vars

\* The stream of a thread the harness no longer has ends, even if its child ignores the stop,
\* hangs or never exits.
StreamEnds ==
    \A i \in Logs : (logs[i].state = "open" /\ entry.log # i) ~> logs[i].state = "closed"
=============================================================================
