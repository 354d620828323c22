---------------------------- MODULE CodexInstance ----------------------------
(***************************************************************************)
(* The worker of one Codex app-server process, its transport and the calls  *)
(* it serves.  One task owns the routes, the mapper and the active turns: it *)
(* takes, in this order, a shutdown, a message of the inbox, the result of a *)
(* steer, a command and a control, and waits inside a command or a control   *)
(* for the answer to its JSON-RPC request, with a timeout.  The reader task  *)
(* hands an answer to the request that waits for it and appends everything   *)
(* else to the inbox, an EventLog with a limit.                             *)
(*                                                                         *)
(* A request is named by the call that sends it and its method.  The reader  *)
(* takes a line off stdout in the step in which Codex writes it.  Requests   *)
(* that change nothing in the worker (names, archives, catalogues, answers   *)
(* to approvals), the fallback for messages without a thread and the context *)
(* restores are left out; the turn of a compaction is one Codex starts.      *)
(***************************************************************************)
EXTENDS Naturals, Sequences, FiniteSets

CONSTANTS
    Threads,     \* Giskard's thread identities
    Natives,     \* Codex's thread identities
    Root, Base,  \* the thread and the native thread bound at bootstrap
    MaxCalls,    \* calls of the harness
    MaxTurns,    \* turns Codex starts
    InboxLimit,  \* CODEX_INBOX_RETAIN_LIMIT
    None         \* no thread, native thread or turn

ASSUME CodexInstanceAssumption ==
    /\ Root \in Threads /\ Base \in Natives
    /\ {MaxCalls, MaxTurns, InboxLimit} \subseteq Nat \ {0}
    /\ None \notin Threads \cup Natives \cup Nat
    /\ Threads \cap Nat = {} /\ Natives \cap Nat = {}
    \* Identities are UUIDs: there is always one nobody has used or proposed.
    /\ IsFiniteSet(Threads) /\ IsFiniteSet(Natives)
    /\ Cardinality(Threads) >= Cardinality(Natives) + MaxCalls

Calls == 1..MaxCalls
Turns == 1..MaxTurns

VARIABLES
    routes,    \* NativeThreadRoutes::by_native
    byThread,  \* NativeThreadRoutes::native_by_thread
    logs,      \* the event log of a thread and the turn events appended to it
    mapper,    \* CodexMapper::active_turns: the native turn last announced
    active,    \* CodexInstance::active_turns: the acknowledged turn
    worker,    \* where the worker is
    call,      \* the calls of the harness
    queues,    \* the calls in the command and in the control channel
    rpc,       \* the request a call waits for
    pipe,      \* frames on their way to Codex's stdin
    inbox,     \* messages the reader has appended
    link,      \* whether stdin can be written and stdout can be read
    codex,     \* Codex's native threads and turns
    stored,    \* the native thread the server has stored for a thread
    shutdown,  \* the shutdown flag
    acked,     \* the thread a turn was acknowledged to
    givenUp    \* threads deleted, native threads replaced after a failed resume and
               \* acknowledged turns whose entry a later start took

served  == <<routes, byThread, logs, mapper, active>>
traffic == <<pipe, inbox, link, codex>>
vars == <<served, worker, call, queues, rpc, traffic, stored, shutdown, acked, givenUp>>

Commands == {"open", "start"}
Controls == {"claim", "interrupt", "steer", "delete"}
Methods  == {"resume", "new", "turn", "interrupt", "steer", "delete"}

NoCall == [op |-> "none", pc |-> "idle", thread |-> None, native |-> None, turn |-> None]
Done   == [NoCall EXCEPT !.pc = "done"]    \* returned, with a result or an error
NoRpc  == [method |-> "none", state |-> "none", value |-> None]
Idle   == [pc |-> "idle", call |-> 0, thread |-> None, turn |-> None, forced |-> FALSE]
End    == [kind |-> "end", native |-> None, turn |-> None]

\* The bootstrapped thread has been opened.
Init ==
    /\ routes = [n \in Natives |-> IF n = Base THEN Root ELSE None]
    /\ byThread = [t \in Threads |-> IF t = Root THEN Base ELSE None]
    /\ logs = [t \in Threads |-> [state |-> IF t = Root THEN "open" ELSE "none", events |-> {}]]
    /\ mapper = [t \in Threads |-> None]
    /\ active = [t \in Threads |-> None]
    /\ worker = Idle
    /\ call = [k \in Calls |-> NoCall]
    /\ queues = [commands |-> <<>>, controls |-> <<>>]
    /\ rpc = [k \in Calls |-> NoRpc]
    /\ pipe = <<>>
    /\ inbox = <<>>
    /\ link = "up"
    /\ codex = [native |-> [n \in Natives |-> IF n = Base THEN "live" ELSE "unused"],
                turn |-> [u \in Turns |-> [native |-> None, state |-> "unused"]]]
    /\ stored = byThread
    /\ shutdown = FALSE
    /\ acked = [u \in Turns |-> None]
    /\ givenUp = {}

-----------------------------------------------------------------------------
(* The callers *)

Ended(t, u) == <<u, "completed">> \in logs[t].events

\* An identity nobody has used or proposed yet.
Fresh == {t \in Threads : logs[t].state = "none" /\ \A k \in Calls : call[k].thread # t}
NewThread == CHOOSE t \in Fresh : TRUE

\* An owner of the thread has one start in flight, once its open has returned.  The
\* next owner opens the thread whatever the last one left in flight, and a turn may
\* start while another runs at Codex: a gap in the log and the end of the owner
\* release the gate of a turn that goes on.
MayCommand(op, t) ==
    \A k \in Calls : call[k].thread = t =>
        call[k].op \notin IF op = "start" THEN Commands ELSE {"open"}

\* The new identity a caller proposes.
Proposed(t) == t = NewThread

\* The arguments a caller of op may have: a thread, the native thread of its
\* handle and, to steer, the turn it was given.
Arguments(op, t, n, u) ==
    /\ logs[t].state # "removed"
    /\ op = "claim" => n # None /\ codex.native[n] # "unused" /\ Proposed(t)
    /\ op = "open" => n = stored[t]
    /\ op \notin {"open", "claim"} => n = byThread[t] /\ n = stored[t]
    /\ op = "open" => n # None \/ Proposed(t)
    /\ op # "open" => n # None
    /\ op \in Commands => MayCommand(op, t)
    /\ IF op = "steer" THEN u # None /\ acked[u] = t ELSE u = None

\* enqueue_command, enqueue_control; the channels are closed with the worker.
Call(k) ==
    /\ call[k].pc = "idle" /\ \A j \in 1..(k - 1) : call[j].pc # "idle"
    /\ \E op \in Commands \cup Controls, t \in Threads,
          n \in Natives \cup {None}, u \in Turns \cup {None} :
        /\ Arguments(op, t, n, u)
        /\ call' = [call EXCEPT ![k] = IF worker.pc = "done" THEN Done
                ELSE [op |-> op, pc |-> "queued", thread |-> t, native |-> n, turn |-> u]]
        /\ queues' = IF worker.pc = "done" THEN queues
                     ELSE IF op \in Commands THEN [queues EXCEPT !.commands = Append(@, k)]
                     ELSE [queues EXCEPT !.controls = Append(@, k)]
    /\ UNCHANGED <<served, worker, rpc, traffic, stored, shutdown, acked, givenUp>>

\* CodexHarness::shutdown sets the flag and waits for the worker.
Shutdown ==
    /\ ~shutdown
    /\ shutdown' = TRUE
    /\ UNCHANGED <<served, worker, call, queues, rpc, traffic, stored, acked, givenUp>>

-----------------------------------------------------------------------------
(* Codex, its reader and the writer *)

\* Mutant: a full inbox drops its oldest message and reports no gap.
DropsOldest(q, m) == IF Len(q) = InboxLimit THEN Append(Tail(q), m) ELSE Append(q, m)

\* EventLog::append with a limit.  Once a message is lost the next read reports
\* the gap, and nothing after it is read.
Appended(q, m) == IF q # <<>> /\ Head(q) = End THEN q
                  ELSE IF Len(q) = InboxLimit THEN <<End>>
                  ELSE Append(q, m)

Message(kind, n, u) == [kind |-> kind, native |-> n, turn |-> u]

\* deliver_response: a request that is no longer waited for is dropped.
Delivered(r, state, value) ==
    [rpc EXCEPT ![r.call] = IF @.state = "waiting" /\ @.method = r.method
                            THEN [@ EXCEPT !.state = state, !.value = value] ELSE @]

\* fail_all_waiters.
Failed == [k \in Calls |-> IF rpc[k].state = "waiting" THEN [rpc[k] EXCEPT !.state = "err"]
                           ELSE rpc[k]]

Live(u) == codex.turn[u].state \in {"accepted", "running", "failed"}
Announced(u) == codex.turn[u].state \in {"running", "failed"}
Unused == {u \in Turns : codex.turn[u].state = "unused"}
NextTurn == CHOOSE u \in Unused : \A v \in Unused : u <= v
WithTurn(n, state) == [codex EXCEPT !.turn[NextTurn] = [native |-> n, state |-> state]]

\* Codex takes a request and answers it.  An error that says there is no such
\* thread is taken for the success of a delete.
CodexAnswers ==
    /\ link # "down" /\ pipe # <<>>
    /\ pipe' = Tail(pipe)
    /\ LET r == Head(pipe)
           n == r.native
           live == n # None /\ codex.native[n] = "live"
       IN \/ rpc' = Delivered(r, "err", None) /\ UNCHANGED codex
          \/ /\ r.method = "resume" /\ live
             /\ rpc' = Delivered(r, "ok", n)
             /\ UNCHANGED codex
          \/ /\ r.method = "new"
             /\ \E f \in Natives :
                 /\ codex.native[f] = "unused"
                 /\ codex' = [codex EXCEPT !.native[f] = "live"]
                 /\ rpc' = Delivered(r, "ok", f)
          \/ /\ r.method = "turn" /\ live /\ Unused # {}
             /\ codex' = WithTurn(n, "accepted")
             /\ rpc' = Delivered(r, "ok", NextTurn)
          \/ /\ r.method \in {"interrupt", "steer"} /\ Live(r.turn)
             /\ codex.turn[r.turn].native = n
             /\ rpc' = Delivered(r, "ok", r.turn)
             /\ UNCHANGED codex
          \/ /\ r.method = "delete"
             /\ codex' = [native |-> [codex.native EXCEPT ![n] = "gone"],
                          turn |-> [u \in Turns |-> IF codex.turn[u].native = n
                                      THEN [native |-> n, state |-> "over"] ELSE codex.turn[u]]]
             /\ rpc' = Delivered(r, "ok", None)
    /\ UNCHANGED <<served, worker, call, queues, inbox, link, stored, shutdown, acked, givenUp>>

\* Nothing is read any more once a message was lost or the worker is to stop:
\* what Codex writes then is not followed.
Emit(m) ==
    /\ link # "down" /\ ~shutdown /\ inbox # <<End>>
    /\ inbox' = Appended(inbox, m)
    /\ UNCHANGED <<served, worker, call, queues, rpc, pipe, link, stored, shutdown, acked,
                   givenUp>>

Pending(n) == {u \in Turns : codex.turn[u] = [native |-> n, state |-> "accepted"]}

\* The accepted turns of a native thread are announced in order.  A turn may be
\* announced before the one ahead of it completes.
CodexAnnounces(u) ==
    /\ codex.turn[u].state = "accepted"
    /\ \A v \in Pending(codex.turn[u].native) : u <= v
    /\ codex' = [codex EXCEPT !.turn[u].state = "running"]
    /\ Emit(Message("started", codex.turn[u].native, u))

\* A turn nobody asked for: of a goal, of a queue or of a sub-agent, whose
\* native thread comes into being with it.
CodexStarts(n) ==
    /\ Unused # {} /\ Pending(n) = {}
    /\ \/ codex.native[n] = "live"
       \/ codex.native[n] = "unused" /\ \E u \in Turns : Announced(u)
    /\ codex' = [WithTurn(n, "running") EXCEPT !.native[n] = "live"]
    /\ Emit(Message("started", n, NextTurn))

\* An error that will not be retried, ahead of the completion.  It is only
\* logged on a native thread none of whose turns was acknowledged.
CodexFails(u) ==
    /\ codex.turn[u].state = "running"
    /\ \E v \in Turns : acked[v] # None /\ codex.turn[v].native = codex.turn[u].native
    /\ codex' = [codex EXCEPT !.turn[u].state = "failed"]
    /\ Emit(Message("error", codex.turn[u].native, u))

\* The turns of a native thread complete in the order of their announcement.
CodexCompletes(u) ==
    /\ Announced(u)
    /\ \A v \in Turns : Announced(v) /\ codex.turn[v].native = codex.turn[u].native => u <= v
    /\ codex' = [codex EXCEPT !.turn[u].state = IF @ = "failed" THEN "broken" ELSE "over"]
    /\ Emit(Message("completed", codex.turn[u].native, u))

\* The process exits, stdout cannot be read or a frame is malformed.  Requests
\* are no longer answered.
ReaderEnds ==
    /\ link # "down"
    /\ link' = "down"
    /\ inbox' = Appended(inbox, End)
    /\ pipe' = <<>>
    /\ rpc' = Failed
    /\ UNCHANGED <<served, worker, call, queues, codex, stored, shutdown, acked, givenUp>>

\* A write fails, for Codex no longer reads: what is on its way is lost, and
\* whoever waits is failed.
WriterFails ==
    /\ link = "up"
    /\ link' = "unwritable"
    /\ pipe' = <<>>
    /\ rpc' = Failed
    /\ UNCHANGED <<served, worker, call, queues, inbox, codex, stored, shutdown, acked, givenUp>>

-----------------------------------------------------------------------------
(* Requests of the worker *)

\* request_json: registered as waiting, then handed to the writer's channel.  A
\* channel whose writer has failed is closed, or about to be: the frame is lost.
Request(k, method, n, u) ==
    /\ \E state \in IF link = "up" THEN {"waiting"} ELSE {"waiting", "err"} :
        rpc' = [rpc EXCEPT ![k] = [method |-> method, state |-> state, value |-> None]]
    /\ pipe' = IF link = "up"
               THEN Append(pipe, [call |-> k, method |-> method, native |-> n, turn |-> u])
               ELSE pipe
    /\ UNCHANGED <<inbox, link, codex>>

\* The worker waits for the request of call k.
Await(k) == worker' = [Idle EXCEPT !.pc = "rpc", !.call = k]

\* Mutant: a request waits for its answer for ever.
WaitsForEver(k) == FALSE /\ UNCHANGED vars

\* CODEX_JSON_RPC_TIMEOUT; the request stays on its way to Codex.
Timeout(k) ==
    /\ rpc[k].state = "waiting"
    /\ rpc' = [rpc EXCEPT ![k].state = "err"]
    /\ UNCHANGED <<served, worker, call, queues, traffic, stored, shutdown, acked, givenUp>>

Returned(k) == call' = [call EXCEPT ![k] = Done]

\* The request of call k has an answer the worker acts on.
Answered(k, method, state) ==
    /\ worker.pc = "rpc" /\ worker.call = k
    /\ rpc[k].method = method /\ rpc[k].state = state

Forget(k) == rpc' = [rpc EXCEPT ![k] = NoRpc] /\ worker' = Idle

-----------------------------------------------------------------------------
(* Routes *)

MayClaim(n, t) == IF routes[n] # None THEN routes[n] = t ELSE byThread[t] = None

\* ensure_thread_route_sender.
WithLog(t) == [logs EXCEPT ![t].state = "open"]

Claim(n, t) ==
    /\ routes' = [routes EXCEPT ![n] = t]
    /\ byThread' = [byThread EXCEPT ![t] = n]
    /\ logs' = WithLog(t)

MayReplace(old, new, t) ==
    /\ routes[old] = t /\ byThread[t] = old
    /\ new # old => routes[new] = None

Replace(old, new, t) ==
    /\ routes' = [m \in Natives |-> IF m = new THEN t ELSE IF m = old THEN None ELSE routes[m]]
    /\ byThread' = [byThread EXCEPT ![t] = new]
    /\ logs' = WithLog(t)

\* map_or_discover: traffic of an unknown native thread binds it to a new thread.
Routed(n) == IF routes[n] # None THEN routes[n] ELSE NewThread
Discover(n) ==
    /\ routes' = [routes EXCEPT ![n] = Routed(n)]
    /\ byThread' = [byThread EXCEPT ![Routed(n)] = n]
    /\ stored' = IF routes[n] # None THEN stored ELSE [stored EXCEPT ![Routed(n)] = n]

\* broadcast_event, to the log discovery has opened where there was none.
Broadcast(t, events) ==
    logs' = [logs EXCEPT ![t] = IF @.state = "removed" THEN @
                                ELSE [state |-> "open", events |-> @.events \cup events]]

-----------------------------------------------------------------------------
(* The messages *)

\* The select! takes a message before everything but a shutdown.
Polling == worker.pc = "idle" /\ ~shutdown
Receives(kind) == Polling /\ inbox # <<>> /\ Head(inbox).kind = kind

Read == inbox' = Tail(inbox) /\ UNCHANGED <<pipe, link, codex>>

HandleStarted ==
    /\ Receives("started")
    /\ LET m == Head(inbox)
           t == Routed(m.native)
       IN /\ Discover(m.native)
          /\ mapper' = [mapper EXCEPT ![t] = m.turn]
          /\ Broadcast(t, {<<m.turn, "started">>})
    /\ Read
    /\ UNCHANGED <<active, worker, call, queues, rpc, shutdown, acked, givenUp>>

\* Mutant: the completion of any turn ends the active one.
EndsAnyActive(t, u) == active[t] # None

\* completed_current_active_turn, event_is_current_turn.
IsCurrent(t, u) == active[t] = u

\* The uploads of a turn are removed by a request of their own, which may fail.
CleanUp(t, u, forced) ==
    worker' = [Idle EXCEPT !.pc = "cleanup", !.thread = t, !.turn = u, !.forced = forced]

HandleCompleted ==
    /\ Receives("completed")
    /\ LET m == Head(inbox)
           t == Routed(m.native)
       IN /\ Discover(m.native)
          /\ mapper' = [mapper EXCEPT ![t] = IF @ = m.turn THEN None ELSE @]
          /\ Broadcast(t, {<<m.turn, "completed">>})
          /\ IF IsCurrent(t, m.turn) THEN CleanUp(t, m.turn, FALSE) ELSE UNCHANGED worker
    /\ Read
    /\ UNCHANGED <<active, call, queues, rpc, shutdown, acked, givenUp>>

\* emit_fatal_turn_completion, for an error of the acknowledged turn.
HandleError ==
    /\ Receives("error")
    /\ LET m == Head(inbox)
           t == Routed(m.native)
       IN /\ Discover(m.native)
          /\ IF IsCurrent(t, m.turn)
             THEN Broadcast(t, {<<m.turn, "completed">>}) /\ CleanUp(t, m.turn, TRUE)
             ELSE Broadcast(t, {}) /\ UNCHANGED worker
    /\ Read
    /\ UNCHANGED <<mapper, active, call, queues, rpc, shutdown, acked, givenUp>>

CleanedUp ==
    /\ worker.pc = "cleanup"
    /\ LET t == worker.thread
       IN /\ active' = [active EXCEPT ![t] = None]
          /\ mapper' = [mapper EXCEPT ![t] = IF worker.forced \/ @ = worker.turn THEN None ELSE @]
    /\ worker' = Idle
    /\ UNCHANGED <<routes, byThread, logs, call, queues, rpc, traffic, stored, shutdown, acked,
                   givenUp>>

\* The worker stops: its channels and the steers it holds are dropped.
Stop ==
    /\ worker' = [Idle EXCEPT !.pc = "done"]
    /\ call' = [k \in Calls |-> IF call[k].pc = "idle" THEN call[k] ELSE Done]
    /\ queues' = [commands |-> <<>>, controls |-> <<>>]
    /\ rpc' = [k \in Calls |-> NoRpc]
    /\ pipe' = <<>>
    /\ inbox' = <<>>
    /\ link' = "down"
    /\ UNCHANGED <<routes, byThread, codex, stored, shutdown, acked, givenUp>>

\* emit_incomplete_active_turns.
HandleEnd ==
    /\ Receives("end")
    /\ logs' = [t \in Threads |-> IF active[t] # None /\ logs[t].state = "open"
                THEN [logs[t] EXCEPT !.events = @ \cup {<<active[t], "completed">>}] ELSE logs[t]]
    /\ mapper' = [t \in Threads |-> IF active[t] # None THEN None ELSE mapper[t]]
    /\ active' = [t \in Threads |-> None]
    /\ Stop

HandleShutdown ==
    /\ worker.pc = "idle" /\ shutdown
    /\ Stop
    /\ UNCHANGED <<logs, mapper, active>>

-----------------------------------------------------------------------------
(* Steers *)

\* poll_pending_steer sends a steer the first time it is polled.
SendSteer(k) ==
    /\ Polling /\ inbox = <<>>
    /\ call[k].pc = "steering" /\ rpc[k].state = "none"
    /\ Request(k, "steer", call[k].native, call[k].turn)
    /\ UNCHANGED <<served, worker, call, queues, stored, shutdown, acked, givenUp>>

FinishSteer(k) ==
    /\ Polling /\ inbox = <<>>
    /\ call[k].pc = "steering" /\ rpc[k].state \in {"ok", "err"}
    /\ Returned(k)
    /\ rpc' = [rpc EXCEPT ![k] = NoRpc]
    /\ UNCHANGED <<served, worker, queues, traffic, stored, shutdown, acked, givenUp>>

SteersWait == \A k \in Calls : call[k].pc = "steering" => rpc[k].state = "waiting"

-----------------------------------------------------------------------------
(* Commands *)

Serving(channel) ==
    /\ Polling /\ inbox = <<>> /\ SteersWait
    /\ queues[channel] # <<>>
    /\ queues' = [queues EXCEPT ![channel] = Tail(@)]

Served(k) == call' = [call EXCEPT ![k].pc = "served"]

\* handle_open_thread: resume the native thread of the binding, or start one.
OpenThread ==
    /\ Serving("commands")
    /\ LET k == Head(queues.commands)
       IN /\ call[k].op = "open"
          /\ IF call[k].native # None THEN Request(k, "resume", call[k].native, None)
             ELSE Request(k, "new", None, None)
          /\ Served(k) /\ Await(k)
    /\ UNCHANGED <<served, stored, shutdown, acked, givenUp>>

\* A resume that failed or timed out falls back to a new native thread.
ResumeFailed(k) ==
    /\ Answered(k, "resume", "err")
    /\ Request(k, "new", None, None)
    /\ UNCHANGED <<served, worker, call, queues, stored, shutdown, acked, givenUp>>

ThreadOpened(k) ==
    /\ \E method \in {"resume", "new"} : Answered(k, method, "ok")
    /\ LET t == call[k].thread
           n == rpc[k].value
           old == call[k].native
           fallback == rpc[k].method = "new" /\ old # None
       IN \/ /\ fallback /\ MayReplace(old, n, t)
             /\ Replace(old, n, t)
             /\ \/ stored' = [stored EXCEPT ![t] = n]
                \/ UNCHANGED stored
             /\ givenUp' = givenUp \cup {old}
          \/ /\ ~fallback /\ MayClaim(n, t)
             /\ Claim(n, t)
             /\ stored' = [stored EXCEPT ![t] = n]
             /\ UNCHANGED givenUp
          \/ /\ ~(IF fallback THEN MayReplace(old, n, t) ELSE MayClaim(n, t))
             /\ UNCHANGED <<routes, byThread, logs, stored, givenUp>>
    /\ Returned(k) /\ Forget(k)
    /\ UNCHANGED <<mapper, active, queues, traffic, shutdown, acked>>

\* context_policy::ensure and the uploads precede turn/start, and may fail.
StartTurn ==
    /\ Serving("commands")
    /\ LET k == Head(queues.commands)
       IN /\ call[k].op = "start"
          /\ \/ /\ Request(k, "turn", call[k].native, None)
                /\ Served(k) /\ Await(k)
             \/ /\ Returned(k)
                /\ UNCHANGED <<worker, rpc, traffic>>
    /\ UNCHANGED <<served, stored, shutdown, acked, givenUp>>

\* register_active_turn, then the entry of the acknowledged turn, in the place of
\* whatever turn was there.
TurnStarted(k) ==
    /\ Answered(k, "turn", "ok")
    /\ LET t == call[k].thread
           u == rpc[k].value
       IN /\ mapper' = [mapper EXCEPT ![t] = u]
          /\ active' = [active EXCEPT ![t] = u]
          /\ acked' = [acked EXCEPT ![u] = t]
          /\ givenUp' = IF active[t] = None THEN givenUp ELSE givenUp \cup {active[t]}
    /\ Returned(k) /\ Forget(k)
    /\ UNCHANGED <<routes, byThread, logs, queues, traffic, stored, shutdown>>

-----------------------------------------------------------------------------
(* Controls *)

\* claim_or_adopt_thread_route: the final identity of a native thread wins, and
\* a new one has no other native thread.
ClaimNativeThread ==
    /\ Serving("controls")
    /\ LET k == Head(queues.controls)
           n == call[k].native
           t == IF routes[n] # None THEN routes[n] ELSE call[k].thread
       IN /\ call[k].op = "claim" /\ MayClaim(n, t)
          /\ Claim(n, t)
          /\ stored' = [stored EXCEPT ![t] = n]
          /\ Returned(k)
    /\ UNCHANGED <<mapper, active, worker, rpc, traffic, shutdown, acked, givenUp>>

\* Whether a control is refused before it sends anything.
Refused(c) ==
    CASE c.op = "interrupt" -> mapper[c.thread] = None
      [] c.op = "steer" -> active[c.thread] # c.turn \/ mapper[c.thread] = None
      [] OTHER -> active[c.thread] # None

RefuseControl ==
    /\ Serving("controls")
    /\ LET k == Head(queues.controls)
       IN call[k].op # "claim" /\ Refused(call[k]) /\ Returned(k)
    /\ UNCHANGED <<served, worker, rpc, traffic, stored, shutdown, acked, givenUp>>

\* A steer joins the pending ones with the native turn the mapper has.
SteerTurn ==
    /\ Serving("controls")
    /\ LET k == Head(queues.controls)
       IN /\ call[k].op = "steer" /\ ~Refused(call[k])
          /\ call' = [call EXCEPT ![k].pc = "steering", ![k].turn = mapper[call[k].thread]]
    /\ UNCHANGED <<served, worker, rpc, traffic, stored, shutdown, acked, givenUp>>

\* handle_interrupt, handle_delete_thread.
SendControl ==
    /\ Serving("controls")
    /\ LET k == Head(queues.controls)
       IN /\ call[k].op \in {"interrupt", "delete"} /\ ~Refused(call[k])
          /\ Request(k, call[k].op, call[k].native,
                     IF call[k].op = "interrupt" THEN mapper[call[k].thread] ELSE None)
          /\ Served(k) /\ Await(k)
    /\ UNCHANGED <<served, stored, shutdown, acked, givenUp>>

\* A deleted thread loses its log; its route stays.
ThreadDeleted(k) ==
    /\ Answered(k, "delete", "ok")
    /\ logs' = [logs EXCEPT ![call[k].thread].state = "removed"]
    /\ givenUp' = givenUp \cup {call[k].thread}
    /\ Returned(k) /\ Forget(k)
    /\ UNCHANGED <<routes, byThread, mapper, active, queues, traffic, stored, shutdown, acked>>

\* Every other answer is passed to the caller and changes nothing.
PassAnswer(k) ==
    /\ \/ Answered(k, "interrupt", "ok")
       \/ \E method \in Methods \ {"resume"} : Answered(k, method, "err")
    /\ Returned(k) /\ Forget(k)
    /\ UNCHANGED <<served, queues, traffic, stored, shutdown, acked, givenUp>>

-----------------------------------------------------------------------------
WorkerStep ==
    \/ HandleStarted \/ HandleCompleted \/ HandleError \/ CleanedUp \/ HandleEnd
    \/ HandleShutdown \/ OpenThread \/ StartTurn \/ ClaimNativeThread \/ RefuseControl
    \/ SteerTurn \/ SendControl
    \/ \E k \in Calls : \/ SendSteer(k) \/ FinishSteer(k) \/ ResumeFailed(k) \/ ThreadOpened(k)
                        \/ TurnStarted(k) \/ ThreadDeleted(k) \/ PassAnswer(k)

CodexStep ==
    \/ CodexAnswers
    \/ \E u \in Turns : CodexAnnounces(u) \/ CodexFails(u) \/ CodexCompletes(u)
    \/ \E n \in Natives : CodexStarts(n)

Next ==
    \/ WorkerStep
    \/ CodexStep
    \/ \E k \in Calls : Call(k) \/ Timeout(k)
    \/ Shutdown \/ ReaderEnds \/ WriterFails

Spec == Init /\ [][Next]_vars

\* The worker's task is scheduled and its timers fire.  Nothing is assumed of
\* Codex, of the pipes or of the callers.
FairSpec == Spec /\ WF_vars(WorkerStep) /\ \A k \in Calls : WF_vars(Timeout(k))

-----------------------------------------------------------------------------
(* Properties *)

TypeOK ==
    /\ routes \in [Natives -> Threads \cup {None}]
    /\ {byThread, stored} \subseteq [Threads -> Natives \cup {None}]
    /\ logs \in [Threads -> [state : {"none", "open", "removed"},
                             events : SUBSET (Turns \X {"started", "completed"})]]
    /\ {mapper, active} \subseteq [Threads -> Turns \cup {None}]
    /\ acked \in [Turns -> Threads \cup {None}]
    /\ worker.pc \in {"idle", "rpc", "cleanup", "done"}
    /\ Len(inbox) <= InboxLimit

\* The two halves of the routes mirror each other.
RoutesMirror == \A n \in Natives, t \in Threads : (routes[n] = t) <=> (byThread[t] = n)

Shown(t, u) == \E e \in logs[t].events : e[1] = u

\* The events of a turn reach one log, and those of an acknowledged turn the log
\* of the thread it was acknowledged to, unless its native thread was given up.
TurnHasOneLog ==
    \A u \in Turns : \/ codex.turn[u].native \in givenUp
                    \/ \A s, t \in Threads : /\ Shown(s, u) /\ Shown(t, u) => s = t
                                             /\ acked[u] = s /\ Shown(t, u) => s = t

\* An acknowledged turn is tracked until its completion is in the log, unless a
\* later start took its entry, and not beyond: the completion never overtakes the
\* acknowledgement.
AckedTurnIsTracked ==
    /\ \A u \in Turns, t \in Threads :
        acked[u] = t => Ended(t, u) \/ active[t] = u \/ t \in givenUp \/ u \in givenUp
    /\ \A t \in Threads :
        active[t] # None => \/ ~Ended(t, active[t])
                            \/ worker.pc = "cleanup" /\ worker.thread = t

\* When the worker has read everything, the turn it would interrupt or steer is
\* live at Codex, and while Codex runs a turn there is one to interrupt, unless a
\* fatal error has cleared it or the native thread was given up.
MapperIsCurrent ==
    worker.pc = "idle" /\ inbox = <<>> /\ link # "down" =>
        \A n \in Natives \ givenUp : routes[n] # None /\ codex.native[n] = "live" =>
            LET u == mapper[routes[n]]
                mine == {v \in Turns : codex.turn[v].native = n}
            IN /\ u # None => \/ u \in mine /\ Live(u)
                              \/ codex.turn[u].native \in givenUp
               /\ u = None => \/ \A v \in mine : ~Announced(v)
                              \/ \E v \in mine : codex.turn[v].state \in {"failed", "broken"}

\* The worker's state agrees with Codex and with the logs: bijective routes, one
\* log per turn, acknowledged turns tracked exactly until they have ended, and a
\* mapper that names a live turn, through timeouts, late answers, overlapping
\* turns, discoveries, lost messages and failed resumes.
CodexIsSound ==
    TypeOK /\ RoutesMirror /\ TurnHasOneLog /\ AckedTurnIsTracked /\ MapperIsCurrent

\* Nothing more will be heard of an acknowledged turn, and the log says so.
Over(u) == acked[u] # None /\ (~Live(u) \/ link = "down")
Reported(u) ==
    \/ \E t \in Threads : acked[u] = t /\ (Ended(t, u) \/ t \in givenUp)
    \/ u \in givenUp /\ worker.pc = "done"
    \/ codex.turn[u].native \in givenUp

\* An acknowledged turn that is over at Codex, or that Codex can no longer
\* report, is completed in the log of its thread, even when messages are lost or
\* the process ends, unless the harness is shut down or the thread is deleted.  A
\* turn whose entry a later start took is completed by its own completion alone:
\* it is not when the worker ends before reading that, and nor is the turn of a
\* native thread given up, whose messages go elsewhere.
AckedTurnsEnd ==
    (\E u \in Turns : Over(u)) ~> (shutdown \/ \A u \in Turns : Over(u) => Reported(u))

Unreturned == {k \in Calls : call[k].pc \notin {"idle", "done"}}

\* Every call returns and a shutdown ends the worker, whatever Codex answers or
\* fails to answer and whenever its pipes break.
CallsReturn ==
    (Unreturned # {} \/ shutdown) ~> (Unreturned = {} /\ (shutdown => worker.pc = "done"))

=============================================================================
