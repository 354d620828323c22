--------------------------- MODULE RequestClaims ---------------------------
(***************************************************************************)
(* Approval and server requests of one thread: the request ledger of the    *)
(* thread runtime (thread_runtime/requests.rs, thread_runtime.rs), the      *)
(* browser responses that claim, deliver and settle a request               *)
(* (registry.rs, ws.rs), the Codex adapter that raises and answers them,    *)
(* and the revision gate of the browser (app.js).                           *)
(*                                                                          *)
(* A responder is one in-flight response future.  Every .await in it is a   *)
(* point where other steps interleave and where the two-second timeout of   *)
(* the WebSocket handler may drop it.  A payload is its version number; an  *)
(* answer is the claim that carried it.                                     *)
(***************************************************************************)
EXTENDS Integers, Sequences, FiniteSetsExt

CONSTANTS
    Approvals,      \* approval request ids
    ServerRequests, \* generic server request ids
    Responders,     \* concurrent browser responses
    MaxClaims,      \* bound: claims taken in a behaviour
    MaxRaised,      \* bound: requests raised in a behaviour
    MaxTurns,       \* bound: turns
    MaxEvents,      \* bound: unapplied events when the provider redelivers
    MaxJoins,       \* bound: subscriptions of the browser after its first
    MaxChannel      \* bound: room the browser's queue has for these messages

ASSUME RequestConstants ==
    /\ Approvals \cap ServerRequests = {} /\ Approvals \cup ServerRequests # {}
    /\ {MaxClaims, MaxRaised, MaxTurns, MaxEvents, MaxJoins, MaxChannel} \subseteq Nat

Requests == Approvals \cup ServerRequests
NoTurn == 0
NoClaim == 0
NullAnswer == 0     \* the resolution synthesized from a harness resolution
Elsewhere == -1     \* answered by the provider or by an interrupt

VARIABLES
    records,        \* the ledger: id -> record, a partial function
    lastClaim,      \* the process-wide claim counter
    task,           \* responder -> its future
    ownerOut,       \* states the event owner still has to publish
    events,         \* harness events the owner has not applied
    commands,       \* response commands queued at the adapter
    pending,        \* the adapter's open requests
    turn,           \* the provider's current turn
    raised,         \* how often each id was raised
    raisedIn,       \* id -> the turn it names
    answered,       \* id -> whose answer the provider got (history)
    channel,        \* messages on their way to the browser
    view,           \* the browser's requestStates
    joins,          \* the browser's subscriptions after its first
    joining,        \* a subscription has still to read the ledger
    snapshot,       \* states it has read and not yet sent
    lost            \* requests the browser may have missed a word of (history)

ledger == <<records, lastClaim>>
adapter == <<commands, pending, turn, raised, raisedIn, answered>>
browser == <<channel, view, joins, joining, snapshot, lost>>
vars == <<ledger, task, ownerOut, events, adapter, browser>>

Idle == [pc |-> "idle", req |-> CHOOSE q \in Requests : TRUE, claim |-> NoClaim,
         out |-> <<>>]

\* The turn's completion on the transcript stream, which uses the same queue.
TurnCompleted == [req |-> Idle.req, revision |-> 0, status |-> "turnCompleted",
                  payload |-> 0]

Init ==
    /\ records = [q \in {} |-> 0]
    /\ lastClaim = NoClaim
    /\ task = [p \in Responders |-> Idle]
    /\ ownerOut = <<>>
    /\ events = <<>>
    /\ commands = <<>>
    /\ pending = {}
    /\ turn = 1
    /\ raised = [q \in Requests |-> 0]
    /\ raisedIn = [q \in Requests |-> NoTurn]
    /\ answered = [q \in Requests |-> NoClaim]
    /\ channel = <<>>
    /\ view = [q \in {} |-> 0]
    /\ joins = 0
    /\ joining = FALSE
    /\ snapshot = {}
    /\ lost = {}
-----------------------------------------------------------------------------
(* The ledger: pure operations on the records. *)

\* wire_request_state: the replacement state of one record.
State(rs, q) ==
    [req |-> q, revision |-> rs[q].revision, status |-> rs[q].status,
     payload |-> rs[q].payload]

Put(rs, q, rec) == [r \in DOMAIN rs \cup {q} |-> IF r = q THEN rec ELSE rs[r]]

Bump(rec) == [rec EXCEPT !.revision = @ + 1]

\* Mutant: a redelivery reopens the record.
RegisterResurrects(rs, q, t, payload) ==
    Put(rs, q, [turn |-> t, payload |-> payload, status |-> "pending",
                claim |-> NoClaim, harnessResolved |-> FALSE,
                answer |-> NullAnswer,
                revision |-> IF q \in DOMAIN rs THEN rs[q].revision + 1 ELSE 1])

\* register: a redelivery may refresh the payload but never reopens a record.
Register(rs, q, t, payload) ==
    IF q \notin DOMAIN rs
    THEN Put(rs, q, [turn |-> t, payload |-> payload, status |-> "pending",
                     claim |-> NoClaim, harnessResolved |-> FALSE,
                     answer |-> NullAnswer, revision |-> 1])
    ELSE IF rs[q].payload = payload THEN rs
    ELSE [rs EXCEPT ![q] = Bump([@ EXCEPT !.payload = payload])]

\* resolve_from_harness: an open claim is not preempted, only marked.
ResolveFromHarness(rs, q) ==
    IF q \notin DOMAIN rs \/ rs[q].status = "resolved" THEN rs
    ELSE IF rs[q].status = "responding"
    THEN [rs EXCEPT ![q].harnessResolved = TRUE]
    ELSE [rs EXCEPT ![q] = Bump([@ EXCEPT !.status = "resolved",
                                          !.answer = NullAnswer])]

Claimed(rs, q, c) ==
    [rs EXCEPT ![q] = Bump([@ EXCEPT !.status = "responding", !.claim = c,
                                     !.harnessResolved = FALSE])]

Holds(rs, q, c) ==
    q \in DOMAIN rs /\ rs[q].status = "responding" /\ rs[q].claim = c

\* commit, for a claim that is still held.
Committed(rs, q, c) ==
    [rs EXCEPT ![q] = Bump([@ EXCEPT !.status = "resolved", !.answer = c])]

\* rollback: back to pending, or to the resolution the harness reported while
\* the claim was open.  Nothing happens to a record another claim holds.
RolledBack(rs, q, c) ==
    IF ~Holds(rs, q, c) THEN rs
    ELSE [rs EXCEPT ![q] = Bump([@ EXCEPT
            !.status = IF rs[q].harnessResolved THEN "resolved" ELSE "pending",
            !.answer = NullAnswer])]

\* prune_resolved: the settled turn's resolved records go.
Pruned(rs, t) ==
    [q \in {r \in DOMAIN rs : ~(rs[r].status = "resolved" /\ rs[r].turn = t)}
        |-> rs[q]]

\* The states a ledger operation on q makes its caller publish.
Changed(rs, new, q) ==
    IF q \in DOMAIN new /\ (q \notin DOMAIN rs \/ new[q].revision # rs[q].revision)
    THEN <<State(new, q)>> ELSE <<>>
-----------------------------------------------------------------------------
(* The Codex adapter: one worker that handles provider messages and queued  *)
(* commands one at a time.                                                  *)

\* A request arrives from the provider: it is recorded as pending and its event
\* is appended to the thread's log.  A server request may carry no turn.
Raise(q, t) ==
    /\ q \notin pending
    /\ raised[q] = 0        \* no id is used twice
    /\ t = turn \/ (q \in ServerRequests /\ t = NoTurn)
    /\ MapThenSumSet(LAMBDA r : raised[r], Requests) < MaxRaised
    /\ raised' = [raised EXCEPT ![q] = @ + 1]
    /\ raisedIn' = [raisedIn EXCEPT ![q] = t]
    /\ pending' = pending \cup {q}
    /\ answered' = [answered EXCEPT ![q] = NoClaim]
    /\ events' = Append(events, [kind |-> "requested", req |-> q, turn |-> t,
                                 payload |-> 2 * raised[q]])
    /\ UNCHANGED <<ledger, task, ownerOut, commands, turn, browser>>

\* The provider delivers an open request again, with refreshed metadata, while
\* the turn it belongs to runs.
Redeliver(q) ==
    /\ q \in pending
    /\ raisedIn[q] \in {turn, NoTurn}
    /\ Len(events) < MaxEvents
    /\ events' = Append(events, [kind |-> "requested", req |-> q,
                                 turn |-> raisedIn[q],
                                 payload |-> 2 * raised[q] - 1])
    /\ UNCHANGED <<ledger, task, ownerOut, adapter, browser>>

ResolvedEvent(q) == [kind |-> "resolved", req |-> q, turn |-> turn, payload |-> 0]

\* The reply reaches the future that waits for it, if it still does.
Reply(cmd, result) ==
    task' = IF task[cmd.by].claim = cmd.claim /\ task[cmd.by].pc = "waiting"
            THEN [task EXCEPT ![cmd.by].pc = result] ELSE task

\* handle_respond_approval, handle_respond_server_request: the next command is
\* run even when its caller has timed out.  An unknown id or a failed write is an
\* error; otherwise the correlation is removed and a server request's resolution
\* is appended to the log.
HandleRespond ==
    /\ commands # <<>>
    /\ LET cmd == Head(commands)
           q == cmd.req
       IN \/ /\ q \in pending
             /\ pending' = pending \ {q}
             /\ answered' = [answered EXCEPT ![q] = cmd.claim]
             /\ events' = IF q \in ServerRequests
                          THEN Append(events, ResolvedEvent(q)) ELSE events
             /\ Reply(cmd, "accepted")
          \/ /\ UNCHANGED <<pending, answered, events>>
             /\ Reply(cmd, "refused")
    /\ commands' = Tail(commands)
    /\ UNCHANGED <<ledger, ownerOut, turn, raised, raisedIn, browser>>

\* The provider closes a server request by itself (serverRequest/resolved).
ProviderResolves(q) ==
    /\ q \in pending \cap ServerRequests
    /\ pending' = pending \ {q}
    /\ answered' = [answered EXCEPT ![q] = Elsewhere]
    /\ events' = Append(events, ResolvedEvent(q))
    /\ UNCHANGED <<ledger, task, ownerOut, commands, turn, raised, raisedIn, browser>>

\* An accepted interrupt rejects what is pending: a server request is answered
\* with an error and its resolution is appended, unless the write fails; an
\* approval is cancelled and forgotten either way, without an event.
Interrupt ==
    \E failed \in SUBSET (pending \cap ServerRequests) :
        LET rejected == (pending \cap ServerRequests) \ failed IN
        /\ pending # {}
        /\ pending' = failed
        /\ answered' = [q \in Requests |->
                          IF q \in pending \ failed THEN Elsewhere
                                                    ELSE answered[q]]
        /\ \E order \in [1 .. Cardinality(rejected) -> rejected] :
              /\ \A q \in rejected : \E i \in DOMAIN order : order[i] = q
              /\ events' = events \o [i \in DOMAIN order |->
                                        ResolvedEvent(order[i])]
        /\ UNCHANGED <<ledger, task, ownerOut, commands, turn, raised, raisedIn, browser>>

\* The turn ends; requests still open belong to no running turn any more.
TurnEnds ==
    /\ turn < MaxTurns
    /\ events' = Append(events, [kind |-> "turnCompleted", req |-> Idle.req,
                                 turn |-> turn, payload |-> 0])
    /\ turn' = turn + 1
    /\ UNCHANGED <<ledger, task, ownerOut, commands, pending, raised, raisedIn,
                   answered, browser>>
-----------------------------------------------------------------------------
(* The event owner: applies one event under the entry lock, then publishes   *)
(* what it changed before it takes the next.                                *)

Applied(rs, e) ==
    CASE e.kind = "requested" -> Register(rs, e.req, e.turn, e.payload)
      [] e.kind = "resolved" -> ResolveFromHarness(rs, e.req)
      [] e.kind = "turnCompleted" -> Pruned(rs, e.turn)

ApplyEvent ==
    /\ events # <<>>
    /\ ownerOut = <<>>
    /\ LET e == Head(events)
           new == Applied(records, e)
       IN  /\ records' = new
           /\ ownerOut' = IF e.kind = "turnCompleted" THEN <<TurnCompleted>>
                          ELSE Changed(records, new, e.req)
    /\ events' = Tail(events)
    /\ UNCHANGED <<lastClaim, task, adapter, browser>>

Room == Len(channel) < MaxChannel

\* Hub::publish: try_send, and a full queue drops the message.  The queue carries
\* the client's other messages too, so it may be full at any time.
Publish(out) ==
    /\ \/ Room /\ channel' = channel \o out /\ UNCHANGED lost
       \/ /\ lost' = lost \cup {m.req : m \in Range(out) \ {TurnCompleted}}
          /\ UNCHANGED channel
    /\ UNCHANGED <<view, joins, joining, snapshot>>

PublishApplied ==
    /\ ownerOut # <<>>
    /\ Publish(ownerOut)
    /\ ownerOut' = <<>>
    /\ UNCHANGED <<ledger, task, events, adapter>>
-----------------------------------------------------------------------------
(* A browser response: respond_approval and respond_server_request under the *)
(* timeout of the WebSocket handler.                                        *)

\* claim_request: only a pending record can be claimed.
Claim(p, q) ==
    /\ task[p].pc = "idle"
    /\ q \in DOMAIN records
    /\ records[q].status = "pending"
    /\ lastClaim < MaxClaims
    /\ LET c == lastClaim + 1
           new == Claimed(records, q, c)
       IN  /\ records' = new
           /\ lastClaim' = c
           /\ task' = [task EXCEPT ![p] = [pc |-> "claimed", req |-> q,
                                           claim |-> c,
                                           out |-> <<State(new, q)>>]]
    /\ UNCHANGED <<ownerOut, events, adapter, browser>>

PublishClaim(p) ==
    /\ task[p].pc = "claimed"
    /\ Publish(task[p].out)
    /\ task' = [task EXCEPT ![p].pc = "sending", ![p].out = <<>>]
    /\ UNCHANGED <<ledger, ownerOut, events, adapter>>

\* The harness call enqueues a command and waits for its reply.
Send(p) ==
    /\ task[p].pc = "sending"
    /\ commands' = Append(commands, [by |-> p, req |-> task[p].req,
                                     claim |-> task[p].claim])
    /\ task' = [task EXCEPT ![p].pc = "waiting"]
    /\ UNCHANGED <<ledger, ownerOut, events, pending, turn, raised, raisedIn,
                   answered, browser>>

\* Settle the claim with new records; publish what that changed.
Settle(p, new) ==
    LET out == Changed(records, new, task[p].req) IN
    /\ records' = new
    /\ task' = IF out = <<>> THEN [task EXCEPT ![p] = Idle]
               ELSE [task EXCEPT ![p].pc = "settled", ![p].out = out]
    /\ UNCHANGED <<lastClaim, ownerOut, events, adapter, browser>>

\* The harness accepted the answer: commit.  A claim that is no longer held is
\* reported as stale and changes nothing.
OnAccepted(p) ==
    /\ task[p].pc = "accepted"
    /\ LET q == task[p].req
           c == task[p].claim
       IN  Settle(p, IF Holds(records, q, c) THEN Committed(records, q, c)
                                             ELSE records)

\* The harness call failed: roll the claim back.
OnRefused(p) ==
    /\ task[p].pc = "refused"
    /\ Settle(p, RolledBack(records, task[p].req, task[p].claim))

PublishSettled(p) ==
    /\ task[p].pc \in {"settled", "reread"}
    /\ Publish(task[p].out)
    /\ task' = [task EXCEPT ![p] = Idle]
    /\ UNCHANGED <<ledger, ownerOut, events, adapter>>

\* Mutant: a dropped future leaves its claim behind.
TimeoutKeepsClaim(p) ==
    /\ task[p].pc \in {"claimed", "sending", "waiting", "accepted", "refused",
                       "settled"}
    /\ task' = [task EXCEPT ![p].pc = "timedOut", ![p].out = <<>>]
    /\ UNCHANGED <<ledger, ownerOut, events, adapter, browser>>

\* The timeout drops the future at whatever await it is suspended.  An unsettled
\* claim rolls itself back, unpublished; the handler then republishes the state.
Timeout(p) ==
    /\ task[p].pc \in {"claimed", "sending", "waiting", "accepted", "refused",
                       "settled"}
    /\ records' = RolledBack(records, task[p].req, task[p].claim)
    /\ task' = [task EXCEPT ![p].pc = "timedOut", ![p].out = <<>>]
    /\ UNCHANGED <<lastClaim, ownerOut, events, adapter, browser>>

\* Mutant: the handler reports the timeout and publishes nothing.
NoRepublish(p) ==
    /\ task[p].pc = "timedOut"
    /\ task' = [task EXCEPT ![p] = Idle]
    /\ UNCHANGED <<ledger, ownerOut, events, adapter, browser>>

\* publish_request_state: read the record as it is now; PublishSettled sends it.
Reread(p) ==
    /\ task[p].pc = "timedOut"
    /\ task' = IF task[p].req \in DOMAIN records
               THEN [task EXCEPT ![p].pc = "reread",
                                 ![p].out = <<State(records, task[p].req)>>]
               ELSE [task EXCEPT ![p] = Idle]
    /\ UNCHANGED <<ledger, ownerOut, events, adapter, browser>>
-----------------------------------------------------------------------------
(* The browser. *)

\* handleRequestState keeps the newer of what it has and what arrives.
Accepts(v, m) == m.req \in DOMAIN v => v[m.req].revision =< m.revision

Receive ==
    /\ channel # <<>>
    /\ LET m == Head(channel) IN
       /\ m # TurnCompleted
       /\ view' = IF Accepts(view, m) THEN Put(view, m.req, m) ELSE view
    /\ channel' = Tail(channel)
    /\ UNCHANGED <<ledger, task, ownerOut, events, adapter, joins, joining, snapshot, lost>>

\* The states somebody has read from the ledger and the browser has not got.
InFlight ==
    (Range(channel) \cup Range(ownerOut) \cup snapshot
        \cup UNION {Range(task[p].out) : p \in Responders}) \ {TurnCompleted}

Forgets(v, q) == q \in DOMAIN v /\ v[q].status = "resolved"

\* handleEvent of turn_completed: clearCompletedRequestState forgets the resolved
\* requests and with them their revisions, so that an older state which is still
\* under way would be shown as news.
ReceiveCompleted ==
    /\ channel # <<>>
    /\ Head(channel) = TurnCompleted
    /\ view' = [q \in {r \in DOMAIN view : ~Forgets(view, r)} |-> view[q]]
    /\ lost' = lost \cup {q \in DOMAIN view :
                  /\ Forgets(view, q)
                  /\ \E m \in InFlight : m.req = q /\ m.revision < view[q].revision}
    /\ channel' = Tail(channel)
    /\ UNCHANGED <<ledger, task, ownerOut, events, adapter, joins, joining, snapshot>>

\* The browser subscribes on a new socket: the hub has a new, empty queue for it.  A
\* page that opens the thread anew, or rebuilds it, starts from nothing.
Reconnect ==
    /\ joins < MaxJoins
    /\ joins' = joins + 1
    /\ channel' = <<>>
    /\ view' \in {view, [q \in {} |-> 0]}
    /\ joining' = TRUE
    /\ snapshot' = {}
    /\ lost' = Requests
    /\ UNCHANGED <<ledger, task, ownerOut, events, adapter>>

\* The subscription's handler reads every record under the lock, after the hub
\* has registered the client ...
ReadStates ==
    /\ joining
    /\ joining' = FALSE
    /\ snapshot' = {State(records, q) : q \in DOMAIN records}
    /\ lost' = {}
    /\ UNCHANGED <<ledger, task, ownerOut, events, adapter, channel, view, joins>>

\* ... and sends them one by one, each when the queue has room.
SendState ==
    /\ Room
    /\ \E m \in snapshot : channel' = Append(channel, m) /\ snapshot' = snapshot \ {m}
    /\ UNCHANGED <<ledger, task, ownerOut, events, adapter, view, joins, joining, lost>>

Responder(p) ==
    \/ \E q \in Requests : Claim(p, q)
    \/ PublishClaim(p) \/ Send(p)
    \/ OnAccepted(p) \/ OnRefused(p) \/ PublishSettled(p)
    \/ Timeout(p) \/ Reread(p)

Next ==
    \/ \E q \in Requests, t \in NoTurn .. MaxTurns : Raise(q, t)
    \/ \E q \in Requests : Redeliver(q) \/ ProviderResolves(q)
    \/ HandleRespond \/ Interrupt \/ TurnEnds
    \/ ApplyEvent \/ PublishApplied
    \/ \E p \in Responders : Responder(p)
    \/ Receive \/ ReceiveCompleted
    \/ Reconnect \/ ReadStates \/ SendState

Spec == Init /\ [][Next]_vars

\* A response that waits long enough times out, for its timer fires.  Nothing is
\* assumed of the provider, the adapter, the owner or the hub.
FairSpec == Spec /\ \A p \in Responders : WF_vars(Timeout(p))

-----------------------------------------------------------------------------
(* Properties *)

Statuses == {"pending", "responding", "resolved"}
Messages == [req : Requests, revision : Nat, status : Statuses, payload : Nat]

\* The types of the ledger, the responses and the messages.
TypeOK ==
    /\ DOMAIN records \subseteq Requests
    /\ \A q \in DOMAIN records :
          records[q] \in [turn : 0 .. MaxTurns, payload : Nat, status : Statuses,
                          claim : 0 .. MaxClaims, harnessResolved : BOOLEAN,
                          answer : 0 .. MaxClaims, revision : Nat]
    /\ lastClaim \in 0 .. MaxClaims
    /\ \A p \in Responders :
          /\ task[p].pc \in {"idle", "claimed", "sending", "waiting", "accepted",
                             "refused", "settled", "timedOut", "reread"}
          /\ task[p].out \in Seq(Messages)
    /\ pending \subseteq Requests
    /\ \A i \in DOMAIN channel : channel[i] \in Messages \cup {TurnCompleted}
    /\ joins \in Nat /\ joining \in BOOLEAN /\ snapshot \subseteq Messages /\ lost \subseteq Requests
    /\ \A q \in DOMAIN view : view[q] \in Messages

\* A responder whose claim is not settled yet.
Claiming(p) ==
    task[p].pc \in {"claimed", "sending", "waiting", "accepted", "refused"}

\* "Atomically claims": a record is responding exactly while one unsettled
\* response holds it.  No order of claims, harness resolutions, failures and
\* timeouts strands a record in responding or gives it to two responses.
RespondingIffClaimed ==
    /\ \A q \in DOMAIN records : records[q].status = "responding" =>
          \E p \in Responders : Claiming(p) /\ task[p].req = q
                                  /\ task[p].claim = records[q].claim
    /\ \A p \in Responders :
          Claiming(p) => Holds(records, task[p].req, task[p].claim)

\* The answer a resolved record shows is the one the provider really got from
\* that very claim.
AnswerWasDelivered ==
    \A q \in DOMAIN records :
        records[q].status = "resolved" /\ records[q].answer # NullAnswer
            => answered[q] = records[q].answer

\* Nothing about q is in flight between the provider and the ledger.
Quiet(q) ==
    /\ \A i \in DOMAIN events : events[i].req # q
    /\ \A i \in DOMAIN commands : commands[i].req # q
    /\ \A p \in Responders : task[p].pc = "idle" \/ task[p].req # q

\* Whatever the interleaving, a request the provider still waits on can be
\* claimed once the dust has settled ...
OpenRequestIsClaimable ==
    \A q \in Requests : Quiet(q) /\ q \in pending =>
        q \in DOMAIN records /\ records[q].status = "pending"

\* ... and a server request the provider no longer waits on is not left open:
\* the final status is the same on every path (docs/server-request-claim-race.md).
ClosedServerRequestIsResolved ==
    \A q \in ServerRequests \cap DOMAIN records :
        Quiet(q) /\ q \notin pending => records[q].status = "resolved"

\* The ledger, the responses in flight and the provider agree: the four parts
\* above, in every order of deliveries, resolutions, failures and timeouts.
LedgerIsSound ==
    /\ TypeOK
    /\ RespondingIffClaimed
    /\ AnswerWasDelivered
    /\ OpenRequestIsClaimable
    /\ ClosedServerRequestIsResolved

\* The browser has the last word of the ledger once nothing is in flight, even
\* though publications race: each sender reads the record under the lock and
\* sends it after, so the messages may arrive in any order of revisions.  A
\* resolved request may also have been forgotten with a turn.  What the browser
\* missed (a message dropped at a full queue, or an older one under way when it
\* forgot a request) is made good by its next subscription.
ViewConverges ==
    (/\ channel = <<>> /\ ownerOut = <<>> /\ snapshot = {}
     /\ \A p \in Responders : task[p].pc = "idle")
        => \A q \in DOMAIN records \ lost :
              \/ q \in DOMAIN view /\ view[q] = State(records, q)
              \/ q \notin DOMAIN view /\ records[q].status = "resolved"

\* A record that is resolved stays so with the same answer until its turn prunes
\* it; every visible change takes the next revision, so a revision names one
\* state.
RevisionsAreFaithful ==
    [][\A q \in DOMAIN records \cap DOMAIN records' :
         /\ records[q].status = "resolved" =>
               records'[q].status = "resolved"
                 /\ records'[q].answer = records[q].answer
         /\ State(records, q) # State(records', q) =>
               records'[q].revision = records[q].revision + 1]_vars

\* Every claim is settled: no record stays responding under the same claim.
ClaimsSettle ==
    \A c \in 1 .. MaxClaims :
        (\E q \in Requests : Holds(records, q, c)) ~> (\A q \in Requests : ~Holds(records, q, c))
=============================================================================
