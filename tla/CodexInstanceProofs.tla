------------------------- MODULE CodexInstanceProofs -------------------------
(***************************************************************************)
(* For every number of calls, turns, threads and native threads and every  *)
(* length of the inbox: the routes of a Codex worker are a bijection, the  *)
(* events of a turn reach one log, an acknowledged turn is tracked until   *)
(* it has ended there, and the turn the worker would interrupt or steer is *)
(* the one Codex runs.                                                     *)
(***************************************************************************)
EXTENDS CodexInstance, FiniteSetTheorems, WellFoundedInduction, TLAPS

Kinds      == {"started", "error", "completed"}
TurnStates == {"unused", "accepted", "running", "failed", "broken", "over"}

CallType    == [op : Commands \cup Controls \cup {"none"},
                pc : {"idle", "queued", "served", "steering", "done"},
                thread : Threads \cup {None}, native : Natives \cup {None},
                turn : Turns \cup {None}]
RpcType     == [method : Methods \cup {"none"}, state : {"none", "waiting", "ok", "err"},
                value : Natives \cup Turns \cup {None}]
WorkerType  == [pc : {"idle", "rpc", "cleanup", "done"}, call : 0..MaxCalls,
                thread : Threads \cup {None}, turn : Turns \cup {None}, forced : BOOLEAN]
FrameType   == [call : Calls, method : Methods, native : Natives \cup {None},
                turn : Turns \cup {None}]
MessageType == [kind : Kinds \cup {"end"}, native : Natives \cup {None},
                turn : Turns \cup {None}]
TurnType    == [native : Natives \cup {None}, state : TurnStates]

\* The types of what the worker keeps, of its calls, and of the traffic.
ServedType ==
    /\ routes \in [Natives -> Threads \cup {None}]
    /\ byThread \in [Threads -> Natives \cup {None}]
    /\ stored \in [Threads -> Natives \cup {None}]
    /\ logs \in [Threads -> [state : {"none", "open", "removed"},
                             events : SUBSET (Turns \X {"started", "completed"})]]
    /\ mapper \in [Threads -> Turns \cup {None}]
    /\ active \in [Threads -> Turns \cup {None}]
    /\ acked \in [Turns -> Threads \cup {None}]
    /\ givenUp \subseteq Threads \cup Natives \cup Turns
CallsType ==
    /\ worker \in WorkerType
    /\ call \in [Calls -> CallType]
    /\ rpc \in [Calls -> RpcType]
    /\ queues \in [commands : Seq(Calls), controls : Seq(Calls)]
TrafficType ==
    /\ pipe \in Seq(FrameType)
    /\ inbox \in Seq(MessageType) /\ Len(inbox) <= InboxLimit
    /\ codex \in [native : [Natives -> {"unused", "live", "gone"}], turn : [Turns -> TurnType]]
CodexType == ServedType /\ CallsType /\ TrafficType

\* A thread has a native thread exactly when it has, or had, a log; only such a
\* thread has turns.
Bound ==
    /\ RoutesMirror
    /\ \A t \in Threads : /\ byThread[t] = None <=> logs[t].state = "none"
                          /\ mapper[t] # None \/ active[t] # None => byThread[t] # None
                          /\ logs[t].state = "removed" => t \in givenUp

\* What a pending call relies on: an open of a thread is behind the start that an
\* earlier owner left in flight, and a thread keeps its native thread while a start
\* is pending.
CallsHold ==
    /\ \A j, k \in Calls :
        j # k /\ call[j].op = "open" /\ call[k].op \in Commands /\ call[j].thread = call[k].thread
            => call[k].op = "start" /\ k < j /\ call[j].pc = "queued"
    /\ \A k \in Calls :
        /\ call[k].op # "none" => call[k].thread \in Threads
        /\ call[k].op \notin {"none", "open"} => call[k].native \in Natives
        /\ call[k].op \notin {"none", "open", "claim"} => byThread[call[k].thread] # None
        /\ call[k].op = "start" => byThread[call[k].thread] = call[k].native

\* A pending call is in its channel once.
QueuedOnce ==
    /\ \A i \in DOMAIN queues.commands :
        /\ call[queues.commands[i]].pc = "queued"
        /\ \A j \in DOMAIN queues.commands : i # j => queues.commands[i] # queues.commands[j]
        /\ \A j \in DOMAIN queues.controls : queues.commands[i] # queues.controls[j]
    /\ \A i \in DOMAIN queues.controls :
        /\ call[queues.controls[i]].pc = "queued"
        /\ \A j \in DOMAIN queues.controls : i # j => queues.controls[i] # queues.controls[j]

\* Calls are made in order, and the commands are served in the order in which they
\* were made.
FirstCome ==
    /\ \A j, k \in Calls : j < k /\ call[k].pc # "idle" => call[j].pc # "idle"
    /\ \A k \in Calls : call[k].pc = "queued" /\ call[k].op \in Commands =>
          \E i \in DOMAIN queues.commands : queues.commands[i] = k
    /\ \A i, j \in DOMAIN queues.commands : i < j => queues.commands[i] < queues.commands[j]

\* The method of the request a served call waits for.
MethodOf(op, method) ==
    \/ op = "open" /\ method \in {"resume", "new"}
    \/ op = "start" /\ method = "turn"
    \/ op \in {"interrupt", "delete"} /\ method = op

\* The worker waits for at most one call, and only it and the steers have a request.
Waits ==
    \A k \in Calls :
        /\ call[k].pc \in {"idle", "done"} <=> call[k].op = "none"
        /\ call[k].pc = "steering" => call[k].op = "steer"
        /\ call[k].pc = "served" <=> worker.pc = "rpc" /\ worker.call = k
        /\ rpc[k].state # "none" =>
            \/ call[k].pc = "served" /\ MethodOf(call[k].op, rpc[k].method)
            \/ call[k].pc = "steering" /\ rpc[k].method = "steer"
        /\ rpc[k].state = "ok" /\ rpc[k].method \in {"resume", "new"} => rpc[k].value \in Natives

\* Frames on their way are those of calls that were served.
Frames ==
    \A i \in DOMAIN pipe : LET r == pipe[i] IN
        /\ r.method # "new" => r.native \in Natives
        /\ call[r.call].pc \notin {"idle", "queued"}
        /\ r.method = "turn" /\ call[r.call].pc = "served" => r.native = call[r.call].native

Started(u) == codex.turn[u].state \notin {"unused", "accepted"}
Closed(u)  == codex.turn[u].state \in {"over", "broken"}

\* A turn belongs to a native thread from its acceptance on, and is live only on a
\* live one.
TurnIsOwned(u) ==
    /\ codex.turn[u].state = "unused" <=> codex.turn[u].native = None
    /\ codex.turn[u].state # "unused" => codex.native[codex.turn[u].native] # "unused"
    /\ Live(u) => codex.native[codex.turn[u].native] = "live"

\* Codex's turns are numbered in the order in which it accepts them, and those of
\* a live native thread are announced and completed in that order.
InOrder(u, v) ==
    /\ codex.turn[u].state # "unused" /\ codex.turn[v].state = "unused" => u < v
    /\ codex.turn[u].native = codex.turn[v].native =>
        /\ Started(u) /\ codex.turn[v].state = "accepted" => u < v
        /\ Closed(u) /\ Live(v) /\ codex.native[codex.turn[u].native] = "live" => u < v
TurnsInOrder ==
    /\ \A u \in Turns : TurnIsOwned(u)
    /\ \A u, v \in Turns : InOrder(u, v)

In(kind, u) == \E i \in DOMAIN inbox : inbox[i].kind = kind /\ inbox[i].turn = u

\* A message tells of a turn of its native thread, and of what has happened to it.
Messages ==
    /\ \A i \in DOMAIN inbox : LET m == inbox[i] IN m.kind # "end" =>
        /\ m.turn \in Turns /\ m.native \in Natives /\ codex.turn[m.turn].native = m.native
        /\ Started(m.turn)
        /\ m.kind = "completed" => Closed(m.turn)
        /\ m.kind = "error" => \/ codex.turn[m.turn].state \in {"failed", "broken"}
                               \/ codex.native[m.native] = "gone"
    /\ \A i, j \in DOMAIN inbox :
        i < j /\ inbox[i].kind = "started" /\ inbox[j].kind = "started"
              /\ inbox[i].native = inbox[j].native => inbox[i].turn < inbox[j].turn

\* Nothing was lost and the worker goes on.
Healthy == worker.pc # "done" /\ \A i \in DOMAIN inbox : inbox[i].kind # "end"

Known(u, t) == codex.turn[u].native \in givenUp \/ routes[codex.turn[u].native] = t

\* What a log has of a turn, and an acknowledgement, belong to the thread of its
\* native thread.
Belongs ==
    /\ \A t \in Threads : \A e \in logs[t].events :
        codex.turn[e[1]].state # "unused" /\ Known(e[1], t)
    /\ \A u \in Turns : acked[u] # None => codex.turn[u].state # "unused" /\ Known(u, acked[u])
    /\ \A t \in Threads : active[t] # None => acked[active[t]] = t

\* The answer to a turn/start, while the worker has not acted on it.
Accepted(k) == rpc[k].state = "ok" /\ rpc[k].method = "turn"

\* An accepted turn is new to the worker, which reads nothing before it acts on the
\* answer.
AcceptedIsNew ==
    \A k \in Calls : Accepted(k) =>
        LET u == rpc[k].value
        IN /\ u \in Turns /\ codex.turn[u].state # "unused"
           /\ codex.turn[u].native = call[k].native
           /\ acked[u] = None
           /\ \A t \in Threads : ~Ended(t, u)

\* A turn whose uploads are being removed.
CleansUp ==
    worker.pc = "cleanup" =>
        LET t == worker.thread
            u == worker.turn
        IN /\ t \in Threads /\ u \in Turns /\ active[t] = u
           /\ Ended(t, u) \/ t \in givenUp
           /\ IF worker.forced
              THEN /\ byThread[t] = codex.turn[u].native
                   /\ \/ codex.turn[u].state \in {"failed", "broken"}
                      \/ codex.native[codex.turn[u].native] = "gone"
              ELSE mapper[t] # u

\* The completion of a turn of a live native thread is still to be read.
ToComplete(u) == codex.native[codex.turn[u].native] = "live" /\ Closed(u) => In("completed", u)

\* While nothing is lost, the worker will hear of what Codex has done: a turn it
\* takes for live is live or its completion is to be read.
Heard ==
    Healthy =>
        /\ \A i \in DOMAIN inbox : LET m == inbox[i] IN
            m.kind = "started" /\ Closed(m.turn) /\ codex.native[m.native] = "live" =>
                \E j \in DOMAIN inbox : j > i /\ inbox[j].kind = "completed" /\ inbox[j].turn = m.turn
        /\ \A k \in Calls : Accepted(k) => ToComplete(rpc[k].value)
        /\ \A t \in Threads : mapper[t] # None =>
            \/ codex.turn[mapper[t]].native \in givenUp
            \/ codex.turn[mapper[t]].native = byThread[t] /\ ToComplete(mapper[t])

Trouble(n) == \E w \in Turns : /\ codex.turn[w].native = n
                               /\ codex.turn[w].state \in {"failed", "broken"}

\* The mapper has a turn for the announced turn v: v itself or a later one.
Covers(v) ==
    LET n == codex.turn[v].native
        w == mapper[routes[n]]
    IN \/ Trouble(n)
       \/ w # None /\ codex.turn[w].native = n /\ w >= v

\* An announced turn whose announcement was read is covered, and older than those
\* whose announcement is to be read and than one just accepted.
Covered ==
    Healthy => \A v \in Turns : Announced(v) /\ ~In("started", v) =>
        /\ codex.turn[v].native \notin givenUp => routes[codex.turn[v].native] # None /\ Covers(v)
        /\ \A i \in DOMAIN inbox :
            inbox[i].kind = "started" /\ inbox[i].native = codex.turn[v].native => v < inbox[i].turn
        /\ \A k \in Calls : Accepted(k) /\ call[k].native = codex.turn[v].native => v <= rpc[k].value

CodexInv ==
    /\ CodexType /\ Bound /\ CallsHold /\ QueuedOnce /\ FirstCome /\ Waits /\ Frames
    /\ TurnsInOrder /\ Messages /\ Belongs /\ AcceptedIsNew /\ CleansUp /\ AckedTurnIsTracked
    /\ Heard /\ Covered

-----------------------------------------------------------------------------
(* The constants and the two choices *)

\* What the proofs use of the constants.
LEMMA Constants ==
    /\ Root \in Threads /\ Base \in Natives
    /\ None \notin Threads /\ None \notin Natives /\ None \notin Turns
    /\ Turns \subseteq Nat
    /\ InboxLimit \in Nat \ {0} /\ MaxCalls \in Nat \ {0}
    /\ Calls = 1..MaxCalls
    /\ IsFiniteSet(Threads) /\ IsFiniteSet(Natives)
    /\ Cardinality(Threads) >= Cardinality(Natives) + MaxCalls
    BY CodexInstanceAssumption DEF Turns, Calls

\* A nonempty set of numbers has a least one.
LEMMA LeastNumber ==
    ASSUME NEW S, S \subseteq Nat, S # {}
    PROVE  \E x \in S : \A y \in S : x <= y
    <1> DEFINE R == {p \in Nat \X Nat : p[1] < p[2]}
    <1>1. IsWellFoundedOn(R, Nat)
      <2>1. R = OpToRel(<, Nat)
        BY DEF OpToRel
      <2>2. QED
        BY <2>1, NatLessThanWellFounded
    <1>2. PICK x \in S : \A y \in S : ~(<<y, x>> \in R)
      <2> HIDE DEF R
      <2>1. QED
        BY <1>1, WFMin
    <1>3. ASSUME NEW y \in S PROVE x <= y
      <2>1. ~(<<y, x>> \in R) /\ y \in Nat /\ x \in Nat
        BY <1>2
      <2>2. QED
        BY <2>1
    <1>4. QED
        BY <1>3

\* The turn Codex starts next is the least unused one.
LEMMA NextTurnIsLeast ==
    ASSUME Unused # {}
    PROVE  NextTurn \in Unused /\ \A v \in Unused : NextTurn <= v
    <1>1. Unused \subseteq Nat
        BY Constants DEF Unused
    <1>2. \E u \in Unused : \A v \in Unused : u <= v
        BY <1>1, LeastNumber
    <1>3. QED
        BY <1>2 DEF NextTurn

\* There is an identity left for a native thread without a route: at most one
\* thread for each of the other native threads and each call is in use.
LEMMA FreshExists ==
    ASSUME CodexType, Bound, NEW n \in Natives, routes[n] = None
    PROVE  Fresh # {}
    <1> DEFINE A == {t \in Threads : byThread[t] # None}
               B == {call[k].thread : k \in Calls}
               N == Natives \ {n}
    <1>1. IsFiniteSet(N) /\ Cardinality(N) = Cardinality(Natives) - 1
        BY Constants, FS_RemoveElement
    <1>2. IsFiniteSet(A)
        BY Constants, FS_Subset
    <1>3. Cardinality(A) <= Cardinality(N)
      <2> DEFINE f == [t \in A |-> byThread[t]]
      <2>1. f \in [A -> N]
        <3>1. ASSUME NEW t \in A PROVE byThread[t] \in N
          BY Constants DEF CodexType, ServedType, Bound, RoutesMirror
        <3>2. QED
          BY <3>1
      <2>2. \A s, t \in A : f[s] = f[t] => s = t
        <3>1. ASSUME NEW s \in A, NEW t \in A, byThread[s] = byThread[t] PROVE s = t
          <4>1. byThread[s] \in Natives
            BY Constants DEF CodexType, ServedType
          <4>2. routes[byThread[s]] = s /\ routes[byThread[s]] = t
            BY <3>1, <4>1 DEF Bound, RoutesMirror
          <4>3. QED
            BY <4>2
        <3>2. QED
          BY <3>1
      <2>3. f \in Injection(A, N)
        BY <2>1, <2>2 DEF Injection, IsInjective
      <2>4. QED
        BY <1>1, <2>3, FS_Injection DEF ExistsInjection
    <1>4. IsFiniteSet(B) /\ Cardinality(B) <= MaxCalls
      <2> DEFINE g == [k \in Calls |-> call[k].thread]
      <2>1. IsFiniteSet(Calls) /\ Cardinality(Calls) = MaxCalls
        BY Constants, FS_Interval
      <2>2. g \in Surjection(Calls, B)
        BY DEF Surjection
      <2>3. QED
        BY <2>1, <2>2, FS_Surjection DEF ExistsSurjection
    <1>5. IsFiniteSet(A \cup B) /\ Cardinality(A \cup B) <= Cardinality(A) + Cardinality(B)
      <2>1. /\ IsFiniteSet(A \cup B)
            /\ Cardinality(A \cup B) = Cardinality(A) + Cardinality(B) - Cardinality(A \cap B)
        BY <1>2, <1>4, FS_Union
      <2>2. IsFiniteSet(A \cap B)
        BY <1>2, FS_Intersection
      <2>3. Cardinality(A \cap B) \in Nat /\ Cardinality(A) \in Nat /\ Cardinality(B) \in Nat
        BY <1>2, <1>4, <2>2, FS_CardinalityType
      <2>4. QED
        BY <2>1, <2>3
    <1>6. ~(Threads \subseteq A \cup B)
      <2>1. SUFFICES ASSUME Threads \subseteq A \cup B PROVE FALSE
        OBVIOUS
      <2>2. Cardinality(Threads) <= Cardinality(A \cup B)
        BY <1>5, <2>1, FS_Subset
      <2>3. /\ Cardinality(Threads) \in Nat /\ Cardinality(A \cup B) \in Nat
            /\ Cardinality(A) \in Nat /\ Cardinality(B) \in Nat /\ Cardinality(Natives) \in Nat
        BY <1>2, <1>4, <1>5, Constants, FS_CardinalityType
      <2> HIDE DEF A, B, N
      <2>4. QED
        BY <1>1, <1>3, <1>4, <1>5, <2>2, <2>3, Constants
    <1>7. PICK t \in Threads : t \notin A /\ t \notin B
        BY <1>6
    <1>8. logs[t].state = "none" /\ \A k \in Calls : call[k].thread # t
        BY <1>7 DEF Bound
    <1>9. QED
        BY <1>8 DEF Fresh

\* A new identity has no native thread, no log and no call.
LEMMA NewThreadIsFresh ==
    ASSUME CodexType, Bound, NEW n \in Natives, routes[n] = None
    PROVE  /\ NewThread \in Threads
           /\ byThread[NewThread] = None /\ logs[NewThread].state = "none"
           /\ \A k \in Calls : call[k].thread # NewThread
    <1>1. NewThread \in Fresh
        BY FreshExists DEF NewThread
    <1>2. QED
        BY <1>1 DEF Fresh, Bound

-----------------------------------------------------------------------------
(* Codex *)

\* What CodexAnswers does to Codex: nothing, a new native thread, an accepted
\* turn, or the end of a native thread.
AcceptsTurn(n) ==
    /\ n \in Natives /\ codex.native[n] = "live" /\ Unused # {}
    /\ codex' = [codex EXCEPT !.turn[NextTurn] = [native |-> n, state |-> "accepted"]]
AddsNative(n) ==
    /\ n \in Natives /\ codex.native[n] = "unused"
    /\ codex' = [codex EXCEPT !.native[n] = "live"]
EndsNative(n) ==
    /\ n \in Natives
    /\ codex' = [native |-> [codex.native EXCEPT ![n] = "gone"],
                 turn |-> [u \in Turns |-> IF codex.turn[u].native = n
                             THEN [native |-> n, state |-> "over"] ELSE codex.turn[u]]]

\* A step of Codex is an answer or one of its own.
CodexMoves ==
    \/ \E n \in Natives : AcceptsTurn(n) \/ AddsNative(n) \/ EndsNative(n)
    \/ \E u \in Turns : CodexAnnounces(u) \/ CodexFails(u) \/ CodexCompletes(u)
    \/ \E n \in Natives : CodexStarts(n)

\* The head of the pipe and the rest of it.
LEMMA PipeHead ==
    ASSUME CodexType, Frames, pipe # <<>>
    PROVE  /\ Head(pipe) \in FrameType /\ Head(pipe) = pipe[1] /\ 1 \in DOMAIN pipe
           /\ Tail(pipe) \in Seq(FrameType)
           /\ \A i \in DOMAIN Tail(pipe) : i + 1 \in DOMAIN pipe /\ Tail(pipe)[i] = pipe[i + 1]
           /\ Head(pipe).method # "new" => Head(pipe).native \in Natives
    BY DEF CodexType, TrafficType, Frames

\* Only these steps move Codex.
LEMMA CodexChanges ==
    ASSUME CodexType, Frames, [Next]_vars
    PROVE  codex' = codex \/ CodexMoves
    <1>1. CASE CodexAnswers
      <2>1. pipe # <<>>
        BY <1>1 DEF CodexAnswers
      <2> DEFINE r == Head(pipe)
      <2>2. /\ r.method # "new" => r.native \in Natives
        BY <2>1, PipeHead
      <2>3. CASE codex' = codex
        BY <2>3
      <2>4. CASE r.method = "new" /\ \E f \in Natives : codex.native[f] = "unused"
                                     /\ codex' = [codex EXCEPT !.native[f] = "live"]
        BY <2>4 DEF CodexMoves, AddsNative
      <2>5. CASE /\ r.method = "turn" /\ r.native # None /\ codex.native[r.native] = "live"
                 /\ Unused # {}
                 /\ codex' = WithTurn(r.native, "accepted")
        BY <2>2, <2>5 DEF CodexMoves, AcceptsTurn, WithTurn
      <2>6. CASE /\ r.method = "delete"
                 /\ codex' = [native |-> [codex.native EXCEPT ![r.native] = "gone"],
                          turn |-> [u \in Turns |-> IF codex.turn[u].native = r.native
                                      THEN [native |-> r.native, state |-> "over"]
                                      ELSE codex.turn[u]]]
        <3>1. EndsNative(r.native)
          BY <2>2, <2>6 DEF EndsNative
        <3>2. QED
          BY <3>1 DEF CodexMoves, EndsNative
      <2>7. QED
        BY <1>1, <2>3, <2>4, <2>5, <2>6 DEF CodexAnswers
    <1>2. CASE CodexStep
        BY <1>1, <1>2 DEF CodexStep, CodexMoves
    <1>3. CASE UNCHANGED vars
        BY <1>3 DEF vars, traffic
    <1>4. CASE WorkerStep
        BY <1>4 DEF WorkerStep, HandleStarted, HandleCompleted, HandleError, CleanedUp,
            HandleEnd, HandleShutdown, Stop, OpenThread, StartTurn, ClaimNativeThread, RefuseControl,
            SteerTurn, SendControl, SendSteer, FinishSteer, ResumeFailed, ThreadOpened,
            TurnStarted, ThreadDeleted, PassAnswer, Request, Read, traffic
    <1>5. CASE \E k \in Calls : Call(k) \/ Timeout(k)
        BY <1>5 DEF Call, Timeout, traffic
    <1>6. CASE Shutdown \/ ReaderEnds \/ WriterFails
        BY <1>6 DEF Shutdown, ReaderEnds, WriterFails, traffic
    <1>7. QED
        BY <1>2, <1>3, <1>4, <1>5, <1>6 DEF Next

\* One turn has a new record and the native threads are as they were.
MovesTurn(u, n, state) ==
    /\ codex'.native = codex.native
    /\ codex'.turn = [codex.turn EXCEPT ![u] = [native |-> n, state |-> state]]

\* The moves of Codex, field by field.
LEMMA CodexFields ==
    ASSUME CodexType, CodexMoves
    PROVE  \/ \E n \in Natives : /\ codex.native[n] = "live" /\ Unused # {}
                                 /\ MovesTurn(NextTurn, n, "accepted")
           \/ \E n \in Natives : /\ codex.native[n] = "unused"
                                 /\ codex'.native = [codex.native EXCEPT ![n] = "live"]
                                 /\ codex'.turn = codex.turn
           \/ \E n \in Natives : EndsNative(n)
           \/ \E u \in Turns : CodexAnnounces(u) /\ MovesTurn(u, codex.turn[u].native, "running")
           \/ \E u \in Turns : CodexFails(u) /\ MovesTurn(u, codex.turn[u].native, "failed")
           \/ \E u \in Turns : CodexCompletes(u) /\ \E state \in {"broken", "over"} :
                /\ MovesTurn(u, codex.turn[u].native, state)
                /\ state = "broken" <=> codex.turn[u].state = "failed"
           \/ \E n \in Natives : /\ CodexStarts(n)
                /\ codex'.native = [codex.native EXCEPT ![n] = "live"]
                /\ codex'.turn = [codex.turn EXCEPT ![NextTurn] = [native |-> n, state |-> "running"]]
    <1>0. /\ codex \in [native : [Natives -> {"unused", "live", "gone"}], turn : [Turns -> TurnType]]
          /\ \A u \in Turns : codex.turn[u] = [native |-> codex.turn[u].native,
                                               state |-> codex.turn[u].state]
        BY DEF CodexType, TrafficType, TurnType
    <1>1. ASSUME NEW n \in Natives, AcceptsTurn(n)
          PROVE  codex.native[n] = "live" /\ Unused # {} /\ MovesTurn(NextTurn, n, "accepted")
        BY <1>0, <1>1, NextTurnIsLeast DEF AcceptsTurn, MovesTurn, Unused
    <1>2. ASSUME NEW n \in Natives, AddsNative(n)
          PROVE  /\ codex.native[n] = "unused"
                 /\ codex'.native = [codex.native EXCEPT ![n] = "live"]
                 /\ codex'.turn = codex.turn
        BY <1>0, <1>2 DEF AddsNative
    <1>3. ASSUME NEW u \in Turns, CodexAnnounces(u)
          PROVE  MovesTurn(u, codex.turn[u].native, "running")
        BY <1>0, <1>3 DEF CodexAnnounces, MovesTurn, TurnType
    <1>4. ASSUME NEW u \in Turns, CodexFails(u)
          PROVE  MovesTurn(u, codex.turn[u].native, "failed")
        BY <1>0, <1>4 DEF CodexFails, MovesTurn, TurnType
    <1>5. ASSUME NEW u \in Turns, CodexCompletes(u)
          PROVE  \E state \in {"broken", "over"} :
                    /\ MovesTurn(u, codex.turn[u].native, state)
                    /\ state = "broken" <=> codex.turn[u].state = "failed"
      <2> DEFINE s == IF codex.turn[u].state = "failed" THEN "broken" ELSE "over"
      <2>1. codex' = [codex EXCEPT !.turn[u].state = s]
        BY <1>5 DEF CodexCompletes
      <2>2. MovesTurn(u, codex.turn[u].native, s)
        BY <1>0, <2>1 DEF MovesTurn, TurnType
      <2>3. QED
        BY <2>2
    <1>6. ASSUME NEW n \in Natives, CodexStarts(n)
          PROVE  /\ codex'.native = [codex.native EXCEPT ![n] = "live"]
                 /\ codex'.turn = [codex.turn EXCEPT ![NextTurn] = [native |-> n, state |-> "running"]]
        BY <1>0, <1>6, NextTurnIsLeast DEF CodexStarts, WithTurn, Unused
    <1>7. QED
        BY <1>1, <1>2, <1>3, <1>4, <1>5, <1>6 DEF CodexMoves

\* Turns after a change of one record.
LEMMA TurnMoved ==
    ASSUME CodexType, NEW u \in Turns, NEW n, NEW state,
           codex'.turn = [codex.turn EXCEPT ![u] = [native |-> n, state |-> state]]
    PROVE  /\ codex'.turn[u].native = n /\ codex'.turn[u].state = state
           /\ \A v \in Turns : v # u => codex'.turn[v] = codex.turn[v]
    BY DEF CodexType, TrafficType

\* Turns after the end of a native thread.
LEMMA NativeEnded ==
    ASSUME CodexType, NEW n \in Natives, EndsNative(n)
    PROVE  /\ codex'.native[n] = "gone"
           /\ \A m \in Natives : m # n => codex'.native[m] = codex.native[m]
           /\ \A v \in Turns : /\ codex'.turn[v].native = codex.turn[v].native
                               /\ codex.turn[v].native = n => codex'.turn[v].state = "over"
                               /\ codex.turn[v].native # n => codex'.turn[v] = codex.turn[v]
    BY DEF CodexType, TrafficType, EndsNative

\* The type of Codex's state is kept.
LEMMA CodexTyped ==
    ASSUME CodexType, codex' = codex \/ CodexMoves
    PROVE  codex' \in [native : [Natives -> {"unused", "live", "gone"}], turn : [Turns -> TurnType]]
    <1>0. codex \in [native : [Natives -> {"unused", "live", "gone"}], turn : [Turns -> TurnType]]
        BY DEF CodexType, TrafficType
    <1>1. CASE codex' = codex
        BY <1>0, <1>1
    <1>2. ASSUME NEW n \in Natives, AcceptsTurn(n)
          PROVE  codex' \in [native : [Natives -> {"unused", "live", "gone"}],
                             turn : [Turns -> TurnType]]
      <2>1. [native |-> n, state |-> "accepted"] \in TurnType
        BY DEF TurnType, TurnStates
      <2>2. QED
        BY <1>0, <1>2, <2>1 DEF AcceptsTurn
    <1>3. ASSUME NEW n \in Natives, AddsNative(n)
          PROVE  codex' \in [native : [Natives -> {"unused", "live", "gone"}],
                             turn : [Turns -> TurnType]]
        BY <1>0, <1>3 DEF AddsNative
    <1>4. ASSUME NEW n \in Natives, EndsNative(n)
          PROVE  codex' \in [native : [Natives -> {"unused", "live", "gone"}],
                             turn : [Turns -> TurnType]]
      <2>1. [native |-> n, state |-> "over"] \in TurnType
        BY DEF TurnType, TurnStates
      <2>2. QED
        BY <1>0, <1>4, <2>1 DEF EndsNative
    <1>5. ASSUME NEW u \in Turns, NEW state \in TurnStates,
                 codex' = [codex EXCEPT !.turn[u].state = state]
          PROVE  codex' \in [native : [Natives -> {"unused", "live", "gone"}],
                             turn : [Turns -> TurnType]]
      <2>1. [codex.turn[u] EXCEPT !.state = state] \in TurnType
        BY <1>0 DEF TurnType
      <2>2. QED
        BY <1>0, <1>5, <2>1
    <1>6. ASSUME NEW u \in Turns, CodexAnnounces(u) \/ CodexFails(u) \/ CodexCompletes(u)
          PROVE  codex' \in [native : [Natives -> {"unused", "live", "gone"}],
                             turn : [Turns -> TurnType]]
      <2>1. CASE CodexAnnounces(u)
        BY <1>5, <2>1 DEF CodexAnnounces, TurnStates
      <2>2. CASE CodexFails(u)
        BY <1>5, <2>2 DEF CodexFails, TurnStates
      <2>3. CASE CodexCompletes(u)
        <3> DEFINE s == IF codex.turn[u].state = "failed" THEN "broken" ELSE "over"
        <3>1. codex' = [codex EXCEPT !.turn[u].state = s] /\ s \in TurnStates
          BY <2>3 DEF CodexCompletes, TurnStates
        <3> HIDE DEF s
        <3>2. QED
          BY <1>5, <3>1
      <2>4. QED
        BY <1>6, <2>1, <2>2, <2>3
    <1>7. ASSUME NEW n \in Natives, CodexStarts(n)
          PROVE  codex' \in [native : [Natives -> {"unused", "live", "gone"}],
                             turn : [Turns -> TurnType]]
      <2>1. [native |-> n, state |-> "running"] \in TurnType
        BY DEF TurnType, TurnStates
      <2>2. QED
        BY <1>0, <1>7, <2>1 DEF CodexStarts, WithTurn
    <1>8. QED
        BY <1>1, <1>2, <1>3, <1>4, <1>6, <1>7 DEF CodexMoves

\* A turn keeps its native thread and does not go back, and neither does a native
\* thread.
LEMMA CodexKeeps ==
    ASSUME CodexType, TurnsInOrder, codex' = codex \/ CodexMoves
    PROVE  /\ \A u \in Turns : codex.turn[u].state # "unused" =>
                /\ codex'.turn[u].state # "unused"
                /\ codex'.turn[u].native = codex.turn[u].native
                /\ Started(u) => codex'.turn[u].state \notin {"unused", "accepted"}
                /\ Closed(u) => codex'.turn[u].state \in {"over", "broken"}
                /\ codex.turn[u].state \in {"failed", "broken"} =>
                     \/ codex'.turn[u].state \in {"failed", "broken"}
                     \/ codex'.native[codex.turn[u].native] = "gone"
           /\ \A n \in Natives : /\ codex.native[n] # "unused" => codex'.native[n] # "unused"
                                 /\ codex.native[n] = "gone" => codex'.native[n] = "gone"
                                 /\ codex'.native[n] = "live" => codex.native[n] \in {"live", "unused"}
    <1> USE DEF Started, Closed
    <1>0. /\ codex.native \in [Natives -> {"unused", "live", "gone"}]
          /\ codex.turn \in [Turns -> TurnType]
        BY DEF CodexType, TrafficType
    <1>1. CASE codex' = codex
        BY <1>0, <1>1
    <1>2. ASSUME NEW n \in Natives, Unused # {}, MovesTurn(NextTurn, n, "accepted")
          PROVE  /\ NextTurn \in Turns /\ codex.turn[NextTurn].state = "unused"
                 /\ codex'.native = codex.native
                 /\ \A v \in Turns : v # NextTurn => codex'.turn[v] = codex.turn[v]
        BY <1>2, NextTurnIsLeast, TurnMoved DEF MovesTurn, Unused
    <1>3. ASSUME NEW u \in Turns, NEW state, MovesTurn(u, codex.turn[u].native, state)
          PROVE  /\ codex'.native = codex.native
                 /\ codex'.turn[u].native = codex.turn[u].native /\ codex'.turn[u].state = state
                 /\ \A v \in Turns : v # u => codex'.turn[v] = codex.turn[v]
        BY <1>3, TurnMoved DEF MovesTurn
    <1>4. ASSUME NEW n \in Natives, EndsNative(n)
          PROVE  /\ codex'.native[n] = "gone"
                 /\ \A m \in Natives : m # n => codex'.native[m] = codex.native[m]
                 /\ \A v \in Turns : /\ codex'.turn[v].native = codex.turn[v].native
                                     /\ codex.turn[v].native = n => codex'.turn[v].state = "over"
                                     /\ codex.turn[v].native # n => codex'.turn[v] = codex.turn[v]
        BY <1>4, NativeEnded
    <1>5. ASSUME NEW n \in Natives, CodexStarts(n),
                 codex'.native = [codex.native EXCEPT ![n] = "live"],
                 codex'.turn = [codex.turn EXCEPT ![NextTurn] = [native |-> n, state |-> "running"]]
          PROVE  /\ NextTurn \in Turns /\ codex.turn[NextTurn].state = "unused"
                 /\ codex.native[n] \in {"live", "unused"}
                 /\ \A v \in Turns : v # NextTurn => codex'.turn[v] = codex.turn[v]
      <2>1. NextTurn \in Turns /\ codex.turn[NextTurn].state = "unused"
        BY <1>5, NextTurnIsLeast DEF CodexStarts, Unused
      <2>2. QED
        BY <1>5, <2>1, TurnMoved DEF CodexStarts
    <1>6. CASE \E n \in Natives : codex.native[n] = "live" /\ Unused # {} /\ MovesTurn(NextTurn, n, "accepted")
        BY <1>0, <1>2, <1>6
    <1>7. CASE \E n \in Natives : /\ codex.native[n] = "unused"
                                  /\ codex'.native = [codex.native EXCEPT ![n] = "live"]
                                  /\ codex'.turn = codex.turn
        BY <1>0, <1>7
    <1>8. CASE \E n \in Natives : EndsNative(n)
        BY <1>0, <1>4, <1>8
    <1>9. CASE \E u \in Turns : CodexAnnounces(u) /\ MovesTurn(u, codex.turn[u].native, "running")
        BY <1>0, <1>3, <1>9 DEF CodexAnnounces
    <1>10. CASE \E u \in Turns : CodexFails(u) /\ MovesTurn(u, codex.turn[u].native, "failed")
        BY <1>0, <1>3, <1>10 DEF CodexFails
    <1>11. CASE \E u \in Turns : CodexCompletes(u) /\ \E state \in {"broken", "over"} :
                    /\ MovesTurn(u, codex.turn[u].native, state)
                    /\ state = "broken" <=> codex.turn[u].state = "failed"
        BY <1>0, <1>3, <1>11 DEF CodexCompletes, Announced
    <1>12. CASE \E n \in Natives : /\ CodexStarts(n)
                    /\ codex'.native = [codex.native EXCEPT ![n] = "live"]
                    /\ codex'.turn = [codex.turn EXCEPT ![NextTurn] = [native |-> n, state |-> "running"]]
        BY <1>0, <1>5, <1>12
    <1>13. QED
        BY <1>1, <1>6, <1>7, <1>8, <1>9, <1>10, <1>11, <1>12, CodexFields

\* The order of Codex's turns is kept.
LEMMA OrderKept ==
    ASSUME CodexType, TurnsInOrder, codex' = codex \/ CodexMoves
    PROVE  TurnsInOrder'
    <1> USE DEF Started, Closed, Live, TurnIsOwned, InOrder
    <1>0. /\ codex.native \in [Natives -> {"unused", "live", "gone"}]
          /\ codex.turn \in [Turns -> TurnType]
          /\ Turns \subseteq Nat /\ None \notin Natives
          /\ \A u \in Turns : codex.turn[u].native \in Natives \cup {None}
          /\ \A u \in Turns : codex.turn[u].state \in TurnStates
        BY Constants DEF CodexType, TrafficType, TurnType
    <1>a. SUFFICES ASSUME NEW a \in Turns, NEW b \in Turns
                   PROVE  TurnIsOwned(a)' /\ InOrder(a, b)'
        BY DEF TurnsInOrder
    <1>b. /\ TurnIsOwned(a) /\ TurnIsOwned(b) /\ InOrder(a, b) /\ InOrder(b, a)
          /\ \A u \in Turns : TurnIsOwned(u) /\ InOrder(a, u) /\ InOrder(u, a)
                                /\ InOrder(b, u) /\ InOrder(u, b)
        BY DEF TurnsInOrder
    <1> DEFINE Goal == TurnIsOwned(a)' /\ InOrder(a, b)'
    <1>1. CASE codex' = codex
        BY <1>1, <1>b
    <1>2. ASSUME NEW n \in Natives, codex.native[n] = "live", Unused # {},
                 MovesTurn(NextTurn, n, "accepted")
          PROVE  Goal
      <2>1. NextTurn \in Turns /\ codex.turn[NextTurn].state = "unused"
            /\ \A v \in Turns : codex.turn[v].state = "unused" => NextTurn <= v
        BY <1>2, NextTurnIsLeast DEF Unused
      <2>2. /\ codex'.native = codex.native
            /\ codex'.turn[NextTurn].native = n /\ codex'.turn[NextTurn].state = "accepted"
            /\ \A v \in Turns : v # NextTurn => codex'.turn[v] = codex.turn[v]
        BY <1>0, <1>2, <2>1 DEF MovesTurn
      <2>3. QED
        BY <1>0, <1>b, <1>2, <2>1, <2>2 DEF TurnStates
    <1>3. ASSUME NEW n \in Natives, codex.native[n] = "unused",
                 codex'.native = [codex.native EXCEPT ![n] = "live"], codex'.turn = codex.turn
          PROVE  Goal
        BY <1>0, <1>b, <1>3 DEF TurnStates
    <1>4. ASSUME NEW n \in Natives, EndsNative(n) PROVE Goal
        BY <1>0, <1>b, <1>4, NativeEnded DEF TurnStates
    <1>5. ASSUME NEW u \in Turns, NEW state, MovesTurn(u, codex.turn[u].native, state)
          PROVE  /\ codex'.native = codex.native
                 /\ codex'.turn[u].native = codex.turn[u].native /\ codex'.turn[u].state = state
                 /\ \A v \in Turns : v # u => codex'.turn[v] = codex.turn[v]
        BY <1>5, TurnMoved DEF MovesTurn
    <1>6. ASSUME NEW u \in Turns, CodexAnnounces(u), MovesTurn(u, codex.turn[u].native, "running")
          PROVE  Goal
      <2>1. /\ codex.turn[u].state = "accepted"
            /\ \A v \in Turns : codex.turn[v].native = codex.turn[u].native
                                /\ codex.turn[v].state = "accepted" => u <= v
        <3>1. ASSUME NEW v \in Turns, codex.turn[v].native = codex.turn[u].native,
                     codex.turn[v].state = "accepted"
              PROVE  u <= v
          <4>1. codex.turn[v] = [native |-> codex.turn[u].native, state |-> "accepted"]
            BY <1>0, <3>1 DEF TurnType
          <4>2. QED
            BY <1>6, <4>1 DEF CodexAnnounces, Pending
        <3>2. QED
          BY <1>6, <3>1 DEF CodexAnnounces
      <2>2. /\ codex'.native = codex.native
            /\ codex'.turn[u].native = codex.turn[u].native /\ codex'.turn[u].state = "running"
            /\ \A v \in Turns : v # u => codex'.turn[v] = codex.turn[v]
        BY <1>5, <1>6
      <2>3. TurnIsOwned(a)'
        BY <1>0, <1>b, <2>1, <2>2
      <2>4. InOrder(a, b)'
        BY <1>0, <1>b, <2>1, <2>2 DEF TurnStates
      <2>5. QED
        BY <2>3, <2>4
    <1>7. ASSUME NEW u \in Turns, CodexFails(u), MovesTurn(u, codex.turn[u].native, "failed")
          PROVE  Goal
      <2>1. codex.turn[u].state = "running"
        BY <1>7 DEF CodexFails
      <2>2. /\ codex'.native = codex.native
            /\ codex'.turn[u].native = codex.turn[u].native /\ codex'.turn[u].state = "failed"
            /\ \A v \in Turns : v # u => codex'.turn[v] = codex.turn[v]
        BY <1>5, <1>7
      <2>3. TurnIsOwned(a)'
        BY <1>0, <1>b, <2>1, <2>2
      <2>4. InOrder(a, b)'
        BY <1>0, <1>b, <2>1, <2>2 DEF TurnStates
      <2>5. QED
        BY <2>3, <2>4
    <1>8. ASSUME NEW u \in Turns, CodexCompletes(u), NEW state \in {"broken", "over"},
                 MovesTurn(u, codex.turn[u].native, state)
          PROVE  Goal
      <2>1. /\ codex.turn[u].state \in {"running", "failed"}
            /\ \A v \in Turns : codex.turn[v].native = codex.turn[u].native
                                /\ codex.turn[v].state \in {"running", "failed"} => u <= v
        BY <1>8 DEF CodexCompletes, Announced
      <2>2. /\ codex'.native = codex.native
            /\ codex'.turn[u].native = codex.turn[u].native /\ codex'.turn[u].state = state
            /\ \A v \in Turns : v # u => codex'.turn[v] = codex.turn[v]
        BY <1>5, <1>8
      <2>3. TurnIsOwned(a)'
        BY <1>0, <1>b, <2>1, <2>2
      <2>4. InOrder(a, b)'
        BY <1>0, <1>b, <2>1, <2>2 DEF TurnStates
      <2>5. QED
        BY <2>3, <2>4
    <1>9. ASSUME NEW n \in Natives, CodexStarts(n),
                 codex'.native = [codex.native EXCEPT ![n] = "live"],
                 codex'.turn = [codex.turn EXCEPT ![NextTurn] = [native |-> n, state |-> "running"]]
          PROVE  Goal
      <2>1. NextTurn \in Turns /\ codex.turn[NextTurn].state = "unused"
            /\ \A v \in Turns : codex.turn[v].state = "unused" => NextTurn <= v
        BY <1>9, NextTurnIsLeast DEF CodexStarts, Unused
      <2>2. /\ codex'.turn[NextTurn].native = n /\ codex'.turn[NextTurn].state = "running"
            /\ \A v \in Turns : v # NextTurn => codex'.turn[v] = codex.turn[v]
        BY <1>0, <1>9, <2>1
      <2>3. \A v \in Turns : codex.turn[v].native = n => codex.turn[v].state # "accepted"
        <3>1. ASSUME NEW v \in Turns, codex.turn[v].native = n, codex.turn[v].state = "accepted"
              PROVE  FALSE
          <4>1. codex.turn[v] = [native |-> n, state |-> "accepted"]
            BY <1>0, <3>1 DEF TurnType
          <4>2. QED
            BY <1>9, <4>1 DEF CodexStarts, Pending
        <3>2. QED
          BY <3>1
      <2>4. codex.native[n] \in {"live", "unused"}
        BY <1>9 DEF CodexStarts
      <2>5. QED
        BY <1>0, <1>b, <1>9, <2>1, <2>2, <2>3, <2>4 DEF TurnStates
    <1>10. QED
        BY <1>1, <1>2, <1>3, <1>4, <1>6, <1>7, <1>8, <1>9, CodexFields

-----------------------------------------------------------------------------
(* Calls and their requests *)

\* A request is registered for its call and nobody else.
LEMMA RequestFacts ==
    ASSUME CodexType, NEW k \in Calls, NEW method \in Methods, NEW n \in Natives \cup {None},
           NEW u \in Turns \cup {None}, Request(k, method, n, u)
    PROVE  /\ rpc' \in [Calls -> RpcType]
           /\ rpc'[k].method = method /\ rpc'[k].state \in {"waiting", "err"}
           /\ \A j \in Calls : j # k => rpc'[j] = rpc[j]
           /\ \/ pipe' = pipe
              \/ pipe' = Append(pipe, [call |-> k, method |-> method, native |-> n, turn |-> u])
           /\ UNCHANGED <<inbox, link, codex>>
    <1>1. PICK s \in {"waiting", "err"} :
             rpc' = [rpc EXCEPT ![k] = [method |-> method, state |-> s, value |-> None]]
        BY DEF Request
    <1>2. [method |-> method, state |-> s, value |-> None] \in RpcType
        BY DEF RpcType
    <1>3. QED
        BY <1>1, <1>2 DEF Request, CodexType, CallsType

\* The call at the head of a channel is pending.
LEMMA HeadIsCall ==
    ASSUME CodexType, NEW channel \in {"commands", "controls"}, queues[channel] # <<>>
    PROVE  Head(queues[channel]) \in Calls /\ Tail(queues[channel]) \in Seq(Calls)
    BY DEF CodexType, CallsType

\* What deliver_response leaves.
LEMMA DeliveredFacts ==
    ASSUME CodexType, NEW r \in FrameType, NEW state \in {"ok", "err"},
           NEW value \in Natives \cup Turns \cup {None}, rpc' = Delivered(r, state, value)
    PROVE  /\ rpc' \in [Calls -> RpcType]
           /\ \A k \in Calls : \/ rpc'[k] = rpc[k]
                               \/ /\ k = r.call /\ rpc[k].state = "waiting"
                                  /\ rpc[k].method = r.method /\ rpc'[k].method = r.method
                                  /\ rpc'[k].state = state /\ rpc'[k].value = value
    <1> DEFINE c == r.call
    <1>1. c \in Calls /\ rpc \in [Calls -> RpcType]
        BY DEF CodexType, CallsType, FrameType
    <1>2. rpc[c] \in RpcType
        BY <1>1
    <1>3. [rpc[c] EXCEPT !.state = state, !.value = value] \in RpcType
        BY <1>2 DEF RpcType
    <1>4. CASE rpc[c].state = "waiting" /\ rpc[c].method = r.method
      <2>1. rpc' = [rpc EXCEPT ![c] = [rpc[c] EXCEPT !.state = state, !.value = value]]
        BY <1>1, <1>4 DEF Delivered
      <2>2. /\ rpc' \in [Calls -> RpcType]
            /\ rpc'[c] = [rpc[c] EXCEPT !.state = state, !.value = value]
            /\ \A k \in Calls : k # c => rpc'[k] = rpc[k]
        BY <1>1, <1>3, <2>1
      <2>3. rpc'[c].method = r.method /\ rpc'[c].state = state /\ rpc'[c].value = value
        BY <1>2, <1>4, <2>2 DEF RpcType
      <2>4. QED
        BY <1>4, <2>2, <2>3
    <1>5. CASE ~(rpc[c].state = "waiting" /\ rpc[c].method = r.method)
      <2>1. rpc' = rpc
        BY <1>1, <1>5 DEF Delivered
      <2>2. QED
        BY <1>1, <2>1
    <1>6. QED
        BY <1>4, <1>5

\* What fail_all_waiters leaves.
LEMMA FailedFacts ==
    ASSUME CodexType, rpc' = Failed
    PROVE  /\ rpc' \in [Calls -> RpcType]
           /\ \A k \in Calls : \/ rpc'[k] = rpc[k]
                               \/ /\ rpc[k].state = "waiting" /\ rpc'[k].state = "err"
                                  /\ rpc'[k].method = rpc[k].method
    <1>1. ASSUME NEW k \in Calls
          PROVE  /\ [rpc[k] EXCEPT !.state = "err"] \in RpcType
                 /\ [rpc[k] EXCEPT !.state = "err"].state = "err"
                 /\ [rpc[k] EXCEPT !.state = "err"].method = rpc[k].method
                 /\ rpc[k] \in RpcType
        BY DEF CodexType, CallsType, RpcType
    <1>2. QED
        BY <1>1 DEF Failed

\* The answers of Codex: which request, with what.
LEMMA AnswerFacts ==
    ASSUME CodexType, Frames, TurnsInOrder, CodexAnswers
    PROVE  /\ rpc' \in [Calls -> RpcType]
           /\ \A k \in Calls :
                \/ rpc'[k] = rpc[k]
                \/ /\ rpc[k].state = "waiting" /\ rpc'[k].method = rpc[k].method
                   /\ \/ rpc'[k].state = "err"
                      \/ /\ rpc'[k].state = "ok"
                         /\ rpc[k].method \in {"resume", "new"} => rpc'[k].value \in Natives
                         /\ rpc[k].method = "turn" =>
                              \E i \in DOMAIN pipe :
                                /\ pipe[i].call = k /\ pipe[i].method = "turn"
                                /\ Unused # {} /\ rpc'[k].value = NextTurn
                                /\ codex' = WithTurn(pipe[i].native, "accepted")
    <1> DEFINE r == Head(pipe)
               n == r.native
               Goal(k) == \/ rpc'[k] = rpc[k]
                          \/ /\ rpc[k].state = "waiting" /\ rpc'[k].method = rpc[k].method
                             /\ \/ rpc'[k].state = "err"
                                \/ /\ rpc'[k].state = "ok"
                                   /\ rpc[k].method \in {"resume", "new"} => rpc'[k].value \in Natives
                                   /\ rpc[k].method = "turn" =>
                                        \E i \in DOMAIN pipe :
                                          /\ pipe[i].call = k /\ pipe[i].method = "turn"
                                          /\ Unused # {} /\ rpc'[k].value = NextTurn
                                          /\ codex' = WithTurn(pipe[i].native, "accepted")
               All == rpc' \in [Calls -> RpcType] /\ \A k \in Calls : Goal(k)
    <1>0. /\ r \in FrameType /\ r = pipe[1] /\ 1 \in DOMAIN pipe
          /\ r.method # "new" => n \in Natives
        BY PipeHead DEF CodexAnswers
    <1>1. CASE rpc' = Delivered(r, "err", None)
        BY <1>0, <1>1, DeliveredFacts
    <1>2. CASE r.method = "resume" /\ n # None /\ rpc' = Delivered(r, "ok", n)
        BY <1>0, <1>2, DeliveredFacts
    <1>3. ASSUME r.method = "new", NEW f \in Natives, rpc' = Delivered(r, "ok", f) PROVE All
        BY <1>0, <1>3, DeliveredFacts
    <1>4. CASE /\ r.method = "turn" /\ Unused # {} /\ codex' = WithTurn(n, "accepted")
               /\ rpc' = Delivered(r, "ok", NextTurn)
      <2>1. NextTurn \in Turns
        BY <1>4, NextTurnIsLeast DEF Unused
      <2>2. /\ rpc' \in [Calls -> RpcType]
            /\ \A k \in Calls : \/ rpc'[k] = rpc[k]
                                \/ /\ k = r.call /\ rpc[k].state = "waiting"
                                   /\ rpc[k].method = r.method /\ rpc'[k].method = r.method
                                   /\ rpc'[k].state = "ok" /\ rpc'[k].value = NextTurn
        BY <1>0, <1>4, <2>1, DeliveredFacts
      <2>3. QED
        BY <1>0, <1>4, <2>2
    <1>5. CASE r.method \in {"interrupt", "steer"} /\ rpc' = Delivered(r, "ok", r.turn)
      <2>1. r.turn \in Natives \cup Turns \cup {None}
        BY <1>0 DEF FrameType
      <2>2. QED
        BY <1>0, <1>5, <2>1, DeliveredFacts
    <1>6. CASE r.method = "delete" /\ rpc' = Delivered(r, "ok", None)
        BY <1>0, <1>6, DeliveredFacts
    <1>7. All
        BY <1>1, <1>2, <1>3, <1>4, <1>5, <1>6 DEF CodexAnswers
    <1>8. QED
        BY <1>7

\* The calls of the harness, the worker and its requests.
Calling == CallsType /\ Waits

\* The records of the worker, of a call that has returned and of no request.
LEMMA Records ==
    /\ Idle \in WorkerType /\ Idle.pc = "idle"
    /\ [Idle EXCEPT !.pc = "done"] \in WorkerType /\ [Idle EXCEPT !.pc = "done"].pc = "done"
    /\ Done \in CallType /\ Done.pc = "done" /\ Done.op = "none" /\ Done.thread = None
    /\ NoRpc \in RpcType /\ NoRpc.state = "none"
    <1>1. Idle \in WorkerType /\ Idle.pc = "idle"
        BY Constants DEF Idle, WorkerType
    <1>2. [Idle EXCEPT !.pc = "done"] \in WorkerType /\ [Idle EXCEPT !.pc = "done"].pc = "done"
        BY <1>1 DEF WorkerType
    <1>3. Done \in CallType /\ Done.pc = "done" /\ Done.op = "none" /\ Done.thread = None
        BY Constants DEF Done, NoCall, CallType
    <1>4. NoRpc \in RpcType /\ NoRpc.state = "none"
        BY DEF NoRpc, RpcType
    <1>5. QED
        BY <1>1, <1>2, <1>3, <1>4

\* A worker that removes the uploads of a turn.
LEMMA CleanUpFacts ==
    ASSUME NEW t \in Threads, NEW u \in Turns, NEW forced \in BOOLEAN, CleanUp(t, u, forced)
    PROVE  /\ worker' \in WorkerType /\ worker'.pc = "cleanup"
           /\ worker'.thread = t /\ worker'.turn = u /\ worker'.forced = forced
    <1>1. Idle \in WorkerType
        BY Records
    <1>2. worker' = [Idle EXCEPT !.pc = "cleanup", !.thread = t, !.turn = u, !.forced = forced]
        BY DEF CleanUp
    <1>3. QED
        BY <1>1, <1>2 DEF WorkerType

\* Nothing of the calls has changed but where an idle worker is.
LEMMA IdleKeepsCalls ==
    ASSUME CodexType, Waits, UNCHANGED <<call, rpc, queues>>,
           \/ worker' = worker
           \/ /\ worker.pc \in {"idle", "cleanup"} /\ worker' \in WorkerType
              /\ worker'.pc \in {"idle", "cleanup"}
    PROVE  Calling'
    <1>1. CallsType'
        BY DEF CodexType, CallsType
    <1>2. Waits'
        BY DEF Waits
    <1>3. QED
        BY <1>1, <1>2 DEF Calling

\* Only requests that were waited for have an answer now.
LEMMA AnswersKeepCalls ==
    ASSUME CodexType, Waits, UNCHANGED <<call, worker, queues>>, rpc' \in [Calls -> RpcType],
           \A k \in Calls : \/ rpc'[k] = rpc[k]
                            \/ /\ rpc[k].state = "waiting" /\ rpc'[k].method = rpc[k].method
                               /\ \/ rpc'[k].state = "err"
                                  \/ rpc[k].method \in {"resume", "new"} => rpc'[k].value \in Natives
    PROVE  Calling'
    <1>1. CallsType'
        BY DEF CodexType, CallsType
    <1>2. Waits'
        BY DEF Waits
    <1>3. QED
        BY <1>1, <1>2 DEF Calling

\* A call returns: its request is forgotten, and the worker is idle if it waited
\* for it.
LEMMA ReturnKeepsCalls ==
    ASSUME CodexType, Waits, NEW k \in Calls, Returned(k),
           queues' \in [commands : Seq(Calls), controls : Seq(Calls)],
           \/ Forget(k) /\ worker.pc = "rpc" /\ worker.call = k
           \/ rpc' = [rpc EXCEPT ![k] = NoRpc] /\ worker' = worker /\ worker.pc # "rpc"
           \/ rpc' = rpc /\ worker' = worker /\ worker.pc # "rpc" /\ call[k].pc # "steering"
    PROVE  Calling'
    <1>0. /\ call \in [Calls -> CallType] /\ rpc \in [Calls -> RpcType] /\ worker \in WorkerType
        BY DEF CodexType, CallsType
    <1>1. Done \in CallType /\ NoRpc \in RpcType /\ Idle \in WorkerType
        BY Records
    <1>2. /\ Done.pc = "done" /\ Done.op = "none"
          /\ NoRpc.state = "none" /\ Idle.pc = "idle"
        BY Records
    <1>3. /\ call' \in [Calls -> CallType] /\ call'[k] = Done
          /\ \A j \in Calls : j # k => call'[j] = call[j]
        BY <1>0, <1>1 DEF Returned
    <1>4. /\ rpc' \in [Calls -> RpcType] /\ worker' \in WorkerType
          /\ \A j \in Calls : j # k => rpc'[j] = rpc[j]
          /\ \/ rpc'[k] = NoRpc
             \/ rpc'[k] = rpc[k] /\ call[k].pc # "steering" /\ worker.pc # "rpc"
        BY <1>0, <1>1 DEF Forget
    <1>5. CallsType'
        BY <1>3, <1>4 DEF CallsType
    <1>6. ASSUME NEW j \in Calls
          PROVE  /\ call'[j].pc \in {"idle", "done"} <=> call'[j].op = "none"
                 /\ call'[j].pc = "steering" => call'[j].op = "steer"
                 /\ call'[j].pc = "served" <=> worker'.pc = "rpc" /\ worker'.call = j
                 /\ rpc'[j].state # "none" =>
                     \/ call'[j].pc = "served" /\ MethodOf(call'[j].op, rpc'[j].method)
                     \/ call'[j].pc = "steering" /\ rpc'[j].method = "steer"
                 /\ rpc'[j].state = "ok" /\ rpc'[j].method \in {"resume", "new"}
                        => rpc'[j].value \in Natives
      <2>1. CASE j = k
        <3>1. rpc'[k].state = "none"
          BY <1>2, <1>4 DEF Waits
        <3>2. ~(worker'.pc = "rpc" /\ worker'.call = k)
          BY <1>2 DEF Forget
        <3>3. QED
          BY <1>2, <1>3, <2>1, <3>1, <3>2
      <2>2. CASE j # k
        <3>1. call'[j] = call[j] /\ rpc'[j] = rpc[j]
          BY <1>3, <1>4, <2>2
        <3>2. call[j].pc = "served" <=> worker'.pc = "rpc" /\ worker'.call = j
          BY <1>2, <2>2 DEF Waits, Forget
        <3>3. QED
          BY <3>1, <3>2 DEF Waits
      <2>3. QED
        BY <2>1, <2>2
    <1>7. Waits'
        BY <1>6 DEF Waits
    <1>8. QED
        BY <1>5, <1>7 DEF Calling

\* A call is served: the worker waits for its request.
LEMMA ServeKeepsCalls ==
    ASSUME CodexType, Waits, NEW k \in Calls, NEW method \in Methods, NEW n \in Natives \cup {None},
           NEW u \in Turns \cup {None}, Request(k, method, n, u), MethodOf(call[k].op, method),
           worker.pc = "idle", Served(k), Await(k),
           queues' \in [commands : Seq(Calls), controls : Seq(Calls)]
    PROVE  Calling'
    <1>0. /\ call \in [Calls -> CallType] /\ rpc \in [Calls -> RpcType] /\ k \in 0..MaxCalls
        BY Constants DEF CodexType, CallsType
    <1>1. worker' \in WorkerType /\ worker'.pc = "rpc" /\ worker'.call = k
        BY <1>0, Constants DEF Await, Idle, WorkerType
    <1>2. [call[k] EXCEPT !.pc = "served"] \in CallType
        BY <1>0 DEF CallType
    <1>3. /\ call' \in [Calls -> CallType]
          /\ call'[k].pc = "served" /\ call'[k].op = call[k].op
          /\ \A j \in Calls : j # k => call'[j] = call[j]
        BY <1>0, <1>2 DEF Served, CallType
    <1>4. /\ rpc' \in [Calls -> RpcType]
          /\ rpc'[k].method = method /\ rpc'[k].state \in {"waiting", "err"}
          /\ \A j \in Calls : j # k => rpc'[j] = rpc[j]
        BY RequestFacts
    <1>5. CallsType'
        BY <1>1, <1>3, <1>4 DEF CallsType
    <1>6. call[k].op # "none"
        BY DEF MethodOf
    <1>7. ASSUME NEW j \in Calls
          PROVE  /\ call'[j].pc \in {"idle", "done"} <=> call'[j].op = "none"
                 /\ call'[j].pc = "steering" => call'[j].op = "steer"
                 /\ call'[j].pc = "served" <=> worker'.pc = "rpc" /\ worker'.call = j
                 /\ rpc'[j].state # "none" =>
                     \/ call'[j].pc = "served" /\ MethodOf(call'[j].op, rpc'[j].method)
                     \/ call'[j].pc = "steering" /\ rpc'[j].method = "steer"
                 /\ rpc'[j].state = "ok" /\ rpc'[j].method \in {"resume", "new"}
                        => rpc'[j].value \in Natives
      <2>1. CASE j = k
        BY <1>1, <1>3, <1>4, <1>6, <2>1
      <2>2. CASE j # k
        BY <1>1, <1>3, <1>4, <2>2 DEF Waits
      <2>3. QED
        BY <2>1, <2>2
    <1>8. Waits'
        BY <1>7 DEF Waits
    <1>9. QED
        BY <1>5, <1>8 DEF Calling

\* A steer, or the fallback of a resume, sends its request.
LEMMA SendKeepsCalls ==
    ASSUME CodexType, Waits, NEW k \in Calls, NEW method \in Methods, NEW n \in Natives \cup {None},
           NEW u \in Turns \cup {None}, Request(k, method, n, u), UNCHANGED <<call, worker, queues>>,
           \/ call[k].pc = "served" /\ MethodOf(call[k].op, method)
           \/ call[k].pc = "steering" /\ method = "steer"
    PROVE  Calling'
    <1>1. /\ rpc' \in [Calls -> RpcType]
          /\ rpc'[k].method = method /\ rpc'[k].state \in {"waiting", "err"}
          /\ \A j \in Calls : j # k => rpc'[j] = rpc[j]
        BY RequestFacts
    <1>2. CallsType'
        BY <1>1 DEF CodexType, CallsType
    <1>3. Waits'
        BY <1>1 DEF Waits
    <1>4. QED
        BY <1>2, <1>3 DEF Calling

\* The message the worker reads: of a turn, and for a thread.
LEMMA MessageRead ==
    ASSUME CodexType, Bound, Messages, inbox # <<>>, Head(inbox).kind \in Kinds
    PROVE  /\ Head(inbox) = inbox[1] /\ 1 \in DOMAIN inbox
           /\ Head(inbox).turn \in Turns /\ Head(inbox).native \in Natives
           /\ codex.turn[Head(inbox).turn].native = Head(inbox).native
           /\ Routed(Head(inbox).native) \in Threads
    <1>1. Head(inbox) = inbox[1] /\ 1 \in DOMAIN inbox /\ Head(inbox).kind # "end"
        BY DEF CodexType, TrafficType, Kinds
    <1>2. /\ Head(inbox).turn \in Turns /\ Head(inbox).native \in Natives
          /\ codex.turn[Head(inbox).turn].native = Head(inbox).native
        BY <1>1 DEF Messages
    <1>3. Routed(Head(inbox).native) \in Threads
        BY <1>2, NewThreadIsFresh DEF Routed, CodexType, ServedType
    <1>4. QED
        BY <1>1, <1>2, <1>3

\* A call that is served was pending.
LEMMA ServedIsQueued ==
    ASSUME CodexType, QueuedOnce, NEW channel \in {"commands", "controls"},
           queues[channel] # <<>>
    PROVE  call[Head(queues[channel])].pc = "queued"
    <1>1. queues.commands \in Seq(Calls) /\ queues.controls \in Seq(Calls)
        BY DEF CodexType, CallsType
    <1>2. ASSUME NEW q \in Seq(Calls), q # <<>> PROVE 1 \in DOMAIN q /\ Head(q) = q[1]
        BY <1>2
    <1>3. QED
        BY <1>1, <1>2 DEF QueuedOnce

\* Every step keeps the types of the calls and what the worker waits for.
LEMMA CallingKept == CodexInv /\ [Next]_vars => Calling'
    <1> SUFFICES ASSUME CodexInv, [Next]_vars PROVE Calling'
        OBVIOUS
    <1>0. /\ CodexType /\ Waits /\ Frames /\ TurnsInOrder /\ CallsHold /\ Messages /\ Bound
          /\ QueuedOnce
        BY DEF CodexInv
    <1>t. /\ call \in [Calls -> CallType] /\ rpc \in [Calls -> RpcType] /\ worker \in WorkerType
          /\ queues \in [commands : Seq(Calls), controls : Seq(Calls)]
          /\ \A k \in Calls : /\ call[k].native \in Natives \cup {None}
                              /\ call[k].turn \in Turns \cup {None}
                              /\ call[k].thread \in Threads \cup {None}
        BY <1>0 DEF CodexType, CallsType, CallType
    <1>1. CASE UNCHANGED vars \/ Shutdown
        BY <1>0, <1>1, IdleKeepsCalls DEF vars, Shutdown
    <1>2. CASE CodexStep
      <2>1. CASE CodexAnswers
        <3>1. UNCHANGED <<call, worker, queues>>
          BY <2>1 DEF CodexAnswers
        <3>2. QED
          BY <1>0, <2>1, <3>1, AnswerFacts, AnswersKeepCalls
      <2>2. CASE ~CodexAnswers
        <3>1. UNCHANGED <<call, worker, queues, rpc>>
          BY <1>2, <2>2 DEF CodexStep, CodexAnnounces, CodexFails, CodexCompletes, CodexStarts, Emit
        <3>2. QED
          BY <1>0, <3>1, IdleKeepsCalls
      <2>3. QED
        BY <2>1, <2>2
    <1>3. ASSUME NEW k \in Calls, Timeout(k) PROVE Calling'
      <2>1. UNCHANGED <<call, worker, queues>> /\ rpc[k].state = "waiting"
            /\ rpc' = [rpc EXCEPT ![k].state = "err"]
        BY <1>3 DEF Timeout
      <2>2. /\ rpc' \in [Calls -> RpcType]
            /\ rpc'[k].method = rpc[k].method /\ rpc'[k].state = "err"
            /\ \A j \in Calls : j # k => rpc'[j] = rpc[j]
        BY <1>t, <2>1 DEF RpcType
      <2>3. QED
        BY <1>0, <2>1, <2>2, AnswersKeepCalls
    <1>4. CASE ReaderEnds \/ WriterFails
      <2>1. UNCHANGED <<call, worker, queues>> /\ rpc' = Failed
        BY <1>4 DEF ReaderEnds, WriterFails
      <2>2. QED
        BY <1>0, <2>1, FailedFacts, AnswersKeepCalls
    <1>5. ASSUME NEW k \in Calls, Call(k) PROVE Calling'
      <2>1. PICK op \in Commands \cup Controls, t \in Threads, n \in Natives \cup {None},
                 u \in Turns \cup {None} :
            /\ call' = [call EXCEPT ![k] = IF worker.pc = "done" THEN Done
                    ELSE [op |-> op, pc |-> "queued", thread |-> t, native |-> n, turn |-> u]]
            /\ queues' = IF worker.pc = "done" THEN queues
                         ELSE IF op \in Commands THEN [queues EXCEPT !.commands = Append(@, k)]
                         ELSE [queues EXCEPT !.controls = Append(@, k)]
        BY <1>5 DEF Call
      <2>2. call[k].pc = "idle" /\ UNCHANGED <<worker, rpc>>
        BY <1>5 DEF Call
      <2>3. queues' \in [commands : Seq(Calls), controls : Seq(Calls)]
        <3>1. ASSUME NEW q \in Seq(Calls) PROVE Append(q, k) \in Seq(Calls)
          OBVIOUS
        <3>2. queues.commands \in Seq(Calls) /\ queues.controls \in Seq(Calls)
          BY <1>t
        <3>3. /\ [queues EXCEPT !.commands = Append(queues.commands, k)]
                    \in [commands : Seq(Calls), controls : Seq(Calls)]
              /\ [queues EXCEPT !.controls = Append(queues.controls, k)]
                    \in [commands : Seq(Calls), controls : Seq(Calls)]
          BY <1>t, <3>1, <3>2
        <3>4. QED
          BY <1>t, <2>1, <3>3
      <2>4. PICK c \in CallType : /\ call' = [call EXCEPT ![k] = c]
                                  /\ \/ c.pc = "done" /\ c.op = "none"
                                     \/ c.pc = "queued" /\ c.op # "none"
        <3>1. /\ Done \in CallType /\ Done.pc = "done" /\ Done.op = "none"
          BY Records
        <3>2. /\ [op |-> op, pc |-> "queued", thread |-> t, native |-> n, turn |-> u] \in CallType
              /\ op # "none"
          BY DEF CallType, Commands, Controls
        <3>3. QED
          BY <2>1, <3>1, <3>2
      <2>5. /\ call' \in [Calls -> CallType] /\ call'[k] = c
            /\ \A j \in Calls : j # k => call'[j] = call[j]
        BY <1>t, <2>4
      <2>6. CallsType'
        BY <1>t, <2>2, <2>3, <2>5 DEF CallsType
      <2>7. rpc[k].state = "none" /\ ~(worker.pc = "rpc" /\ worker.call = k)
        BY <1>0, <2>2 DEF Waits
      <2>8. Waits'
        BY <1>0, <2>2, <2>4, <2>5, <2>7 DEF Waits
      <2>9. QED
        BY <2>6, <2>8 DEF Calling
    <1>6. CASE HandleStarted \/ HandleCompleted \/ HandleError
      <2>1. UNCHANGED <<call, rpc, queues>> /\ worker.pc = "idle"
        BY <1>6 DEF HandleStarted, HandleCompleted, HandleError, Receives, Polling
      <2>2. Head(inbox).kind \in Kinds /\ inbox # <<>>
        BY <1>6 DEF HandleStarted, HandleCompleted, HandleError, Receives, Kinds
      <2>3. Head(inbox).turn \in Turns /\ Routed(Head(inbox).native) \in Threads
        BY <1>0, <2>2, MessageRead
      <2>4. /\ CleanUp(Routed(Head(inbox).native), Head(inbox).turn, TRUE)
                => worker' \in WorkerType /\ worker'.pc = "cleanup"
            /\ CleanUp(Routed(Head(inbox).native), Head(inbox).turn, FALSE)
                => worker' \in WorkerType /\ worker'.pc = "cleanup"
        BY <2>3, CleanUpFacts
      <2>6. worker' = worker \/ (worker' \in WorkerType /\ worker'.pc = "cleanup")
        BY <1>6, <2>4 DEF HandleStarted, HandleCompleted, HandleError
      <2>7. QED
        BY <1>0, <2>1, <2>6, IdleKeepsCalls
    <1>7. CASE CleanedUp
      <2>1. UNCHANGED <<call, rpc, queues>> /\ worker.pc = "cleanup" /\ worker' = Idle
        BY <1>7 DEF CleanedUp
      <2>2. Idle \in WorkerType /\ Idle.pc = "idle"
        BY Records
      <2>3. QED
        BY <1>0, <2>1, <2>2, IdleKeepsCalls
    <1>8. CASE HandleEnd \/ HandleShutdown
      <2>1. Stop
        BY <1>8 DEF HandleEnd, HandleShutdown
      <2>2. worker' \in WorkerType /\ worker'.pc = "done"
        BY <2>1, Records DEF Stop
      <2>3. /\ Done \in CallType /\ Done.pc = "done" /\ Done.op = "none"
            /\ NoRpc \in RpcType /\ NoRpc.state = "none"
        BY Records
      <2>4. /\ call' \in [Calls -> CallType] /\ rpc' \in [Calls -> RpcType]
            /\ \A j \in Calls : /\ rpc'[j].state = "none"
                                /\ call'[j] = Done \/ (call'[j] = call[j] /\ call[j].pc = "idle")
        BY <1>t, <2>1, <2>3 DEF Stop
      <2>5. queues' \in [commands : Seq(Calls), controls : Seq(Calls)]
        BY <2>1 DEF Stop
      <2>6. CallsType'
        BY <2>2, <2>4, <2>5 DEF CallsType
      <2>7. Waits'
        BY <1>0, <2>2, <2>3, <2>4 DEF Waits
      <2>8. QED
        BY <2>6, <2>7 DEF Calling
    <1>9. ASSUME NEW k \in Calls, SendSteer(k) PROVE Calling'
        BY <1>0, <1>t, <1>9, SendKeepsCalls DEF SendSteer, Methods
    <1>10. ASSUME NEW k \in Calls, FinishSteer(k) PROVE Calling'
      <2>1. /\ Returned(k) /\ rpc' = [rpc EXCEPT ![k] = NoRpc] /\ UNCHANGED <<worker, queues>>
            /\ worker.pc = "idle" /\ call[k].pc = "steering"
        BY <1>10 DEF FinishSteer, Polling
      <2>2. call[k].op # "none"
        BY <1>0, <2>1 DEF Waits
      <2>3. QED
        BY <1>0, <1>t, <2>1, <2>2, ReturnKeepsCalls
    <1>11. ASSUME NEW channel \in {"commands", "controls"}, Serving(channel)
           PROVE  /\ Head(queues[channel]) \in Calls /\ worker.pc = "idle"
                  /\ queues' \in [commands : Seq(Calls), controls : Seq(Calls)]
      <2>1. Head(queues[channel]) \in Calls /\ Tail(queues[channel]) \in Seq(Calls)
        BY <1>0, <1>11, HeadIsCall DEF Serving
      <2>2. QED
        BY <1>t, <1>11, <2>1 DEF Serving, Polling
    <1>12. CASE OpenThread
      <2>1. Serving("commands")
        BY <1>12 DEF OpenThread
      <2> DEFINE k == Head(queues.commands)
      <2>2. /\ k \in Calls /\ worker.pc = "idle"
            /\ queues' \in [commands : Seq(Calls), controls : Seq(Calls)]
        BY <1>11, <2>1
      <2>3. /\ call[k].op = "open" /\ Served(k) /\ Await(k)
            /\ \/ Request(k, "resume", call[k].native, None)
               \/ Request(k, "new", None, None)
        BY <1>12 DEF OpenThread
      <2> HIDE DEF k
      <2>4. CASE Request(k, "resume", call[k].native, None)
        BY <1>0, <1>t, <2>2, <2>3, <2>4, ServeKeepsCalls DEF MethodOf, Methods
      <2>5. CASE Request(k, "new", None, None)
        BY <1>0, <1>t, <2>2, <2>3, <2>5, ServeKeepsCalls DEF MethodOf, Methods
      <2>6. QED
        BY <2>3, <2>4, <2>5
    <1>13. CASE StartTurn
      <2>1. Serving("commands")
        BY <1>13 DEF StartTurn
      <2> DEFINE k == Head(queues.commands)
      <2>2. /\ k \in Calls /\ worker.pc = "idle"
            /\ queues' \in [commands : Seq(Calls), controls : Seq(Calls)]
        BY <1>11, <2>1
      <2>3. /\ call[k].op = "start"
            /\ \/ Request(k, "turn", call[k].native, None) /\ Served(k) /\ Await(k)
               \/ Returned(k) /\ UNCHANGED <<worker, rpc>>
        BY <1>13 DEF StartTurn
      <2> HIDE DEF k
      <2>4. CASE Request(k, "turn", call[k].native, None) /\ Served(k) /\ Await(k)
        BY <1>0, <1>t, <2>2, <2>3, <2>4, ServeKeepsCalls DEF MethodOf, Methods
      <2>5. CASE Returned(k) /\ UNCHANGED <<worker, rpc>>
        <3>1. call[k].pc # "steering"
          BY <1>0, <2>2, <2>3 DEF Waits
        <3>2. QED
          BY <1>0, <2>2, <2>3, <2>5, <3>1, ReturnKeepsCalls
      <2>6. QED
        BY <2>3, <2>4, <2>5
    <1>14. CASE ClaimNativeThread \/ RefuseControl
      <2>1. Serving("controls")
        BY <1>14 DEF ClaimNativeThread, RefuseControl
      <2> DEFINE k == Head(queues.controls)
      <2>2. /\ k \in Calls /\ worker.pc = "idle"
            /\ queues' \in [commands : Seq(Calls), controls : Seq(Calls)]
        BY <1>11, <2>1
      <2>3. Returned(k) /\ UNCHANGED <<worker, rpc>>
        BY <1>14 DEF ClaimNativeThread, RefuseControl
      <2>4. call[k].pc = "queued"
        BY <1>0, <2>1, ServedIsQueued DEF Serving
      <2> HIDE DEF k
      <2>5. QED
        BY <1>0, <2>2, <2>3, <2>4, ReturnKeepsCalls
    <1>15. CASE SteerTurn
      <2>1. Serving("controls")
        BY <1>15 DEF SteerTurn
      <2> DEFINE k == Head(queues.controls)
      <2>2. /\ k \in Calls /\ worker.pc = "idle"
            /\ queues' \in [commands : Seq(Calls), controls : Seq(Calls)]
        BY <1>11, <2>1
      <2>3. /\ call[k].op = "steer" /\ UNCHANGED <<worker, rpc>>
            /\ call' = [call EXCEPT ![k].pc = "steering", ![k].turn = mapper[call[k].thread]]
        BY <1>15 DEF SteerTurn
      <2>4. call[k].thread \in Threads /\ mapper \in [Threads -> Turns \cup {None}]
        BY <1>0, <2>2, <2>3 DEF CallsHold, CodexType, ServedType
      <2>5. call[k].pc = "queued"
        BY <1>0, <2>1, ServedIsQueued DEF Serving
      <2> HIDE DEF k
      <2>6. mapper[call[k].thread] \in Turns \cup {None} /\ call[k] \in CallType
        BY <1>t, <2>2, <2>4
      <2>7. /\ call' \in [Calls -> CallType]
            /\ call'[k].pc = "steering" /\ call'[k].op = "steer"
            /\ \A j \in Calls : j # k => call'[j] = call[j]
        BY <1>t, <2>2, <2>3, <2>6 DEF CallType
      <2>8. CallsType'
        BY <1>t, <2>2, <2>3, <2>7 DEF CallsType
      <2>9. rpc[k].state = "none"
        BY <1>0, <2>2, <2>5 DEF Waits
      <2>10. Waits'
        BY <1>0, <2>2, <2>3, <2>7, <2>9 DEF Waits
      <2>11. QED
        BY <2>8, <2>10 DEF Calling
    <1>16. CASE SendControl
      <2>1. Serving("controls")
        BY <1>16 DEF SendControl
      <2> DEFINE k == Head(queues.controls)
                 u == IF call[k].op = "interrupt" THEN mapper[call[k].thread] ELSE None
      <2>2. /\ k \in Calls /\ worker.pc = "idle"
            /\ queues' \in [commands : Seq(Calls), controls : Seq(Calls)]
        BY <1>11, <2>1
      <2>3. /\ call[k].op \in {"interrupt", "delete"} /\ Served(k) /\ Await(k)
            /\ Request(k, call[k].op, call[k].native, u)
        BY <1>16 DEF SendControl
      <2>4. u \in Turns \cup {None}
        BY <1>0, <2>2, <2>3 DEF CallsHold, CodexType, ServedType
      <2> HIDE DEF k, u
      <2>5. QED
        BY <1>0, <1>t, <2>2, <2>3, <2>4, ServeKeepsCalls DEF MethodOf, Methods
    <1>17. ASSUME NEW k \in Calls, ResumeFailed(k) PROVE Calling'
      <2>1. /\ worker.pc = "rpc" /\ worker.call = k /\ rpc[k].method = "resume"
            /\ rpc[k].state = "err" /\ Request(k, "new", None, None)
            /\ UNCHANGED <<call, worker, queues>>
        BY <1>17 DEF ResumeFailed, Answered
      <2>2. call[k].pc = "served" /\ MethodOf(call[k].op, "new")
        BY <1>0, <2>1 DEF Waits, MethodOf
      <2>3. QED
        BY <1>0, <2>1, <2>2, SendKeepsCalls DEF Methods
    <1>18. ASSUME NEW k \in Calls,
                  ThreadOpened(k) \/ TurnStarted(k) \/ ThreadDeleted(k) \/ PassAnswer(k)
           PROVE  Calling'
      <2>1. /\ worker.pc = "rpc" /\ worker.call = k /\ Returned(k) /\ Forget(k)
            /\ queues' = queues
        BY <1>18 DEF ThreadOpened, TurnStarted, ThreadDeleted, PassAnswer, Answered
      <2>2. QED
        BY <1>0, <1>t, <2>1, ReturnKeepsCalls
    <1>19. QED
        BY <1>1, <1>2, <1>3, <1>4, <1>5, <1>6, <1>7, <1>8, <1>9, <1>10, <1>12, <1>13, <1>14,
           <1>15, <1>16, <1>17, <1>18 DEF Next, WorkerStep

\* The rest of a channel.
LEMMA ChannelTail ==
    ASSUME NEW q \in Seq(Calls), q # <<>>
    PROVE  /\ 1 \in DOMAIN q /\ Head(q) = q[1]
           /\ \A i \in DOMAIN Tail(q) : i + 1 \in DOMAIN q /\ i + 1 # 1 /\ Tail(q)[i] = q[i + 1]
           /\ \A i, j \in DOMAIN Tail(q) : i # j => i + 1 # j + 1
    OBVIOUS

\* A channel with one more call.
LEMMA ChannelAppended ==
    ASSUME NEW q \in Seq(Calls), NEW k \in Calls
    PROVE  \A i \in DOMAIN Append(q, k) :
              \/ i \in DOMAIN q /\ Append(q, k)[i] = q[i]
              \/ i = Len(q) + 1 /\ i \notin DOMAIN q /\ Append(q, k)[i] = k
    OBVIOUS

\* The pending calls stay pending, and the channels are as they were.
LEMMA ChannelsFixed ==
    ASSUME CodexType, QueuedOnce, UNCHANGED queues,
           \A j \in Calls : call[j].pc = "queued" => call'[j] = call[j]
    PROVE  QueuedOnce'
    <1>1. /\ \A i \in DOMAIN queues.commands : queues.commands[i] \in Calls
          /\ \A i \in DOMAIN queues.controls : queues.controls[i] \in Calls
        BY DEF CodexType, CallsType
    <1>2. QED
        BY <1>1 DEF QueuedOnce

\* One call has left its channel.
LEMMA ChannelServed ==
    ASSUME CodexType, QueuedOnce, NEW channel \in {"commands", "controls"}, Serving(channel),
           \A j \in Calls : j # Head(queues[channel]) => call'[j] = call[j]
    PROVE  QueuedOnce'
    <1> DEFINE p == queues.commands
               q == queues.controls
    <1>0. p \in Seq(Calls) /\ q \in Seq(Calls)
        BY DEF CodexType, CallsType
    <1>1. /\ \A i \in DOMAIN p : p[i] \in Calls
          /\ \A i \in DOMAIN q : q[i] \in Calls
        BY <1>0
    <1>2. CASE channel = "commands"
      <2>1. queues'.commands = Tail(p) /\ queues'.controls = q /\ p # <<>>
        BY <1>2 DEF Serving, CodexType, CallsType
      <2>2. /\ 1 \in DOMAIN p /\ Head(p) = p[1]
            /\ \A i \in DOMAIN Tail(p) : i + 1 \in DOMAIN p /\ i + 1 # 1 /\ Tail(p)[i] = p[i + 1]
            /\ \A i, j \in DOMAIN Tail(p) : i # j => i + 1 # j + 1
        BY <1>0, <2>1, ChannelTail
      <2>3. \A j \in Calls : j # p[1] => call'[j] = call[j]
        BY <1>2, <2>2
      <2> HIDE DEF p, q
      <2>4. ASSUME NEW i \in DOMAIN Tail(p)
            PROVE  /\ call'[Tail(p)[i]].pc = "queued"
                   /\ \A j \in DOMAIN Tail(p) : i # j => Tail(p)[i] # Tail(p)[j]
                   /\ \A j \in DOMAIN q : Tail(p)[i] # q[j]
        BY <1>1, <2>2, <2>3 DEF QueuedOnce, p, q
      <2>5. ASSUME NEW i \in DOMAIN q
            PROVE  /\ call'[q[i]].pc = "queued"
                   /\ \A j \in DOMAIN q : i # j => q[i] # q[j]
        BY <1>1, <2>2, <2>3 DEF QueuedOnce, p, q
      <2>6. QED
        BY <2>1, <2>4, <2>5 DEF QueuedOnce
    <1>3. CASE channel = "controls"
      <2>1. queues'.commands = p /\ queues'.controls = Tail(q) /\ q # <<>>
        BY <1>3 DEF Serving, CodexType, CallsType
      <2>2. /\ 1 \in DOMAIN q /\ Head(q) = q[1]
            /\ \A i \in DOMAIN Tail(q) : i + 1 \in DOMAIN q /\ i + 1 # 1 /\ Tail(q)[i] = q[i + 1]
            /\ \A i, j \in DOMAIN Tail(q) : i # j => i + 1 # j + 1
        BY <1>0, <2>1, ChannelTail
      <2>3. \A j \in Calls : j # q[1] => call'[j] = call[j]
        BY <1>3, <2>2
      <2> HIDE DEF p, q
      <2>4. ASSUME NEW i \in DOMAIN p
            PROVE  /\ call'[p[i]].pc = "queued"
                   /\ \A j \in DOMAIN p : i # j => p[i] # p[j]
                   /\ \A j \in DOMAIN Tail(q) : p[i] # Tail(q)[j]
        BY <1>1, <2>2, <2>3 DEF QueuedOnce, p, q
      <2>5. ASSUME NEW i \in DOMAIN Tail(q)
            PROVE  /\ call'[Tail(q)[i]].pc = "queued"
                   /\ \A j \in DOMAIN Tail(q) : i # j => Tail(q)[i] # Tail(q)[j]
        BY <1>1, <2>2, <2>3 DEF QueuedOnce, p, q
      <2>6. QED
        BY <2>1, <2>4, <2>5 DEF QueuedOnce
    <1>4. QED
        BY <1>2, <1>3

\* What each step does to the calls: nothing but to one call that is not pending,
\* to one that leaves its channel, to one that is made, or all of them return.
LEMMA CallSteps ==
    ASSUME CodexInv, [Next]_vars
    PROVE  \/ queues' = queues /\ call' = call
           \/ \E k \in Calls : /\ queues' = queues /\ call' = [call EXCEPT ![k] = Done]
                               /\ call[k].pc \in {"served", "steering"}
           \/ \E channel \in {"commands", "controls"} :
                LET k == Head(queues[channel])
                IN /\ Serving(channel) /\ k \in Calls
                   /\ \/ call' = [call EXCEPT ![k] = Done]
                      \/ call' = [call EXCEPT ![k].pc = "served"]
                      \/ /\ call[k].op = "steer"
                         /\ call' = [call EXCEPT ![k].pc = "steering",
                                                 ![k].turn = mapper[call[k].thread]]
           \/ \E k \in Calls : Call(k)
           \/ Stop
    <1>0. CodexType /\ Waits
        BY DEF CodexInv
    <1>1. CASE UNCHANGED vars \/ Shutdown \/ CodexStep \/ ReaderEnds \/ WriterFails
               \/ (\E k \in Calls : Timeout(k) \/ SendSteer(k) \/ ResumeFailed(k))
               \/ HandleStarted \/ HandleCompleted \/ HandleError \/ CleanedUp
        BY <1>1 DEF vars, Shutdown, CodexStep, CodexAnswers, CodexAnnounces, CodexFails,
            CodexCompletes, CodexStarts, Emit, ReaderEnds, WriterFails, Timeout, SendSteer,
            ResumeFailed, HandleStarted, HandleCompleted, HandleError, CleanedUp
    <1>2. ASSUME NEW k \in Calls, FinishSteer(k) \/ ThreadOpened(k) \/ TurnStarted(k)
                                  \/ ThreadDeleted(k) \/ PassAnswer(k)
          PROVE  /\ queues' = queues /\ call' = [call EXCEPT ![k] = Done]
                 /\ call[k].pc \in {"served", "steering"}
        BY <1>0, <1>2 DEF FinishSteer, ThreadOpened, TurnStarted, ThreadDeleted, PassAnswer,
            Answered, Returned, Waits
    <1>3. ASSUME NEW channel \in {"commands", "controls"}, Serving(channel)
          PROVE  Head(queues[channel]) \in Calls
        BY <1>0, <1>3, HeadIsCall DEF Serving
    <1>4. CASE OpenThread \/ StartTurn
        BY <1>3, <1>4 DEF OpenThread, StartTurn, Served, Returned
    <1>5. CASE ClaimNativeThread \/ RefuseControl \/ SteerTurn \/ SendControl
        BY <1>3, <1>5 DEF ClaimNativeThread, RefuseControl, SteerTurn, SendControl, Served, Returned
    <1>6. CASE HandleEnd \/ HandleShutdown
        BY <1>6 DEF HandleEnd, HandleShutdown
    <1>7. QED
        BY <1>1, <1>2, <1>4, <1>5, <1>6 DEF Next, WorkerStep

\* A pending call stays in its channel once.
LEMMA QueuedKept == CodexInv /\ [Next]_vars => QueuedOnce'
    <1> SUFFICES ASSUME CodexInv, [Next]_vars PROVE QueuedOnce'
        OBVIOUS
    <1>0. CodexType /\ QueuedOnce /\ call \in [Calls -> CallType]
          /\ queues \in [commands : Seq(Calls), controls : Seq(Calls)]
        BY DEF CodexInv, CodexType, CallsType
    <1>1. CASE queues' = queues /\ call' = call
        BY <1>0, <1>1, ChannelsFixed
    <1>2. ASSUME NEW k \in Calls, queues' = queues, call' = [call EXCEPT ![k] = Done],
                 call[k].pc \in {"served", "steering"}
          PROVE  QueuedOnce'
        BY <1>0, <1>2, ChannelsFixed
    <1>3. ASSUME NEW channel \in {"commands", "controls"}, Serving(channel),
                 \A j \in Calls : j # Head(queues[channel]) => call'[j] = call[j]
          PROVE  QueuedOnce'
        BY <1>0, <1>3, ChannelServed
    <1>4. ASSUME NEW k \in Calls, Call(k) PROVE QueuedOnce'
      <2> DEFINE p == queues.commands
                 q == queues.controls
      <2>1. p \in Seq(Calls) /\ q \in Seq(Calls)
        BY <1>0
      <2>2. /\ \A i \in DOMAIN p : p[i] \in Calls
            /\ \A i \in DOMAIN q : q[i] \in Calls
        BY <2>1
      <2>3. call[k].pc = "idle" /\ \A j \in Calls : j # k => call'[j] = call[j]
        BY <1>0, <1>4 DEF Call
      <2>4. /\ \A i \in DOMAIN p : p[i] # k /\ call'[p[i]].pc = "queued"
            /\ \A i \in DOMAIN q : q[i] # k /\ call'[q[i]].pc = "queued"
        BY <1>0, <2>2, <2>3 DEF QueuedOnce
      <2>5. CASE queues' = queues
        BY <1>0, <2>4, <2>5 DEF QueuedOnce
      <2>6. CASE /\ call'[k].pc = "queued"
                 /\ queues' = [queues EXCEPT !.commands = Append(p, k)]
        <3>1. queues'.commands = Append(p, k) /\ queues'.controls = q
          BY <1>0, <2>6
        <3>2. \A i \in DOMAIN Append(p, k) :
                 \/ i \in DOMAIN p /\ Append(p, k)[i] = p[i]
                 \/ i = Len(p) + 1 /\ i \notin DOMAIN p /\ Append(p, k)[i] = k
          BY <2>1, ChannelAppended
        <3> HIDE DEF p, q
        <3>3. QED
          BY <1>0, <2>4, <2>6, <3>1, <3>2 DEF QueuedOnce, p, q
      <2>7. CASE /\ call'[k].pc = "queued"
                 /\ queues' = [queues EXCEPT !.controls = Append(q, k)]
        <3>1. queues'.commands = p /\ queues'.controls = Append(q, k)
          BY <1>0, <2>7
        <3>2. \A i \in DOMAIN Append(q, k) :
                 \/ i \in DOMAIN q /\ Append(q, k)[i] = q[i]
                 \/ i = Len(q) + 1 /\ i \notin DOMAIN q /\ Append(q, k)[i] = k
          BY <2>1, ChannelAppended
        <3> HIDE DEF p, q
        <3>3. QED
          BY <1>0, <2>4, <2>7, <3>1, <3>2 DEF QueuedOnce, p, q
      <2>8. queues' = queues \/ call'[k].pc = "queued"
        BY <1>0, <1>4 DEF Call
      <2>9. QED
        BY <1>4, <2>5, <2>6, <2>7, <2>8 DEF Call
    <1>5. CASE Stop
        BY <1>5 DEF Stop, QueuedOnce
    <1>6. QED
      <2>1. ASSUME NEW channel \in {"commands", "controls"}, NEW k \in Calls,
                   \/ call' = [call EXCEPT ![k] = Done]
                   \/ call' = [call EXCEPT ![k].pc = "served"]
                   \/ call' = [call EXCEPT ![k].pc = "steering", ![k].turn = mapper[call[k].thread]]
            PROVE  \A j \in Calls : j # k => call'[j] = call[j]
        BY <1>0, <2>1
      <2>2. QED
        BY <1>1, <1>2, <1>3, <1>4, <1>5, <2>1, CallSteps

\* The commands stay in the order in which they were made.
LEMMA FirstComeKept ==
    ASSUME CodexInv, [Next]_vars
    PROVE  FirstCome'
    <1> DEFINE p == queues.commands
    <1>0. /\ CodexType /\ QueuedOnce /\ FirstCome /\ call \in [Calls -> CallType]
          /\ queues \in [commands : Seq(Calls), controls : Seq(Calls)]
          /\ p \in Seq(Calls) /\ Calls \subseteq Nat
        BY Constants DEF CodexInv, CodexType, CallsType
    <1>r. Done.pc = "done"
        BY Records
    <1>1. CASE queues' = queues /\ call' = call
        BY <1>0, <1>1 DEF FirstCome
    <1>2. ASSUME NEW k \in Calls, call[k].pc # "idle", call'[k].pc \notin {"idle", "queued"},
                 \A j \in Calls : j # k => call'[j] = call[j], queues'.commands = p
          PROVE  FirstCome'
        BY <1>0, <1>2 DEF FirstCome
    <1>3. ASSUME NEW k \in Calls, call[k].pc # "idle", call'[k].pc \notin {"idle", "queued"},
                 \A j \in Calls : j # k => call'[j] = call[j], queues'.commands = Tail(p),
                 p # <<>>, k = Head(p)
          PROVE  FirstCome'
      <2>1. /\ p[1] = k
            /\ \A i \in DOMAIN Tail(p) : i + 1 \in DOMAIN p /\ Tail(p)[i] = p[i + 1]
            /\ \A i \in DOMAIN p : i # 1 => i - 1 \in DOMAIN Tail(p) /\ Tail(p)[i - 1] = p[i]
            /\ \A i, j \in DOMAIN Tail(p) : i < j => i + 1 < j + 1
        BY <1>0, <1>3
      <2> HIDE DEF p
      <2>2. ASSUME NEW i \in DOMAIN Tail(p), NEW j \in DOMAIN Tail(p), i < j
            PROVE  Tail(p)[i] < Tail(p)[j]
        BY <1>0, <2>1, <2>2 DEF FirstCome, p
      <2>3. ASSUME NEW j \in Calls, call'[j].pc = "queued", call'[j].op \in Commands
            PROVE  \E i \in DOMAIN Tail(p) : Tail(p)[i] = j
        <3>1. j # k /\ call'[j] = call[j]
          BY <1>3, <2>3
        <3>2. PICK i \in DOMAIN p : p[i] = j
          BY <1>0, <2>3, <3>1 DEF FirstCome, p
        <3>3. QED
          BY <2>1, <3>1, <3>2
      <2>4. ASSUME NEW i \in Calls, NEW j \in Calls, i < j, call'[j].pc # "idle"
            PROVE  call'[i].pc # "idle"
        BY <1>0, <1>3, <2>4 DEF FirstCome
      <2>5. QED
        BY <1>3, <2>2, <2>3, <2>4 DEF FirstCome
    <1>4. ASSUME NEW k \in Calls, Call(k) PROVE FirstCome'
      <2>1. /\ call[k].pc = "idle" /\ call'[k].pc # "idle"
            /\ \A j \in Calls : j # k => call'[j] = call[j]
            /\ \A j \in Calls : j < k => call[j].pc # "idle"
        BY <1>0, <1>r, <1>4, Constants DEF Call
      <2>2. ASSUME NEW i \in Calls, NEW j \in Calls, i < j, call'[j].pc # "idle"
            PROVE  call'[i].pc # "idle"
        BY <1>0, <2>1, <2>2 DEF FirstCome
      <2>3. ASSUME NEW j \in Calls, call[j].pc = "queued" PROVE j < k
        BY <1>0, <2>1, <2>3 DEF FirstCome
      <2>4. \A i \in DOMAIN p : p[i] \in Calls /\ p[i] < k
        <3>1. \A i \in DOMAIN p : p[i] \in Calls /\ call[p[i]].pc = "queued"
          BY <1>0 DEF QueuedOnce
        <3>2. QED
          BY <2>3, <3>1
      <2>5. CASE call'[k].pc = "queued" /\ call'[k].op \in Commands
        <3>1. queues'.commands = Append(p, k)
          BY <1>0, <1>r, <1>4, <2>5 DEF Call, CallType, Commands, Controls
        <3>2. /\ DOMAIN Append(p, k) = 1 .. Len(p) + 1 /\ DOMAIN p = 1 .. Len(p) /\ Len(p) \in Nat
              /\ Append(p, k)[Len(p) + 1] = k
              /\ \A i \in DOMAIN p : Append(p, k)[i] = p[i]
          BY <1>0
        <3> HIDE DEF p
        <3>3. ASSUME NEW i \in DOMAIN Append(p, k), NEW j \in DOMAIN Append(p, k), i < j
              PROVE  Append(p, k)[i] < Append(p, k)[j]
          <4>1. i \in DOMAIN p /\ (j \in DOMAIN p \/ j = Len(p) + 1)
            BY <3>2, <3>3
          <4>2. QED
            BY <1>0, <2>4, <3>2, <3>3, <4>1 DEF FirstCome, p
        <3>4. ASSUME NEW j \in Calls, call'[j].pc = "queued", call'[j].op \in Commands
              PROVE  \E i \in DOMAIN Append(p, k) : Append(p, k)[i] = j
          <4>1. CASE j = k
            BY <3>2, <4>1
          <4>2. CASE j # k
            <5>1. PICK i \in DOMAIN p : p[i] = j
              BY <1>0, <2>1, <3>4, <4>2 DEF FirstCome, p
            <5>2. QED
              BY <3>2, <5>1
          <4>3. QED
            BY <4>1, <4>2
        <3>5. QED
          BY <2>2, <3>1, <3>3, <3>4 DEF FirstCome
      <2>6. CASE ~(call'[k].pc = "queued" /\ call'[k].op \in Commands)
        <3>1. queues'.commands = p
          BY <1>0, <1>4, <2>6 DEF Call, CallType
        <3>2. QED
          BY <1>0, <2>1, <2>2, <2>6, <3>1 DEF FirstCome
      <2>7. QED
        BY <2>5, <2>6
    <1>5. CASE Stop
      <2>1. /\ queues'.commands = <<>>
            /\ \A k \in Calls : IF call[k].pc = "idle" THEN call'[k] = call[k]
                                ELSE call'[k].pc = "done"
        BY <1>r, <1>5 DEF Stop
      <2>2. QED
        BY <1>0, <2>1 DEF FirstCome
    <1>6. ASSUME NEW channel \in {"commands", "controls"}, Serving(channel),
                 NEW k \in Calls, k = Head(queues[channel]),
                 \/ call' = [call EXCEPT ![k] = Done]
                 \/ call' = [call EXCEPT ![k].pc = "served"]
                 \/ call' = [call EXCEPT ![k].pc = "steering", ![k].turn = mapper[call[k].thread]]
          PROVE  FirstCome'
      <2>1. call[k].pc = "queued"
        BY <1>0, <1>6, ServedIsQueued DEF Serving
      <2>2. /\ call'[k].pc \in {"done", "served", "steering"}
            /\ \A j \in Calls : j # k => call'[j] = call[j]
        BY <1>0, <1>r, <1>6 DEF CallType
      <2>3. CASE channel = "commands"
        <3>1. queues'.commands = Tail(p) /\ p # <<>> /\ k = Head(p)
          BY <1>0, <1>6, <2>3 DEF Serving
        <3>2. QED
          BY <1>3, <2>1, <2>2, <3>1
      <2>4. CASE channel = "controls"
        <3>1. queues'.commands = p
          BY <1>0, <1>6, <2>4 DEF Serving
        <3>2. QED
          BY <1>2, <2>1, <2>2, <3>1
      <2>5. QED
        BY <2>3, <2>4
    <1>7. ASSUME NEW k \in Calls, queues' = queues, call' = [call EXCEPT ![k] = Done],
                 call[k].pc \in {"served", "steering"}
          PROVE  FirstCome'
      <2>1. call'[k].pc = "done" /\ \A j \in Calls : j # k => call'[j] = call[j]
        BY <1>0, <1>r, <1>7
      <2>2. QED
        BY <1>2, <1>7, <2>1
    <1>8. QED
        BY <1>1, <1>4, <1>5, <1>6, <1>7, CallSteps

\* A command is not served before one that was made earlier.
LEMMA ServedInOrder ==
    ASSUME CodexInv, [Next]_vars, NEW j \in Calls, NEW k \in Calls,
           call[j].pc = "queued", call'[j].pc = "served",
           call[j].op \in Commands, call[k].op \in Commands, k < j
    PROVE  FALSE
    <1> DEFINE p == queues.commands
    <1>0. /\ CodexType /\ QueuedOnce /\ FirstCome /\ Waits /\ call \in [Calls -> CallType]
          /\ queues \in [commands : Seq(Calls), controls : Seq(Calls)]
          /\ p \in Seq(Calls) /\ Calls \subseteq Nat
        BY Constants DEF CodexInv, CodexType, CallsType
    <1>r. Done.pc = "done"
        BY Records
    <1>1. PICK channel \in {"commands", "controls"} : Serving(channel) /\ j = Head(queues[channel])
      <2>1. call' # call /\ ~Stop /\ \A i \in Calls : ~Call(i)
        BY <1>0, <1>r DEF Stop, Call
      <2>2. ~\E i \in Calls : call' = [call EXCEPT ![i] = Done] /\ call[i].pc \in {"served", "steering"}
        BY <1>0, <1>r
      <2>3. ASSUME NEW i \in Calls,
                   \/ call' = [call EXCEPT ![i] = Done]
                   \/ call' = [call EXCEPT ![i].pc = "served"]
                   \/ call' = [call EXCEPT ![i].pc = "steering", ![i].turn = mapper[call[i].thread]]
            PROVE  i = j
        BY <1>0, <2>3
      <2>4. QED
        BY <2>1, <2>2, <2>3, CallSteps
    <1>2. worker.pc = "idle"
        BY <1>1 DEF Serving, Polling
    <1>3. call[k].pc = "queued"
        BY <1>0, <1>2 DEF Waits, CallType, Commands
    <1>4. PICK i \in DOMAIN p : p[i] = k
        BY <1>0, <1>3 DEF FirstCome
    <1>5. PICK h \in DOMAIN p : p[h] = j
        BY <1>0 DEF FirstCome
    <1>6. channel = "commands"
      <2>1. ASSUME channel = "controls" PROVE FALSE
        <3>1. 1 \in DOMAIN queues.controls /\ queues.controls[1] = j
          BY <1>0, <1>1, <2>1, ChannelTail DEF Serving
        <3>2. QED
          BY <1>0, <1>5, <3>1 DEF QueuedOnce
      <2>2. QED
        BY <1>1, <2>1
    <1>7. 1 \in DOMAIN p /\ p[1] = j /\ DOMAIN p \subseteq Nat \ {0}
        BY <1>0, <1>1, <1>6, ChannelTail DEF Serving
    <1> HIDE DEF p
    <1>8. 1 < i
        BY <1>0, <1>4, <1>7
    <1>9. j < k
        BY <1>0, <1>4, <1>7, <1>8 DEF FirstCome, p
    <1>10. QED
        BY <1>0, <1>9

-----------------------------------------------------------------------------
(* Routes and logs *)

\* A route from n to t that is there already or joins two that were free.
Joins(n, t) ==
    /\ t \in Threads
    /\ routes' \in [Natives -> Threads \cup {None}]
    /\ byThread' \in [Threads -> Natives \cup {None}]
    /\ routes'[n] = t /\ byThread'[t] = n
    /\ \A m \in Natives : m # n => routes'[m] = routes[m]
    /\ \A s \in Threads : s # t => byThread'[s] = byThread[s]
    /\ \/ routes[n] = t /\ byThread[t] = n
       \/ routes[n] = None /\ byThread[t] = None

\* Joined routes are still a bijection.
LEMMA JoinsMirror ==
    ASSUME CodexType, Bound, NEW n \in Natives, NEW t \in Threads, Joins(n, t)
    PROVE  RoutesMirror'
    <1>1. SUFFICES ASSUME NEW m \in Natives, NEW s \in Threads
                   PROVE  (routes'[m] = s) <=> (byThread'[s] = m)
        BY DEF RoutesMirror
    <1>2. /\ (routes[m] = s) <=> (byThread[s] = m)
          /\ (routes[n] = s) <=> (byThread[s] = n)
          /\ (routes[m] = t) <=> (byThread[t] = m)
        BY DEF Bound, RoutesMirror
    <1>3. QED
        BY <1>2, Constants DEF Joins

\* Traffic joins its native thread to its thread, or to a new one.
LEMMA DiscoverFacts ==
    ASSUME CodexType, Bound, NEW n \in Natives, Discover(n)
    PROVE  /\ Joins(n, Routed(n))
           /\ stored' \in [Threads -> Natives \cup {None}]
           /\ routes[n] = None => /\ logs[Routed(n)].state = "none"
                                  /\ \A k \in Calls : call[k].thread # Routed(n)
    <1> DEFINE t == Routed(n)
    <1>0. /\ routes \in [Natives -> Threads \cup {None}]
          /\ byThread \in [Threads -> Natives \cup {None}]
          /\ stored \in [Threads -> Natives \cup {None}]
        BY DEF CodexType, ServedType
    <1>1. CASE routes[n] = None
      <2>1. /\ t \in Threads /\ byThread[t] = None /\ logs[t].state = "none"
            /\ \A k \in Calls : call[k].thread # t
        BY <1>1, NewThreadIsFresh DEF Routed
      <2> HIDE DEF t
      <2>2. QED
        BY <1>0, <1>1, <2>1 DEF Joins, Discover, t
    <1>2. CASE routes[n] # None
      <2>1. t = routes[n] /\ t \in Threads
        BY <1>0, <1>2 DEF Routed
      <2>2. byThread[t] = n
        BY <2>1 DEF Bound, RoutesMirror
      <2> HIDE DEF t
      <2>3. QED
        BY <1>0, <1>2, <2>1, <2>2 DEF Joins, Discover, t
    <1>3. QED
        BY <1>1, <1>2

\* A claim that is allowed joins its native thread to its thread.
LEMMA ClaimFacts ==
    ASSUME CodexType, Bound, NEW n \in Natives, NEW t \in Threads, MayClaim(n, t), Claim(n, t)
    PROVE  Joins(n, t)
    <1>1. \/ routes[n] = t /\ byThread[t] = n
          \/ routes[n] = None /\ byThread[t] = None
        BY DEF MayClaim, Bound, RoutesMirror
    <1>2. QED
        BY <1>1 DEF Joins, Claim, CodexType, ServedType

\* A fallback moves its thread from the old native thread to the new one.
LEMMA ReplaceFacts ==
    ASSUME CodexType, Bound, NEW old \in Natives, NEW new \in Natives, NEW t \in Threads,
           MayReplace(old, new, t), Replace(old, new, t)
    PROVE  /\ routes' \in [Natives -> Threads \cup {None}]
           /\ byThread' \in [Threads -> Natives \cup {None}]
           /\ routes[old] = t /\ byThread[t] = old
           /\ routes'[new] = t /\ byThread'[t] = new
           /\ new # old => routes[new] = None
           /\ \A m \in Natives : m \notin {old, new} => routes'[m] = routes[m]
           /\ \A s \in Threads : s # t => byThread'[s] = byThread[s]
           /\ RoutesMirror'
    <1>1. /\ routes' \in [Natives -> Threads \cup {None}]
          /\ byThread' \in [Threads -> Natives \cup {None}]
          /\ routes[old] = t /\ byThread[t] = old
          /\ routes'[new] = t /\ byThread'[t] = new
          /\ new # old => routes[new] = None /\ routes'[old] = None
          /\ \A m \in Natives : m \notin {old, new} => routes'[m] = routes[m]
          /\ \A s \in Threads : s # t => byThread'[s] = byThread[s]
        BY DEF MayReplace, Replace, CodexType, ServedType
    <1>2. ASSUME NEW m \in Natives, NEW s \in Threads
          PROVE  (routes'[m] = s) <=> (byThread'[s] = m)
      <2>1. /\ (routes[m] = s) <=> (byThread[s] = m)
            /\ (routes[old] = s) <=> (byThread[s] = old)
            /\ (routes[new] = s) <=> (byThread[s] = new)
            /\ (routes[m] = t) <=> (byThread[t] = m)
        BY DEF Bound, RoutesMirror
      <2>2. QED
        BY <1>1, <2>1, Constants
    <1>3. QED
        BY <1>1, <1>2 DEF RoutesMirror

\* What a broadcast leaves in the log of its thread.
LEMMA BroadcastFacts ==
    ASSUME CodexType, NEW t \in Threads, NEW es, es \subseteq Turns \X {"started", "completed"},
           Broadcast(t, es)
    PROVE  /\ logs' \in [Threads -> [state : {"none", "open", "removed"},
                                     events : SUBSET (Turns \X {"started", "completed"})]]
           /\ \A s \in Threads : s # t => logs'[s] = logs[s]
           /\ \/ logs[t].state = "removed" /\ logs'[t] = logs[t]
              \/ /\ logs[t].state # "removed" /\ logs'[t].state = "open"
                 /\ logs'[t].events = logs[t].events \cup es
    BY DEF CodexType, ServedType, Broadcast

\* What no step takes back: threads and native threads given up, the routes of the
\* others, the events of a log and the native thread of a start.
Keeps ==
    /\ givenUp \subseteq givenUp'
    /\ \A n \in Natives : routes[n] # None /\ n \notin givenUp' => routes'[n] = routes[n]
    /\ \A t \in Threads : byThread[t] # None => byThread'[t] # None
    /\ \A t \in Threads : logs[t].events \subseteq logs'[t].events
    /\ \A k \in Calls : call[k].op = "start" =>
          byThread'[call[k].thread] = byThread[call[k].thread]

\* The parts of the worker's state that a step may leave alone altogether.
own == <<routes, byThread, logs, mapper, active, acked, givenUp, stored>>

\* Only these steps change what the worker keeps of threads and turns.
LEMMA OwnSteps ==
    ASSUME [Next]_vars
    PROVE  \/ UNCHANGED own
           \/ HandleStarted \/ HandleCompleted \/ HandleError \/ CleanedUp \/ HandleEnd
           \/ ClaimNativeThread
           \/ \E k \in Calls : ThreadOpened(k) \/ TurnStarted(k) \/ ThreadDeleted(k)
    <1> USE DEF own, served
    <1>1. CASE UNCHANGED vars \/ Shutdown \/ CodexStep \/ ReaderEnds \/ WriterFails
        BY <1>1 DEF vars, Shutdown, CodexStep, CodexAnswers, CodexAnnounces, CodexFails,
            CodexCompletes, CodexStarts, Emit, ReaderEnds, WriterFails
    <1>2. CASE \E k \in Calls : \/ Call(k) \/ Timeout(k) \/ SendSteer(k) \/ ResumeFailed(k)
                                \/ FinishSteer(k) \/ PassAnswer(k)
        BY <1>2 DEF Call, Timeout, SendSteer, ResumeFailed, FinishSteer, PassAnswer
    <1>3. CASE OpenThread \/ StartTurn \/ RefuseControl \/ SteerTurn \/ SendControl \/ HandleShutdown
        BY <1>3 DEF OpenThread, StartTurn, RefuseControl, SteerTurn, SendControl, HandleShutdown, Stop
    <1>4. QED
        BY <1>1, <1>2, <1>3 DEF Next, WorkerStep

\* The message a handler reads, the thread it is for and the route it finds or makes.
LEMMA ReadFacts ==
    ASSUME CodexType, Bound, Messages, NEW kind \in Kinds, Receives(kind),
           Discover(Head(inbox).native)
    PROVE  LET n == Head(inbox).native
               t == Routed(n)
           IN /\ Head(inbox) = inbox[1] /\ 1 \in DOMAIN inbox
              /\ n \in Natives /\ Head(inbox).turn \in Turns /\ t \in Threads
              /\ codex.turn[Head(inbox).turn].native = n
              /\ Joins(n, t) /\ RoutesMirror'
              /\ stored' \in [Threads -> Natives \cup {None}]
              /\ routes[n] = None => /\ logs[t].state = "none"
                                     /\ \A k \in Calls : call[k].thread # t
    <1>1. inbox # <<>> /\ Head(inbox).kind \in Kinds
        BY DEF Receives
    <1>2. /\ Head(inbox) = inbox[1] /\ 1 \in DOMAIN inbox
          /\ Head(inbox).turn \in Turns /\ Head(inbox).native \in Natives
          /\ codex.turn[Head(inbox).turn].native = Head(inbox).native
          /\ Routed(Head(inbox).native) \in Threads
        BY <1>1, MessageRead
    <1>3. QED
        BY <1>2, DiscoverFacts, JoinsMirror

\* A join keeps what the calls rely on.
LEMMA JoinsKeep ==
    ASSUME CodexType, Bound, CallsHold, NEW n \in Natives, NEW t \in Threads, Joins(n, t)
    PROVE  /\ \A m \in Natives : routes[m] # None => routes'[m] = routes[m]
           /\ \A s \in Threads : byThread[s] # None => byThread'[s] = byThread[s]
           /\ \A k \in Calls : call[k].op = "start" =>
                 byThread'[call[k].thread] = byThread[call[k].thread]
    <1>1. /\ \A m \in Natives : routes[m] # None => routes'[m] = routes[m]
          /\ \A s \in Threads : byThread[s] # None => byThread'[s] = byThread[s]
        BY DEF Joins
    <1>2. QED
        BY <1>1 DEF CallsHold

\* Bindings after a join, whose thread has a log.
LEMMA JoinsBound ==
    ASSUME CodexType, Bound, NEW n \in Natives, NEW t \in Threads, Joins(n, t),
           \A s \in Threads : s # t => logs'[s].state = logs[s].state,
           logs'[t].state # "none",
           logs'[t].state = "removed" => logs[t].state = "removed",
           givenUp \subseteq givenUp',
           \A s \in Threads : s # t => /\ mapper'[s] = mapper[s]
                                       /\ active'[s] = active[s]
    PROVE  Bound'
    <1>1. RoutesMirror'
        BY JoinsMirror
    <1>2. ASSUME NEW s \in Threads
          PROVE  /\ byThread'[s] = None <=> logs'[s].state = "none"
                 /\ mapper'[s] # None \/ active'[s] # None => byThread'[s] # None
                 /\ logs'[s].state = "removed" => s \in givenUp'
      <2>1. CASE s = t
        BY <2>1, Constants DEF Joins, Bound
      <2>2. CASE s # t
        BY <2>2 DEF Joins, Bound
      <2>3. QED
        BY <2>1, <2>2
    <1>3. QED
        BY <1>1, <1>2 DEF Bound

\* Every step keeps the types of the worker's state and its bindings.
LEMMA ServedKept == CodexInv /\ [Next]_vars => ServedType' /\ Bound' /\ Keeps
    <1> SUFFICES ASSUME CodexInv, [Next]_vars PROVE ServedType' /\ Bound' /\ Keeps
        OBVIOUS
    <1>0. CodexType /\ Bound /\ CallsHold /\ Waits /\ Messages /\ AcceptedIsNew /\ CleansUp
        BY DEF CodexInv
    <1>t. /\ routes \in [Natives -> Threads \cup {None}]
          /\ byThread \in [Threads -> Natives \cup {None}]
          /\ stored \in [Threads -> Natives \cup {None}]
          /\ logs \in [Threads -> [state : {"none", "open", "removed"},
                                   events : SUBSET (Turns \X {"started", "completed"})]]
          /\ mapper \in [Threads -> Turns \cup {None}]
          /\ active \in [Threads -> Turns \cup {None}]
          /\ acked \in [Turns -> Threads \cup {None}]
          /\ givenUp \subseteq Threads \cup Natives \cup Turns
          /\ \A k \in Calls : /\ call[k].thread \in Threads \cup {None}
                              /\ call[k].native \in Natives \cup {None}
        BY <1>0 DEF CodexType, ServedType, CallsType, CallType
    <1>1. CASE UNCHANGED own
      <2>1. ServedType' /\ Bound'
        BY <1>0, <1>1 DEF own, CodexType, ServedType, Bound, RoutesMirror
      <2>2. Keeps
        BY <1>1 DEF own, Keeps
      <2>3. QED
        BY <2>1, <2>2
    <1>2. CASE HandleStarted \/ HandleCompleted \/ HandleError
      <2> DEFINE m == Head(inbox)
                 n == m.native
                 t == Routed(n)
      <2>1. PICK kind \in Kinds : Receives(kind)
        BY <1>2 DEF HandleStarted, HandleCompleted, HandleError, Kinds
      <2>2. Discover(n)
        BY <1>2 DEF HandleStarted, HandleCompleted, HandleError
      <2>3. /\ n \in Natives /\ m.turn \in Turns /\ t \in Threads /\ Joins(n, t)
            /\ stored' \in [Threads -> Natives \cup {None}]
        BY <1>0, <2>1, <2>2, ReadFacts
      <2>4. /\ UNCHANGED <<acked, givenUp, active>>
            /\ mapper' \in [Threads -> Turns \cup {None}]
            /\ \A s \in Threads : s # t => mapper'[s] = mapper[s]
            /\ \E es \in SUBSET (Turns \X {"started", "completed"}) : Broadcast(t, es)
        <3>1. CASE HandleStarted
          BY <1>t, <2>3, <3>1 DEF HandleStarted
        <3>2. CASE HandleCompleted
          BY <1>t, <2>3, <3>2 DEF HandleCompleted
        <3>3. CASE HandleError
          <4>1. /\ UNCHANGED <<acked, givenUp, active, mapper>>
                /\ Broadcast(t, {<<m.turn, "completed">>}) \/ Broadcast(t, {})
            BY <3>3 DEF HandleError
          <4>2. /\ {<<m.turn, "completed">>} \in SUBSET (Turns \X {"started", "completed"})
                /\ {} \in SUBSET (Turns \X {"started", "completed"})
            BY <2>3
          <4> HIDE DEF t, m, n
          <4>3. \E es \in SUBSET (Turns \X {"started", "completed"}) : Broadcast(t, es)
            BY <4>1, <4>2
          <4>4. QED
            BY <1>t, <4>1, <4>3
        <3>4. QED
          BY <1>2, <3>1, <3>2, <3>3
      <2>5. /\ logs' \in [Threads -> [state : {"none", "open", "removed"},
                                      events : SUBSET (Turns \X {"started", "completed"})]]
            /\ \A s \in Threads : s # t => logs'[s] = logs[s]
            /\ logs'[t].state # "none" /\ logs[t].events \subseteq logs'[t].events
            /\ logs'[t].state = "removed" => logs[t].state = "removed"
        BY <1>0, <2>3, <2>4, BroadcastFacts
      <2> HIDE DEF t, n, m
      <2>6. ServedType'
        BY <1>t, <2>3, <2>4, <2>5 DEF ServedType, Joins
      <2>7. Bound'
        BY <1>0, <2>3, <2>4, <2>5, JoinsBound
      <2>8. /\ \A a \in Natives : routes[a] # None => routes'[a] = routes[a]
            /\ \A s \in Threads : byThread[s] # None => byThread'[s] = byThread[s]
            /\ \A k \in Calls : call[k].op = "start" =>
                  byThread'[call[k].thread] = byThread[call[k].thread]
        BY <1>0, <2>3, JoinsKeep
      <2>9. \A s \in Threads : logs[s].events \subseteq logs'[s].events
        BY <2>5
      <2>10. Keeps
        BY <2>4, <2>8, <2>9 DEF Keeps
      <2>11. QED
        BY <2>6, <2>7, <2>10
    <1>3. CASE CleanedUp
      <2>1. UNCHANGED <<routes, byThread, logs, stored, acked, givenUp>>
        BY <1>3 DEF CleanedUp
      <2>2. worker.thread \in Threads
        BY <1>0, <1>3 DEF CleanedUp, CleansUp
      <2>3. /\ mapper' \in [Threads -> Turns \cup {None}]
            /\ active' \in [Threads -> Turns \cup {None}]
            /\ \A s \in Threads : /\ mapper'[s] \in {None, mapper[s]}
                                  /\ active'[s] \in {None, active[s]}
        BY <1>t, <1>3, <2>2 DEF CleanedUp
      <2>4. ServedType' /\ Bound'
        BY <1>0, <1>t, <2>1, <2>3 DEF ServedType, Bound, RoutesMirror
      <2>5. Keeps
        BY <2>1 DEF Keeps
      <2>6. QED
        BY <2>4, <2>5
    <1>4. CASE HandleEnd
      <2>1. UNCHANGED <<routes, byThread, stored, acked, givenUp>>
        BY <1>4 DEF HandleEnd, Stop
      <2>2. /\ logs' = [t \in Threads |-> IF active[t] # None /\ logs[t].state = "open"
                THEN [logs[t] EXCEPT !.events = @ \cup {<<active[t], "completed">>}] ELSE logs[t]]
            /\ mapper' = [t \in Threads |-> IF active[t] # None THEN None ELSE mapper[t]]
            /\ active' = [t \in Threads |-> None]
        BY <1>4 DEF HandleEnd
      <2>3. ASSUME NEW t \in Threads
            PROVE  /\ logs'[t] \in [state : {"none", "open", "removed"},
                                    events : SUBSET (Turns \X {"started", "completed"})]
                   /\ logs'[t].state = logs[t].state
                   /\ logs[t].events \subseteq logs'[t].events
        <3>1. CASE active[t] # None /\ logs[t].state = "open"
          <4>1. <<active[t], "completed">> \in Turns \X {"started", "completed"}
            BY <1>t, <3>1
          <4>2. logs'[t] = [logs[t] EXCEPT !.events = @ \cup {<<active[t], "completed">>}]
            BY <2>2, <3>1
          <4>3. QED
            BY <1>t, <4>1, <4>2
        <3>2. CASE ~(active[t] # None /\ logs[t].state = "open")
          BY <1>t, <2>2, <3>2
        <3>3. QED
          BY <3>1, <3>2
      <2>4. ServedType'
        BY <1>t, <2>1, <2>2, <2>3 DEF ServedType
      <2>5. Bound'
        BY <1>0, <2>1, <2>2, <2>3 DEF Bound, RoutesMirror
      <2>6. Keeps
        BY <2>1, <2>3 DEF Keeps
      <2>7. QED
        BY <2>4, <2>5, <2>6
    <1>5. CASE ClaimNativeThread
      <2> DEFINE k == Head(queues.controls)
                 n == call[k].native
                 t == IF routes[n] # None THEN routes[n] ELSE call[k].thread
      <2>1. /\ call[k].op = "claim" /\ MayClaim(n, t) /\ Claim(n, t)
            /\ stored' = [stored EXCEPT ![t] = n]
            /\ UNCHANGED <<mapper, active, acked, givenUp>>
        BY <1>5 DEF ClaimNativeThread
      <2>2. k \in Calls
        BY <1>0, <1>5, HeadIsCall DEF ClaimNativeThread, Serving
      <2>3. n \in Natives /\ t \in Threads
        BY <1>0, <1>t, <2>1, <2>2 DEF CallsHold
      <2> HIDE DEF k, n, t
      <2>4. Joins(n, t)
        BY <1>0, <2>1, <2>3, ClaimFacts
      <2>5. /\ logs' \in [Threads -> [state : {"none", "open", "removed"},
                                      events : SUBSET (Turns \X {"started", "completed"})]]
            /\ logs'[t].state = "open" /\ logs'[t].events = logs[t].events
            /\ \A s \in Threads : s # t => logs'[s] = logs[s]
        BY <1>t, <2>1, <2>3 DEF Claim, WithLog
      <2>6. ServedType'
        BY <1>t, <2>1, <2>3, <2>4, <2>5 DEF ServedType, Joins
      <2>7. Bound'
        BY <1>0, <2>1, <2>3, <2>4, <2>5, JoinsBound
      <2>8. Keeps
        BY <1>0, <2>1, <2>3, <2>4, <2>5, JoinsKeep DEF Keeps
      <2>9. QED
        BY <2>6, <2>7, <2>8
    <1>6. ASSUME NEW k \in Calls, ThreadOpened(k) PROVE ServedType' /\ Bound' /\ Keeps
      <2> DEFINE t == call[k].thread
                 n == rpc[k].value
                 old == call[k].native
      <2>1. /\ rpc[k].state = "ok" /\ rpc[k].method \in {"resume", "new"}
            /\ worker.pc = "rpc" /\ worker.call = k
            /\ UNCHANGED <<mapper, active, acked>>
        BY <1>6 DEF ThreadOpened, Answered
      <2>2. call[k].op = "open" /\ n \in Natives
        BY <1>0, <2>1 DEF Waits, MethodOf
      <2>3. t \in Threads /\ old \in Natives \cup {None}
        BY <1>0, <1>t, <2>2 DEF CallsHold
      <2> HIDE DEF t, n, old
      <2>4. ASSUME logs' = WithLog(t)
            PROVE  /\ logs' \in [Threads -> [state : {"none", "open", "removed"},
                                      events : SUBSET (Turns \X {"started", "completed"})]]
                   /\ logs'[t].state = "open" /\ logs'[t].events = logs[t].events
                   /\ \A s \in Threads : s # t => logs'[s] = logs[s]
        BY <1>t, <2>3, <2>4 DEF WithLog
      <2>5. CASE /\ old # None /\ MayReplace(old, n, t) /\ Replace(old, n, t)
                 /\ (stored' = [stored EXCEPT ![t] = n] \/ UNCHANGED stored)
                 /\ givenUp' = givenUp \cup {old}
        <3>1. old \in Natives
          BY <2>3, <2>5
        <3>2. /\ routes' \in [Natives -> Threads \cup {None}]
              /\ byThread' \in [Threads -> Natives \cup {None}]
              /\ routes[old] = t /\ byThread[t] = old
              /\ routes'[n] = t /\ byThread'[t] = n
              /\ n # old => routes[n] = None
              /\ \A m \in Natives : m \notin {old, n} => routes'[m] = routes[m]
              /\ \A s \in Threads : s # t => byThread'[s] = byThread[s]
              /\ RoutesMirror'
          BY <1>0, <2>2, <2>3, <2>5, <3>1, ReplaceFacts
        <3>3. /\ logs' \in [Threads -> [state : {"none", "open", "removed"},
                                      events : SUBSET (Turns \X {"started", "completed"})]]
              /\ logs'[t].state = "open" /\ logs'[t].events = logs[t].events
              /\ \A s \in Threads : s # t => logs'[s] = logs[s]
          BY <2>4, <2>5 DEF Replace
        <3>4. ServedType'
          BY <1>t, <2>1, <2>2, <2>3, <2>5, <3>1, <3>2, <3>3 DEF ServedType
        <3>5. Bound'
          <4>1. ASSUME NEW s \in Threads
                PROVE  /\ byThread'[s] = None <=> logs'[s].state = "none"
                       /\ mapper'[s] # None \/ active'[s] # None => byThread'[s] # None
                       /\ logs'[s].state = "removed" => s \in givenUp'
            BY <1>0, <2>1, <2>2, <2>5, <3>2, <3>3, Constants DEF Bound
          <4>2. QED
            BY <3>2, <4>1 DEF Bound
        <3>6. \A j \in Calls : call[j].op = "start" => call[j].thread \in Threads /\ call[j].thread # t
          <4>1. call[k].pc = "served"
            BY <1>0, <2>1 DEF Waits
          <4>2. QED
            BY <1>0, <2>2, <4>1 DEF CallsHold, Commands, t
        <3>7. Keeps
          <4>1. \A m \in Natives : routes[m] # None /\ m \notin givenUp' => routes'[m] = routes[m]
            BY <2>5, <3>2
          <4>2. \A s \in Threads : /\ byThread[s] # None => byThread'[s] # None
                                   /\ logs[s].events \subseteq logs'[s].events
            BY <2>2, <3>2, <3>3, Constants
          <4>3. QED
            BY <2>5, <3>2, <3>6, <4>1, <4>2 DEF Keeps
        <3>8. QED
          BY <3>4, <3>5, <3>7
      <2>6. CASE /\ MayClaim(n, t) /\ Claim(n, t)
                 /\ stored' = [stored EXCEPT ![t] = n] /\ UNCHANGED givenUp
        <3>1. Joins(n, t)
          BY <1>0, <2>2, <2>3, <2>6, ClaimFacts
        <3>2. /\ logs' \in [Threads -> [state : {"none", "open", "removed"},
                                      events : SUBSET (Turns \X {"started", "completed"})]]
              /\ logs'[t].state = "open" /\ logs'[t].events = logs[t].events
              /\ \A s \in Threads : s # t => logs'[s] = logs[s]
          BY <2>4, <2>6 DEF Claim
        <3>3. ServedType'
          BY <1>t, <2>1, <2>2, <2>3, <2>6, <3>1, <3>2 DEF ServedType, Joins
        <3>4. Bound'
          BY <1>0, <2>1, <2>2, <2>3, <2>6, <3>1, <3>2, JoinsBound
        <3>5. Keeps
          BY <1>0, <2>2, <2>3, <2>6, <3>1, <3>2, JoinsKeep DEF Keeps
        <3>6. QED
          BY <3>3, <3>4, <3>5
      <2>7. CASE UNCHANGED <<routes, byThread, logs, stored, givenUp>>
        <3>1. UNCHANGED own
          BY <2>1, <2>7 DEF own
        <3>2. QED
          BY <1>1, <3>1
      <2>8. QED
        BY <1>6, <2>5, <2>6, <2>7 DEF ThreadOpened, t, n, old
    <1>7. ASSUME NEW k \in Calls, TurnStarted(k) PROVE ServedType' /\ Bound' /\ Keeps
      <2> DEFINE t == call[k].thread
                 u == rpc[k].value
      <2>1. /\ rpc[k].state = "ok" /\ rpc[k].method = "turn" /\ worker.pc = "rpc" /\ worker.call = k
            /\ mapper' = [mapper EXCEPT ![t] = u] /\ active' = [active EXCEPT ![t] = u]
            /\ acked' = [acked EXCEPT ![u] = t]
            /\ givenUp' = IF active[t] = None THEN givenUp ELSE givenUp \cup {active[t]}
            /\ UNCHANGED <<routes, byThread, logs, stored>>
        BY <1>7 DEF TurnStarted, Answered
      <2>2. call[k].op = "start" /\ u \in Turns
        BY <1>0, <2>1 DEF Waits, MethodOf, AcceptedIsNew, Accepted
      <2>3. t \in Threads /\ byThread[t] # None
        BY <1>0, <2>2 DEF CallsHold
      <2> HIDE DEF t, u
      <2>g. givenUp \subseteq givenUp' /\ givenUp' \subseteq Threads \cup Natives \cup Turns
        BY <1>t, <2>1, <2>3
      <2>4. ServedType'
        BY <1>t, <2>1, <2>2, <2>3, <2>g DEF ServedType
      <2>5. Bound'
        BY <1>0, <1>t, <2>1, <2>2, <2>3, <2>g DEF Bound, RoutesMirror
      <2>6. Keeps
        BY <2>1, <2>g DEF Keeps
      <2>7. QED
        BY <2>4, <2>5, <2>6
    <1>8. ASSUME NEW k \in Calls, ThreadDeleted(k) PROVE ServedType' /\ Bound' /\ Keeps
      <2> DEFINE t == call[k].thread
      <2>1. /\ rpc[k].state = "ok" /\ rpc[k].method = "delete"
            /\ worker.pc = "rpc" /\ worker.call = k
            /\ logs' = [logs EXCEPT ![t].state = "removed"]
            /\ givenUp' = givenUp \cup {t}
            /\ UNCHANGED <<routes, byThread, mapper, active, stored, acked>>
        BY <1>8 DEF ThreadDeleted, Answered
      <2>2. call[k].op = "delete"
        BY <1>0, <2>1 DEF Waits, MethodOf
      <2>3. t \in Threads /\ byThread[t] # None
        BY <1>0, <2>2 DEF CallsHold
      <2> HIDE DEF t
      <2>4. /\ logs' \in [Threads -> [state : {"none", "open", "removed"},
                                      events : SUBSET (Turns \X {"started", "completed"})]]
            /\ logs'[t].state = "removed" /\ logs'[t].events = logs[t].events
            /\ \A s \in Threads : s # t => logs'[s] = logs[s]
        BY <1>t, <2>1, <2>3
      <2>5. ServedType'
        BY <1>t, <2>1, <2>3, <2>4 DEF ServedType
      <2>6. Bound'
        BY <1>0, <2>1, <2>3, <2>4 DEF Bound, RoutesMirror
      <2>7. Keeps
        BY <2>1, <2>3, <2>4 DEF Keeps
      <2>8. QED
        BY <2>5, <2>6, <2>7
    <1>9. QED
        BY <1>1, <1>2, <1>3, <1>4, <1>5, <1>6, <1>7, <1>8, OwnSteps

-----------------------------------------------------------------------------
(* The calls *)

\* What a step does to one call: nothing, it returns, it is taken from its channel,
\* or it is made, with arguments its caller may have.
Fate(k) ==
    \/ call'[k] = call[k]
    \/ call'[k].op = "none" /\ call'[k].pc = "done" /\ call'[k].thread = None
    \/ /\ call[k].pc = "queued" /\ call'[k].pc \in {"served", "steering"}
       /\ call'[k].op = call[k].op /\ call'[k].thread = call[k].thread
       /\ call'[k].native = call[k].native
    \/ /\ call[k].pc = "idle" /\ call'[k].pc = "queued" /\ UNCHANGED <<own, rpc, traffic>>
       /\ call'[k].op \in Commands \cup Controls /\ call'[k].thread \in Threads
       /\ Arguments(call'[k].op, call'[k].thread, call'[k].native, call'[k].turn)
       /\ \A j \in Calls : j # k => call'[j] = call[j]

\* Every call has one of these fates.
LEMMA CallFates ==
    ASSUME CodexInv, [Next]_vars
    PROVE  \A k \in Calls : Fate(k)
    <1>0. CodexType /\ QueuedOnce
        BY DEF CodexInv
    <1>t. call \in [Calls -> CallType] /\ queues \in [commands : Seq(Calls), controls : Seq(Calls)]
        BY <1>0 DEF CodexType, CallsType
    <1>r. Done.pc = "done" /\ Done.op = "none" /\ Done.thread = None
        BY Records
    <1>1. CASE queues' = queues /\ call' = call
        BY <1>1 DEF Fate
    <1>2. ASSUME NEW k \in Calls, call' = [call EXCEPT ![k] = Done] PROVE \A j \in Calls : Fate(j)
        BY <1>t, <1>r, <1>2 DEF Fate
    <1>3. ASSUME NEW channel \in {"commands", "controls"}, Serving(channel),
                 Head(queues[channel]) \in Calls,
                 \/ call' = [call EXCEPT ![Head(queues[channel])].pc = "served"]
                 \/ call' = [call EXCEPT ![Head(queues[channel])].pc = "steering",
                      ![Head(queues[channel])].turn = mapper[call[Head(queues[channel])].thread]]
          PROVE  \A j \in Calls : Fate(j)
      <2> DEFINE k == Head(queues[channel])
      <2>1. k \in Calls /\ call[k].pc = "queued"
        BY <1>0, <1>3, ServedIsQueued DEF Serving
      <2>2. \/ call' = [call EXCEPT ![k].pc = "served"]
            \/ call' = [call EXCEPT ![k].pc = "steering", ![k].turn = mapper[call[k].thread]]
        BY <1>3
      <2> HIDE DEF k
      <2>3. /\ \A j \in Calls : j # k => call'[j] = call[j]
            /\ call'[k].pc \in {"served", "steering"} /\ call'[k].op = call[k].op
            /\ call'[k].thread = call[k].thread /\ call'[k].native = call[k].native
        BY <1>t, <2>1, <2>2 DEF CallType
      <2>4. QED
        BY <2>1, <2>3 DEF Fate
    <1>4. ASSUME NEW k \in Calls, Call(k) PROVE \A j \in Calls : Fate(j)
      <2>1. PICK op \in Commands \cup Controls, t \in Threads, n \in Natives \cup {None},
                 u \in Turns \cup {None} :
            /\ Arguments(op, t, n, u)
            /\ call' = [call EXCEPT ![k] = IF worker.pc = "done" THEN Done
                    ELSE [op |-> op, pc |-> "queued", thread |-> t, native |-> n, turn |-> u]]
        BY <1>4 DEF Call
      <2>2. call[k].pc = "idle" /\ UNCHANGED <<own, rpc, traffic>>
        BY <1>4 DEF Call, own, served
      <2>3. \A j \in Calls : j # k => call'[j] = call[j]
        BY <1>t, <2>1
      <2>4. CASE worker.pc = "done"
        BY <1>2, <2>1, <2>4
      <2>5. CASE worker.pc # "done"
        <3>1. call'[k] = [op |-> op, pc |-> "queued", thread |-> t, native |-> n, turn |-> u]
          BY <1>t, <2>1, <2>5
        <3>2. Fate(k)
          BY <2>1, <2>2, <2>3, <3>1 DEF Fate
        <3>3. QED
          BY <2>3, <3>2 DEF Fate
      <2>6. QED
        BY <2>4, <2>5
    <1>5. CASE Stop
        BY <1>t, <1>r, <1>5 DEF Stop, Fate
    <1>6. QED
        BY <1>1, <1>2, <1>3, <1>4, <1>5, CallSteps

\* Every step keeps what the pending calls rely on.
LEMMA CallsHoldKept ==
    ASSUME CodexInv, [Next]_vars
    PROVE  CallsHold'
    <1>0. /\ CodexType /\ CallsHold /\ Waits /\ FirstCome /\ Keeps
          /\ \A k \in Calls : Fate(k)
        BY ServedKept, CallFates DEF CodexInv
    <1>t. /\ byThread \in [Threads -> Natives \cup {None}]
          /\ stored \in [Threads -> Natives \cup {None}]
          /\ call \in [Calls -> CallType]
        BY <1>0 DEF CodexType, ServedType, CallsType
    <1>1. ASSUME NEW k \in Calls
          PROVE  /\ call'[k].op # "none" => call'[k].thread \in Threads
                 /\ call'[k].op \notin {"none", "open"} => call'[k].native \in Natives
                 /\ call'[k].op \notin {"none", "open", "claim"} => byThread'[call'[k].thread] # None
                 /\ call'[k].op = "start" => byThread'[call'[k].thread] = call'[k].native
      <2>1. CASE /\ call'[k].op = call[k].op /\ call'[k].thread = call[k].thread
                 /\ call'[k].native = call[k].native
        BY <1>0, <2>1 DEF CallsHold, Keeps
      <2>2. CASE call'[k].op = "none"
        BY <2>2
      <2>3. CASE /\ UNCHANGED own
                 /\ call'[k].op \in Commands \cup Controls /\ call'[k].thread \in Threads
                 /\ Arguments(call'[k].op, call'[k].thread, call'[k].native, call'[k].turn)
        BY <1>t, <2>3, CallingKept DEF own, Arguments, Calling, CallsType, CallType
      <2>4. QED
        BY <1>0, <2>1, <2>2, <2>3 DEF Fate
    <1>2. ASSUME NEW j \in Calls, NEW k \in Calls, j # k, call'[j].op = "open",
                 call'[k].op \in Commands, call'[j].thread = call'[k].thread
          PROVE  call'[k].op = "start" /\ k < j /\ call'[j].pc = "queued"
      <2> DEFINE Same(i) == call'[i].op = call[i].op /\ call'[i].thread = call[i].thread
                 New(i) == /\ MayCommand(call'[i].op, call'[i].thread)
                           /\ call[i].pc = "idle" /\ call'[i].pc = "queued"
                           /\ \A h \in Calls : h # i => call'[h] = call[h]
      <2>c. Commands = {"open", "start"} /\ Calls \subseteq Nat
        BY Constants DEF Commands
      <2>1. ASSUME NEW i \in {j, k} PROVE Same(i) \/ New(i)
        BY <1>0, <1>2, <2>1, <2>c DEF Fate, Arguments
      <2>2. CASE Same(j) /\ Same(k)
        <3>1. call[k].op = "start" /\ k < j /\ call[j].pc = "queued"
          BY <1>0, <1>2, <2>2 DEF CallsHold
        <3>2. call'[j].pc # "served"
          BY <1>2, <2>2, <2>c, <3>1, ServedInOrder
        <3>3. call'[j].pc = "queued" \/ call'[j].pc = "steering"
          BY <1>0, <1>2, <2>c, <3>1, <3>2 DEF Fate
        <3>4. call'[j].pc # "steering"
          BY <1>2, CallingKept DEF Calling, Waits
        <3>5. QED
          BY <2>2, <3>1, <3>3, <3>4
      <2>3. CASE New(k)
        <3>1. call[j].op = "open" /\ call[j].thread = call'[k].thread
          BY <1>2, <2>3
        <3>2. QED
          BY <2>3, <2>c, <3>1 DEF MayCommand
      <2>4. CASE New(j)
        <3>1. call[k] = call'[k]
          BY <1>2, <2>4
        <3>2. call[k].op = "start"
          BY <1>2, <2>4, <2>c, <3>1 DEF MayCommand
        <3>3. call[k].pc # "idle"
          BY <1>0, <3>2 DEF Waits
        <3>4. k < j
          BY <1>0, <1>2, <2>4, <2>c, <3>3 DEF FirstCome
        <3>5. QED
          BY <2>4, <3>1, <3>2, <3>4
      <2>5. QED
        BY <2>1, <2>2, <2>3, <2>4
    <1>3. QED
        BY <1>1, <1>2 DEF CallsHold

-----------------------------------------------------------------------------
(* The traffic *)

\* A frame a served call, or a steer, has just sent.
NewFrame(r) ==
    /\ call'[r.call].pc \in {"served", "steering"}
    /\ r.method # "new" => r.native \in Natives
    /\ r.method = "turn" => r.native = call'[r.call].native

\* Frames are those that were on their way, or new ones.
FramesFollow ==
    /\ pipe' \in Seq(FrameType)
    /\ \A i \in DOMAIN pipe' : (\E j \in DOMAIN pipe : pipe'[i] = pipe[j]) \/ NewFrame(pipe'[i])

\* A request adds one frame or none.
LEMMA RequestPipe ==
    ASSUME CodexType, NEW k \in Calls, NEW method \in Methods, NEW n \in Natives \cup {None},
           NEW u \in Turns \cup {None}, Request(k, method, n, u),
           call'[k].pc \in {"served", "steering"}, method # "new" => n \in Natives,
           method = "turn" => n = call'[k].native
    PROVE  FramesFollow
    <1> DEFINE r == [call |-> k, method |-> method, native |-> n, turn |-> u]
    <1>1. pipe \in Seq(FrameType) /\ r \in FrameType
        BY DEF CodexType, TrafficType, FrameType
    <1>2. r.call = k /\ r.method = method /\ r.native = n
        OBVIOUS
    <1>3. NewFrame(r)
        BY <1>2 DEF NewFrame
    <1>4. pipe' = pipe \/ pipe' = Append(pipe, r)
        BY RequestFacts
    <1> HIDE DEF r
    <1>5. CASE pipe' = pipe
        BY <1>1, <1>5 DEF FramesFollow
    <1>6. CASE pipe' = Append(pipe, r)
      <2>1. /\ Append(pipe, r) \in Seq(FrameType)
            /\ \A i \in DOMAIN Append(pipe, r) :
                  \/ i \in DOMAIN pipe /\ Append(pipe, r)[i] = pipe[i]
                  \/ Append(pipe, r)[i] = r
        BY <1>1
      <2>2. QED
        BY <1>3, <1>6, <2>1 DEF FramesFollow
    <1>7. QED
        BY <1>4, <1>5, <1>6

\* In every step.
LEMMA PipeSteps ==
    ASSUME CodexInv, [Next]_vars
    PROVE  FramesFollow
    <1>0. CodexType /\ CallsHold /\ Waits /\ Frames /\ Calling'
        BY CallingKept DEF CodexInv
    <1>t. /\ pipe \in Seq(FrameType) /\ call \in [Calls -> CallType]
          /\ \A k \in Calls : /\ call[k].native \in Natives \cup {None}
                              /\ call[k].turn \in Turns \cup {None}
        BY <1>0 DEF CodexType, TrafficType, CallsType, CallType
    <1>m. Methods = {"resume", "new", "turn", "interrupt", "steer", "delete"}
        BY DEF Methods
    <1>1. CASE pipe' = pipe
        BY <1>t, <1>1 DEF FramesFollow
    <1>2. CASE pipe' = <<>>
        BY <1>2 DEF FramesFollow
    <1>3. CASE CodexAnswers
      <2>1. pipe # <<>> /\ pipe' = Tail(pipe)
        BY <1>3 DEF CodexAnswers
      <2>2. QED
        BY <1>0, <2>1, PipeHead DEF FramesFollow
    <1>4. ASSUME NEW channel \in {"commands", "controls"}, Serving(channel)
          PROVE  Head(queues[channel]) \in Calls
        BY <1>0, <1>4, HeadIsCall DEF Serving
    <1>5. ASSUME NEW k \in Calls, Served(k)
          PROVE  call'[k].pc = "served" /\ call'[k].native = call[k].native
        BY <1>t, <1>5 DEF Served, CallType
    <1>6. CASE OpenThread
      <2> DEFINE k == Head(queues.commands)
      <2>1. /\ k \in Calls /\ Served(k)
            /\ \/ call[k].native # None /\ Request(k, "resume", call[k].native, None)
               \/ Request(k, "new", None, None)
        BY <1>4, <1>6 DEF OpenThread
      <2> HIDE DEF k
      <2>2. call'[k].pc = "served" /\ call[k].native \in Natives \cup {None}
        BY <1>t, <1>5, <2>1
      <2>3. CASE call[k].native # None /\ Request(k, "resume", call[k].native, None)
        BY <1>0, <1>m, <2>1, <2>2, <2>3, RequestPipe
      <2>4. CASE Request(k, "new", None, None)
        BY <1>0, <1>m, <2>1, <2>2, <2>4, RequestPipe
      <2>5. QED
        BY <2>1, <2>3, <2>4
    <1>7. CASE StartTurn /\ pipe' # pipe
      <2> DEFINE k == Head(queues.commands)
      <2>1. /\ k \in Calls /\ Served(k) /\ call[k].op = "start"
            /\ Request(k, "turn", call[k].native, None)
        BY <1>4, <1>7 DEF StartTurn, traffic
      <2> HIDE DEF k
      <2>2. /\ call'[k].pc = "served" /\ call'[k].native = call[k].native
            /\ call[k].native \in Natives
        BY <1>0, <1>5, <2>1 DEF CallsHold
      <2>3. QED
        BY <1>0, <1>m, <2>1, <2>2, RequestPipe
    <1>8. CASE SendControl
      <2> DEFINE k == Head(queues.controls)
                 u == IF call[k].op = "interrupt" THEN mapper[call[k].thread] ELSE None
      <2>1. /\ k \in Calls /\ Served(k) /\ call[k].op \in {"interrupt", "delete"}
            /\ Request(k, call[k].op, call[k].native, u)
        BY <1>4, <1>8 DEF SendControl
      <2>2. u \in Turns \cup {None}
        BY <1>0, <2>1 DEF CallsHold, CodexType, ServedType
      <2> HIDE DEF k, u
      <2>3. call'[k].pc = "served" /\ call[k].native \in Natives
        BY <1>0, <1>5, <2>1 DEF CallsHold
      <2>4. QED
        BY <1>0, <1>m, <2>1, <2>2, <2>3, RequestPipe
    <1>9. ASSUME NEW k \in Calls, SendSteer(k) PROVE FramesFollow
      <2>1. /\ call[k].pc = "steering" /\ UNCHANGED call
            /\ Request(k, "steer", call[k].native, call[k].turn)
        BY <1>9 DEF SendSteer
      <2>2. call[k].native \in Natives
        BY <1>0, <2>1 DEF Waits, CallsHold
      <2>3. QED
        BY <1>0, <1>t, <1>m, <2>1, <2>2, RequestPipe
    <1>10. ASSUME NEW k \in Calls, ResumeFailed(k) PROVE FramesFollow
      <2>1. /\ worker.pc = "rpc" /\ worker.call = k /\ UNCHANGED call
            /\ Request(k, "new", None, None)
        BY <1>10 DEF ResumeFailed, Answered
      <2>2. call[k].pc = "served"
        BY <1>0, <2>1 DEF Waits
      <2>3. QED
        BY <1>0, <1>m, <2>1, <2>2, RequestPipe
    <1>11. CASE UNCHANGED vars \/ Shutdown \/ ReaderEnds \/ WriterFails \/ HandleEnd \/ HandleShutdown
        BY <1>1, <1>2, <1>11 DEF vars, traffic, Shutdown, ReaderEnds, WriterFails, HandleEnd,
            HandleShutdown, Stop
    <1>12. CASE CodexStep
        BY <1>1, <1>3, <1>12 DEF CodexStep, CodexAnnounces, CodexFails, CodexCompletes, CodexStarts,
            Emit
    <1>13. CASE \E k \in Calls : Call(k) \/ Timeout(k) \/ FinishSteer(k) \/ ThreadOpened(k)
                                 \/ TurnStarted(k) \/ ThreadDeleted(k) \/ PassAnswer(k)
        BY <1>1, <1>13 DEF Call, Timeout, FinishSteer, ThreadOpened, TurnStarted, ThreadDeleted,
            PassAnswer, traffic
    <1>14. CASE HandleStarted \/ HandleCompleted \/ HandleError \/ CleanedUp
                \/ ClaimNativeThread \/ RefuseControl \/ SteerTurn
        BY <1>1, <1>14 DEF HandleStarted, HandleCompleted, HandleError, Read, CleanedUp,
            ClaimNativeThread, RefuseControl, SteerTurn, traffic
    <1>15. QED
        BY <1>1, <1>6, <1>7, <1>8, <1>9, <1>10, <1>11, <1>12, <1>13, <1>14 DEF Next, WorkerStep

\* The frames on their way are those of calls that were served.
LEMMA FramesKept ==
    ASSUME CodexInv, [Next]_vars
    PROVE  Frames'
    <1>0. CodexType /\ Frames /\ FramesFollow /\ \A k \in Calls : Fate(k)
        BY PipeSteps, CallFates DEF CodexInv
    <1>1. ASSUME NEW i \in DOMAIN pipe'
          PROVE  /\ pipe'[i].method # "new" => pipe'[i].native \in Natives
                 /\ call'[pipe'[i].call].pc \notin {"idle", "queued"}
                 /\ pipe'[i].method = "turn" /\ call'[pipe'[i].call].pc = "served"
                        => pipe'[i].native = call'[pipe'[i].call].native
      <2>1. CASE NewFrame(pipe'[i])
        BY <2>1 DEF NewFrame
      <2>2. ASSUME NEW j \in DOMAIN pipe, pipe'[i] = pipe[j]
            PROVE  /\ pipe'[i].method # "new" => pipe'[i].native \in Natives
                   /\ call'[pipe'[i].call].pc \notin {"idle", "queued"}
                   /\ pipe'[i].method = "turn" /\ call'[pipe'[i].call].pc = "served"
                        => pipe'[i].native = call'[pipe'[i].call].native
        <3> DEFINE k == pipe[j].call
        <3>1. /\ pipe[j].method # "new" => pipe[j].native \in Natives
              /\ call[k].pc \notin {"idle", "queued"}
              /\ pipe[j].method = "turn" /\ call[k].pc = "served" => pipe[j].native = call[k].native
          BY <1>0 DEF Frames
        <3>2. k \in Calls
          <4>1. pipe[j] \in FrameType
            BY <1>0 DEF CodexType, TrafficType
          <4>2. QED
            BY <4>1 DEF FrameType
        <3> HIDE DEF k
        <3>3. call'[k] = call[k] \/ call'[k].pc = "done"
          BY <1>0, <3>1, <3>2 DEF Fate
        <3>4. QED
          BY <2>2, <3>1, <3>3 DEF k
      <2>3. QED
        BY <1>0, <2>1, <2>2 DEF FramesFollow
    <1>2. QED
        BY <1>1 DEF Frames

\* What Codex tells with a message of this kind about turn u, in the step in which
\* it happens.
Tells(kind, u) ==
    /\ Emit(Message(kind, codex'.turn[u].native, u)) /\ codex'.turn[u].native \in Natives
    /\ \A v \in Turns : v # u => codex'.turn[v] = codex.turn[v]
    /\ codex.turn[u].state # "unused" => /\ codex'.turn[u].native = codex.turn[u].native
                                         /\ codex'.native = codex.native
    /\ \A n \in Natives : codex'.native[n] = codex.native[n]
                          \/ (codex.native[n] = "unused" /\ codex'.native[n] = "live")
    /\ \/ /\ kind = "started" /\ codex'.turn[u].state = "running"
          /\ codex.turn[u].state \in {"unused", "accepted"}
          /\ \A v \in Turns : Started(v) /\ codex.turn[v].native = codex'.turn[u].native => v < u
       \/ /\ kind = "error" /\ codex'.turn[u].state = "failed"
          /\ codex.turn[u].state = "running"
       \/ /\ kind = "completed" /\ codex.turn[u].state \in {"running", "failed"}
          /\ codex'.turn[u].state = IF codex.turn[u].state = "failed" THEN "broken" ELSE "over"

\* Codex's own steps tell of one turn.
LEMMA CodexTells ==
    ASSUME CodexType, TurnsInOrder,
           (\E u \in Turns : CodexAnnounces(u) \/ CodexFails(u) \/ CodexCompletes(u))
               \/ (\E n \in Natives : CodexStarts(n))
    PROVE  \E kind \in Kinds, u \in Turns : Tells(kind, u)
    <1> USE DEF Kinds
    <1>0. /\ codex.native \in [Natives -> {"unused", "live", "gone"}]
          /\ codex.turn \in [Turns -> TurnType]
          /\ codex \in [native : [Natives -> {"unused", "live", "gone"}], turn : [Turns -> TurnType]]
          /\ Turns \subseteq Nat /\ None \notin Natives
        BY Constants DEF CodexType, TrafficType
    <1>1. ASSUME NEW u \in Turns, codex.turn[u].state # "unused", NEW state,
                 codex' = [codex EXCEPT !.turn[u].state = state]
          PROVE  /\ \A v \in Turns : v # u => codex'.turn[v] = codex.turn[v]
                 /\ codex'.native = codex.native
                 /\ codex'.turn[u].native = codex.turn[u].native /\ codex'.turn[u].state = state
                 /\ codex.turn[u].native \in Natives
      <2>1. codex.turn[u].native \in Natives
        BY <1>0, <1>1 DEF TurnsInOrder, TurnIsOwned, TurnType
      <2>2. QED
        BY <1>0, <1>1, <2>1 DEF TurnType
    <1>2. ASSUME NEW u \in Turns, CodexAnnounces(u) PROVE Tells("started", u)
      <2>1. /\ codex.turn[u].state = "accepted"
            /\ codex' = [codex EXCEPT !.turn[u].state = "running"]
            /\ Emit(Message("started", codex.turn[u].native, u))
        BY <1>2 DEF CodexAnnounces
      <2>2. \A v \in Turns : Started(v) /\ codex.turn[v].native = codex.turn[u].native => v < u
        BY <2>1 DEF TurnsInOrder, InOrder
      <2>3. QED
        BY <1>1, <2>1, <2>2 DEF Tells
    <1>3. ASSUME NEW u \in Turns, CodexFails(u) PROVE Tells("error", u)
      <2>1. /\ codex.turn[u].state = "running"
            /\ codex' = [codex EXCEPT !.turn[u].state = "failed"]
            /\ Emit(Message("error", codex.turn[u].native, u))
        BY <1>3 DEF CodexFails
      <2>2. QED
        BY <1>1, <2>1 DEF Tells
    <1>4. ASSUME NEW u \in Turns, CodexCompletes(u) PROVE Tells("completed", u)
      <2> DEFINE s == IF codex.turn[u].state = "failed" THEN "broken" ELSE "over"
      <2>1. /\ codex.turn[u].state \in {"running", "failed"}
            /\ codex' = [codex EXCEPT !.turn[u].state = s]
            /\ Emit(Message("completed", codex.turn[u].native, u))
        BY <1>4 DEF CodexCompletes, Announced
      <2> HIDE DEF s
      <2>2. /\ \A v \in Turns : v # u => codex'.turn[v] = codex.turn[v]
            /\ codex'.native = codex.native
            /\ codex'.turn[u].native = codex.turn[u].native /\ codex'.turn[u].state = s
            /\ codex.turn[u].native \in Natives
        BY <1>1, <2>1
      <2>3. QED
        BY <2>1, <2>2 DEF Tells, s
    <1>5. ASSUME NEW n \in Natives, CodexStarts(n) PROVE NextTurn \in Turns /\ Tells("started", NextTurn)
      <2> DEFINE u == NextTurn
      <2>1. /\ codex.native[n] \in {"live", "unused"}
            /\ codex' = [WithTurn(n, "running") EXCEPT !.native[n] = "live"]
            /\ Emit(Message("started", n, u))
            /\ u \in Turns /\ codex.turn[u].state = "unused"
        BY <1>5, NextTurnIsLeast DEF CodexStarts, Unused
      <2> HIDE DEF u
      <2>2. /\ \A v \in Turns : v # u => codex'.turn[v] = codex.turn[v]
            /\ codex'.turn[u].native = n /\ codex'.turn[u].state = "running"
            /\ codex'.native = [codex.native EXCEPT ![n] = "live"]
        BY <1>0, <2>1 DEF WithTurn, u
      <2>3. \A v \in Turns : Started(v) => v < u
        BY <2>1 DEF TurnsInOrder, InOrder, Started
      <2>4. Tells("started", u)
        BY <1>0, <2>1, <2>2, <2>3 DEF Tells
      <2>5. QED
        BY <2>1, <2>4 DEF u
    <1>6. QED
        BY <1>2, <1>3, <1>4, <1>5

\* What a step does to the inbox and to Codex: Codex answers, tells something or is
\* left alone, a handler reads a message, or the inbox ends.
LEMMA InboxSteps ==
    ASSUME CodexInv, [Next]_vars
    PROVE  \/ CodexAnswers
           \/ \E kind \in Kinds, u \in Turns : Tells(kind, u)
           \/ codex' = codex /\ inbox' = inbox
           \/ HandleStarted \/ HandleCompleted \/ HandleError
           \/ ReaderEnds \/ HandleEnd \/ HandleShutdown
    <1>0. CodexType /\ TurnsInOrder
        BY DEF CodexInv
    <1>1. CASE CodexStep
        BY <1>0, <1>1, CodexTells DEF CodexStep
    <1>2. CASE UNCHANGED vars \/ Shutdown \/ WriterFails \/ CleanedUp \/ OpenThread \/ StartTurn
               \/ ClaimNativeThread \/ RefuseControl \/ SteerTurn \/ SendControl
        BY <1>2 DEF vars, traffic, Shutdown, WriterFails, CleanedUp, OpenThread, StartTurn,
            ClaimNativeThread, RefuseControl, SteerTurn, SendControl, Request
    <1>3. CASE \E k \in Calls : \/ Call(k) \/ Timeout(k) \/ SendSteer(k) \/ ResumeFailed(k)
                                \/ FinishSteer(k) \/ ThreadOpened(k) \/ TurnStarted(k)
                                \/ ThreadDeleted(k) \/ PassAnswer(k)
        BY <1>3 DEF Call, Timeout, SendSteer, ResumeFailed, FinishSteer, ThreadOpened, TurnStarted,
            ThreadDeleted, PassAnswer, Request, traffic
    <1>4. QED
        BY <1>1, <1>2, <1>3 DEF Next, WorkerStep

\* What EventLog::append with a limit leaves.
LEMMA AppendedFacts ==
    ASSUME CodexType, NEW m \in MessageType, inbox' = Appended(inbox, m)
    PROVE  /\ inbox' \in Seq(MessageType) /\ Len(inbox') <= InboxLimit
           /\ \/ inbox' = inbox /\ 1 \in DOMAIN inbox /\ inbox[1].kind = "end"
              \/ inbox' = <<End>>
              \/ inbox' = Append(inbox, m)
    <1>0. /\ inbox \in Seq(MessageType) /\ Len(inbox) <= InboxLimit
          /\ End \in MessageType /\ End.kind = "end" /\ InboxLimit \in Nat \ {0}
        BY Constants DEF CodexType, TrafficType, MessageType, End
    <1>1. CASE inbox # <<>> /\ Head(inbox) = End
      <2>1. inbox' = inbox
        BY <1>1 DEF Appended
      <2>2. QED
        BY <1>0, <1>1, <2>1
    <1>2. CASE ~(inbox # <<>> /\ Head(inbox) = End) /\ Len(inbox) = InboxLimit
      <2>1. inbox' = <<End>>
        BY <1>2 DEF Appended
      <2>2. QED
        BY <1>0, <2>1
    <1>3. CASE ~(inbox # <<>> /\ Head(inbox) = End) /\ Len(inbox) # InboxLimit
      <2>1. inbox' = Append(inbox, m)
        BY <1>3 DEF Appended
      <2>2. QED
        BY <1>0, <1>3, <2>1
    <1>4. QED
        BY <1>1, <1>2, <1>3

\* The rest of the inbox.
LEMMA InboxTail ==
    ASSUME CodexType, inbox # <<>>
    PROVE  /\ 1 \in DOMAIN inbox /\ Head(inbox) = inbox[1]
           /\ Tail(inbox) \in Seq(MessageType) /\ Len(Tail(inbox)) <= InboxLimit
           /\ \A i \in DOMAIN Tail(inbox) : /\ i \in Nat /\ i + 1 \in DOMAIN inbox
                                            /\ Tail(inbox)[i] = inbox[i + 1]
           /\ \A i \in DOMAIN inbox : i \in Nat
                                      /\ (i # 1 => /\ i - 1 \in DOMAIN Tail(inbox)
                                                   /\ Tail(inbox)[i - 1] = inbox[i])
    BY Constants DEF CodexType, TrafficType

\* The inbox with one more message.
LEMMA InboxAppend ==
    ASSUME CodexType, NEW m \in MessageType
    PROVE  LET q == Append(inbox, m)
           IN /\ \A i \in DOMAIN q : \/ i \in DOMAIN inbox /\ q[i] = inbox[i]
                                     \/ i = Len(inbox) + 1 /\ q[i] = m
              /\ \A i \in DOMAIN inbox : /\ i \in DOMAIN q /\ q[i] = inbox[i]
                                         /\ i < Len(inbox) + 1 /\ i \in Nat
              /\ Len(inbox) + 1 \in DOMAIN q /\ q[Len(inbox) + 1] = m
              /\ Len(inbox) + 1 \in Nat
    BY DEF CodexType, TrafficType

\* The message Codex sends.
LEMMA MessageTyped ==
    ASSUME NEW kind \in Kinds, NEW n \in Natives, NEW u \in Turns
    PROVE  /\ Message(kind, n, u) \in MessageType
           /\ Message(kind, n, u).kind = kind /\ Message(kind, n, u).native = n
           /\ Message(kind, n, u).turn = u
    BY DEF Message, MessageType

\* The types of the traffic are kept.
LEMMA TrafficKept ==
    ASSUME CodexInv, [Next]_vars
    PROVE  TrafficType'
    <1>0. CodexType /\ Frames
        BY DEF CodexInv
    <1>1. pipe' \in Seq(FrameType)
        BY PipeSteps DEF FramesFollow
    <1>2. codex' \in [native : [Natives -> {"unused", "live", "gone"}], turn : [Turns -> TurnType]]
        BY <1>0, CodexChanges, CodexTyped
    <1>3. inbox' \in Seq(MessageType) /\ Len(inbox') <= InboxLimit
      <2>1. CASE CodexAnswers \/ inbox' = inbox
        BY <1>0, <2>1 DEF CodexAnswers, CodexType, TrafficType
      <2>2. ASSUME NEW kind \in Kinds, NEW u \in Turns, Tells(kind, u)
            PROVE  inbox' \in Seq(MessageType) /\ Len(inbox') <= InboxLimit
        BY <1>0, <2>2, MessageTyped, AppendedFacts DEF Tells, Emit
      <2>3. CASE HandleStarted \/ HandleCompleted \/ HandleError
        BY <1>0, <2>3, InboxTail DEF HandleStarted, HandleCompleted, HandleError, Receives, Read
      <2>4. CASE ReaderEnds
        <3>1. End \in MessageType
          BY DEF End, MessageType
        <3>2. QED
          BY <1>0, <2>4, <3>1, AppendedFacts DEF ReaderEnds
      <2>5. CASE HandleEnd \/ HandleShutdown
        <3>1. inbox' = <<>>
          BY <2>5 DEF HandleEnd, HandleShutdown, Stop
        <3>2. QED
          BY <3>1, Constants
      <2>6. QED
        BY <2>1, <2>2, <2>3, <2>4, <2>5, InboxSteps
    <1>4. QED
        BY <1>1, <1>2, <1>3 DEF TrafficType

\* What a message tells, as the first part of Messages has it.
Truthful(m) ==
    m.kind # "end" =>
        /\ m.turn \in Turns /\ m.native \in Natives /\ codex.turn[m.turn].native = m.native
        /\ Started(m.turn)
        /\ m.kind = "completed" => Closed(m.turn)
        /\ m.kind = "error" => \/ codex.turn[m.turn].state \in {"failed", "broken"}
                               \/ codex.native[m.native] = "gone"

\* The same, of Codex's next state.
StaysTruthful(m) ==
    m.kind # "end" =>
        /\ m.turn \in Turns /\ m.native \in Natives /\ codex'.turn[m.turn].native = m.native
        /\ codex'.turn[m.turn].state \notin {"unused", "accepted"}
        /\ m.kind = "completed" => codex'.turn[m.turn].state \in {"over", "broken"}
        /\ m.kind = "error" => \/ codex'.turn[m.turn].state \in {"failed", "broken"}
                               \/ codex'.native[m.native] = "gone"

\* What a message tells stays true.
LEMMA TruthfulStays ==
    ASSUME CodexInv, [Next]_vars, NEW i \in DOMAIN inbox
    PROVE  Truthful(inbox[i]) /\ StaysTruthful(inbox[i])
    <1>0. CodexType /\ Frames /\ TurnsInOrder /\ Messages
        BY DEF CodexInv
    <1>1. codex' = codex \/ CodexMoves
        BY <1>0, CodexChanges
    <1> DEFINE m == inbox[i]
    <1>2. Truthful(m)
        BY <1>0 DEF Messages, Truthful
    <1> HIDE DEF m
    <1>3. StaysTruthful(m)
        BY <1>0, <1>1, <1>2, CodexKeeps DEF Truthful, StaysTruthful, Started
    <1>4. QED
        BY <1>2, <1>3 DEF m

\* The messages of the inbox tell what has happened, and announce the turns of a
\* native thread in order.
LEMMA MessagesKept ==
    ASSUME CodexInv, [Next]_vars
    PROVE  Messages'
    <1> DEFINE InTurn(q) == \A i, j \in DOMAIN q :
                  i < j /\ q[i].kind = "started" /\ q[j].kind = "started"
                        /\ q[i].native = q[j].native => q[i].turn < q[j].turn
    <1>0. CodexType /\ TurnsInOrder /\ Messages /\ InTurn(inbox)
        BY DEF CodexInv, Messages
    <1>s. \A i \in DOMAIN inbox : Truthful(inbox[i]) /\ StaysTruthful(inbox[i])
        BY TruthfulStays
    <1>1. SUFFICES (\A i \in DOMAIN inbox' : StaysTruthful(inbox'[i])) /\ InTurn(inbox')
        BY DEF Messages, StaysTruthful, Started, Closed
    <1>2. CASE inbox' = inbox
        BY <1>0, <1>s, <1>2
    <1>3. CASE inbox' = <<>>
        BY <1>3
    <1>4. CASE inbox' = <<End>>
      <2>1. \A i \in DOMAIN inbox' : inbox'[i].kind = "end"
        BY <1>4 DEF End
      <2>2. QED
        BY <2>1 DEF StaysTruthful
    <1>5. CASE HandleStarted \/ HandleCompleted \/ HandleError
      <2>1. inbox # <<>> /\ inbox' = Tail(inbox)
        BY <1>5 DEF HandleStarted, HandleCompleted, HandleError, Receives, Read
      <2>2. \A i \in DOMAIN inbox' : i \in Nat /\ i + 1 \in DOMAIN inbox /\ inbox'[i] = inbox[i + 1]
        BY <1>0, <2>1, InboxTail
      <2>3. \A i \in DOMAIN inbox' : StaysTruthful(inbox'[i])
        BY <1>s, <2>2
      <2>4. InTurn(inbox')
        BY <1>0, <2>2
      <2>5. QED
        BY <2>3, <2>4
    <1>6. ASSUME NEW m \in MessageType, inbox' = Append(inbox, m), StaysTruthful(m),
                 \A i \in DOMAIN inbox : inbox[i].kind = "started" /\ m.kind = "started"
                        /\ inbox[i].native = m.native => inbox[i].turn < m.turn
          PROVE  (\A i \in DOMAIN inbox' : StaysTruthful(inbox'[i])) /\ InTurn(inbox')
      <2>1. /\ \A i \in DOMAIN inbox' : \/ i \in DOMAIN inbox /\ inbox'[i] = inbox[i]
                                        \/ i = Len(inbox) + 1 /\ inbox'[i] = m
            /\ \A i \in DOMAIN inbox : i < Len(inbox) + 1 /\ i \in Nat
            /\ Len(inbox) + 1 \in Nat
        BY <1>0, <1>6, InboxAppend
      <2>2. \A i \in DOMAIN inbox' : StaysTruthful(inbox'[i])
        BY <1>s, <1>6, <2>1
      <2>3. InTurn(inbox')
        BY <1>0, <1>6, <2>1
      <2>4. QED
        BY <2>2, <2>3
    <1>7. CASE ReaderEnds
      <2>1. End \in MessageType /\ End.kind = "end"
        BY DEF End, MessageType
      <2>2. inbox' = Appended(inbox, End)
        BY <1>7 DEF ReaderEnds
      <2>3. StaysTruthful(End)
        BY <2>1 DEF StaysTruthful
      <2>4. QED
        BY <1>0, <1>2, <1>4, <1>6, <2>1, <2>2, <2>3, AppendedFacts
    <1>8. ASSUME NEW kind \in Kinds, NEW u \in Turns, Tells(kind, u)
          PROVE  (\A i \in DOMAIN inbox' : StaysTruthful(inbox'[i])) /\ InTurn(inbox')
      <2> DEFINE n == codex'.turn[u].native
                 m == Message(kind, n, u)
      <2>1. /\ n \in Natives /\ m \in MessageType
            /\ m.kind = kind /\ m.native = n /\ m.turn = u
        BY <1>8, MessageTyped DEF Tells
      <2>2. inbox' = Appended(inbox, m)
        BY <1>8 DEF Tells, Emit
      <2>3. StaysTruthful(m)
        BY <1>8, <2>1 DEF Tells, StaysTruthful
      <2>4. ASSUME NEW i \in DOMAIN inbox, inbox[i].kind = "started", m.kind = "started",
                   inbox[i].native = m.native
            PROVE  inbox[i].turn < m.turn
        <3>1. Truthful(inbox[i])
          BY <1>s
        <3>2. /\ inbox[i].turn \in Turns /\ Started(inbox[i].turn)
              /\ codex.turn[inbox[i].turn].native = n
          BY <2>1, <2>4, <3>1 DEF Truthful
        <3>3. QED
          BY <1>8, <2>1, <2>4, <3>2 DEF Tells
      <2> HIDE DEF m, n
      <2>5. QED
        BY <1>0, <1>2, <1>4, <1>6, <2>1, <2>2, <2>3, <2>4, AppendedFacts
    <1>9. CASE CodexAnswers \/ HandleEnd \/ HandleShutdown
        BY <1>2, <1>3, <1>9 DEF CodexAnswers, HandleEnd, HandleShutdown, Stop
    <1>10. QED
        BY <1>2, <1>5, <1>7, <1>8, <1>9, InboxSteps

-----------------------------------------------------------------------------
(* Turns, acknowledgements and logs *)

Handles == HandleStarted \/ HandleCompleted \/ HandleError

\* Events reach a log from a handler, for the thread of its message, and at the end
\* of the inbox, for the acknowledged turn.  A turn ends by its completion, by an
\* error of the acknowledged turn and at the end.
LEMMA NewEvents ==
    ASSUME CodexInv, [Next]_vars, NEW t \in Threads, NEW e \in logs'[t].events,
           e \notin logs[t].events
    PROVE  \/ /\ Handles /\ t = Routed(Head(inbox).native) /\ e[1] = Head(inbox).turn
              /\ logs[t].state # "removed"
              /\ e[2] = "completed" => HandleCompleted \/ (HandleError /\ IsCurrent(t, e[1]))
           \/ HandleEnd /\ active[t] # None /\ e[1] = active[t]
    <1>0. CodexType /\ Bound /\ Messages /\ CallsHold /\ Waits
        BY DEF CodexInv
    <1>t. logs \in [Threads -> [state : {"none", "open", "removed"},
                                events : SUBSET (Turns \X {"started", "completed"})]]
        BY <1>0 DEF CodexType, ServedType
    <1>1. ASSUME NEW s \in Threads, logs' = WithLog(s) PROVE FALSE
        BY <1>t, <1>1 DEF WithLog
    <1>2. CASE UNCHANGED own
        BY <1>2 DEF own
    <1>3. CASE Handles
      <2> DEFINE m == Head(inbox)
                 s == Routed(m.native)
      <2>1. PICK kind \in Kinds : Receives(kind)
        BY <1>3 DEF Handles, HandleStarted, HandleCompleted, HandleError, Kinds
      <2>2. Discover(m.native)
        BY <1>3 DEF Handles, HandleStarted, HandleCompleted, HandleError
      <2>3. m.turn \in Turns /\ s \in Threads
        BY <1>0, <2>1, <2>2, ReadFacts
      <2>4. ASSUME NEW es, es \subseteq Turns \X {"started", "completed"}, Broadcast(s, es)
            PROVE  t = s /\ e \in es /\ logs[t].state # "removed"
        BY <1>0, <2>3, <2>4, BroadcastFacts
      <2>5. CASE HandleStarted
        <3>1. Broadcast(s, {<<m.turn, "started">>})
          BY <2>5 DEF HandleStarted
        <3>2. {<<m.turn, "started">>} \subseteq Turns \X {"started", "completed"}
          BY <2>3
        <3>3. t = s /\ e = <<m.turn, "started">> /\ logs[t].state # "removed"
          BY <2>4, <3>1, <3>2
        <3>4. QED
          BY <1>3, <3>3
      <2>6. CASE HandleCompleted
        <3>1. Broadcast(s, {<<m.turn, "completed">>})
          BY <2>6 DEF HandleCompleted
        <3>2. {<<m.turn, "completed">>} \subseteq Turns \X {"started", "completed"}
          BY <2>3
        <3>3. t = s /\ e = <<m.turn, "completed">> /\ logs[t].state # "removed"
          BY <2>4, <3>1, <3>2
        <3>4. QED
          BY <1>3, <2>6, <3>3
      <2>7. CASE HandleError
        <3>1. \/ Broadcast(s, {<<m.turn, "completed">>}) /\ IsCurrent(s, m.turn)
              \/ Broadcast(s, {})
          BY <2>7 DEF HandleError
        <3>2. {<<m.turn, "completed">>} \subseteq Turns \X {"started", "completed"}
          BY <2>3
        <3>3. /\ t = s /\ e = <<m.turn, "completed">> /\ logs[t].state # "removed"
              /\ IsCurrent(s, m.turn)
          BY <2>4, <3>1, <3>2
        <3>4. QED
          BY <1>3, <2>7, <3>3
      <2>8. QED
        BY <1>3, <2>5, <2>6, <2>7 DEF Handles
    <1>4. CASE CleanedUp
        BY <1>4 DEF CleanedUp
    <1>5. CASE HandleEnd
      <2>1. logs' = [s \in Threads |-> IF active[s] # None /\ logs[s].state = "open"
                THEN [logs[s] EXCEPT !.events = @ \cup {<<active[s], "completed">>}] ELSE logs[s]]
        BY <1>5 DEF HandleEnd
      <2>2. /\ active[t] # None
            /\ logs'[t] = [logs[t] EXCEPT !.events = logs[t].events \cup {<<active[t], "completed">>}]
        BY <2>1
      <2>3. e = <<active[t], "completed">>
        BY <1>t, <2>2
      <2>4. QED
        BY <1>5, <2>2, <2>3
    <1>6. CASE ClaimNativeThread
      <2> DEFINE k == Head(queues.controls)
                 n == call[k].native
                 s == IF routes[n] # None THEN routes[n] ELSE call[k].thread
      <2>1. k \in Calls /\ call[k].op = "claim" /\ logs' = WithLog(s)
        BY <1>0, <1>6, HeadIsCall DEF ClaimNativeThread, Serving, Claim
      <2>2. s \in Threads
        BY <1>0, <2>1 DEF CallsHold, CodexType, ServedType
      <2>3. QED
        BY <1>1, <2>1, <2>2
    <1>7. ASSUME NEW k \in Calls, ThreadOpened(k) PROVE FALSE
      <2>1. call[k].thread \in Threads
        BY <1>0, <1>7 DEF CallsHold, Waits, MethodOf, ThreadOpened, Answered
      <2>2. logs' = logs \/ logs' = WithLog(call[k].thread)
        BY <1>7 DEF ThreadOpened, Replace, Claim
      <2>3. QED
        BY <1>1, <2>1, <2>2
    <1>8. ASSUME NEW k \in Calls, TurnStarted(k) \/ ThreadDeleted(k) PROVE FALSE
      <2>1. logs' = logs \/ logs' = [logs EXCEPT ![call[k].thread].state = "removed"]
        BY <1>8 DEF TurnStarted, ThreadDeleted
      <2>2. QED
        BY <1>t, <2>1
    <1>9. QED
        BY <1>2, <1>3, <1>4, <1>5, <1>6, <1>7, <1>8, OwnSteps DEF Handles

\* A turn keeps its native thread and that one its thread, unless it is given up.
LEMMA KnownStays ==
    ASSUME CodexInv, [Next]_vars, NEW u \in Turns, codex.turn[u].state # "unused",
           NEW t \in Threads, Known(u, t)
    PROVE  codex'.turn[u].state # "unused" /\ Known(u, t)'
    <1>0. CodexType /\ Frames /\ TurnsInOrder /\ Keeps
        BY ServedKept DEF CodexInv
    <1>1. codex'.turn[u].state # "unused" /\ codex'.turn[u].native = codex.turn[u].native
        BY <1>0, CodexChanges, CodexKeeps
    <1>2. codex.turn[u].native \in Natives
        BY <1>0 DEF TurnsInOrder, TurnIsOwned, CodexType, TrafficType, TurnType
    <1>3. QED
        BY <1>0, <1>1, <1>2, Constants DEF Known, Keeps

\* What TurnStarted acknowledges.
LEMMA StartedFacts ==
    ASSUME CodexInv, NEW k \in Calls, TurnStarted(k)
    PROVE  LET t == call[k].thread
               u == rpc[k].value
           IN /\ t \in Threads /\ u \in Turns /\ codex.turn[u].state # "unused"
              /\ codex.turn[u].native = byThread[t] /\ routes[codex.turn[u].native] = t
              /\ acked[u] = None /\ ~Ended(t, u) /\ call[k].op = "start"
              /\ mapper'[t] = u /\ active'[t] = u /\ acked'[u] = t
              /\ \A s \in Threads : s # t => mapper'[s] = mapper[s] /\ active'[s] = active[s]
              /\ \A v \in Turns : v # u => acked'[v] = acked[v]
              /\ givenUp' = IF active[t] = None THEN givenUp ELSE givenUp \cup {active[t]}
              /\ UNCHANGED <<routes, byThread, logs, stored, traffic>>
              /\ worker.pc = "rpc" /\ worker.call = k /\ Accepted(k) /\ call[k].pc = "served"
    <1> DEFINE t == call[k].thread
               u == rpc[k].value
    <1>0. CodexType /\ Bound /\ CallsHold /\ Waits /\ AcceptedIsNew
        BY DEF CodexInv
    <1>1. /\ worker.pc = "rpc" /\ worker.call = k /\ rpc[k].method = "turn" /\ rpc[k].state = "ok"
          /\ mapper' = [mapper EXCEPT ![t] = u] /\ active' = [active EXCEPT ![t] = u]
          /\ acked' = [acked EXCEPT ![u] = t]
          /\ givenUp' = IF active[t] = None THEN givenUp ELSE givenUp \cup {active[t]}
          /\ UNCHANGED <<routes, byThread, logs, stored, traffic>>
        BY DEF TurnStarted, Answered
    <1>2. call[k].pc = "served" /\ call[k].op = "start"
        BY <1>0, <1>1 DEF Waits, MethodOf
    <1>3. /\ t \in Threads /\ byThread[t] = call[k].native /\ call[k].native \in Natives
        BY <1>0, <1>2 DEF CallsHold
    <1>4. /\ u \in Turns /\ codex.turn[u].state # "unused" /\ codex.turn[u].native = call[k].native
          /\ acked[u] = None /\ ~Ended(t, u)
        BY <1>0, <1>1, <1>3 DEF AcceptedIsNew, Accepted
    <1>5. routes[codex.turn[u].native] = t
        BY <1>0, <1>3, <1>4 DEF Bound, RoutesMirror
    <1> HIDE DEF t, u
    <1>6. /\ mapper'[t] = u /\ active'[t] = u /\ acked'[u] = t
          /\ \A s \in Threads : s # t => mapper'[s] = mapper[s] /\ active'[s] = active[s]
          /\ \A v \in Turns : v # u => acked'[v] = acked[v]
        BY <1>0, <1>1, <1>3, <1>4 DEF CodexType, ServedType
    <1>7. QED
        BY <1>1, <1>2, <1>3, <1>4, <1>5, <1>6 DEF t, u, Accepted

\* Only a start acknowledges a turn; only it, the end of a clean-up and the end of the
\* inbox change the acknowledged turns of the threads.
LEMMA AckSteps ==
    ASSUME CodexInv, [Next]_vars
    PROVE  \/ UNCHANGED <<acked, active>>
           \/ CleanedUp /\ UNCHANGED <<acked, logs, givenUp>>
           \/ HandleEnd /\ UNCHANGED <<acked, givenUp>>
           \/ \E k \in Calls : TurnStarted(k)
    <1>1. CASE UNCHANGED own
        BY <1>1 DEF own
    <1>2. CASE Handles \/ CleanedUp \/ HandleEnd \/ ClaimNativeThread
               \/ \E k \in Calls : ThreadOpened(k) \/ ThreadDeleted(k)
        BY <1>2 DEF Handles, HandleStarted, HandleCompleted, HandleError, CleanedUp, HandleEnd, Stop,
            ClaimNativeThread, ThreadOpened, ThreadDeleted
    <1>3. QED
        BY <1>1, <1>2, OwnSteps DEF Handles

\* The messages handled are of turns of a native thread with a route.
LEMMA HandledFacts ==
    ASSUME CodexInv, Handles
    PROVE  LET m == Head(inbox)
               t == Routed(m.native)
           IN /\ m = inbox[1] /\ 1 \in DOMAIN inbox /\ inbox # <<>> /\ m.kind \in Kinds
              /\ m.native \in Natives /\ m.turn \in Turns /\ t \in Threads
              /\ codex.turn[m.turn].native = m.native /\ Started(m.turn)
              /\ Joins(m.native, t)
              /\ routes[m.native] = None => logs[t].state = "none"
              /\ worker.pc = "idle" /\ inbox' = Tail(inbox) /\ codex' = codex
              /\ UNCHANGED <<active, call, queues, rpc, acked, givenUp>>
    <1> DEFINE m == Head(inbox)
    <1>0. CodexType /\ Bound /\ Messages
        BY DEF CodexInv
    <1>1. PICK kind \in Kinds : Receives(kind)
        BY DEF Handles, HandleStarted, HandleCompleted, HandleError, Kinds
    <1>2. Discover(m.native)
        BY DEF Handles, HandleStarted, HandleCompleted, HandleError
    <1>3. /\ m = inbox[1] /\ 1 \in DOMAIN inbox
          /\ m.native \in Natives /\ m.turn \in Turns /\ Routed(m.native) \in Threads
          /\ codex.turn[m.turn].native = m.native /\ Joins(m.native, Routed(m.native))
          /\ routes[m.native] = None => logs[Routed(m.native)].state = "none"
        BY <1>0, <1>1, <1>2, ReadFacts
    <1>4. m.kind \in Kinds /\ m.kind # "end" /\ inbox # <<>> /\ worker.pc = "idle"
        BY <1>1 DEF Receives, Kinds, Polling
    <1>5. Started(m.turn)
        BY <1>0, <1>3, <1>4 DEF Messages
    <1>6. inbox' = Tail(inbox) /\ codex' = codex /\ UNCHANGED <<active, call, queues, rpc, acked, givenUp>>
        BY DEF Handles, HandleStarted, HandleCompleted, HandleError, Read
    <1>7. QED
        BY <1>3, <1>4, <1>5, <1>6

\* Events and acknowledgements belong to the thread of their native thread.
LEMMA BelongsKept ==
    ASSUME CodexInv, [Next]_vars
    PROVE  Belongs'
    <1>0. CodexType /\ Belongs /\ Bound /\ TurnsInOrder /\ ServedType'
        BY ServedKept DEF CodexInv
    <1>t. /\ acked \in [Turns -> Threads \cup {None}]
          /\ active \in [Threads -> Turns \cup {None}]
          /\ \A t \in Threads : logs[t].events \subseteq Turns \X {"started", "completed"}
        BY <1>0 DEF CodexType, ServedType
    <1>1. ASSUME NEW t \in Threads, NEW e \in logs'[t].events
          PROVE  codex'.turn[e[1]].state # "unused" /\ Known(e[1], t)'
      <2>1. CASE e \in logs[t].events
        <3>1. e[1] \in Turns /\ codex.turn[e[1]].state # "unused" /\ Known(e[1], t)
          BY <1>0, <1>t, <2>1 DEF Belongs
        <3>2. QED
          BY <3>1, KnownStays
      <2>2. CASE Handles /\ t = Routed(Head(inbox).native) /\ e[1] = Head(inbox).turn
        <3>1. /\ codex.turn[e[1]].native = Head(inbox).native /\ Started(e[1])
              /\ Joins(Head(inbox).native, t) /\ codex' = codex
          BY <2>2, HandledFacts
        <3>2. QED
          BY <3>1 DEF Joins, Known, Started
      <2>3. CASE HandleEnd /\ active[t] # None /\ e[1] = active[t]
        <3>1. active[t] \in Turns /\ acked[active[t]] = t /\ t # None
          BY <1>0, <1>t, <2>3, Constants DEF Belongs
        <3>2. codex.turn[active[t]].state # "unused" /\ Known(active[t], t)
          BY <1>0, <3>1 DEF Belongs
        <3>3. QED
          BY <2>3, <3>1, <3>2, KnownStays
      <2>4. QED
        BY <2>1, <2>2, <2>3, NewEvents
    <1>2. ASSUME NEW u \in Turns, acked'[u] # None
          PROVE  codex'.turn[u].state # "unused" /\ Known(u, acked[u])'
      <2>1. CASE acked'[u] = acked[u]
        <3>1. codex.turn[u].state # "unused" /\ Known(u, acked[u]) /\ acked[u] \in Threads
          BY <1>0, <1>t, <1>2, <2>1 DEF Belongs
        <3>2. ASSUME NEW t \in Threads, Known(u, t), codex.turn[u].state # "unused"
              PROVE  /\ codex'.turn[u].state # "unused"
                     /\ codex'.turn[u].native \in givenUp' \/ routes'[codex'.turn[u].native] = t
          BY <3>2, KnownStays DEF Known
        <3>3. QED
          BY <2>1, <3>1, <3>2 DEF Known
      <2>2. CASE acked'[u] # acked[u]
        <3>1. PICK k \in Calls : TurnStarted(k)
          BY <2>2, AckSteps
        <3>2. /\ codex.turn[rpc[k].value].state # "unused"
              /\ routes[codex.turn[rpc[k].value].native] = call[k].thread
              /\ acked'[rpc[k].value] = call[k].thread
              /\ UNCHANGED <<routes, traffic>> /\ u = rpc[k].value
          BY <2>2, <3>1, StartedFacts
        <3>3. QED
          BY <3>2 DEF Known, traffic
      <2>3. QED
        BY <2>1, <2>2
    <1>3. ASSUME NEW t \in Threads, active'[t] # None PROVE acked'[active'[t]] = t
      <2>1. CASE UNCHANGED <<acked, active>>
        BY <1>0, <1>3, <2>1 DEF Belongs
      <2>2. CASE CleanedUp /\ UNCHANGED <<acked, logs, givenUp>>
        <3>1. active'[t] = active[t]
          BY <1>t, <1>3, <2>2 DEF CleanedUp
        <3>2. QED
          BY <1>0, <1>3, <2>2, <3>1 DEF Belongs
      <2>3. CASE HandleEnd
        BY <1>3, <2>3 DEF HandleEnd
      <2>4. ASSUME NEW k \in Calls, TurnStarted(k) PROVE acked'[active'[t]] = t
        <3> DEFINE s == call[k].thread
                   u == rpc[k].value
        <3>1. /\ s \in Threads /\ u \in Turns /\ acked[u] = None
              /\ active'[s] = u /\ acked'[u] = s
              /\ \A r \in Threads : r # s => active'[r] = active[r]
              /\ \A v \in Turns : v # u => acked'[v] = acked[v]
          BY <2>4, StartedFacts
        <3> HIDE DEF s, u
        <3>2. CASE t = s
          BY <3>1, <3>2
        <3>3. CASE t # s
          <4>1. active[t] # None /\ active'[t] = active[t] /\ active[t] \in Turns
            BY <1>t, <1>3, <3>1, <3>3
          <4>2. acked[active[t]] = t /\ t # None
            BY <1>0, <4>1, Constants DEF Belongs
          <4>3. QED
            BY <3>1, <4>1, <4>2
        <3>4. QED
          BY <3>2, <3>3
      <2>5. QED
        BY <2>1, <2>2, <2>3, <2>4, AckSteps
    <1>4. QED
        BY <1>1, <1>2, <1>3 DEF Belongs

\* Only an answer of Codex makes a request succeed.
LEMMA RpcSteps ==
    ASSUME CodexInv, [Next]_vars, NEW k \in Calls, rpc'[k].state = "ok"
    PROVE  rpc'[k] = rpc[k] \/ CodexAnswers
    <1>0. CodexType /\ CallsHold /\ Waits
        BY DEF CodexInv
    <1>t. /\ rpc \in [Calls -> RpcType]
          /\ \A j \in Calls : /\ call[j].native \in Natives \cup {None}
                              /\ call[j].turn \in Turns \cup {None}
        BY <1>0 DEF CodexType, CallsType, CallType
    <1>m. Methods = {"resume", "new", "turn", "interrupt", "steer", "delete"}
        BY DEF Methods
    <1>n. NoRpc.state = "none"
        BY Records
    <1>1. ASSUME NEW j \in Calls, NEW method, NEW n, NEW u, Request(j, method, n, u)
          PROVE  rpc'[k] = rpc[k]
      <2>1. PICK s \in {"waiting", "err"} :
               rpc' = [rpc EXCEPT ![j] = [method |-> method, state |-> s, value |-> None]]
        BY <1>1 DEF Request
      <2>2. QED
        BY <1>t, <2>1
    <1>2. CASE CodexStep \/ UNCHANGED vars \/ Shutdown
        BY <1>2 DEF CodexStep, CodexAnnounces, CodexFails, CodexCompletes, CodexStarts, Emit, vars,
            Shutdown
    <1>3. CASE ReaderEnds \/ WriterFails
      <2>1. rpc' = Failed
        BY <1>3 DEF ReaderEnds, WriterFails
      <2>2. QED
        BY <1>0, <2>1, FailedFacts
    <1>4. CASE HandleEnd \/ HandleShutdown
      <2>1. rpc' = [j \in Calls |-> NoRpc]
        BY <1>4 DEF HandleEnd, HandleShutdown, Stop
      <2>2. QED
        BY <1>n, <2>1
    <1>5. CASE Handles \/ CleanedUp \/ ClaimNativeThread \/ RefuseControl \/ SteerTurn
        BY <1>5 DEF Handles, HandleStarted, HandleCompleted, HandleError, CleanedUp,
            ClaimNativeThread, RefuseControl, SteerTurn
    <1>6. CASE OpenThread \/ StartTurn \/ SendControl
      <2>1. ASSUME NEW channel \in {"commands", "controls"}, Serving(channel)
            PROVE  Head(queues[channel]) \in Calls
        BY <1>0, <2>1, HeadIsCall DEF Serving
      <2>2. CASE OpenThread
        BY <1>1, <2>1, <2>2 DEF OpenThread
      <2>3. CASE StartTurn
        BY <1>1, <2>1, <2>3 DEF StartTurn
      <2>4. CASE SendControl
        BY <1>1, <2>1, <2>4 DEF SendControl
      <2>5. QED
        BY <1>6, <2>2, <2>3, <2>4
    <1>7. ASSUME NEW j \in Calls, SendSteer(j) \/ ResumeFailed(j) PROVE rpc'[k] = rpc[k]
        BY <1>1, <1>7 DEF SendSteer, ResumeFailed
    <1>8. ASSUME NEW j \in Calls, FinishSteer(j) \/ ThreadOpened(j) \/ TurnStarted(j)
                                  \/ ThreadDeleted(j) \/ PassAnswer(j)
          PROVE  rpc'[k] = rpc[k]
      <2>1. rpc' = [rpc EXCEPT ![j] = NoRpc]
        BY <1>8 DEF FinishSteer, ThreadOpened, TurnStarted, ThreadDeleted, PassAnswer, Forget
      <2>2. QED
        BY <1>t, <1>n, <2>1
    <1>9. ASSUME NEW j \in Calls, Call(j) \/ Timeout(j) PROVE rpc'[k] = rpc[k]
      <2>1. rpc' = rpc \/ rpc' = [rpc EXCEPT ![j].state = "err"]
        BY <1>9 DEF Call, Timeout
      <2>2. rpc[j] \in RpcType
        BY <1>t
      <2>3. QED
        BY <1>t, <2>1, <2>2 DEF RpcType
    <1>10. QED
        BY <1>2, <1>3, <1>4, <1>5, <1>6, <1>7, <1>8, <1>9 DEF Next, WorkerStep, Handles

\* An accepted turn is one that was accepted before, while the worker waits and does
\* nothing else, or the one Codex accepts in this step.
LEMMA AcceptedSteps ==
    ASSUME CodexInv, [Next]_vars, NEW k \in Calls, Accepted(k)'
    PROVE  /\ call'[k] = call[k] /\ call[k].pc = "served" /\ call[k].op = "start"
           /\ worker.pc = "rpc" /\ worker.call = k
           /\ UNCHANGED own
           /\ \/ rpc'[k] = rpc[k] /\ Accepted(k)
              \/ /\ CodexAnswers /\ Unused # {} /\ rpc'[k].value = NextTurn
                 /\ codex' = WithTurn(call[k].native, "accepted")
    <1>0. /\ CodexType /\ Waits /\ Waits' /\ Frames /\ TurnsInOrder /\ Fate(k)
        BY CallingKept, CallFates DEF CodexInv, Calling
    <1>1. /\ rpc'[k].state = "ok" /\ rpc'[k].method = "turn"
          /\ call'[k].pc = "served" /\ call'[k].op = "start"
        BY <1>0 DEF Accepted, Waits, MethodOf
    <1>2. rpc'[k] = rpc[k] \/ (CodexAnswers /\ rpc'[k] # rpc[k])
        BY <1>1, RpcSteps
    <1>3. CASE CodexAnswers /\ rpc'[k] # rpc[k]
      <2>1. /\ rpc[k].state = "waiting" /\ rpc[k].method = "turn"
            /\ \E i \in DOMAIN pipe :
                  /\ pipe[i].call = k /\ pipe[i].method = "turn"
                  /\ Unused # {} /\ rpc'[k].value = NextTurn
                  /\ codex' = WithTurn(pipe[i].native, "accepted")
        BY <1>0, <1>1, <1>3, AnswerFacts
      <2>2. call[k].pc = "served" /\ call[k].op = "start" /\ call' = call
        BY <1>0, <1>3, <2>1 DEF Waits, MethodOf, CodexAnswers
      <2>3. \A i \in DOMAIN pipe : pipe[i].call = k /\ pipe[i].method = "turn"
                                      => pipe[i].native = call[k].native
        BY <1>0, <2>2 DEF Frames
      <2>4. UNCHANGED own
        BY <1>3 DEF CodexAnswers, own, served
      <2>5. worker.pc = "rpc" /\ worker.call = k
        BY <1>0, <2>2 DEF Waits
      <2>6. QED
        BY <1>3, <2>1, <2>2, <2>3, <2>4, <2>5
    <1>4. CASE rpc'[k] = rpc[k]
      <2>1. /\ Accepted(k) /\ call[k].pc = "served" /\ call[k].op = "start"
            /\ worker.pc = "rpc" /\ worker.call = k
        BY <1>0, <1>1, <1>4 DEF Accepted, Waits, MethodOf
      <2>2. call'[k] = call[k]
        BY <1>0, <1>1, <2>1 DEF Fate
      <2>3. ~(Handles \/ CleanedUp \/ HandleEnd \/ ClaimNativeThread)
        BY <2>1 DEF Handles, HandleStarted, HandleCompleted, HandleError, CleanedUp, HandleEnd,
            ClaimNativeThread, Serving, Receives, Polling
      <2>4. ASSUME NEW j \in Calls, ThreadOpened(j) \/ TurnStarted(j) \/ ThreadDeleted(j) PROVE FALSE
        <3>1. j = k /\ Returned(k)
          BY <2>1, <2>4 DEF ThreadOpened, TurnStarted, ThreadDeleted, Answered
        <3>2. call'[k] = Done
          BY <1>0, <3>1 DEF Returned, CodexType, CallsType
        <3>3. QED
          BY <1>1, <3>2, Records
      <2>5. UNCHANGED own
        BY <2>3, <2>4, OwnSteps DEF Handles
      <2>6. QED
        BY <1>4, <2>1, <2>2, <2>5
    <1>5. QED
        BY <1>2, <1>3, <1>4

\* The record of a turn Codex has just accepted.
LEMMA AcceptedNow ==
    ASSUME CodexType, NEW n, Unused # {}, codex' = WithTurn(n, "accepted")
    PROVE  /\ NextTurn \in Turns /\ codex.turn[NextTurn].state = "unused"
           /\ codex'.turn[NextTurn].native = n /\ codex'.turn[NextTurn].state = "accepted"
           /\ \A v \in Turns : v # NextTurn => codex'.turn[v] = codex.turn[v]
           /\ codex'.native = codex.native
    <1>1. NextTurn \in Turns /\ codex.turn[NextTurn].state = "unused"
        BY NextTurnIsLeast DEF Unused
    <1>2. QED
        BY <1>1 DEF WithTurn, CodexType, TrafficType

\* An accepted turn is new to the worker.
LEMMA AcceptedKept ==
    ASSUME CodexInv, [Next]_vars
    PROVE  AcceptedIsNew'
    <1>0. CodexType /\ AcceptedIsNew /\ Belongs /\ CallsHold /\ TurnsInOrder /\ Frames
        BY DEF CodexInv
    <1>1. ASSUME NEW k \in Calls, Accepted(k)'
          PROVE  /\ rpc'[k].value \in Turns /\ codex'.turn[rpc'[k].value].state # "unused"
                 /\ codex'.turn[rpc'[k].value].native = call'[k].native
                 /\ acked'[rpc'[k].value] = None
                 /\ \A t \in Threads : <<rpc'[k].value, "completed">> \notin logs'[t].events
      <2>1. call'[k] = call[k] /\ UNCHANGED own
        BY <1>1, AcceptedSteps
      <2>2. CASE rpc'[k] = rpc[k] /\ Accepted(k)
        <3> DEFINE u == rpc[k].value
        <3>1. /\ u \in Turns /\ codex.turn[u].state # "unused"
              /\ codex.turn[u].native = call[k].native /\ acked[u] = None
              /\ \A t \in Threads : ~Ended(t, u)
          BY <1>0, <2>2 DEF AcceptedIsNew
        <3> HIDE DEF u
        <3>2. codex'.turn[u].state # "unused" /\ codex'.turn[u].native = codex.turn[u].native
          BY <1>0, <3>1, CodexChanges, CodexKeeps
        <3>3. QED
          BY <2>1, <2>2, <3>1, <3>2 DEF own, Ended, u
      <2>3. CASE /\ Unused # {} /\ rpc'[k].value = NextTurn
                 /\ codex' = WithTurn(call[k].native, "accepted")
        <3> DEFINE u == NextTurn
        <3>1. /\ u \in Turns /\ codex.turn[u].state = "unused"
              /\ codex'.turn[u].native = call[k].native /\ codex'.turn[u].state = "accepted"
          BY <1>0, <2>3, AcceptedNow
        <3> HIDE DEF u
        <3>2. acked[u] = None
          BY <1>0, <3>1 DEF Belongs
        <3>3. ASSUME NEW t \in Threads, <<u, "completed">> \in logs[t].events PROVE FALSE
          <4>1. <<u, "completed">>[1] = u
            OBVIOUS
          <4>2. QED
            BY <1>0, <3>1, <3>3, <4>1 DEF Belongs
        <3>4. QED
          BY <2>1, <2>3, <3>1, <3>2, <3>3 DEF own, u
      <2>4. QED
        BY <1>1, <2>2, <2>3, AcceptedSteps
    <1>2. QED
        BY <1>1 DEF AcceptedIsNew, Ended

\* A worker that removes uploads does nothing else, and begins to for the message of
\* the acknowledged turn.
LEMMA CleanUpSteps ==
    ASSUME CodexInv, [Next]_vars
    PROVE  /\ worker.pc = "cleanup" => CleanedUp \/ (worker' = worker /\ UNCHANGED own)
           /\ worker'.pc = "cleanup" =>
                \/ worker' = worker /\ UNCHANGED own
                \/ /\ Handles /\ IsCurrent(Routed(Head(inbox).native), Head(inbox).turn)
                   /\ \/ /\ HandleCompleted
                         /\ CleanUp(Routed(Head(inbox).native), Head(inbox).turn, FALSE)
                      \/ /\ HandleError
                         /\ CleanUp(Routed(Head(inbox).native), Head(inbox).turn, TRUE)
    <1>0. CodexType
        BY DEF CodexInv
    <1>i. Idle.pc = "idle" /\ [Idle EXCEPT !.pc = "done"].pc = "done"
        BY Records
    <1>a. ASSUME NEW k, Await(k) PROVE worker'.pc = "rpc"
        BY <1>a DEF Await, Idle
    <1>1. CASE CodexStep \/ UNCHANGED vars \/ Shutdown \/ ReaderEnds \/ WriterFails
      <2>1. worker' = worker /\ UNCHANGED own
        BY <1>1 DEF CodexStep, CodexAnswers, CodexAnnounces, CodexFails, CodexCompletes, CodexStarts,
            Emit, vars, Shutdown, ReaderEnds, WriterFails, own, served
      <2>2. QED
        BY <2>1
    <1>2. ASSUME NEW k \in Calls, Call(k) \/ Timeout(k) \/ SendSteer(k) \/ ResumeFailed(k)
                                  \/ FinishSteer(k)
          PROVE  worker' = worker /\ UNCHANGED own
        BY <1>2 DEF Call, Timeout, SendSteer, ResumeFailed, FinishSteer, own, served
    <1>3. ASSUME NEW k \in Calls, ThreadOpened(k) \/ TurnStarted(k) \/ ThreadDeleted(k) \/ PassAnswer(k)
          PROVE  worker.pc = "rpc" /\ worker'.pc = "idle"
        BY <1>i, <1>3 DEF ThreadOpened, TurnStarted, ThreadDeleted, PassAnswer, Answered, Forget
    <1>4. CASE CleanedUp
        BY <1>i, <1>4 DEF CleanedUp
    <1>5. CASE HandleEnd \/ HandleShutdown
      <2>1. worker.pc = "idle" /\ worker'.pc = "done"
        BY <1>i, <1>5 DEF HandleEnd, HandleShutdown, Stop, Receives, Polling
      <2>2. QED
        BY <2>1
    <1>6. CASE OpenThread \/ StartTurn \/ SendControl \/ ClaimNativeThread \/ RefuseControl \/ SteerTurn
      <2>1. worker.pc = "idle" /\ (worker' = worker \/ worker'.pc = "rpc")
        BY <1>a, <1>6 DEF OpenThread, StartTurn, SendControl, ClaimNativeThread, RefuseControl,
            SteerTurn, Serving, Polling
      <2>2. QED
        BY <2>1
    <1>7. CASE Handles
      <2>1. worker.pc = "idle"
        BY <1>7, HandledFacts
      <2>2. \/ worker' = worker
            \/ /\ IsCurrent(Routed(Head(inbox).native), Head(inbox).turn)
               /\ \/ /\ HandleCompleted
                     /\ CleanUp(Routed(Head(inbox).native), Head(inbox).turn, FALSE)
                  \/ /\ HandleError
                     /\ CleanUp(Routed(Head(inbox).native), Head(inbox).turn, TRUE)
        BY <1>7 DEF Handles, HandleStarted, HandleCompleted, HandleError
      <2>3. QED
        BY <1>7, <2>1, <2>2
    <1>8. QED
        BY <1>1, <1>2, <1>3, <1>4, <1>5, <1>6, <1>7 DEF Next, WorkerStep, Handles

\* The turn of a current message ends in the log of its thread.
LEMMA CurrentEnds ==
    ASSUME CodexInv, [Next]_vars, HandleCompleted \/ HandleError,
           IsCurrent(Routed(Head(inbox).native), Head(inbox).turn)
    PROVE  LET t == Routed(Head(inbox).native)
           IN <<Head(inbox).turn, "completed">> \in logs'[t].events \/ t \in givenUp'
    <1> DEFINE m == Head(inbox)
               t == Routed(m.native)
    <1>0. CodexType /\ Bound
        BY DEF CodexInv
    <1>1. /\ m.turn \in Turns /\ t \in Threads /\ givenUp' = givenUp
        BY HandledFacts DEF Handles
    <1>2. Broadcast(t, {<<m.turn, "completed">>})
        BY DEF HandleCompleted, HandleError
    <1> HIDE DEF m, t
    <1>3. {<<m.turn, "completed">>} \subseteq Turns \X {"started", "completed"}
        BY <1>1
    <1>4. \/ logs[t].state = "removed"
          \/ logs'[t].events = logs[t].events \cup {<<m.turn, "completed">>}
        BY <1>0, <1>1, <1>2, <1>3, BroadcastFacts
    <1>5. <<m.turn, "completed">> \in logs'[t].events \/ t \in givenUp'
        BY <1>0, <1>1, <1>4 DEF Bound
    <1>6. QED
        BY <1>5 DEF m, t

\* What is cleaned up has ended.
LEMMA CleansUpKept ==
    ASSUME CodexInv, [Next]_vars
    PROVE  CleansUp'
    <1>0. CodexType /\ CleansUp /\ Belongs /\ TurnsInOrder /\ Frames /\ Messages /\ Waits
        BY DEF CodexInv
    <1>t. mapper \in [Threads -> Turns \cup {None}] /\ None \notin Turns /\ None \notin Threads
        BY <1>0, Constants DEF CodexType, ServedType
    <1>1. SUFFICES ASSUME worker'.pc = "cleanup"
                   PROVE  LET t == worker'.thread
                              u == worker'.turn
                          IN /\ t \in Threads /\ u \in Turns /\ active'[t] = u
                             /\ <<u, "completed">> \in logs'[t].events \/ t \in givenUp'
                             /\ IF worker'.forced
                                THEN /\ byThread'[t] = codex'.turn[u].native
                                     /\ \/ codex'.turn[u].state \in {"failed", "broken"}
                                        \/ codex'.native[codex'.turn[u].native] = "gone"
                                ELSE mapper'[t] # u
        BY DEF CleansUp, Ended
    <1>2. CASE worker' = worker /\ UNCHANGED own
      <2> DEFINE t == worker.thread
                 u == worker.turn
      <2>1. /\ t \in Threads /\ u \in Turns /\ active[t] = u
            /\ Ended(t, u) \/ t \in givenUp
            /\ IF worker.forced
               THEN /\ byThread[t] = codex.turn[u].native
                    /\ \/ codex.turn[u].state \in {"failed", "broken"}
                       \/ codex.native[codex.turn[u].native] = "gone"
               ELSE mapper[t] # u
        BY <1>0, <1>1, <1>2 DEF CleansUp
      <2> HIDE DEF t, u
      <2>2. codex.turn[u].state # "unused"
        BY <1>0, <1>t, <2>1 DEF Belongs
      <2>3. codex.turn[u].native \in Natives
        BY <1>0, <2>1, <2>2 DEF TurnsInOrder, TurnIsOwned, CodexType, TrafficType, TurnType
      <2>4. /\ codex'.turn[u].native = codex.turn[u].native
            /\ codex.turn[u].state \in {"failed", "broken"} =>
                     \/ codex'.turn[u].state \in {"failed", "broken"}
                     \/ codex'.native[codex.turn[u].native] = "gone"
            /\ codex.native[codex.turn[u].native] = "gone" => codex'.native[codex.turn[u].native] = "gone"
        BY <1>0, <2>1, <2>2, <2>3, CodexChanges, CodexKeeps
      <2>5. QED
        BY <1>2, <2>1, <2>4 DEF own, Ended, t, u
    <1>3. CASE /\ Handles /\ IsCurrent(Routed(Head(inbox).native), Head(inbox).turn)
               /\ \/ /\ HandleCompleted
                     /\ CleanUp(Routed(Head(inbox).native), Head(inbox).turn, FALSE)
                  \/ /\ HandleError
                     /\ CleanUp(Routed(Head(inbox).native), Head(inbox).turn, TRUE)
      <2> DEFINE m == Head(inbox)
                 t == Routed(m.native)
                 u == m.turn
      <2>1. /\ m = inbox[1] /\ 1 \in DOMAIN inbox /\ m.native \in Natives /\ u \in Turns
            /\ t \in Threads /\ codex.turn[u].native = m.native /\ Joins(m.native, t)
            /\ codex' = codex /\ active' = active
        BY <1>3, HandledFacts
      <2>2. active'[t] = u
        BY <1>3, <2>1 DEF IsCurrent
      <2>3. <<u, "completed">> \in logs'[t].events \/ t \in givenUp'
        BY <1>3, CurrentEnds
      <2>4. CASE HandleCompleted /\ CleanUp(t, u, FALSE)
        <3>1. mapper' = [mapper EXCEPT ![t] = IF @ = u THEN None ELSE @]
          BY <2>4 DEF HandleCompleted
        <3> HIDE DEF m, t, u
        <3>2. mapper'[t] # u
          BY <1>t, <2>1, <3>1
        <3>3. worker'.thread = t /\ worker'.turn = u /\ ~worker'.forced
          BY <2>1, <2>4, CleanUpFacts
        <3>4. QED
          BY <2>1, <2>2, <2>3, <3>2, <3>3
      <2>5. CASE HandleError /\ CleanUp(t, u, TRUE)
        <3>1. m.kind = "error"
          BY <2>5 DEF HandleError, Receives
        <3>2. \/ codex.turn[u].state \in {"failed", "broken"}
              \/ codex.native[m.native] = "gone"
          BY <1>0, <2>1, <3>1 DEF Messages
        <3>3. byThread'[t] = m.native
          BY <2>1 DEF Joins
        <3> HIDE DEF m, t, u
        <3>4. worker'.thread = t /\ worker'.turn = u /\ worker'.forced
          BY <2>1, <2>5, CleanUpFacts
        <3>5. QED
          BY <2>1, <2>2, <2>3, <3>2, <3>3, <3>4
      <2>6. QED
        BY <1>3, <2>4, <2>5
    <1>4. QED
        BY <1>1, <1>2, <1>3, CleanUpSteps

\* A turn that ends in a log in this step ends by its completion, by an error of the
\* acknowledged turn, or at the end of the inbox.
LEMMA EndsNow ==
    ASSUME CodexInv, [Next]_vars, NEW t \in Threads, NEW u,
           <<u, "completed">> \in logs'[t].events, ~Ended(t, u)
    PROVE  \/ /\ HandleCompleted \/ (HandleError /\ IsCurrent(t, u))
              /\ t = Routed(Head(inbox).native) /\ u = Head(inbox).turn
           \/ HandleEnd /\ active[t] = u
    <1> DEFINE e == <<u, "completed">>
    <1>1. e \in logs'[t].events /\ e \notin logs[t].events
        BY DEF Ended
    <1>2. e[1] = u /\ e[2] = "completed"
        OBVIOUS
    <1> HIDE DEF e
    <1>3. QED
        BY <1>1, <1>2, NewEvents

\* An acknowledged turn is tracked until it has ended, and not beyond.
LEMMA TrackedKept ==
    ASSUME CodexInv, [Next]_vars
    PROVE  AckedTurnIsTracked'
    <1>0. /\ CodexType /\ Bound /\ AckedTurnIsTracked /\ CleansUp /\ Belongs /\ Keeps
        BY ServedKept DEF CodexInv
    <1>t. /\ acked \in [Turns -> Threads \cup {None}]
          /\ active \in [Threads -> Turns \cup {None}]
          /\ logs \in [Threads -> [state : {"none", "open", "removed"},
                                   events : SUBSET (Turns \X {"started", "completed"})]]
          /\ None \notin Threads /\ None \notin Turns
        BY <1>0, Constants DEF CodexType, ServedType
    <1>k. ASSUME NEW t \in Threads, NEW u PROVE Ended(t, u) => <<u, "completed">> \in logs'[t].events
        BY <1>0 DEF Keeps, Ended
    <1>g. givenUp \subseteq givenUp'
        BY <1>0 DEF Keeps
    <1>1. ASSUME NEW u \in Turns, NEW t \in Threads, acked'[u] = t
          PROVE  \/ <<u, "completed">> \in logs'[t].events
                 \/ active'[t] = u \/ t \in givenUp' \/ u \in givenUp'
      <2>1. CASE acked' = acked /\ active'[t] = active[t]
        BY <1>0, <1>1, <1>k, <1>g, <2>1 DEF AckedTurnIsTracked
      <2>2. CASE CleanedUp /\ UNCHANGED <<acked, logs, givenUp>>
        <3>1. Ended(t, u) \/ active[t] = u \/ t \in givenUp \/ u \in givenUp
          BY <1>0, <1>1, <2>2 DEF AckedTurnIsTracked
        <3>2. CASE worker.thread # t
          <4>1. active'[t] = active[t]
            BY <1>t, <2>2, <3>2 DEF CleanedUp
          <4>2. QED
            BY <2>1, <2>2, <4>1
        <3>3. CASE worker.thread = t
          <4>1. active[t] = worker.turn /\ (Ended(t, worker.turn) \/ t \in givenUp)
            BY <1>0, <2>2, <3>3 DEF CleansUp, CleanedUp
          <4>2. QED
            BY <2>2, <3>1, <4>1 DEF Ended
        <3>4. QED
          BY <3>2, <3>3
      <2>3. CASE HandleEnd /\ UNCHANGED <<acked, givenUp>>
        <3>1. Ended(t, u) \/ active[t] = u \/ t \in givenUp \/ u \in givenUp
          BY <1>0, <1>1, <2>3 DEF AckedTurnIsTracked
        <3>2. CASE active[t] = u
          <4>1. logs[t].state \in {"open", "removed"}
            BY <1>0, <1>t, <3>2 DEF Bound
          <4>2. CASE logs[t].state = "removed"
            BY <1>0, <1>g, <4>2 DEF Bound
          <4>3. CASE logs[t].state = "open"
            <5>1. logs'[t] = [logs[t] EXCEPT !.events = logs[t].events \cup {<<u, "completed">>}]
              BY <1>t, <2>3, <3>2, <4>3 DEF HandleEnd
            <5>2. QED
              BY <1>t, <5>1
          <4>4. QED
            BY <4>1, <4>2, <4>3
        <3>3. QED
          BY <1>k, <1>g, <3>1, <3>2
      <2>4. ASSUME NEW k \in Calls, TurnStarted(k)
            PROVE  \/ <<u, "completed">> \in logs'[t].events
                   \/ active'[t] = u \/ t \in givenUp' \/ u \in givenUp'
        <3> DEFINE s == call[k].thread
                   v == rpc[k].value
        <3>1. /\ s \in Threads /\ v \in Turns
              /\ active'[s] = v /\ acked'[v] = s /\ call[k].op = "start"
              /\ \A r \in Threads : r # s => active'[r] = active[r]
              /\ \A w \in Turns : w # v => acked'[w] = acked[w]
              /\ givenUp' = IF active[s] = None THEN givenUp ELSE givenUp \cup {active[s]}
          BY <2>4, StartedFacts
        <3>2. CASE u = v
          BY <1>1, <3>1, <3>2
        <3>3. CASE u # v /\ t = s
          <4>1. Ended(t, u) \/ active[t] = u \/ t \in givenUp \/ u \in givenUp
            BY <1>0, <1>1, <3>1, <3>3 DEF AckedTurnIsTracked
          <4>2. active[t] = u => u \in givenUp'
            BY <1>t, <3>1, <3>3
          <4>3. QED
            BY <1>k, <1>g, <4>1, <4>2
        <3>4. CASE u # v /\ t # s
          BY <1>0, <1>1, <1>k, <1>g, <3>1, <3>4 DEF AckedTurnIsTracked
        <3>5. QED
          BY <3>2, <3>3, <3>4
      <2>5. QED
        BY <2>1, <2>2, <2>3, <2>4, AckSteps
    <1>2. ASSUME NEW t \in Threads, active'[t] # None
          PROVE  \/ <<active'[t], "completed">> \notin logs'[t].events
                 \/ worker'.pc = "cleanup" /\ worker'.thread = t
      <2>1. SUFFICES ASSUME <<active'[t], "completed">> \in logs'[t].events
                     PROVE  worker'.pc = "cleanup" /\ worker'.thread = t
        OBVIOUS
      <2>2. ASSUME active'[t] = active[t]
            PROVE  worker'.pc = "cleanup" /\ worker'.thread = t
        <3> DEFINE u == active[t]
        <3>1. u \in Turns /\ <<u, "completed">> \in logs'[t].events
          BY <1>t, <1>2, <2>1, <2>2
        <3>2. CASE Ended(t, u)
          <4>1. worker.pc = "cleanup" /\ worker.thread = t
            BY <1>0, <1>2, <2>2, <3>2 DEF AckedTurnIsTracked
          <4>2. CASE worker' = worker
            BY <4>1, <4>2
          <4>3. CASE CleanedUp
            <5>1. active'[t] = None
              BY <1>t, <4>1, <4>3 DEF CleanedUp
            <5>2. QED
              BY <1>2, <5>1
          <4>4. QED
            BY <4>1, <4>2, <4>3, CleanUpSteps
        <3>3. CASE /\ ~Ended(t, u) /\ (HandleCompleted \/ HandleError)
                   /\ t = Routed(Head(inbox).native) /\ u = Head(inbox).turn
          <4>1. IsCurrent(Routed(Head(inbox).native), Head(inbox).turn)
            BY <3>3 DEF IsCurrent
          <4>2. CleanUp(t, u, FALSE) \/ CleanUp(t, u, TRUE)
            BY <3>3, <4>1 DEF HandleCompleted, HandleError
          <4>3. QED
            BY <3>1, <4>2, CleanUpFacts
        <3>4. CASE HandleEnd
          BY <1>2, <3>4 DEF HandleEnd
        <3>5. QED
          BY <3>1, <3>2, <3>3, <3>4, EndsNow
      <2>3. CASE CleanedUp
        <3>1. active'[t] = active[t]
          BY <1>t, <1>2, <2>3 DEF CleanedUp
        <3>2. QED
          BY <2>2, <3>1
      <2>4. CASE HandleEnd
        BY <1>2, <2>4 DEF HandleEnd
      <2>5. ASSUME NEW k \in Calls, TurnStarted(k) PROVE worker'.pc = "cleanup" /\ worker'.thread = t
        <3> DEFINE s == call[k].thread
                   v == rpc[k].value
        <3>1. /\ active'[s] = v /\ ~Ended(s, v) /\ logs' = logs
              /\ \A r \in Threads : r # s => active'[r] = active[r]
          BY <2>5, StartedFacts
        <3>2. t # s
          BY <2>1, <3>1 DEF Ended
        <3>3. QED
          BY <2>2, <3>1, <3>2
      <2>6. QED
        BY <2>2, <2>3, <2>4, <2>5, AckSteps
    <1>3. QED
        BY <1>1, <1>2 DEF AckedTurnIsTracked, Ended

-----------------------------------------------------------------------------
(* What the worker has heard *)

\* A worker that has stopped has stopped for good.
LEMMA DoneIsLast ==
    ASSUME CodexInv, [Next]_vars, worker'.pc # "done"
    PROVE  worker.pc # "done"
    <1>1. CASE worker' = worker
        BY <1>1
    <1>2. CASE CodexStep \/ UNCHANGED vars \/ Shutdown \/ ReaderEnds \/ WriterFails
        BY <1>1, <1>2 DEF CodexStep, CodexAnswers, CodexAnnounces, CodexFails, CodexCompletes,
            CodexStarts, Emit, vars, Shutdown, ReaderEnds, WriterFails
    <1>3. CASE \E k \in Calls : \/ Call(k) \/ Timeout(k) \/ SendSteer(k) \/ ResumeFailed(k)
                                \/ FinishSteer(k) \/ ThreadOpened(k) \/ TurnStarted(k)
                                \/ ThreadDeleted(k) \/ PassAnswer(k)
        BY <1>1, <1>3 DEF Call, Timeout, SendSteer, ResumeFailed, FinishSteer, ThreadOpened,
            TurnStarted, ThreadDeleted, PassAnswer, Answered
    <1>4. CASE \/ CleanedUp \/ HandleEnd \/ HandleShutdown \/ OpenThread \/ StartTurn \/ SendControl
               \/ ClaimNativeThread \/ RefuseControl \/ SteerTurn \/ Handles
        BY <1>4 DEF CleanedUp, HandleEnd, HandleShutdown, OpenThread, StartTurn, SendControl,
            ClaimNativeThread, RefuseControl, SteerTurn, Handles, HandleStarted, HandleCompleted,
            HandleError, Serving, Receives, Polling
    <1>5. QED
        BY <1>2, <1>3, <1>4 DEF Next, WorkerStep, Handles

\* As long as nothing is lost a message of Codex is appended.
LEMMA HealthyTells ==
    ASSUME CodexInv, NEW kind \in Kinds, NEW u \in Turns, Tells(kind, u), Healthy'
    PROVE  /\ inbox' = Append(inbox, Message(kind, codex'.turn[u].native, u))
           /\ Message(kind, codex'.turn[u].native, u) \in MessageType
    <1> DEFINE m == Message(kind, codex'.turn[u].native, u)
    <1>0. CodexType
        BY DEF CodexInv
    <1>1. m \in MessageType /\ inbox' = Appended(inbox, m)
        BY MessageTyped DEF Tells, Emit
    <1> HIDE DEF m
    <1>2. \A i \in DOMAIN inbox' : inbox'[i].kind # "end"
        BY DEF Healthy
    <1>3. inbox' # <<End>>
        BY <1>2 DEF End
    <1>4. inbox' = Append(inbox, m)
        BY <1>0, <1>1, <1>2, <1>3, AppendedFacts
    <1>5. QED
        BY <1>1, <1>4 DEF m

\* A step after which nothing is lost: Codex answers or tells something, nothing
\* happens to it or to the inbox, or a message is read.
HealthyStep ==
    \/ CodexAnswers /\ inbox' = inbox
    \/ \E kind \in Kinds, u \in Turns :
          Tells(kind, u) /\ inbox' = Append(inbox, Message(kind, codex'.turn[u].native, u))
    \/ codex' = codex /\ inbox' = inbox
    \/ Handles

\* And nothing was lost before.
LEMMA HealthyBefore ==
    ASSUME CodexInv, [Next]_vars, Healthy'
    PROVE  Healthy /\ HealthyStep /\ ~HandleEnd
    <1>0. CodexType
        BY DEF CodexInv
    <1>1. worker.pc # "done"
        BY DoneIsLast DEF Healthy
    <1>2. \A i \in DOMAIN inbox' : inbox'[i].kind # "end"
        BY DEF Healthy
    <1>3. ~HandleEnd /\ ~HandleShutdown
      <2>1. [Idle EXCEPT !.pc = "done"].pc = "done"
        BY Records
      <2>2. QED
        BY <2>1 DEF HandleEnd, HandleShutdown, Stop, Healthy
    <1>4. ~ReaderEnds
      <2>1. SUFFICES ASSUME ReaderEnds PROVE FALSE
        OBVIOUS
      <2>2. End \in MessageType /\ End.kind = "end"
        BY DEF End, MessageType
      <2>3. inbox' = Appended(inbox, End)
        BY <2>1 DEF ReaderEnds
      <2>4. CASE inbox' = inbox /\ 1 \in DOMAIN inbox /\ inbox[1].kind = "end"
        BY <1>2, <2>4
      <2>5. CASE inbox' = <<End>>
        BY <1>2, <2>2, <2>5
      <2>6. CASE inbox' = Append(inbox, End)
        BY <1>0, <1>2, <2>2, <2>6, InboxAppend
      <2>7. QED
        BY <1>0, <2>2, <2>3, <2>4, <2>5, <2>6, AppendedFacts
    <1>5. HealthyStep
      <2>1. CASE CodexAnswers
        BY <2>1 DEF CodexAnswers, HealthyStep
      <2>2. ASSUME NEW kind \in Kinds, NEW u \in Turns, Tells(kind, u) PROVE HealthyStep
        BY <2>2, HealthyTells DEF HealthyStep
      <2>3. QED
        BY <1>3, <1>4, <2>1, <2>2, InboxSteps DEF HealthyStep, Handles
    <1>6. \A i \in DOMAIN inbox : inbox[i].kind # "end"
      <2>1. CASE inbox' = inbox
        BY <1>2, <2>1
      <2>2. ASSUME NEW kind \in Kinds, NEW u \in Turns, Tells(kind, u)
            PROVE  \A i \in DOMAIN inbox : inbox[i].kind # "end"
        BY <1>0, <1>2, <2>2, HealthyTells, InboxAppend
      <2>3. CASE Handles
        <3>1. /\ inbox # <<>> /\ inbox[1].kind # "end" /\ inbox' = Tail(inbox)
          BY <2>3, HandledFacts DEF Kinds
        <3>2. \A i \in DOMAIN inbox : i # 1 => i - 1 \in DOMAIN inbox' /\ inbox'[i - 1] = inbox[i]
          BY <1>0, <3>1, InboxTail
        <3>3. QED
          BY <1>2, <3>1, <3>2
      <2>4. QED
        BY <1>5, <2>1, <2>2, <2>3 DEF HealthyStep
    <1>7. QED
        BY <1>1, <1>3, <1>5, <1>6 DEF Healthy

\* Messages stay in the inbox until they are read, in their order.
LEMMA StaysInbox ==
    ASSUME CodexInv, [Next]_vars, Healthy', NEW i \in DOMAIN inbox
    PROVE  \/ ~Handles /\ i \in DOMAIN inbox' /\ inbox'[i] = inbox[i]
           \/ Handles /\ i = 1
           \/ /\ Handles /\ i # 1 /\ i \in Nat /\ i - 1 \in DOMAIN inbox'
              /\ inbox'[i - 1] = inbox[i]
    <1>0. CodexType /\ HealthyStep
        BY HealthyBefore DEF CodexInv
    <1>1. CASE Handles
      <2>1. inbox # <<>> /\ inbox' = Tail(inbox)
        BY <1>1, HandledFacts
      <2>2. QED
        BY <1>0, <1>1, <2>1, InboxTail
    <1>2. CASE ~Handles
      <2>1. CASE inbox' = inbox
        BY <1>2, <2>1
      <2>2. ASSUME NEW kind \in Kinds, NEW u \in Turns, Tells(kind, u)
            PROVE  i \in DOMAIN inbox' /\ inbox'[i] = inbox[i]
        BY <1>0, <2>2, HealthyTells, InboxAppend
      <2>3. QED
        BY <1>0, <1>2, <2>1, <2>2 DEF HealthyStep
    <1>3. QED
        BY <1>1, <1>2

\* Messages of the inbox were there, or are what Codex has just told.
LEMMA CameFrom ==
    ASSUME CodexInv, [Next]_vars, Healthy', NEW i \in DOMAIN inbox'
    PROVE  \/ ~Handles /\ i \in DOMAIN inbox /\ inbox'[i] = inbox[i]
           \/ Handles /\ i \in Nat /\ i + 1 \in DOMAIN inbox /\ inbox'[i] = inbox[i + 1]
           \/ /\ ~Handles /\ inbox'[i].kind \in Kinds /\ inbox'[i].turn \in Turns
              /\ Tells(inbox'[i].kind, inbox'[i].turn)
              /\ inbox'[i].native = codex'.turn[inbox'[i].turn].native
    <1>0. CodexType /\ HealthyStep
        BY HealthyBefore DEF CodexInv
    <1>1. CASE Handles
      <2>1. inbox # <<>> /\ inbox' = Tail(inbox)
        BY <1>1, HandledFacts
      <2>2. QED
        BY <1>0, <1>1, <2>1, InboxTail
    <1>2. CASE ~Handles
      <2>1. CASE inbox' = inbox
        BY <1>2, <2>1
      <2>2. ASSUME NEW kind \in Kinds, NEW u \in Turns, Tells(kind, u)
            PROVE  \/ i \in DOMAIN inbox /\ inbox'[i] = inbox[i]
                   \/ /\ inbox'[i].kind = kind /\ inbox'[i].turn = u
                      /\ inbox'[i].native = codex'.turn[u].native
        <3> DEFINE m == Message(kind, codex'.turn[u].native, u)
        <3>1. inbox' = Append(inbox, m) /\ m \in MessageType
          BY <2>2, HealthyTells
        <3>2. m.kind = kind /\ m.turn = u /\ m.native = codex'.turn[u].native
          BY DEF Message
        <3> HIDE DEF m
        <3>3. (i \in DOMAIN inbox /\ inbox'[i] = inbox[i]) \/ inbox'[i] = m
          BY <1>0, <3>1, InboxAppend
        <3>4. QED
          BY <3>2, <3>3
      <2>3. QED
        BY <1>0, <1>2, <2>1, <2>2 DEF HealthyStep
    <1>3. QED
        BY <1>1, <1>2

\* Codex tells when it announces a turn, and when it completes one of a native
\* thread that is still live.
LEMMA TellsChange ==
    ASSUME CodexInv, [Next]_vars, NEW u \in Turns
    PROVE  /\ Announced(u)' /\ ~Announced(u) => Tells("started", u)
           /\ Closed(u)' /\ ~Closed(u) /\ codex'.native[codex'.turn[u].native] = "live"
                => Tells("completed", u)
    <1> USE DEF Announced, Closed
    <1>0. CodexType /\ TurnsInOrder /\ Frames
        BY DEF CodexInv
    <1>t. /\ codex.native \in [Natives -> {"unused", "live", "gone"}]
          /\ codex.turn \in [Turns -> TurnType]
        BY <1>0 DEF CodexType, TrafficType
    <1>1. CASE codex' = codex
        BY <1>1
    <1>2. ASSUME NEW kind \in Kinds, NEW v \in Turns, Tells(kind, v)
          PROVE  /\ Announced(u)' /\ ~Announced(u) => Tells("started", u)
                 /\ Closed(u)' /\ ~Closed(u) => Tells("completed", u)
      <2>1. CASE u = v
        BY <1>2, <2>1 DEF Tells
      <2>2. CASE u # v
        BY <1>2, <2>2 DEF Tells
      <2>3. QED
        BY <2>1, <2>2
    <1>3. ASSUME NEW n \in Natives, AcceptsTurn(n)
          PROVE  codex'.turn[u] = codex.turn[u] \/ codex'.turn[u].state = "accepted"
      <2>1. NextTurn \in Turns
        BY <1>3, NextTurnIsLeast DEF AcceptsTurn, Unused
      <2>2. QED
        BY <1>0, <1>3, <2>1 DEF AcceptsTurn, CodexType, TrafficType
    <1>4. ASSUME NEW n \in Natives, AddsNative(n) PROVE codex'.turn[u] = codex.turn[u]
        BY <1>0, <1>4 DEF AddsNative, CodexType, TrafficType
    <1>5. ASSUME NEW n \in Natives, EndsNative(n)
          PROVE  \/ codex'.turn[u] = codex.turn[u]
                 \/ /\ codex'.turn[u].state = "over"
                    /\ codex'.native[codex'.turn[u].native] = "gone"
        BY <1>0, <1>5, NativeEnded
    <1>6. CASE (\E v \in Turns : CodexAnnounces(v) \/ CodexFails(v) \/ CodexCompletes(v))
               \/ (\E n \in Natives : CodexStarts(n))
        BY <1>0, <1>2, <1>6, CodexTells
    <1>7. CASE codex'.turn[u] = codex.turn[u]
        BY <1>7
    <1>8. QED
        BY <1>0, <1>1, <1>3, <1>4, <1>5, <1>6, <1>7, CodexChanges DEF CodexMoves

\* A turn with a native thread: it stays there, and a native thread that is live was
\* live.
LEMMA OwnedStays ==
    ASSUME CodexInv, [Next]_vars, NEW u \in Turns, codex.turn[u].state # "unused"
    PROVE  LET n == codex.turn[u].native
           IN /\ n \in Natives /\ codex'.turn[u].native = n /\ codex'.turn[u].state # "unused"
              /\ codex'.native[n] = "live" => codex.native[n] = "live"
    <1>0. CodexType /\ TurnsInOrder /\ Frames
        BY DEF CodexInv
    <1> DEFINE n == codex.turn[u].native
    <1>1. n \in Natives /\ codex.native[n] # "unused"
        BY <1>0 DEF TurnsInOrder, TurnIsOwned, CodexType, TrafficType, TurnType
    <1>2. /\ codex'.turn[u].native = n /\ codex'.turn[u].state # "unused"
          /\ codex'.native[n] = "live" => codex.native[n] \in {"live", "unused"}
        BY <1>0, <1>1, CodexChanges, CodexKeeps
    <1>3. QED
        BY <1>1, <1>2

\* What Codex has just told is in the inbox, after everything else.
LEMMA ToldIsLast ==
    ASSUME CodexInv, [Next]_vars, Healthy', NEW kind \in Kinds, NEW u \in Turns, Tells(kind, u)
    PROVE  \E j \in DOMAIN inbox' : /\ inbox'[j].kind = kind /\ inbox'[j].turn = u
                                    /\ \A i \in DOMAIN inbox : j > i
    <1> DEFINE m == Message(kind, codex'.turn[u].native, u)
               j == Len(inbox) + 1
    <1>0. CodexType
        BY DEF CodexInv
    <1>1. inbox' = Append(inbox, m) /\ m \in MessageType
        BY HealthyTells
    <1>2. m.kind = kind /\ m.turn = u
        BY DEF Message
    <1> HIDE DEF m
    <1>3. j \in DOMAIN inbox' /\ inbox'[j] = m /\ \A i \in DOMAIN inbox : i < j /\ i \in Nat
        BY <1>0, <1>1, InboxAppend
    <1>4. j \in Nat
        BY <1>0 DEF CodexType, TrafficType
    <1> HIDE DEF j
    <1>5. \A i \in DOMAIN inbox : j > i
        BY <1>3, <1>4
    <1>6. QED
        BY <1>2, <1>3, <1>5

\* The completion of a turn stays to be read until it is.
LEMMA ToCompleteStays ==
    ASSUME CodexInv, [Next]_vars, Healthy', NEW u \in Turns, codex.turn[u].state # "unused",
           ToComplete(u), ~(HandleCompleted /\ Head(inbox).turn = u)
    PROVE  ToComplete(u)'
    <1> USE DEF ToComplete
    <1>1. SUFFICES ASSUME codex'.native[codex'.turn[u].native] = "live", Closed(u)'
                   PROVE  In("completed", u)'
        OBVIOUS
    <1>2. CASE Closed(u)
      <2>1. codex.native[codex.turn[u].native] = "live"
        BY <1>1, OwnedStays
      <2>2. PICK i \in DOMAIN inbox : inbox[i].kind = "completed" /\ inbox[i].turn = u
        BY <1>2, <2>1 DEF In
      <2>3. ~(Handles /\ i = 1)
        <3>1. SUFFICES ASSUME Handles, i = 1 PROVE FALSE
          OBVIOUS
        <3>2. Head(inbox).kind = "completed" /\ Head(inbox).turn = u
          BY <2>2, <3>1, HandledFacts
        <3>3. HandleCompleted
          BY <3>1, <3>2 DEF Handles, HandleStarted, HandleError, Receives
        <3>4. QED
          BY <3>2, <3>3
      <2>4. \E j \in DOMAIN inbox' : inbox'[j] = inbox[i]
        BY <2>3, StaysInbox
      <2>5. QED
        BY <2>2, <2>4 DEF In
    <1>3. CASE ~Closed(u)
      <2>1. Tells("completed", u)
        BY <1>1, <1>3, TellsChange
      <2>2. QED
        BY <2>1, ToldIsLast DEF In, Kinds
    <1>4. QED
        BY <1>2, <1>3

\* What becomes of the turn a thread's mapper entry names.
LEMMA MapperSteps ==
    ASSUME CodexInv, [Next]_vars, NEW t \in Threads
    PROVE  \/ mapper'[t] = mapper[t]
           \/ HandleStarted /\ t = Routed(Head(inbox).native) /\ mapper'[t] = Head(inbox).turn
           \/ /\ HandleCompleted /\ t = Routed(Head(inbox).native) /\ mapper'[t] = None
              /\ mapper[t] = Head(inbox).turn
           \/ /\ CleanedUp /\ worker.thread = t /\ mapper'[t] = None /\ codex' = codex
              /\ worker.forced \/ mapper[t] = worker.turn
           \/ HandleEnd /\ mapper'[t] = None
           \/ \E k \in Calls : /\ TurnStarted(k) /\ t = call[k].thread
                               /\ mapper'[t] = rpc[k].value
    <1>0. mapper \in [Threads -> Turns \cup {None}]
        BY DEF CodexInv, CodexType, ServedType
    <1>1. CASE UNCHANGED own \/ HandleError \/ ClaimNativeThread
               \/ \E k \in Calls : ThreadOpened(k) \/ ThreadDeleted(k)
        BY <1>1 DEF own, HandleError, ClaimNativeThread, ThreadOpened, ThreadDeleted
    <1>2. CASE HandleStarted
        BY <1>0, <1>2 DEF HandleStarted
    <1>3. CASE HandleCompleted
        BY <1>0, <1>3 DEF HandleCompleted
    <1>4. CASE CleanedUp
        BY <1>0, <1>4 DEF CleanedUp, traffic
    <1>5. CASE HandleEnd
        BY <1>5 DEF HandleEnd
    <1>6. ASSUME NEW k \in Calls, TurnStarted(k)
          PROVE  mapper'[t] = mapper[t] \/ (t = call[k].thread /\ mapper'[t] = rpc[k].value)
        BY <1>6, StartedFacts
    <1>7. QED
        BY <1>1, <1>2, <1>3, <1>4, <1>5, <1>6, OwnSteps

\* A thread keeps a native thread that is not given up.
LEMMA BindingStays ==
    ASSUME CodexInv, [Next]_vars, NEW t \in Threads, NEW n \in Natives, byThread[t] = n,
           n \notin givenUp'
    PROVE  routes[n] = t /\ routes'[n] = t /\ byThread'[t] = n
    <1>1. Bound /\ Bound' /\ Keeps
        BY ServedKept DEF CodexInv
    <1>2. routes[n] = t
        BY <1>1 DEF Bound, RoutesMirror
    <1>3. routes'[n] = t
        BY <1>1, <1>2, Constants DEF Keeps
    <1>4. QED
        BY <1>1, <1>2, <1>3 DEF Bound, RoutesMirror

\* The worker will hear of what Codex has done.
LEMMA HeardKept ==
    ASSUME CodexInv, [Next]_vars
    PROVE  Heard'
    <1>0. /\ CodexType /\ Bound /\ Messages /\ TurnsInOrder /\ Heard /\ AcceptedIsNew /\ ServedType'
        BY ServedKept DEF CodexInv
    <1>t. /\ mapper \in [Threads -> Turns \cup {None}] /\ None \notin Turns /\ None \notin Natives
          /\ byThread \in [Threads -> Natives \cup {None}]
          /\ None \notin Threads /\ givenUp \subseteq Threads \cup Natives \cup Turns
          /\ None \notin givenUp
        BY <1>0, Constants DEF CodexType, ServedType
    <1>1. SUFFICES ASSUME Healthy'
                   PROVE  /\ \A i \in DOMAIN inbox' :
                               inbox'[i].kind = "started" /\ Closed(inbox[i].turn)'
                                 /\ codex'.native[inbox'[i].native] = "live" =>
                               \E j \in DOMAIN inbox' : j > i /\ inbox'[j].kind = "completed"
                                                        /\ inbox'[j].turn = inbox'[i].turn
                          /\ \A k \in Calls : Accepted(k)' => ToComplete(rpc[k].value)'
                          /\ \A t \in Threads : mapper'[t] # None =>
                               \/ codex'.turn[mapper'[t]].native \in givenUp'
                               \/ /\ codex'.turn[mapper'[t]].native = byThread'[t]
                                  /\ ToComplete(mapper[t])'
        BY DEF Heard
    <1>h. Healthy /\ ~HandleEnd
        BY <1>1, HealthyBefore
    <1>c. ASSUME NEW v \in Turns, ~Closed(v), codex'.turn[v].state \in {"over", "broken"},
                 codex'.native[codex'.turn[v].native] = "live"
          PROVE  Tells("completed", v) /\ ~Handles
      <2>1. Closed(v)'
        BY <1>c DEF Closed
      <2>2. ~Handles
        BY <1>c, HandledFacts DEF Closed
      <2>3. QED
        BY <1>c, <2>1, <2>2, TellsChange
    <1>2. ASSUME NEW i \in DOMAIN inbox', inbox'[i].kind = "started", Closed(inbox[i].turn)',
                 codex'.native[inbox'[i].native] = "live"
          PROVE  \E j \in DOMAIN inbox' : j > i /\ inbox'[j].kind = "completed"
                                          /\ inbox'[j].turn = inbox'[i].turn
      <2> DEFINE u == inbox'[i].turn
      <2>0. codex'.turn[u].state \in {"over", "broken"}
        BY <1>2 DEF Closed
      <2>1. CASE Tells(inbox'[i].kind, inbox'[i].turn)
        BY <1>2, <2>0, <2>1 DEF Tells
      <2>2. ASSUME NEW h \in DOMAIN inbox, inbox'[i] = inbox[h],
                   \/ ~Handles /\ h = i
                   \/ Handles /\ i \in Nat /\ h = i + 1
            PROVE  \E j \in DOMAIN inbox' : j > i /\ inbox'[j].kind = "completed"
                                            /\ inbox'[j].turn = u
        <3>1. /\ inbox[h].kind = "started" /\ u = inbox[h].turn /\ u \in Turns
              /\ codex.turn[u].native = inbox[h].native /\ codex.turn[u].state # "unused"
          BY <1>0, <1>2, <2>2 DEF Messages, Started
        <3>2. codex.native[inbox[h].native] = "live" /\ codex'.turn[u].native = inbox[h].native
          BY <1>2, <2>2, <3>1, OwnedStays
        <3> HIDE DEF u
        <3>3. CASE Closed(u)
          <4>1. PICK j \in DOMAIN inbox : j > h /\ inbox[j].kind = "completed" /\ inbox[j].turn = u
            BY <1>0, <1>h, <3>1, <3>2, <3>3 DEF Heard
          <4>2. j \in Nat /\ h \in Nat /\ h >= 1
            BY <1>0 DEF CodexType, TrafficType
          <4>3. CASE ~Handles
            BY <1>1, <2>2, <4>1, <4>3, StaysInbox
          <4>4. CASE Handles
            <5>1. h = i + 1 /\ i \in Nat /\ j # 1
              BY <2>2, <4>1, <4>2, <4>4
            <5>2. j - 1 \in DOMAIN inbox' /\ inbox'[j - 1] = inbox[j]
              BY <1>1, <4>4, <5>1, StaysInbox
            <5>3. j - 1 > i
              BY <4>1, <4>2, <5>1
            <5>4. QED
              BY <4>1, <5>2, <5>3
          <4>5. QED
            BY <4>3, <4>4
        <3>4. CASE ~Closed(u)
          <4>1. codex'.native[codex'.turn[u].native] = "live"
            BY <1>2, <2>2, <3>2
          <4>2. Tells("completed", u) /\ ~Handles
            BY <1>c, <2>0, <3>1, <3>4, <4>1
          <4>3. PICK j \in DOMAIN inbox' : /\ inbox'[j].kind = "completed" /\ inbox'[j].turn = u
                                           /\ \A g \in DOMAIN inbox : j > g
            BY <1>1, <3>1, <4>2, ToldIsLast DEF Kinds
          <4>4. QED
            BY <2>2, <4>2, <4>3
        <3>5. QED
          BY <3>3, <3>4
      <2>3. QED
        BY <1>1, <2>1, <2>2, CameFrom
    <1>3. ASSUME NEW k \in Calls, Accepted(k)' PROVE ToComplete(rpc[k].value)'
      <2>1. worker.pc = "rpc"
        BY <1>3, AcceptedSteps
      <2>2. CASE rpc'[k] = rpc[k] /\ Accepted(k)
        <3> DEFINE u == rpc[k].value
        <3>1. u \in Turns /\ codex.turn[u].state # "unused" /\ ToComplete(u)
          BY <1>0, <1>h, <2>2 DEF AcceptedIsNew, Heard
        <3>2. ~HandleCompleted
          BY <2>1 DEF HandleCompleted, Receives, Polling
        <3>3. ASSUME NEW v \in Turns, v = rpc'[k].value, ToComplete(v)' PROVE ToComplete(rpc[k].value)'
          BY <3>3 DEF ToComplete, Closed, In
        <3>4. ASSUME NEW v \in Turns, v = rpc[k].value PROVE ToComplete(v)'
          BY <1>1, <3>1, <3>2, <3>4, ToCompleteStays
        <3>5. QED
          BY <2>2, <3>1, <3>3, <3>4
      <2>3. CASE /\ Unused # {} /\ rpc'[k].value = NextTurn
                 /\ codex' = WithTurn(call[k].native, "accepted")
        <3>1. codex'.turn[rpc'[k].value].state = "accepted"
          BY <1>0, <2>3, AcceptedNow
        <3>2. QED
          BY <3>1 DEF ToComplete, Closed
      <2>4. QED
        BY <1>3, <2>2, <2>3, AcceptedSteps
    <1>4. ASSUME NEW t \in Threads, mapper'[t] # None
          PROVE  \/ codex'.turn[mapper'[t]].native \in givenUp'
                 \/ /\ codex'.turn[mapper'[t]].native = byThread'[t]
                    /\ ToComplete(mapper[t])'
      <2> SUFFICES ASSUME NEW w \in Turns, w = mapper'[t]
                   PROVE  \/ codex'.turn[w].native \in givenUp'
                          \/ codex'.turn[w].native = byThread'[t] /\ ToComplete(w)'
        <3>1. mapper'[t] \in Turns
          BY <1>0, <1>4 DEF ServedType
        <3>2. ASSUME NEW w \in Turns, w = mapper'[t], ToComplete(w)' PROVE ToComplete(mapper[t])'
          BY <3>2 DEF ToComplete, Closed, In
        <3>3. QED
          BY <3>1, <3>2
      <2>1. CASE mapper'[t] = mapper[t]
        <3>1. \/ codex.turn[w].native \in givenUp
              \/ codex.turn[w].native = byThread[t] /\ ToComplete(w)
          BY <1>0, <1>h, <1>4, <2>1 DEF Heard
        <3>2. byThread[t] # None
          BY <1>0, <1>4, <2>1 DEF Bound
        <3>3. codex.turn[w].state # "unused"
          BY <1>0, <1>t, <3>1, <3>2 DEF TurnsInOrder, TurnIsOwned
        <3> DEFINE n == codex.turn[w].native
        <3>4. n \in Natives /\ codex'.turn[w].native = n
          BY <3>3, OwnedStays
        <3> HIDE DEF n
        <3>5. CASE n \in givenUp'
          BY <3>4, <3>5
        <3>6. CASE n \notin givenUp'
          <4>1. givenUp \subseteq givenUp'
            BY ServedKept DEF Keeps
          <4>2. byThread[t] = n /\ ToComplete(w)
            BY <3>1, <3>6, <4>1 DEF n
          <4>3. byThread'[t] = n /\ routes[n] = t
            BY <3>4, <3>6, <4>2, BindingStays
          <4>4. ~(HandleCompleted /\ Head(inbox).turn = w)
            <5>1. SUFFICES ASSUME HandleCompleted, Head(inbox).turn = w PROVE FALSE
              OBVIOUS
            <5>2. Head(inbox).native = n
              BY <5>1, HandledFacts DEF Handles, n
            <5>3. Routed(Head(inbox).native) = t
              BY <1>t, <4>3, <5>2 DEF Routed
            <5>4. mapper' = [mapper EXCEPT ![t] = IF @ = w THEN None ELSE @]
              BY <5>1, <5>3 DEF HandleCompleted
            <5>5. QED
              BY <1>t, <1>4, <2>1, <5>4
          <4>5. ToComplete(w)'
            BY <1>1, <3>3, <4>2, <4>4, ToCompleteStays
          <4>6. QED
            BY <3>4, <4>3, <4>5
        <3>7. QED
          BY <3>5, <3>6
      <2>2. CASE HandleStarted /\ t = Routed(Head(inbox).native) /\ mapper'[t] = Head(inbox).turn
        <3> DEFINE m == Head(inbox)
        <3>0. Handles /\ m.kind = "started"
          BY <2>2 DEF Handles, HandleStarted, Receives
        <3>1. /\ m = inbox[1] /\ 1 \in DOMAIN inbox /\ w = m.turn
              /\ codex.turn[w].native = m.native /\ Joins(m.native, t) /\ codex' = codex
          BY <2>2, <3>0, HandledFacts
        <3>2. codex'.turn[w].native = byThread'[t]
          BY <3>1 DEF Joins
        <3>3. ToComplete(w)'
          <4>1. SUFFICES ASSUME codex.native[codex.turn[w].native] = "live", Closed(w)
                         PROVE  In("completed", w)'
            BY <3>1 DEF ToComplete, Closed
          <4>2. PICK j \in DOMAIN inbox : j > 1 /\ inbox[j].kind = "completed" /\ inbox[j].turn = w
            BY <1>0, <1>h, <3>0, <3>1, <4>1 DEF Heard
          <4>3. j # 1
            BY <1>0, <4>2 DEF CodexType, TrafficType
          <4>4. j - 1 \in DOMAIN inbox' /\ inbox'[j - 1] = inbox[j]
            BY <1>1, <3>0, <4>3, StaysInbox
          <4>5. QED
            BY <4>2, <4>4 DEF In
        <3>4. QED
          BY <3>2, <3>3
      <2>3. ASSUME NEW k \in Calls, TurnStarted(k), t = call[k].thread, mapper'[t] = rpc[k].value
            PROVE  codex'.turn[w].native = byThread'[t] /\ ToComplete(w)'
        <3>1. /\ codex.turn[w].native = byThread[t] /\ byThread' = byThread /\ Accepted(k)
              /\ codex' = codex /\ inbox' = inbox
          BY <2>3, StartedFacts DEF traffic
        <3>2. ToComplete(w)
          BY <1>0, <1>h, <2>3, <3>1 DEF Heard
        <3>3. QED
          BY <3>1, <3>2 DEF ToComplete, Closed, In
      <2>4. QED
        BY <1>h, <1>4, <2>1, <2>2, <2>3, MapperSteps
    <1>5. QED
        BY <1>2, <1>3, <1>4

\* The mapper keeps a turn for an announced one: the step that would take it away
\* completes an earlier turn, or there was trouble.
LEMMA CoversStays ==
    ASSUME CodexInv, [Next]_vars, Healthy', NEW v \in Turns, Announced(v), Announced(v)',
           ~In("started", v), codex.turn[v].native \notin givenUp'
    PROVE  routes'[codex.turn[v].native] # None /\ Covers(v)'
    <1> DEFINE n == codex.turn[v].native
               t == routes[n]
               w == mapper[t]
    <1>0. /\ CodexType /\ Bound /\ Messages /\ TurnsInOrder /\ TurnsInOrder' /\ Covered /\ CleansUp
          /\ Frames /\ ServedType' /\ Keeps
          /\ codex' = codex \/ CodexMoves
      <2>1. /\ CodexType /\ Bound /\ Messages /\ TurnsInOrder /\ Covered /\ CleansUp /\ Frames
        BY DEF CodexInv
      <2>2. codex' = codex \/ CodexMoves
        BY <2>1, CodexChanges
      <2>3. QED
        BY <2>1, <2>2, OrderKept, ServedKept
    <1>t. /\ mapper \in [Threads -> Turns \cup {None}] /\ None \notin Turns /\ None \notin Threads
          /\ routes \in [Natives -> Threads \cup {None}] /\ Turns \subseteq Nat
        BY <1>0, Constants DEF CodexType, ServedType
    <1>h. Healthy /\ ~HandleEnd
        BY HealthyBefore
    <1>1. /\ n \in Natives /\ codex'.turn[v].native = n
        BY OwnedStays DEF Announced
    <1>2. codex'.native[n] = "live" /\ codex.native[n] = "live"
        BY <1>0, <1>1, OwnedStays DEF TurnsInOrder, TurnIsOwned, Live, Announced
    <1>3. n \notin givenUp
        BY <1>0 DEF Keeps
    <1>4. t \in Threads /\ Covers(v)
        BY <1>0, <1>t, <1>h, <1>1, <1>3 DEF Covered
    <1>5. byThread[t] = n
        BY <1>0, <1>1, <1>4 DEF Bound, RoutesMirror
    <1>6. routes'[n] = t
        BY <1>1, <1>4, <1>5, BindingStays
    <1>c. SUFFICES \/ \E x \in Turns : /\ codex'.turn[x].native = n
                                       /\ codex'.turn[x].state \in {"failed", "broken"}
                   \/ /\ mapper'[t] # None /\ codex'.turn[mapper'[t]].native = n
                      /\ mapper'[t] >= v
        BY <1>t, <1>1, <1>4, <1>6 DEF Covers, Trouble
    <1>7. CASE Trouble(n)
      <2>1. PICK x \in Turns : /\ codex.turn[x].native = n
                               /\ codex.turn[x].state \in {"failed", "broken"}
        BY <1>7 DEF Trouble
      <2>2. /\ codex'.turn[x].native = n
            /\ codex'.turn[x].state \in {"failed", "broken"} \/ codex'.native[n] = "gone"
        BY <1>0, <2>1, CodexKeeps
      <2>3. QED
        BY <1>2, <2>2
    <1>8. CASE w # None /\ codex.turn[w].native = n /\ w >= v
      <2>1. w \in Turns
        BY <1>t, <1>4, <1>8
      <2>2. codex.turn[w].state # "unused"
        BY <1>0, <1>1, <1>8, <2>1, Constants DEF TurnsInOrder, TurnIsOwned
      <2>3. codex'.turn[w].native = n
        BY <1>8, <2>1, <2>2, OwnedStays
      <2>r. ASSUME NEW m \in Natives, Routed(m) = t PROVE m = n
        <3>1. CASE routes[m] = None
          BY <1>0, <1>1, <1>5, <2>r, <3>1, NewThreadIsFresh, Constants DEF Routed
        <3>2. CASE routes[m] # None
          BY <1>0, <1>4, <1>5, <2>r, <3>2 DEF Routed, Bound, RoutesMirror
        <3>3. QED
          BY <3>1, <3>2
      <2> HIDE DEF t, n, w
      <2>4. CASE mapper'[t] = mapper[t]
        BY <1>8, <2>3, <2>4 DEF w
      <2>5. CASE HandleStarted /\ t = Routed(Head(inbox).native) /\ mapper'[t] = Head(inbox).turn
        <3> DEFINE m == Head(inbox)
        <3>1. /\ m = inbox[1] /\ 1 \in DOMAIN inbox /\ m.native \in Natives /\ m.turn \in Turns
              /\ codex.turn[m.turn].native = m.native /\ codex' = codex /\ m.kind = "started"
          BY <2>5, HandledFacts DEF Handles, HandleStarted, Receives
        <3>2. m.native = n
          BY <2>5, <2>r, <3>1
        <3>3. v < m.turn
          BY <1>0, <1>h, <3>1, <3>2 DEF Covered, n
        <3> HIDE DEF m
        <3>4. mapper'[t] = m.turn /\ m.turn >= v /\ m.turn # None
          BY <1>t, <2>5, <3>1, <3>3 DEF m
        <3>5. QED
          BY <3>1, <3>2, <3>4
      <2>6. CASE /\ HandleCompleted /\ t = Routed(Head(inbox).native)
                 /\ mapper[t] = Head(inbox).turn
        <3>1. /\ Head(inbox) = inbox[1] /\ 1 \in DOMAIN inbox /\ Head(inbox).kind = "completed"
              /\ w = Head(inbox).turn
          BY <2>6, HandledFacts DEF Handles, HandleCompleted, Receives, w
        <3>2. Closed(w)
          BY <1>0, <3>1 DEF Messages
        <3>3. w < v
          BY <1>0, <1>2, <1>8, <2>1, <3>2 DEF TurnsInOrder, InOrder, Live, Announced, n
        <3>4. QED
          BY <1>t, <1>8, <2>1, <3>3
      <2>7. CASE /\ CleanedUp /\ worker.thread = t /\ codex' = codex
                 /\ worker.forced \/ mapper[t] = worker.turn
        <3> DEFINE u == worker.turn
        <3>1. /\ u \in Turns
              /\ IF worker.forced
                 THEN /\ byThread[t] = codex.turn[u].native
                      /\ \/ codex.turn[u].state \in {"failed", "broken"}
                         \/ codex.native[codex.turn[u].native] = "gone"
                 ELSE mapper[t] # u
          BY <1>0, <2>7 DEF CleansUp, CleanedUp
        <3>2. codex.turn[u].native = n /\ codex.turn[u].state \in {"failed", "broken"}
          BY <1>2, <1>5, <2>7, <3>1
        <3>3. QED
          BY <2>7, <3>1, <3>2
      <2>8. ASSUME NEW k \in Calls, TurnStarted(k), t = call[k].thread, mapper'[t] = rpc[k].value
            PROVE  mapper'[t] # None /\ codex'.turn[mapper'[t]].native = n /\ mapper'[t] >= v
        <3> DEFINE u == rpc[k].value
        <3>1. /\ u \in Turns /\ codex.turn[u].native = byThread[t] /\ Accepted(k) /\ codex' = codex
          BY <2>8, StartedFacts DEF traffic
        <3>2. call[k].native = n
          BY <1>5, <3>1 DEF CodexInv, AcceptedIsNew
        <3>3. v <= u
          BY <1>0, <1>h, <3>1, <3>2 DEF Covered, n
        <3>4. QED
          BY <1>t, <1>5, <2>8, <3>1, <3>3
      <2>9. QED
        BY <1>h, <1>4, <2>4, <2>5, <2>6, <2>7, <2>8, MapperSteps DEF t
    <1>9. QED
        BY <1>4, <1>7, <1>8 DEF Covers

\* An announced turn whose announcement was read is covered.
LEMMA CoveredKept ==
    ASSUME CodexInv, [Next]_vars
    PROVE  Covered'
    <1>0. CodexType /\ Bound /\ Messages /\ TurnsInOrder /\ Covered
        BY DEF CodexInv
    <1>t. Turns \subseteq Nat /\ None \notin Turns /\ None \notin Threads
        BY Constants
    <1>1. SUFFICES ASSUME Healthy', NEW v \in Turns, Announced(v)', ~In("started", v)'
                   PROVE  LET n == codex'.turn[v].native
                          IN /\ n \notin givenUp' => routes'[n] # None /\ Covers(v)'
                             /\ \A i \in DOMAIN inbox' :
                                  inbox'[i].kind = "started" /\ inbox'[i].native = n
                                      => v < inbox'[i].turn
                             /\ \A k \in Calls : Accepted(k)' /\ call'[k].native = n
                                      => v <= rpc'[k].value
        BY DEF Covered
    <1>h. Healthy
        BY <1>1, HealthyBefore
    <1>2. Announced(v)
      <2>1. SUFFICES ASSUME ~Announced(v) PROVE FALSE
        OBVIOUS
      <2>2. Tells("started", v)
        BY <1>1, <2>1, TellsChange
      <2>3. QED
        BY <1>1, <2>2, ToldIsLast DEF In, Kinds
    <1> DEFINE n == codex.turn[v].native
    <1>3. /\ n \in Natives /\ codex'.turn[v].native = n
          /\ codex.turn[v].state \notin {"unused", "accepted"}
        BY <1>2, OwnedStays DEF Announced
    <1>4. CASE ~In("started", v)
      <2>1. /\ \A i \in DOMAIN inbox : inbox[i].kind = "started" /\ inbox[i].native = n
                                           => v < inbox[i].turn
            /\ \A k \in Calls : Accepted(k) /\ call[k].native = n => v <= rpc[k].value
        BY <1>0, <1>h, <1>2, <1>4 DEF Covered
      <2>2. n \notin givenUp' => routes'[n] # None /\ Covers(v)'
        BY <1>1, <1>2, <1>4, CoversStays
      <2> HIDE DEF n
      <2>3. ASSUME NEW i \in DOMAIN inbox', inbox'[i].kind = "started", inbox'[i].native = n
            PROVE  v < inbox'[i].turn
        <3>1. CASE \E h \in DOMAIN inbox : inbox'[i] = inbox[h]
          BY <2>1, <2>3, <3>1
        <3>2. CASE /\ Tells("started", inbox'[i].turn)
                   /\ inbox'[i].native = codex'.turn[inbox'[i].turn].native
          <4>1. Started(v) /\ codex.turn[v].native = n
            BY <1>3 DEF Started, n
          <4>2. QED
            BY <2>3, <3>2, <4>1 DEF Tells
        <3>3. QED
          BY <1>1, <2>3, <3>1, <3>2, CameFrom
      <2>4. ASSUME NEW k \in Calls, Accepted(k)', call'[k].native = n PROVE v <= rpc'[k].value
        <3>1. call'[k] = call[k]
          BY <2>4, AcceptedSteps
        <3>2. CASE rpc'[k] = rpc[k] /\ Accepted(k)
          BY <2>1, <2>4, <3>1, <3>2
        <3>3. CASE /\ Unused # {} /\ rpc'[k].value = NextTurn
          <4>1. NextTurn \in Turns /\ codex.turn[NextTurn].state = "unused"
            BY <3>3, NextTurnIsLeast DEF Unused
          <4>2. v < NextTurn
            BY <1>0, <1>3, <4>1 DEF TurnsInOrder, InOrder
          <4>3. QED
            BY <1>t, <3>3, <4>1, <4>2
        <3>4. QED
          BY <2>4, <3>2, <3>3, AcceptedSteps
      <2>5. QED
        BY <1>3, <2>2, <2>3, <2>4
    <1>5. CASE In("started", v)
      <2>1. PICK i \in DOMAIN inbox : inbox[i].kind = "started" /\ inbox[i].turn = v
        BY <1>5 DEF In
      <2>2. Handles /\ i = 1
        <3>1. ~ \E j \in DOMAIN inbox' : inbox'[j] = inbox[i]
          BY <1>1, <2>1 DEF In
        <3>2. QED
          BY <1>1, <3>1, StaysInbox
      <2> DEFINE m == Head(inbox)
      <2>3. /\ m = inbox[1] /\ 1 \in DOMAIN inbox /\ m.kind = "started" /\ m.turn = v
            /\ m.native = n /\ codex' = codex /\ Joins(n, Routed(n)) /\ worker.pc = "idle"
            /\ Routed(n) \in Threads
        BY <2>1, <2>2, HandledFacts
      <2>4. HandleStarted
        BY <2>2, <2>3 DEF Handles, HandleCompleted, HandleError, Receives
      <2>5. routes'[n] = Routed(n) /\ mapper'[Routed(n)] = v
        BY <1>0, <2>3, <2>4 DEF Joins, HandleStarted, CodexType, ServedType
      <2>6. routes'[n] # None /\ Covers(v)'
        <3>1. v # None /\ v >= v /\ routes'[n] # None
          BY <1>t, <2>3, <2>5
        <3>2. QED
          BY <1>3, <2>5, <3>1 DEF Covers
      <2> HIDE DEF m
      <2>7. ASSUME NEW j \in DOMAIN inbox', inbox'[j].kind = "started", inbox'[j].native = n
            PROVE  v < inbox'[j].turn
        <3>1. j \in Nat /\ j + 1 \in DOMAIN inbox /\ inbox'[j] = inbox[j + 1]
          BY <1>1, <2>2, CameFrom
        <3>2. 1 < j + 1
          <4>1. inbox' = Tail(inbox) /\ inbox # <<>>
            BY <2>2, HandledFacts
          <4>2. j >= 1
            BY <1>0, <3>1, <4>1 DEF CodexType, TrafficType
          <4>3. QED
            BY <3>1, <4>2
        <3>3. QED
          BY <1>0, <2>3, <2>7, <3>1, <3>2 DEF Messages
      <2>8. ASSUME NEW k \in Calls, Accepted(k)' PROVE FALSE
        BY <2>3, <2>8, AcceptedSteps
      <2>9. QED
        BY <1>3, <2>6, <2>7, <2>8
    <1>6. QED
        BY <1>4, <1>5

-----------------------------------------------------------------------------
(* The theorem *)

\* The invariant holds when the worker starts, with the bootstrapped thread bound.
LEMMA InvariantStarts == Init => CodexInv
    <1> SUFFICES ASSUME Init PROVE CodexInv
        OBVIOUS
    <1>0. /\ routes = [n \in Natives |-> IF n = Base THEN Root ELSE None]
          /\ byThread = [t \in Threads |-> IF t = Root THEN Base ELSE None]
          /\ logs = [t \in Threads |-> [state |-> IF t = Root THEN "open" ELSE "none", events |-> {}]]
          /\ mapper = [t \in Threads |-> None] /\ active = [t \in Threads |-> None]
          /\ worker = Idle
          /\ call = [k \in Calls |-> NoCall] /\ rpc = [k \in Calls |-> NoRpc]
          /\ queues = [commands |-> <<>>, controls |-> <<>>]
          /\ pipe = <<>> /\ inbox = <<>>
          /\ codex = [native |-> [n \in Natives |-> IF n = Base THEN "live" ELSE "unused"],
                      turn |-> [u \in Turns |-> [native |-> None, state |-> "unused"]]]
          /\ stored = byThread
          /\ acked = [u \in Turns |-> None] /\ givenUp = {}
        BY DEF Init
    <1>c. /\ Root \in Threads /\ Base \in Natives
          /\ None \notin Threads /\ None \notin Natives /\ None \notin Turns
          /\ InboxLimit \in Nat \ {0}
        BY Constants
    <1>k. /\ NoCall \in CallType /\ NoCall.pc = "idle" /\ NoCall.op = "none"
          /\ NoRpc \in RpcType /\ NoRpc.state = "none" /\ Idle \in WorkerType /\ Idle.pc = "idle"
        BY Records DEF NoCall, CallType
    <1>s. codex.native = [n \in Natives |-> IF n = Base THEN "live" ELSE "unused"]
          /\ \A u \in Turns : codex.turn[u].native = None /\ codex.turn[u].state = "unused"
        BY <1>0
    <1>1. CodexType
      <2>1. ServedType
        <3>1. ASSUME NEW t \in Threads
              PROVE  [state |-> IF t = Root THEN "open" ELSE "none", events |-> {}]
                        \in [state : {"none", "open", "removed"},
                             events : SUBSET (Turns \X {"started", "completed"})]
          OBVIOUS
        <3>2. QED
          BY <1>0, <1>c, <3>1 DEF ServedType
      <2>2. CallsType
        BY <1>0, <1>k DEF CallsType
      <2>3. TrafficType
        <3>1. [native |-> None, state |-> "unused"] \in TurnType
          BY DEF TurnType, TurnStates
        <3>2. codex \in [native : [Natives -> {"unused", "live", "gone"}], turn : [Turns -> TurnType]]
          BY <1>0, <3>1
        <3>3. pipe \in Seq(FrameType) /\ inbox \in Seq(MessageType) /\ Len(inbox) <= InboxLimit
          BY <1>0, <1>c
        <3>4. QED
          BY <3>2, <3>3 DEF TrafficType
      <2>4. QED
        BY <2>1, <2>2, <2>3 DEF CodexType
    <1>2. Bound
        BY <1>0, <1>c DEF Bound, RoutesMirror
    <1>3. CallsHold /\ QueuedOnce /\ FirstCome /\ Waits /\ Frames
      <2>1. queues.commands = <<>> /\ queues.controls = <<>>
        BY <1>0
      <2>2. CallsHold /\ Waits /\ Frames
        BY <1>0, <1>k DEF CallsHold, Waits, Frames, Commands
      <2>3. QueuedOnce /\ FirstCome
        BY <1>0, <1>k, <2>1 DEF QueuedOnce, FirstCome
      <2>4. QED
        BY <2>2, <2>3
    <1>4. TurnsInOrder
        BY <1>s DEF TurnsInOrder, TurnIsOwned, InOrder, Live, Started, Closed
    <1>5. Messages /\ Belongs /\ AcceptedIsNew /\ CleansUp /\ AckedTurnIsTracked
        BY <1>0, <1>c, <1>k DEF Messages, Belongs, AcceptedIsNew, Accepted, CleansUp,
            AckedTurnIsTracked, Commands
    <1>6. Heard /\ Covered
        BY <1>0, <1>s, <1>k DEF Heard, Covered, Accepted, Announced
    <1>7. QED
        BY <1>1, <1>2, <1>3, <1>4, <1>5, <1>6 DEF CodexInv

\* Every step keeps it.
LEMMA InvariantKept == CodexInv /\ [Next]_vars => CodexInv'
    <1> SUFFICES ASSUME CodexInv, [Next]_vars PROVE CodexInv'
        OBVIOUS
    <1>1. ServedType' /\ Bound'
        BY ServedKept
    <1>2. CallsType' /\ Waits'
        BY CallingKept DEF Calling
    <1>3. TrafficType'
        BY TrafficKept
    <1>4. TurnsInOrder'
        BY CodexChanges, OrderKept DEF CodexInv
    <1>5. /\ CallsHold' /\ QueuedOnce' /\ FirstCome' /\ Frames' /\ Messages' /\ Belongs'
          /\ AcceptedIsNew' /\ CleansUp' /\ AckedTurnIsTracked'
        BY CallsHoldKept, QueuedKept, FirstComeKept, FramesKept, MessagesKept, BelongsKept,
           AcceptedKept, CleansUpKept, TrackedKept
    <1>6. Heard' /\ Covered'
        BY HeardKept, CoveredKept
    <1>7. QED
        BY <1>1, <1>2, <1>3, <1>4, <1>5, <1>6 DEF CodexInv, CodexType

\* An event of a turn, and its acknowledgement, name the one thread of its native
\* thread.
LEMMA OneLog == CodexInv => TurnHasOneLog
    <1> SUFFICES ASSUME CodexInv, NEW u \in Turns, codex.turn[u].native \notin givenUp,
                        NEW s \in Threads, NEW t \in Threads
                 PROVE  /\ Shown(s, u) /\ Shown(t, u) => s = t
                        /\ acked[u] = s /\ Shown(t, u) => s = t
        BY DEF TurnHasOneLog
    <1>0. Belongs
        BY DEF CodexInv
    <1>1. ASSUME NEW r \in Threads, Shown(r, u) PROVE routes[codex.turn[u].native] = r
        BY <1>0, <1>1 DEF Shown, Belongs, Known
    <1>2. acked[u] = s => routes[codex.turn[u].native] = s
        BY <1>0, Constants DEF Belongs, Known
    <1>3. QED
        BY <1>1, <1>2

\* When everything is read, the mapper is current.
LEMMA AllRead == CodexInv => MapperIsCurrent
    <1> SUFFICES ASSUME CodexInv, worker.pc = "idle", inbox = <<>>, NEW n \in Natives,
                        n \notin givenUp, routes[n] # None, codex.native[n] = "live"
                 PROVE  LET u == mapper[routes[n]]
                            mine == {v \in Turns : codex.turn[v].native = n}
                        IN /\ u # None => \/ u \in mine /\ Live(u)
                                          \/ codex.turn[u].native \in givenUp
                           /\ u = None => \/ \A v \in mine : ~Announced(v)
                                          \/ \E v \in mine : codex.turn[v].state \in {"failed", "broken"}
        BY DEF MapperIsCurrent
    <1> DEFINE t == routes[n]
               u == mapper[t]
    <1>0. CodexType /\ Bound /\ Heard /\ Covered /\ TurnsInOrder
        BY DEF CodexInv
    <1>1. t \in Threads /\ u \in Turns \cup {None} /\ byThread[t] = n
        BY <1>0 DEF CodexType, ServedType, Bound, RoutesMirror
    <1>2. Healthy /\ \A kind, v : ~In(kind, v)
        BY DEF Healthy, In
    <1>3. ASSUME u # None, codex.turn[u].native \notin givenUp
          PROVE  u \in Turns /\ codex.turn[u].native = n /\ Live(u)
      <2>1. codex.turn[u].native = n /\ ToComplete(u) /\ u \in Turns
        BY <1>0, <1>1, <1>2, <1>3 DEF Heard
      <2>2. ~Closed(u)
        BY <1>2, <2>1 DEF ToComplete
      <2>3. codex.turn[u].state \in TurnStates /\ codex.turn[u].state # "unused"
        BY <1>0, <2>1, Constants DEF CodexType, TrafficType, TurnType, TurnsInOrder, TurnIsOwned
      <2>4. QED
        BY <2>1, <2>2, <2>3 DEF Closed, Live, TurnStates
    <1>4. ASSUME u = None, NEW v \in Turns, codex.turn[v].native = n, Announced(v)
          PROVE  \E w \in Turns : /\ codex.turn[w].native = n
                                  /\ codex.turn[w].state \in {"failed", "broken"}
      <2>1. Covers(v)
        BY <1>0, <1>2, <1>4 DEF Covered
      <2>2. QED
        BY <1>4, <2>1 DEF Covers, Trouble
    <1>5. QED
        BY <1>1, <1>3, <1>4

\* CodexIsSound: for every set of threads and native threads, every number of calls
\* and turns and every inbox, the worker's routes are bijective, the events of a turn
\* reach one log, an acknowledged turn is tracked exactly until it has ended, and the
\* turn the worker would interrupt or steer is live at Codex once it has read all,
\* whatever Codex answers, fails to answer or tells, and whenever the pipes break.
THEOREM CodexCorrect == Spec => []CodexIsSound
    <1>1. Init => CodexInv
        BY InvariantStarts
    <1>2. CodexInv /\ [Next]_vars => CodexInv'
        BY InvariantKept
    <1>3. CodexInv => CodexIsSound
      <2> SUFFICES ASSUME CodexInv PROVE CodexIsSound
        OBVIOUS
      <2>1. TypeOK
        BY DEF CodexInv, CodexType, ServedType, CallsType, TrafficType, WorkerType, TypeOK
      <2>2. QED
        BY <2>1, OneLog, AllRead DEF CodexInv, Bound, CodexIsSound
    <1>4. QED
        BY <1>1, <1>2, <1>3, PTL DEF Spec
=============================================================================
