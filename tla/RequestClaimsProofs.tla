------------------------- MODULE RequestClaimsProofs -------------------------
(***************************************************************************)
(* For every set of requests, responders and every bound: the ledger, the   *)
(* responses in flight and the provider agree (LedgerIsSound), the browser  *)
(* ends with the last word of the ledger (ViewConverges), and a revision    *)
(* names one state (RevisionsAreFaithful).                                  *)
(***************************************************************************)
EXTENDS RequestClaims, FiniteSetTheorems, TLAPS

Record == [turn : 0 .. MaxTurns, payload : Nat, status : Statuses,
           claim : 0 .. MaxClaims, harnessResolved : BOOLEAN,
           answer : 0 .. MaxClaims, revision : Nat]

Task == [pc : {"idle", "claimed", "sending", "waiting", "accepted", "refused",
               "settled", "timedOut", "reread"},
         req : Requests, claim : 0 .. MaxClaims, out : Seq(Messages)]

Event == [kind : {"requested", "resolved", "turnCompleted"}, req : Requests,
          turn : Nat, payload : Nat]

\* What the browser's queue carries.
Wire == Messages \cup {TurnCompleted}

Command == [by : Responders, req : Requests, claim : 1 .. MaxClaims]

\* The types of all the variables, TypeOK's included.
Types ==
    /\ DOMAIN records \subseteq Requests
    /\ records \in [DOMAIN records -> Record]
    /\ lastClaim \in 0 .. MaxClaims
    /\ task \in [Responders -> Task]
    /\ ownerOut \in Seq(Wire)
    /\ events \in Seq(Event)
    /\ \A e \in Range(events) : e.kind = "requested" => e.turn =< MaxTurns
    /\ commands \in Seq(Command)
    /\ pending \subseteq Requests /\ IsFiniteSet(pending)
    /\ turn \in Nat \ {0}
    /\ raised \in [Requests -> {0, 1}]
    /\ raisedIn \in [Requests -> 0 .. MaxTurns]
    /\ answered \in [Requests -> -1 .. MaxClaims]
    /\ channel \in Seq(Wire)
    /\ DOMAIN view \subseteq Requests
    /\ view \in [DOMAIN view -> Messages]
    /\ joins \in Nat /\ joining \in BOOLEAN
    /\ snapshot \subseteq Messages /\ lost \subseteq Requests

\* A claim number is given to one response, and its command carries it to the
\* adapter; the response is told what became of its own command.
ClaimsAreUnique ==
    /\ \A p \in Responders :
          /\ task[p].claim =< lastClaim
          /\ task[p].pc # "idle" => task[p].claim # NoClaim
    /\ \A p, r \in Responders :
          p # r /\ task[p].claim = task[r].claim => task[p].claim = NoClaim
    /\ \A c \in Range(commands) :
          /\ c.claim =< lastClaim
          /\ task[c.by].claim = c.claim => task[c.by].req = c.req

\* An id that was never raised has left no trace.
Untouched ==
    \A q \in Requests : raised[q] = 0 =>
        /\ q \notin pending
        /\ q \notin DOMAIN records
        /\ answered[q] = NoClaim
        /\ \A e \in Range(events) : e.kind # "turnCompleted" => e.req # q
        /\ \A p \in Responders : task[p].pc # "idle" => task[p].req # q

\* What the provider was told: nobody's answer while it waits, and the answer of
\* an accepted response once it was accepted.
Answers ==
    /\ \A q \in pending : answered[q] = NoClaim
    /\ \A p \in Responders :
          task[p].pc = "accepted" => answered[task[p].req] = task[p].claim

Queued(kind, q) == \E e \in Range(events) : e.kind = kind /\ e.req = q

\* An open request is in the ledger or on its way there, and nothing in the
\* ledger or on its way claims that it is closed.
OpenTrace ==
    \A q \in pending :
        /\ Queued("requested", q) \/ q \in DOMAIN records
        /\ q \in DOMAIN records =>
              records[q].status # "resolved" /\ ~records[q].harnessResolved
        /\ ~Queued("resolved", q)

\* Every delivery of q in the queue has a resolution of q behind it.
Covered(evs, q) ==
    \A i \in DOMAIN evs :
        evs[i].kind = "requested" /\ evs[i].req = q =>
            \E j \in DOMAIN evs : j > i /\ evs[j].kind = "resolved" /\ evs[j].req = q

\* A closed server request is resolved, will be when its response settles, or has
\* its resolution on the way, behind every delivery of the request.
ClosedAt(q) ==
    /\ q \in DOMAIN records =>
          \/ records[q].status = "resolved"
          \/ records[q].status = "responding" /\ records[q].harnessResolved
          \/ Queued("resolved", q)
    /\ Covered(events, q)

ClosedTrace == \A q \in ServerRequests \ pending : ClosedAt(q)

\* The part of the invariant about the ledger and the provider.
LedgerInv ==
    /\ Types
    /\ RespondingIffClaimed
    /\ AnswerWasDelivered
    /\ ClaimsAreUnique
    /\ Untouched
    /\ Answers
    /\ OpenTrace
    /\ ClosedTrace
-----------------------------------------------------------------------------
\* The turn of a delivery is the one its request names; a turn's completion
\* comes behind every delivery of the turn's requests.
TurnOrder ==
    /\ \A e \in Range(events) :
          /\ e.kind = "requested" => e.turn = raisedIn[e.req]
          /\ e.kind = "turnCompleted" => e.turn < turn /\ e.turn # NoTurn
    /\ \A q \in DOMAIN records : records[q].turn = raisedIn[q]
    /\ \A i, j \in DOMAIN events :
          i < j /\ events[i].kind = "turnCompleted" /\ events[j].kind = "requested"
              => events[j].turn # events[i].turn

\* The states of the ledger that exist outside of it.
Sent == InFlight \cup Range(view)

\* What a response still has to publish is about its own request; after it is
\* published or dropped there is nothing.
Outs ==
    \A p \in Responders :
        /\ \A m \in Range(task[p].out) : m.req = task[p].req
        /\ task[p].pc \notin {"claimed", "settled", "reread"} => task[p].out = <<>>

\* No message is newer than the ledger, and one of the ledger's revision is the
\* ledger's state; before a request is in the ledger nothing is said about it.
NoneNewer ==
    /\ \A m \in Sent : m.req \in DOMAIN records =>
          /\ m.revision =< records[m.req].revision
          /\ m.revision = records[m.req].revision => m = State(records, m.req)
    /\ \A q \in Requests \ DOMAIN records :
          raised[q] = 0 \/ Queued("requested", q) =>
              /\ \A m \in Sent : m.req # q
              /\ \A p \in Responders : task[p].pc # "idle" => task[p].req # q

Viewed == \A q \in DOMAIN view : view[q].req = q

\* The browser has forgotten a resolved request, and nothing will remind it.
Gone(q) == records[q].status = "resolved" /\ \A m \in Sent : m.req # q

\* The ledger's state of a record is shown, or on its way, or a response that was
\* dropped will read it again; or the record is resolved and forgotten.
LastWord ==
    \A q \in DOMAIN records \ lost :
        \/ State(records, q) \in Sent
        \/ \E p \in Responders : task[p].pc = "timedOut" /\ task[p].req = q
        \/ Gone(q)

ViewInv == LedgerInv /\ TurnOrder /\ Outs /\ Viewed /\ NoneNewer /\ LastWord
-----------------------------------------------------------------------------
(* Facts about sequences and the ledger's operations. *)

\* Appending adds one element to a sequence's range.
LEMMA RangeAppend ==
    ASSUME NEW S, NEW s \in Seq(S), NEW e \in S
    PROVE  Range(Append(s, e)) = Range(s) \cup {e}
    <1>1. DOMAIN Append(s, e) = 1 .. Len(s) + 1 /\ DOMAIN s = 1 .. Len(s)
        OBVIOUS
    <1>2. \A i \in 1 .. Len(s) : Append(s, e)[i] = s[i]
        OBVIOUS
    <1>3. Append(s, e)[Len(s) + 1] = e
        OBVIOUS
    <1>4. QED
        BY <1>1, <1>2, <1>3 DEF Range

\* Taking the head of a queue removes one element of its range at most.
LEMMA RangeTail ==
    ASSUME NEW S, NEW s \in Seq(S), s # <<>>
    PROVE  /\ Range(s) = {Head(s)} \cup Range(Tail(s))
           /\ Tail(s) \in Seq(S) /\ Head(s) \in S
    <1>1. Len(s) \in Nat \ {0} /\ DOMAIN s = 1 .. Len(s) /\ DOMAIN Tail(s) = 1 .. Len(s) - 1
        OBVIOUS
    <1>2. \A i \in 1 .. Len(s) - 1 : Tail(s)[i] = s[i + 1]
        OBVIOUS
    <1>3. Head(s) = s[1] /\ Tail(s) \in Seq(S) /\ Head(s) \in S
        OBVIOUS
    <1>4. ASSUME NEW x \in Range(s) PROVE x \in {Head(s)} \cup Range(Tail(s))
      <2> PICK i \in 1 .. Len(s) : x = s[i]
        BY <1>1 DEF Range
      <2>1. CASE i = 1
        BY <2>1, <1>3
      <2>2. CASE i # 1
        <3>1. i - 1 \in 1 .. Len(s) - 1 /\ Tail(s)[i - 1] = s[i]
          BY <2>2, <1>1, <1>2
        <3>2. QED
          BY <3>1, <1>1 DEF Range
      <2>3. QED
        BY <2>1, <2>2
    <1>5. ASSUME NEW x \in {Head(s)} \cup Range(Tail(s)) PROVE x \in Range(s)
      <2>1. CASE x = Head(s)
        BY <2>1, <1>1, <1>3 DEF Range
      <2>2. CASE x \in Range(Tail(s))
        <3> PICK i \in 1 .. Len(s) - 1 : x = Tail(s)[i]
          BY <2>2, <1>1 DEF Range
        <3>1. i + 1 \in 1 .. Len(s) /\ x = s[i + 1]
          BY <1>1, <1>2
        <3>2. QED
          BY <3>1, <1>1 DEF Range
      <2>3. QED
        BY <2>1, <2>2
    <1>6. QED
        BY <1>3, <1>4, <1>5

\* The range of a concatenation.
LEMMA RangeConcat ==
    ASSUME NEW S, NEW s \in Seq(S), NEW t \in Seq(S)
    PROVE  Range(s \o t) = Range(s) \cup Range(t)
    <1>1. DOMAIN s = 1 .. Len(s) /\ DOMAIN t = 1 .. Len(t)
          /\ DOMAIN (s \o t) = 1 .. Len(s) + Len(t) /\ Len(s) \in Nat /\ Len(t) \in Nat
        OBVIOUS
    <1>2. \A i \in 1 .. Len(s) : (s \o t)[i] = s[i]
        OBVIOUS
    <1>3. \A i \in 1 .. Len(t) : (s \o t)[Len(s) + i] = t[i]
        OBVIOUS
    <1>4. ASSUME NEW x \in Range(s \o t) PROVE x \in Range(s) \cup Range(t)
      <2> PICK i \in 1 .. Len(s) + Len(t) : x = (s \o t)[i]
        BY <1>1 DEF Range
      <2>1. CASE i =< Len(s)
        BY <2>1, <1>1, <1>2 DEF Range
      <2>2. CASE ~(i =< Len(s))
        <3>1. i - Len(s) \in 1 .. Len(t) /\ x = t[i - Len(s)]
          BY <2>2, <1>1, <1>3
        <3>2. QED
          BY <3>1, <1>1 DEF Range
      <2>3. QED
        BY <2>1, <2>2
    <1>5. ASSUME NEW x \in Range(s) PROVE x \in Range(s \o t)
        BY <1>1, <1>2 DEF Range
    <1>6. ASSUME NEW x \in Range(t) PROVE x \in Range(s \o t)
      <2> PICK i \in 1 .. Len(t) : x = t[i]
        BY <1>1 DEF Range
      <2>1. Len(s) + i \in 1 .. Len(s) + Len(t) /\ x = (s \o t)[Len(s) + i]
        BY <1>1, <1>3
      <2>2. QED
        BY <2>1, <1>1 DEF Range
    <1>7. QED
        BY <1>4, <1>5, <1>6

\* The elements of a sequence are of its type.
LEMMA RangeType ==
    ASSUME NEW S, NEW s \in Seq(S)
    PROVE  Range(s) \subseteq S
    <1>1. \A i \in DOMAIN s : s[i] \in S
        OBVIOUS
    <1>2. QED
        BY <1>1 DEF Range

\* The ranges of the short sequences that the operations publish.
LEMMA RangeEmpty == Range(<<>>) = {}
    BY DEF Range

\* A sequence of one element.
LEMMA RangeOne ==
    ASSUME NEW x
    PROVE  Range(<<x>>) = {x}
    BY DEF Range

\* A sequence of states can be queued; the turn's completion is no state.
LEMMA WireSeq == Seq(Messages) \subseteq Seq(Wire) /\ TurnCompleted \notin Messages
    <1>1. Messages \subseteq Wire
        BY DEF Wire
    <1>2. TurnCompleted \notin Messages
        BY DEF TurnCompleted, Messages, Statuses
    <1>3. QED
        BY <1>1, <1>2


\* An idle task is a task.
LEMMA IdleType == Idle \in Task /\ Idle.pc = "idle" /\ Idle.claim = NoClaim
                  /\ Idle.out = <<>> /\ Idle.req \in Requests
    <1>1. Requests # {} /\ MaxClaims \in Nat
        BY RequestConstants DEF Requests
    <1>2. (CHOOSE q \in Requests : TRUE) \in Requests
        BY <1>1
    <1>3. QED
        BY <1>1, <1>2 DEF Idle, Task, NoClaim

IsLedger(rs) == DOMAIN rs \subseteq Requests /\ rs \in [DOMAIN rs -> Record]

\* Every visible change takes the next revision and keeps the other fields.
LEMMA BumpEffect ==
    ASSUME NEW rec \in Record
    PROVE  /\ Bump(rec) \in Record
           /\ Bump(rec).turn = rec.turn /\ Bump(rec).status = rec.status
           /\ Bump(rec).claim = rec.claim /\ Bump(rec).answer = rec.answer
           /\ Bump(rec).harnessResolved = rec.harnessResolved
           /\ Bump(rec).payload = rec.payload
           /\ Bump(rec).revision = rec.revision + 1
    BY DEF Record, Bump

\* What register does to a ledger: it adds the record or refreshes its payload,
\* and touches nothing else.
Registered(rs, new, q, t) ==
    /\ IsLedger(new)
    /\ DOMAIN new = DOMAIN rs \cup {q}
    /\ \A r \in DOMAIN rs \ {q} : new[r] = rs[r]
    /\ q \in DOMAIN rs =>
         /\ new[q].turn = rs[q].turn /\ new[q].status = rs[q].status
         /\ new[q].claim = rs[q].claim /\ new[q].answer = rs[q].answer
         /\ new[q].harnessResolved = rs[q].harnessResolved
         /\ \/ new[q] = rs[q]
            \/ new[q].revision = rs[q].revision + 1
    /\ q \notin DOMAIN rs =>
         /\ new[q].turn = t /\ new[q].status = "pending"
         /\ new[q].harnessResolved = FALSE /\ new[q].revision = 1

\* That is the effect of Register on a well-formed ledger.
LEMMA RegisterEffect ==
    ASSUME NEW rs, IsLedger(rs), NEW q \in Requests, NEW t \in 0 .. MaxTurns,
           NEW payload \in Nat
    PROVE  Registered(rs, Register(rs, q, t, payload), q, t)
    <1> DEFINE new == Register(rs, q, t, payload)
    <1>0. MaxClaims \in Nat /\ MaxTurns \in Nat
        BY RequestConstants
    <1>1. CASE q \notin DOMAIN rs
      <2> DEFINE rec == [turn |-> t, payload |-> payload, status |-> "pending",
                         claim |-> NoClaim, harnessResolved |-> FALSE,
                         answer |-> NullAnswer, revision |-> 1]
      <2>1. rec \in Record
        BY <1>0 DEF Record, Statuses, NoClaim, NullAnswer
      <2>2. new = [r \in DOMAIN rs \cup {q} |-> IF r = q THEN rec ELSE rs[r]]
        BY <1>1 DEF Register, Put
      <2>3. QED
        BY <1>1, <2>1, <2>2 DEF IsLedger, Registered
    <1>2. CASE q \in DOMAIN rs /\ rs[q].payload = payload
        BY <1>2 DEF Register, IsLedger, Registered
    <1>3. CASE q \in DOMAIN rs /\ rs[q].payload # payload
      <2> DEFINE rec == [rs[q] EXCEPT !.payload = payload]
      <2>1. rs[q] \in Record
        BY <1>3 DEF IsLedger
      <2>2. rec \in Record /\ rec.turn = rs[q].turn /\ rec.status = rs[q].status
            /\ rec.claim = rs[q].claim /\ rec.answer = rs[q].answer
            /\ rec.harnessResolved = rs[q].harnessResolved
            /\ rec.revision = rs[q].revision
        BY <2>1 DEF Record
      <2>3. new = [rs EXCEPT ![q] = Bump(rec)]
        BY <1>3 DEF Register
      <2> HIDE DEF rec
      <2>4. QED
        BY <1>3, <2>2, <2>3, BumpEffect, ZenonT(60) DEF IsLedger, Registered
    <1>4. QED
        BY <1>1, <1>2, <1>3

\* What a step does to one record that is in the ledger before and after it:
\* every operation but register is one of these.
Resolves(rec, new, answer) ==
    /\ new.status = "resolved" /\ new.answer = answer
    /\ new.turn = rec.turn /\ new.claim = rec.claim
    /\ new.harnessResolved = rec.harnessResolved
    /\ new.revision = rec.revision + 1 /\ new.payload = rec.payload

\* What a resolution from the harness does.
HarnessResolves(rs, new, q) ==
    /\ IsLedger(new)
    /\ DOMAIN new = DOMAIN rs
    /\ \A r \in DOMAIN rs \ {q} : new[r] = rs[r]
    /\ q \in DOMAIN rs =>
         \/ rs[q].status = "resolved" /\ new[q] = rs[q]
         \/ rs[q].status = "pending" /\ Resolves(rs[q], new[q], NullAnswer)
         \/ /\ rs[q].status = "responding"
            /\ new[q] = [rs[q] EXCEPT !.harnessResolved = TRUE]

\* The harness' own resolution of a request has that effect.
LEMMA HarnessEffect ==
    ASSUME NEW rs, IsLedger(rs), NEW q \in Requests
    PROVE  HarnessResolves(rs, ResolveFromHarness(rs, q), q)
    <1> DEFINE new == ResolveFromHarness(rs, q)
    <1>0. NullAnswer \in 0 .. MaxClaims
        BY RequestConstants DEF NullAnswer
    <1>1. CASE q \notin DOMAIN rs \/ rs[q].status = "resolved"
        BY <1>1 DEF ResolveFromHarness, IsLedger, HarnessResolves
    <1>2. CASE q \in DOMAIN rs /\ rs[q].status = "responding"
      <2> DEFINE rec == [rs[q] EXCEPT !.harnessResolved = TRUE]
      <2>1. rs[q] \in Record
        BY <1>2 DEF IsLedger
      <2>2. rec \in Record
        BY <2>1 DEF Record
      <2>3. new = [rs EXCEPT ![q] = rec]
        BY <1>2, <2>1 DEF ResolveFromHarness
      <2>4. QED
        BY <1>2, <2>2, <2>3 DEF IsLedger, HarnessResolves
    <1>3. CASE q \in DOMAIN rs /\ rs[q].status = "pending"
      <2> DEFINE rec == [rs[q] EXCEPT !.status = "resolved", !.answer = NullAnswer]
      <2>1. rs[q] \in Record
        BY <1>3 DEF IsLedger
      <2>2. rec \in Record /\ rec.status = "resolved" /\ rec.answer = NullAnswer
            /\ rec.turn = rs[q].turn /\ rec.claim = rs[q].claim
            /\ rec.harnessResolved = rs[q].harnessResolved
            /\ rec.revision = rs[q].revision /\ rec.payload = rs[q].payload
        BY <1>0, <2>1 DEF Record, Statuses
      <2>3. new = [rs EXCEPT ![q] = Bump(rec)]
        BY <1>3 DEF ResolveFromHarness
      <2> HIDE DEF rec
      <2>4. QED
        BY <1>3, <2>2, <2>3, BumpEffect DEF IsLedger, Resolves, HarnessResolves
    <1>4. q \in DOMAIN rs => rs[q].status \in Statuses
        BY DEF IsLedger, Record
    <1>5. QED
        BY <1>1, <1>2, <1>3, <1>4 DEF Statuses

\* What a claim does.
Claims(rs, new, q, c) ==
    /\ IsLedger(new)
    /\ DOMAIN new = DOMAIN rs
    /\ \A r \in DOMAIN rs \ {q} : new[r] = rs[r]
    /\ new[q].status = "responding" /\ new[q].claim = c
    /\ new[q].harnessResolved = FALSE /\ new[q].turn = rs[q].turn
    /\ new[q].revision = rs[q].revision + 1

\* Claiming a pending request has that effect.
LEMMA ClaimEffect ==
    ASSUME NEW rs, IsLedger(rs), NEW q \in DOMAIN rs, NEW c \in 0 .. MaxClaims
    PROVE  Claims(rs, Claimed(rs, q, c), q, c)
    <1> DEFINE rec == [rs[q] EXCEPT !.status = "responding", !.claim = c,
                                    !.harnessResolved = FALSE]
    <1>1. rs[q] \in Record
        BY DEF IsLedger
    <1>2. /\ rec \in Record /\ rec.status = "responding" /\ rec.claim = c
          /\ rec.harnessResolved = FALSE /\ rec.turn = rs[q].turn
          /\ rec.revision = rs[q].revision
        BY <1>1 DEF Record, Statuses
    <1>3. Claimed(rs, q, c) = [rs EXCEPT ![q] = Bump(rec)]
        BY DEF Claimed
    <1> HIDE DEF rec
    <1>4. QED
        BY <1>2, <1>3, BumpEffect DEF IsLedger, Claims

\* What a commit does.
LEMMA CommitEffect ==
    ASSUME NEW rs, IsLedger(rs), NEW q \in DOMAIN rs, NEW c \in 0 .. MaxClaims
    PROVE  LET new == Committed(rs, q, c) IN
           /\ IsLedger(new)
           /\ DOMAIN new = DOMAIN rs
           /\ \A r \in DOMAIN rs \ {q} : new[r] = rs[r]
           /\ Resolves(rs[q], new[q], c)
    <1> DEFINE rec == [rs[q] EXCEPT !.status = "resolved", !.answer = c]
    <1>1. rs[q] \in Record
        BY DEF IsLedger
    <1>2. rec \in Record /\ rec.status = "resolved" /\ rec.answer = c
          /\ rec.turn = rs[q].turn /\ rec.claim = rs[q].claim
          /\ rec.harnessResolved = rs[q].harnessResolved
          /\ rec.revision = rs[q].revision /\ rec.payload = rs[q].payload
        BY <1>1 DEF Record, Statuses
    <1>3. Committed(rs, q, c) = [rs EXCEPT ![q] = Bump(rec)]
        BY DEF Committed
    <1> HIDE DEF rec
    <1>4. QED
        BY <1>2, <1>3, BumpEffect DEF IsLedger, Resolves

\* What a rollback does: nothing unless the claim is held.
LEMMA RollbackEffect ==
    ASSUME NEW rs, IsLedger(rs), NEW q \in Requests, NEW c \in 0 .. MaxClaims
    PROVE  LET new == RolledBack(rs, q, c) IN
           /\ IsLedger(new)
           /\ DOMAIN new = DOMAIN rs
           /\ \A r \in DOMAIN rs \ {q} : new[r] = rs[r]
           /\ ~Holds(rs, q, c) => new = rs
           /\ Holds(rs, q, c) =>
                /\ q \in DOMAIN rs
                /\ new[q].status = IF rs[q].harnessResolved THEN "resolved" ELSE "pending"
                /\ new[q].answer = NullAnswer
                /\ new[q].turn = rs[q].turn /\ new[q].claim = rs[q].claim
                /\ new[q].harnessResolved = rs[q].harnessResolved
                /\ new[q].revision = rs[q].revision + 1
    <1> DEFINE s == IF rs[q].harnessResolved THEN "resolved" ELSE "pending"
               rec == [rs[q] EXCEPT !.status = s, !.answer = NullAnswer]
    <1>0. NullAnswer \in 0 .. MaxClaims
        BY RequestConstants DEF NullAnswer
    <1>1. CASE ~Holds(rs, q, c)
        BY <1>1 DEF RolledBack
    <1>2. CASE Holds(rs, q, c)
      <2>1. q \in DOMAIN rs /\ rs[q] \in Record /\ s \in Statuses
        BY <1>2 DEF IsLedger, Holds, Statuses
      <2> HIDE DEF s
      <2>2. /\ rec \in Record /\ rec.status = s /\ rec.answer = NullAnswer
            /\ rec.turn = rs[q].turn /\ rec.claim = rs[q].claim
            /\ rec.harnessResolved = rs[q].harnessResolved
            /\ rec.revision = rs[q].revision
        BY <1>0, <2>1 DEF Record
      <2>3. RolledBack(rs, q, c) = [rs EXCEPT ![q] = Bump(rec)]
        BY <1>2 DEF RolledBack, s
      <2> HIDE DEF rec
      <2>4. QED
        BY <1>2, <2>1, <2>2, <2>3, BumpEffect DEF IsLedger, s
    <1>3. QED
        BY <1>1, <1>2

\* What a prune does: some resolved records of the turn go, nothing else.
Prunes(rs, new, t) ==
    /\ IsLedger(new)
    /\ DOMAIN new = {r \in DOMAIN rs : ~(rs[r].status = "resolved" /\ rs[r].turn = t)}
    /\ \A r \in DOMAIN new : new[r] = rs[r]

\* Pruning a completed turn has that effect.
LEMMA PruneEffect ==
    ASSUME NEW rs, IsLedger(rs), NEW t
    PROVE  Prunes(rs, Pruned(rs, t), t)
    BY DEF IsLedger, Pruned, Prunes

Stages == {"idle", "claimed", "sending", "waiting", "accepted", "refused",
           "settled", "timedOut", "reread"}

\* A response p moves to a stage with something to publish, and nothing else of
\* any response changes.
Moved(p, stage, out) ==
    /\ task' \in [Responders -> Task]
    /\ task'[p].pc = stage /\ task'[p].out = out
    /\ task'[p].req = task[p].req /\ task'[p].claim = task[p].claim
    /\ \A r \in Responders \ {p} : task'[r] = task[r]

\* A response p is over, and nothing else of any response changes.
Rested(p) ==
    /\ task' \in [Responders -> Task]
    /\ task'[p] = Idle
    /\ \A r \in Responders \ {p} : task'[r] = task[r]

\* The assignments to a response do what Moved says.
LEMMA MoveBoth ==
    ASSUME task \in [Responders -> Task], NEW p \in Responders, NEW a \in Stages,
           NEW o \in Seq(Messages), task' = [task EXCEPT ![p].pc = a, ![p].out = o]
    PROVE  Moved(p, a, o)
    <1> DEFINE t1 == [task[p] EXCEPT !.pc = a]
               t2 == [t1 EXCEPT !.out = o]
    <1>1. t1 \in Task /\ t1.pc = a /\ t1.req = task[p].req /\ t1.claim = task[p].claim
        BY DEF Task, Stages
    <1>2. task' = [task EXCEPT ![p] = t2]
        OBVIOUS
    <1> HIDE DEF t1
    <1>3. t2 \in Task /\ t2.pc = a /\ t2.out = o /\ t2.req = task[p].req
          /\ t2.claim = task[p].claim
        BY <1>1 DEF Task
    <1> HIDE DEF t2
    <1>4. QED
        BY <1>2, <1>3, ZenonT(60) DEF Moved

\* The same when only the stage is assigned.
LEMMA MoveStage ==
    ASSUME task \in [Responders -> Task], NEW p \in Responders, NEW a \in Stages,
           task' = [task EXCEPT ![p].pc = a]
    PROVE  Moved(p, a, task[p].out)
    <1> DEFINE t1 == [task[p] EXCEPT !.pc = a]
    <1>1. t1 \in Task /\ t1.pc = a /\ t1.req = task[p].req /\ t1.claim = task[p].claim
          /\ t1.out = task[p].out
        BY DEF Task, Stages
    <1>2. task' = [task EXCEPT ![p] = t1]
        OBVIOUS
    <1> HIDE DEF t1
    <1>3. QED
        BY <1>1, <1>2 DEF Moved

\* The same for a response that is over.
LEMMA Rest ==
    ASSUME task \in [Responders -> Task], NEW p \in Responders,
           task' = [task EXCEPT ![p] = Idle]
    PROVE  Rested(p)
    BY IdleType DEF Rested

\* The state of a record is a message.
LEMMA StateType ==
    ASSUME NEW rs, IsLedger(rs), NEW q \in DOMAIN rs
    PROVE  State(rs, q) \in Messages
    <1>1. rs[q] \in Record /\ q \in Requests
        BY DEF IsLedger
    <1>2. QED
        BY <1>1 DEF State, Messages, Record

\* What a ledger operation publishes is a sequence of messages about its request.
LEMMA ChangedType ==
    ASSUME NEW rs, NEW new, IsLedger(new), NEW q
    PROVE  /\ Changed(rs, new, q) \in Seq(Messages)
           /\ \A m \in Range(Changed(rs, new, q)) :
                 q \in DOMAIN new /\ m = State(new, q)
    <1>1. CASE q \in DOMAIN new /\ Changed(rs, new, q) = <<State(new, q)>>
      <2>1. State(new, q) \in Messages
        BY <1>1, StateType
      <2>2. Range(<<State(new, q)>>) = {State(new, q)}
        BY RangeOne
      <2>3. <<State(new, q)>> \in Seq(Messages)
        BY <2>1
      <2>4. QED
        BY <1>1, <2>2, <2>3
    <1>2. CASE Changed(rs, new, q) = <<>>
      <2>1. Range(<<>>) = {} /\ <<>> \in Seq(Messages)
        BY RangeEmpty
      <2>2. QED
        BY <1>2, <2>1
    <1>3. QED
        BY <1>1, <1>2 DEF Changed

\* What each step of a response does to the responses.
LEMMA ReplyEffect ==
    ASSUME task \in [Responders -> Task], NEW c \in Command,
           NEW result \in {"accepted", "refused"}, Reply(c, result)
    PROVE  \/ UNCHANGED task
           \/ /\ task[c.by].claim = c.claim /\ task[c.by].pc = "waiting"
              /\ Moved(c.by, result, task[c.by].out)
    <1>1. c.by \in Responders /\ result \in Stages
        BY DEF Command, Stages
    <1>2. CASE task[c.by].claim = c.claim /\ task[c.by].pc = "waiting"
      <2>1. task' = [task EXCEPT ![c.by].pc = result]
        BY <1>2 DEF Reply
      <2>2. QED
        BY <1>1, <1>2, <2>1, MoveStage
    <1>3. CASE ~(task[c.by].claim = c.claim /\ task[c.by].pc = "waiting")
        BY <1>3 DEF Reply
    <1>4. QED
        BY <1>2, <1>3

\* A response that settles either has nothing to publish and is over, or moves to
\* its publication.
LEMMA SettleEffect ==
    ASSUME task \in [Responders -> Task], NEW p \in Responders, NEW new, IsLedger(new),
           Settle(p, new)
    PROVE  \/ Changed(records, new, task[p].req) = <<>> /\ Rested(p)
           \/ Moved(p, "settled", Changed(records, new, task[p].req))
    <1> DEFINE out == Changed(records, new, task[p].req)
    <1>1. out \in Seq(Messages)
        BY ChangedType
    <1>2. task' = IF out = <<>> THEN [task EXCEPT ![p] = Idle]
                  ELSE [task EXCEPT ![p].pc = "settled", ![p].out = out]
        BY DEF Settle
    <1> HIDE DEF out
    <1>3. CASE out = <<>>
        BY <1>2, <1>3, Rest DEF out
    <1>4. CASE out # <<>>
      <2>1. Moved(p, "settled", out)
        BY <1>1, <1>2, <1>4, MoveBoth DEF Stages
      <2>2. QED
        BY <2>1 DEF out
    <1>5. QED
        BY <1>3, <1>4

\* A newly created claim and the response that holds it.
LEMMA ClaimTask ==
    ASSUME Types, NEW p \in Responders, NEW q \in Requests, Claim(p, q)
    PROVE  LET c == lastClaim + 1
               new == Claimed(records, q, c)
           IN  /\ IsLedger(new) /\ c \in 1 .. MaxClaims
               /\ task' \in [Responders -> Task]
               /\ task'[p] = [pc |-> "claimed", req |-> q, claim |-> c,
                              out |-> <<State(new, q)>>]
               /\ \A r \in Responders \ {p} : task'[r] = task[r]
    <1> DEFINE c == lastClaim + 1
               new == Claimed(records, q, c)
               t == [pc |-> "claimed", req |-> q, claim |-> c, out |-> <<State(new, q)>>]
    <1>0. MaxClaims \in Nat /\ lastClaim \in 0 .. MaxClaims /\ lastClaim < MaxClaims
        BY RequestConstants DEF Claim, Types
    <1>1. c \in 1 .. MaxClaims /\ c \in 0 .. MaxClaims
        BY <1>0
    <1> HIDE DEF c
    <1>2. IsLedger(new) /\ q \in DOMAIN new
      <2>1. IsLedger(records) /\ q \in DOMAIN records
        BY DEF Claim, Types, IsLedger
      <2>2. Claims(records, new, q, c)
        BY <1>1, <2>1, ClaimEffect
      <2>3. IsLedger(new) /\ DOMAIN new = DOMAIN records
        BY <2>2 DEF Claims
      <2>4. QED
        BY <2>1, <2>3
    <1>3. State(new, q) \in Messages
        BY <1>2, StateType
    <1> HIDE DEF new
    <1>4. t \in Task
        BY <1>1, <1>3 DEF Task
    <1>5. task' = [task EXCEPT ![p] = t]
        BY DEF Claim, c, new
    <1> HIDE DEF t
    <1>6. task \in [Responders -> Task]
        BY DEF Types
    <1>7. QED
        BY <1>1, <1>2, <1>4, <1>5, <1>6 DEF c, new, t
-----------------------------------------------------------------------------
(* The steps of the provider and the adapter. *)

\* One more event at the end of the queue keeps the order that ClosedTrace needs,
\* unless it delivers a closed request.
LEMMA CoveredAppend ==
    ASSUME events \in Seq(Event), NEW e \in Event, NEW q
    PROVE  /\ e.kind = "resolved" /\ e.req = q => Covered(Append(events, e), q)
           /\ Covered(events, q) /\ ~(e.kind = "requested" /\ e.req = q)
                => Covered(Append(events, e), q)
    <1> DEFINE evs == Append(events, e)
    <1>1. DOMAIN evs = 1 .. Len(events) + 1 /\ DOMAIN events = 1 .. Len(events)
          /\ Len(events) \in Nat
        OBVIOUS
    <1>2. \A i \in 1 .. Len(events) : evs[i] = events[i]
        OBVIOUS
    <1>3. evs[Len(events) + 1] = e
        OBVIOUS
    <1> HIDE DEF evs
    <1>4. ASSUME e.kind = "resolved", e.req = q PROVE Covered(evs, q)
        BY <1>1, <1>2, <1>3, <1>4 DEF Covered
    <1>5. ASSUME Covered(events, q), ~(e.kind = "requested" /\ e.req = q)
          PROVE  Covered(evs, q)
        BY <1>1, <1>2, <1>3, <1>5 DEF Covered
    <1>6. QED
        BY <1>4, <1>5 DEF evs

\* Taking the first event keeps it too.
LEMMA CoveredTail ==
    ASSUME events \in Seq(Event), events # <<>>, NEW q, Covered(events, q)
    PROVE  Covered(Tail(events), q)
    <1> DEFINE evs == Tail(events)
    <1>1. DOMAIN evs = 1 .. Len(events) - 1 /\ DOMAIN events = 1 .. Len(events)
          /\ Len(events) \in Nat \ {0}
        OBVIOUS
    <1>2. \A i \in 1 .. Len(events) - 1 : evs[i] = events[i + 1]
        OBVIOUS
    <1> HIDE DEF evs
    <1>3. SUFFICES ASSUME NEW i \in DOMAIN evs, evs[i].kind = "requested", evs[i].req = q
                   PROVE  \E j \in DOMAIN evs : j > i /\ evs[j].kind = "resolved" /\ evs[j].req = q
        BY DEF Covered, evs
    <1>4. PICK j \in DOMAIN events : j > i + 1 /\ events[j].kind = "resolved" /\ events[j].req = q
        BY <1>1, <1>2, <1>3 DEF Covered
    <1>5. j - 1 \in DOMAIN evs /\ j - 1 > i /\ evs[j - 1] = events[j]
        BY <1>1, <1>2, <1>3, <1>4
    <1>6. QED
        BY <1>4, <1>5

\* A first delivery still has its resolution behind it.
LEMMA CoveredHead ==
    ASSUME events \in Seq(Event), events # <<>>, NEW q, Covered(events, q),
           Head(events).kind = "requested", Head(events).req = q
    PROVE  \E e \in Range(Tail(events)) : e.kind = "resolved" /\ e.req = q
    <1> DEFINE evs == Tail(events)
    <1>1. DOMAIN evs = 1 .. Len(events) - 1 /\ DOMAIN events = 1 .. Len(events)
          /\ Len(events) \in Nat \ {0} /\ Head(events) = events[1]
        OBVIOUS
    <1>2. \A i \in 1 .. Len(events) - 1 : evs[i] = events[i + 1]
        OBVIOUS
    <1> HIDE DEF evs
    <1>3. PICK j \in DOMAIN events : j > 1 /\ events[j].kind = "resolved" /\ events[j].req = q
        BY <1>1 DEF Covered
    <1>4. j - 1 \in DOMAIN evs /\ evs[j - 1] = events[j]
        BY <1>1, <1>2, <1>3
    <1>5. evs[j - 1] \in Range(evs)
        BY <1>4 DEF Range
    <1>6. QED
        BY <1>3, <1>4, <1>5 DEF evs

\* A request arrives.
LEMMA RaiseStep ==
    ASSUME LedgerInv, NEW q \in Requests, NEW t \in NoTurn .. MaxTurns, Raise(q, t)
    PROVE  LedgerInv'
    <1> DEFINE e == [kind |-> "requested", req |-> q, turn |-> t, payload |-> 2 * raised[q]]
    <1>0. Types /\ raised[q] = 0 /\ MaxTurns \in Nat
        BY RequestConstants DEF LedgerInv, Raise
    <1>1. e \in Event /\ events' = Append(events, e) /\ e.turn =< MaxTurns
          /\ e.kind = "requested" /\ e.req = q
        BY <1>0 DEF Raise, Event, NoTurn, Types
    <1> HIDE DEF e
    <1>2. Range(events') = Range(events) \cup {e} /\ events' \in Seq(Event)
        BY <1>0, <1>1, RangeAppend DEF Types
    <1>3. UNCHANGED <<records, lastClaim, task, ownerOut, commands, turn, channel, view, joins, joining, snapshot,
                      lost>>
        BY DEF Raise, ledger, browser
    <1>4. /\ raised' = [raised EXCEPT ![q] = 1]
          /\ raisedIn' = [raisedIn EXCEPT ![q] = t]
          /\ pending' = pending \cup {q}
          /\ answered' = [answered EXCEPT ![q] = NoClaim]
        BY <1>0 DEF Raise
    <1>5. Types'
      <2>1. NoClaim \in -1 .. MaxClaims /\ t \in 0 .. MaxTurns
        BY RequestConstants DEF NoClaim, NoTurn
      <2>2. /\ raised' \in [Requests -> {0, 1}] /\ raisedIn' \in [Requests -> 0 .. MaxTurns]
            /\ answered' \in [Requests -> -1 .. MaxClaims] /\ pending' \subseteq Requests
        BY <1>0, <1>4, <2>1 DEF Types
      <2>5. IsFiniteSet(pending')
        BY <1>0, <1>4, FS_AddElement DEF Types
      <2>3. \A x \in Range(events') : x.kind = "requested" => x.turn =< MaxTurns
        BY <1>0, <1>1, <1>2 DEF Types
      <2>4. QED
        BY <1>0, <1>2, <1>3, <2>2, <2>3, <2>5 DEF Types
    <1>6. RespondingIffClaimed'
        BY <1>3 DEF LedgerInv, RespondingIffClaimed, Claiming, Holds
    <1>7. q \notin DOMAIN records /\ q \notin pending /\ answered[q] = NoClaim
        BY <1>0 DEF LedgerInv, Untouched
    <1>8. AnswerWasDelivered'
        BY <1>0, <1>3, <1>4, <1>7 DEF LedgerInv, AnswerWasDelivered, Types
    <1>9. ClaimsAreUnique'
        BY <1>3 DEF LedgerInv, ClaimsAreUnique
    <1>10. Untouched'
        BY <1>0, <1>1, <1>2, <1>3, <1>4 DEF LedgerInv, Untouched, Types
    <1>11. Answers'
      <2>1. \A r \in pending' : answered'[r] = NoClaim
        BY <1>0, <1>4 DEF LedgerInv, Answers, Types
      <2>2. \A p \in Responders : task[p].pc = "accepted" => task[p].req # q
        BY <1>0 DEF LedgerInv, Untouched
      <2>3. QED
        BY <1>0, <1>3, <1>4, <2>1, <2>2 DEF LedgerInv, Answers, Types, Task
    <1>12. OpenTrace'
      <2>1. ~ \E x \in Range(events) : x.kind = "resolved" /\ x.req = q
        BY <1>0 DEF LedgerInv, Untouched
      <2>2. QED
        BY <1>1, <1>2, <1>3, <1>4, <1>7, <2>1 DEF LedgerInv, OpenTrace, Queued
    <1>13. ClosedTrace'
      <2> SUFFICES ASSUME NEW r \in ServerRequests \ pending'
                   PROVE  ClosedAt(r)'
        BY DEF ClosedTrace
      <2>1. r # q /\ r \in ServerRequests \ pending
        BY <1>4
      <2>2. Covered(events, r)
        BY <2>1 DEF LedgerInv, ClosedTrace, ClosedAt
      <2>3. Covered(events', r)
        BY <1>0, <1>1, <2>1, <2>2, CoveredAppend DEF Types
      <2>4. QED
        BY <1>2, <1>3, <2>1, <2>3 DEF LedgerInv, ClosedTrace, ClosedAt, Queued
    <1>14. QED
        BY <1>5, <1>6, <1>8, <1>9, <1>10, <1>11, <1>12, <1>13 DEF LedgerInv

\* The provider delivers an open request again.
LEMMA RedeliverStep ==
    ASSUME LedgerInv, NEW q \in Requests, Redeliver(q)
    PROVE  LedgerInv'
    <1> DEFINE e == [kind |-> "requested", req |-> q, turn |-> raisedIn[q],
                     payload |-> 2 * raised[q] - 1]
    <1>0. Types /\ q \in pending /\ MaxTurns \in Nat
        BY RequestConstants DEF LedgerInv, Redeliver
    <1>1. raised[q] = 1 /\ raisedIn[q] \in 0 .. MaxTurns
        BY <1>0 DEF LedgerInv, Untouched, Types
    <1>2. e \in Event /\ events' = Append(events, e) /\ e.turn =< MaxTurns
          /\ e.kind = "requested" /\ e.req = q
        BY <1>0, <1>1 DEF Redeliver, Event
    <1> HIDE DEF e
    <1>3. Range(events') = Range(events) \cup {e} /\ events' \in Seq(Event)
        BY <1>0, <1>2, RangeAppend DEF Types
    <1>4. UNCHANGED <<records, lastClaim, task, ownerOut, commands, pending, turn,
                      raised, raisedIn, answered, channel, view, joins, joining, snapshot,
                      lost>>
        BY DEF Redeliver, ledger, adapter, browser
    <1>5. Types'
        BY <1>0, <1>2, <1>3, <1>4 DEF Types
    <1>6. RespondingIffClaimed' /\ AnswerWasDelivered' /\ ClaimsAreUnique' /\ Answers'
        BY <1>4 DEF LedgerInv, RespondingIffClaimed, Claiming, Holds, AnswerWasDelivered,
           ClaimsAreUnique, Answers
    <1>7. Untouched'
        BY <1>1, <1>2, <1>3, <1>4 DEF LedgerInv, Untouched
    <1>8. OpenTrace'
        BY <1>2, <1>3, <1>4 DEF LedgerInv, OpenTrace, Queued
    <1>9. ClosedTrace'
      <2> SUFFICES ASSUME NEW r \in ServerRequests \ pending'
                   PROVE  ClosedAt(r)'
        BY DEF ClosedTrace
      <2>1. r # q /\ r \in ServerRequests \ pending
        BY <1>0, <1>4
      <2>2. Covered(events, r)
        BY <2>1 DEF LedgerInv, ClosedTrace, ClosedAt
      <2>3. Covered(events', r)
        BY <1>0, <1>2, <2>1, <2>2, CoveredAppend DEF Types
      <2>4. QED
        BY <1>3, <1>4, <2>1, <2>3 DEF LedgerInv, ClosedTrace, ClosedAt, Queued
    <1>10. QED
        BY <1>5, <1>6, <1>7, <1>8, <1>9 DEF LedgerInv

\* The turn ends.
LEMMA TurnEndsStep ==
    ASSUME LedgerInv, TurnEnds
    PROVE  LedgerInv'
    <1> DEFINE e == [kind |-> "turnCompleted", req |-> Idle.req, turn |-> turn,
                     payload |-> 0]
    <1>0. Types
        BY DEF LedgerInv
    <1>1. e \in Event /\ events' = Append(events, e) /\ e.kind = "turnCompleted"
        BY <1>0, IdleType DEF TurnEnds, Event, Types
    <1> HIDE DEF e
    <1>2. Range(events') = Range(events) \cup {e} /\ events' \in Seq(Event)
        BY <1>0, <1>1, RangeAppend DEF Types
    <1>3. UNCHANGED <<records, lastClaim, task, ownerOut, commands, pending,
                      raised, raisedIn, answered, channel, view, joins, joining, snapshot,
                      lost>>
          /\ turn' = turn + 1
        BY DEF TurnEnds, ledger, browser
    <1>4. Types'
        BY <1>0, <1>1, <1>2, <1>3 DEF Types
    <1>5. RespondingIffClaimed' /\ AnswerWasDelivered' /\ ClaimsAreUnique' /\ Answers'
        BY <1>3 DEF LedgerInv, RespondingIffClaimed, Claiming, Holds, AnswerWasDelivered,
           ClaimsAreUnique, Answers
    <1>6. Untouched'
        BY <1>1, <1>2, <1>3 DEF LedgerInv, Untouched
    <1>7. OpenTrace'
        BY <1>1, <1>2, <1>3 DEF LedgerInv, OpenTrace, Queued
    <1>8. ClosedTrace'
      <2> SUFFICES ASSUME NEW r \in ServerRequests \ pending
                   PROVE  ClosedAt(r)'
        BY <1>3 DEF ClosedTrace
      <2>1. Covered(events, r)
        BY DEF LedgerInv, ClosedTrace, ClosedAt
      <2>2. Covered(events', r)
        BY <1>0, <1>1, <2>1, CoveredAppend DEF Types
      <2>3. QED
        BY <1>2, <1>3, <2>2 DEF LedgerInv, ClosedTrace, ClosedAt, Queued
    <1>9. QED
        BY <1>4, <1>5, <1>6, <1>7, <1>8 DEF LedgerInv

\* Requests close: the provider has its answers, and the resolutions of the
\* server requests among them are appended.  What this does to the ledger's
\* account of open and closed requests.
Closes(evs) ==
    /\ events' = events \o evs
    /\ pending' \subseteq pending
    /\ \A e \in Range(evs) : e.kind = "resolved" /\ e.req \in pending \ pending'
    /\ \A q \in ServerRequests \cap (pending \ pending') :
          \E e \in Range(evs) : e.req = q
    /\ answered' \in [Requests -> -1 .. MaxClaims]
    /\ \A q \in Requests : q \notin pending \ pending' => answered'[q] = answered[q]
    /\ UNCHANGED <<records, lastClaim, ownerOut, turn, raised, raisedIn, channel, view, joins, joining, snapshot,
                      lost>>

\* An adapter that closes requests and emits their resolutions keeps the traces of
\* every open and every closed request.
LEMMA ClosesStep ==
    ASSUME LedgerInv, NEW evs \in Seq(Event), Closes(evs)
    PROVE  /\ events' \in Seq(Event) /\ Range(events') = Range(events) \cup Range(evs)
           /\ pending' \subseteq Requests /\ IsFiniteSet(pending')
           /\ AnswerWasDelivered' /\ OpenTrace' /\ ClosedTrace'
           /\ \A q \in pending' : answered'[q] = NoClaim
           /\ \A q \in Requests : raised'[q] = 0 =>
                /\ q \notin pending' /\ q \notin DOMAIN records'
                /\ answered'[q] = NoClaim
                /\ \A e \in Range(events') : e.kind # "turnCompleted" => e.req # q
           /\ \A e \in Range(events') : e.kind = "requested" => e.turn =< MaxTurns
    <1>0. Types
        BY DEF LedgerInv
    <1>1. events' \in Seq(Event) /\ Range(events') = Range(events) \cup Range(evs)
        BY <1>0, RangeConcat DEF Closes, Types
    <1>2. pending' \subseteq Requests /\ IsFiniteSet(pending')
        BY <1>0, FS_Subset DEF Closes, Types
    <1>3. AnswerWasDelivered'
      <2> SUFFICES ASSUME NEW q \in DOMAIN records, records[q].status = "resolved",
                          records[q].answer # NullAnswer
                   PROVE  answered'[q] = records[q].answer
        BY DEF Closes, AnswerWasDelivered
      <2>1. answered[q] = records[q].answer /\ q \in Requests
        BY <1>0 DEF LedgerInv, AnswerWasDelivered, Types
      <2>2. q \notin pending
        BY <2>1 DEF LedgerInv, Answers, NullAnswer, NoClaim
      <2>3. QED
        BY <2>1, <2>2 DEF Closes
    <1>4. OpenTrace'
        BY <1>1 DEF Closes, LedgerInv, OpenTrace, Queued
    <1>5. ClosedTrace'
      <2> SUFFICES ASSUME NEW q \in ServerRequests \ pending'
                   PROVE  ClosedAt(q)'
        BY DEF ClosedTrace
      <2> DEFINE new == events \o evs
      <2>1. DOMAIN events = 1 .. Len(events) /\ DOMAIN evs = 1 .. Len(evs)
            /\ DOMAIN new = 1 .. Len(events) + Len(evs)
            /\ Len(events) \in Nat /\ Len(evs) \in Nat
        BY <1>0 DEF Types
      <2>2. \A i \in 1 .. Len(events) : new[i] = events[i]
        BY <1>0 DEF Types
      <2>3. \A i \in 1 .. Len(evs) : new[Len(events) + i] = evs[i]
        BY <1>0, SMTT(30) DEF Types
      <2>4. events' = new /\ \A e \in Range(evs) : e.kind = "resolved"
        BY DEF Closes
      <2> HIDE DEF new
      <2>5. \A i \in 1 .. Len(evs) : evs[i] \in Range(evs)
        BY <2>1 DEF Range
      <2>6. \A i \in DOMAIN new : new[i].kind = "requested" =>
                i \in 1 .. Len(events) /\ new[i] = events[i]
        <3> SUFFICES ASSUME NEW i \in DOMAIN new, ~(i =< Len(events))
                     PROVE  new[i].kind # "requested"
          BY <2>1, <2>2
        <3>1. i - Len(events) \in 1 .. Len(evs) /\ new[i] = evs[i - Len(events)]
          BY <2>1, <2>3
        <3>2. QED
          BY <3>1, <2>4, <2>5
      <2>7. CASE q \in pending
        <3>1. PICK e \in Range(evs) : e.req = q /\ e.kind = "resolved"
          BY <2>7 DEF Closes
        <3>2. PICK k \in 1 .. Len(evs) : e = evs[k]
          BY <3>1, <2>1 DEF Range
        <3>3. Len(events) + k \in DOMAIN new /\ new[Len(events) + k] = e
          BY <2>1, <2>3, <3>2
        <3>4. Covered(new, q)
          BY <2>1, <2>6, <3>1, <3>2, <3>3 DEF Covered
        <3>5. Queued("resolved", q)'
          BY <1>1, <3>1 DEF Queued
        <3>6. QED
          BY <2>4, <3>4, <3>5 DEF ClosedAt
      <2>8. CASE q \notin pending
        <3>1. ClosedAt(q)
          BY <2>8 DEF LedgerInv, ClosedTrace
        <3>2. \A j \in DOMAIN events : j \in DOMAIN new /\ new[j] = events[j]
          BY <2>1, <2>2
        <3>3. Covered(new, q)
          BY <2>1, <2>6, <3>1, <3>2 DEF Covered, ClosedAt
        <3>4. QED
          BY <1>1, <2>4, <3>1, <3>3 DEF Closes, ClosedAt, Queued
      <2>9. QED
        BY <2>7, <2>8
    <1>6. \A q \in pending' : answered'[q] = NoClaim
        BY <1>2 DEF Closes, LedgerInv, Answers
    <1>7. \A q \in Requests : raised'[q] = 0 =>
                /\ q \notin pending' /\ q \notin DOMAIN records'
                /\ answered'[q] = NoClaim
                /\ \A e \in Range(events') : e.kind # "turnCompleted" => e.req # q
        BY <1>0, <1>1 DEF Closes, LedgerInv, Untouched, Types
    <1>8. \A e \in Range(events') : e.kind = "requested" => e.turn =< MaxTurns
        BY <1>0, <1>1 DEF Closes, Types
    <1>9. QED
        BY <1>1, <1>2, <1>3, <1>4, <1>5, <1>6, <1>7, <1>8

\* A resolution is an event about its request.
LEMMA ResolvedEventType ==
    ASSUME Types, NEW q \in Requests
    PROVE  /\ ResolvedEvent(q) \in Event /\ ResolvedEvent(q).kind = "resolved"
           /\ ResolvedEvent(q).req = q
    BY DEF Types, ResolvedEvent, Event

\* When no response and no command changes, closing requests keeps the invariant.
LEMMA ClosesOnly ==
    ASSUME LedgerInv, NEW evs \in Seq(Event), Closes(evs), UNCHANGED <<task, commands>>,
           \A p \in Responders : task[p].pc = "accepted" => task[p].req \notin pending
    PROVE  LedgerInv'
    <1>0. Types
        BY DEF LedgerInv
    <1>1. Types'
        BY <1>0, ClosesStep DEF Types, Closes
    <1>2. RespondingIffClaimed' /\ ClaimsAreUnique'
        BY DEF LedgerInv, RespondingIffClaimed, Claiming, Holds, ClaimsAreUnique, Closes
    <1>3. Untouched'
        BY ClosesStep DEF LedgerInv, Untouched, Closes
    <1>4. Answers'
      <2>1. \A p \in Responders : task[p].req \in Requests
        BY <1>0 DEF Types, Task
      <2>2. QED
        BY <2>1, ClosesStep DEF LedgerInv, Answers, Closes
    <1>5. QED
        BY <1>1, <1>2, <1>3, <1>4, ClosesStep DEF LedgerInv

\* An accepted response was told so after its request had been answered.
LEMMA AcceptedIsClosed ==
    ASSUME LedgerInv, NEW p \in Responders, task[p].pc = "accepted"
    PROVE  task[p].req \notin pending
    BY DEF LedgerInv, Answers, ClaimsAreUnique

\* The provider closes a server request.
LEMMA ProviderResolvesStep ==
    ASSUME LedgerInv, NEW q \in Requests, ProviderResolves(q)
    PROVE  LedgerInv' /\ \E evs \in Seq(Event) : Closes(evs)
    <1> DEFINE evs == <<ResolvedEvent(q)>>
    <1>0. Types
        BY DEF LedgerInv
    <1>1. evs \in Seq(Event) /\ Range(evs) = {ResolvedEvent(q)}
        BY <1>0, ResolvedEventType, RangeOne
    <1>2. events' = events \o evs
        BY <1>0, <1>1, ResolvedEventType, SMTT(30) DEF ProviderResolves, Types
    <1>3. Elsewhere \in -1 .. MaxClaims
        BY RequestConstants DEF Elsewhere
    <1> HIDE DEF evs
    <1>4. Closes(evs)
      <2>1. pending' = pending \ {q} /\ q \in pending
            /\ answered' = [answered EXCEPT ![q] = Elsewhere]
            /\ UNCHANGED <<records, lastClaim, ownerOut, turn, raised, raisedIn, channel, view, joins, joining, snapshot,
                      lost>>
        BY DEF ProviderResolves, ledger, browser
      <2>2. ResolvedEvent(q).kind = "resolved" /\ ResolvedEvent(q).req = q
        BY <1>0, ResolvedEventType
      <2>3. answered' \in [Requests -> -1 .. MaxClaims]
            /\ \A r \in Requests \ {q} : answered'[r] = answered[r]
        BY <1>0, <1>3, <2>1 DEF Types
      <2>4. QED
        BY <1>1, <1>2, <2>1, <2>2, <2>3 DEF Closes
    <1>5. UNCHANGED <<task, commands>>
        BY DEF ProviderResolves
    <1>6. QED
        BY <1>1, <1>4, <1>5, ClosesOnly, AcceptedIsClosed

\* An accepted interrupt rejects what is pending.
LEMMA InterruptStep ==
    ASSUME LedgerInv, Interrupt
    PROVE  LedgerInv' /\ \E evs \in Seq(Event) : Closes(evs)
    <1>0. Types
        BY DEF LedgerInv
    <1>1. PICK failed \in SUBSET (pending \cap ServerRequests) :
            LET rejected == (pending \cap ServerRequests) \ failed IN
            /\ pending' = failed
            /\ answered' = [q \in Requests |-> IF q \in pending \ failed THEN Elsewhere
                                                                         ELSE answered[q]]
            /\ \E order \in [1 .. Cardinality(rejected) -> rejected] :
                  /\ \A q \in rejected : \E i \in DOMAIN order : order[i] = q
                  /\ events' = events \o [i \in DOMAIN order |-> ResolvedEvent(order[i])]
            /\ UNCHANGED <<records, lastClaim, task, ownerOut, commands, turn, raised,
                           raisedIn, channel, view, joins, joining, snapshot,
                      lost>>
        BY DEF Interrupt, ledger, browser
    <1> DEFINE rejected == (pending \cap ServerRequests) \ failed
    <1>2. PICK order \in [1 .. Cardinality(rejected) -> rejected] :
            /\ \A q \in rejected : \E i \in DOMAIN order : order[i] = q
            /\ events' = events \o [i \in DOMAIN order |-> ResolvedEvent(order[i])]
        BY <1>1
    <1> DEFINE evs == [i \in DOMAIN order |-> ResolvedEvent(order[i])]
    <1>3. Cardinality(rejected) \in Nat
        BY <1>0, FS_Subset, FS_CardinalityType DEF Types
    <1>4. rejected \subseteq Requests /\ rejected = ServerRequests \cap (pending \ failed)
        BY <1>0 DEF Types
    <1> HIDE DEF rejected
    <1>5. DOMAIN evs = 1 .. Cardinality(rejected)
          /\ \A i \in DOMAIN evs : order[i] \in rejected /\ evs[i] = ResolvedEvent(order[i])
        OBVIOUS
    <1>6. \A i \in DOMAIN evs : /\ evs[i] \in Event /\ evs[i].kind = "resolved"
                                /\ evs[i].req = order[i]
        BY <1>0, <1>4, <1>5, ResolvedEventType
    <1>7. evs \in Seq(Event)
        BY <1>3, <1>5, <1>6
    <1>8. events' = events \o evs
        BY <1>2
    <1>9. \A q \in rejected : \E e \in Range(evs) : e.req = q
        BY <1>2, <1>5, <1>6 DEF Range
    <1> HIDE DEF evs
    <1>10. \A e \in Range(evs) : e.kind = "resolved" /\ e.req \in rejected
        BY <1>5, <1>6 DEF Range
    <1>11. Elsewhere \in -1 .. MaxClaims
        BY RequestConstants DEF Elsewhere
    <1>12. answered' \in [Requests -> -1 .. MaxClaims]
           /\ \A q \in Requests : q \notin pending \ failed => answered'[q] = answered[q]
        BY <1>0, <1>1, <1>11 DEF Types
    <1>13. Closes(evs)
        BY <1>1, <1>4, <1>8, <1>9, <1>10, <1>12 DEF Closes
    <1>14. QED
        BY <1>1, <1>7, <1>13, ClosesOnly, AcceptedIsClosed

\* A reply changes the stage of a waiting response at most.
Replied ==
    \A p \in Responders :
        /\ task'[p].req = task[p].req /\ task'[p].out = task[p].out
        /\ \/ task'[p] = task[p]
           \/ task[p].pc = "waiting" /\ task'[p].pc \in {"accepted", "refused"}

\* The adapter runs the next command.
LEMMA HandleRespondStep ==
    ASSUME LedgerInv, HandleRespond
    PROVE  LedgerInv' /\ Replied /\ \E evs \in Seq(Event) : Closes(evs)
    <1> DEFINE cmd == Head(commands)
               q == cmd.req
    <1>0. Types /\ commands # <<>> /\ commands' = Tail(commands)
        BY DEF LedgerInv, HandleRespond
    <1>1. cmd \in Command /\ commands' \in Seq(Command)
          /\ Range(commands') \subseteq Range(commands) /\ cmd \in Range(commands)
        BY <1>0, RangeTail DEF Types
    <1>2. cmd.by \in Responders /\ q \in Requests /\ cmd.claim \in 1 .. MaxClaims
        BY <1>1 DEF Command
    <1>3. UNCHANGED <<records, lastClaim, ownerOut, turn, raised, raisedIn, channel, view, joins, joining, snapshot,
                      lost>>
        BY DEF HandleRespond, ledger, browser
    <1> HIDE DEF cmd
    <1>4. ASSUME NEW evs \in Seq(Event), Closes(evs),
                 NEW result \in {"accepted", "refused"}, Reply(cmd, result),
                 result = "accepted" => q \in pending \ pending' /\ answered'[q] = cmd.claim
          PROVE  LedgerInv' /\ Replied
      <2>1. \/ UNCHANGED task
            \/ /\ task[cmd.by].claim = cmd.claim /\ task[cmd.by].pc = "waiting"
               /\ Moved(cmd.by, result, task[cmd.by].out)
        BY <1>0, <1>1, <1>4, ReplyEffect DEF Types
      <2>2. /\ task' \in [Responders -> Task]
            /\ \A p \in Responders :
                  /\ task'[p].req = task[p].req /\ task'[p].claim = task[p].claim
                  /\ task'[p].out = task[p].out
                  /\ \/ task'[p] = task[p]
                     \/ /\ p = cmd.by /\ task[p].pc = "waiting" /\ task'[p].pc = result
                        /\ task[p].claim = cmd.claim
        BY <1>0, <1>2, <2>1 DEF Moved, Types
      <2>3. Types'
        <3>1. /\ events' \in Seq(Event) /\ pending' \subseteq Requests /\ IsFiniteSet(pending')
              /\ \A e \in Range(events') : e.kind = "requested" => e.turn =< MaxTurns
          BY <1>4, ClosesStep
        <3>2. answered' \in [Requests -> -1 .. MaxClaims]
          BY <1>4 DEF Closes
        <3>3. QED
          BY <1>0, <1>1, <1>3, <2>2, <3>1, <3>2 DEF Types
      <2>4. \A p \in Responders : Claiming(p)' <=> Claiming(p)
        BY <1>4, <2>2 DEF Claiming
      <2>5. RespondingIffClaimed'
        BY <1>3, <2>2, <2>4 DEF LedgerInv, RespondingIffClaimed, Holds
      <2>6. ClaimsAreUnique'
        <3>1. \A c \in Range(commands') : c \in Range(commands) /\ c.by \in Responders
          <4>1. Range(commands) \subseteq Command
            BY <1>0, RangeType DEF Types
          <4>2. \A c \in Command : c.by \in Responders
            BY DEF Command
          <4>3. QED
            BY <1>1, <4>1, <4>2
        <3>2. \A p \in Responders : task'[p].pc # "idle" => task[p].pc # "idle"
          BY <2>2
        <3>3. QED
          BY <1>3, <2>2, <3>1, <3>2 DEF LedgerInv, ClaimsAreUnique
      <2>7. Untouched'
        <3>1. \A p \in Responders : task'[p].pc # "idle" => task[p].pc # "idle"
          BY <2>2
        <3>2. QED
          BY <1>3, <1>4, <2>2, <3>1, ClosesStep DEF LedgerInv, Untouched
      <2>8. Answers'
        <3>1. ASSUME NEW p \in Responders, task'[p].pc = "accepted"
              PROVE  answered'[task'[p].req] = task'[p].claim
          <4>0. task[p].req \in Requests /\ task'[p].req = task[p].req
                /\ task'[p].claim = task[p].claim
            BY <1>0, <2>2 DEF Types, Task
          <4>1. CASE task'[p] = task[p]
            <5>1. task[p].req \notin pending /\ answered[task[p].req] = task[p].claim
              BY <3>1, <4>1, AcceptedIsClosed DEF LedgerInv, Answers
            <5>2. QED
              BY <1>4, <4>0, <5>1 DEF Closes
          <4>2. CASE p = cmd.by /\ task[p].claim = cmd.claim /\ task'[p].pc = result
            <5>1. task[p].req = q
              BY <1>1, <4>2 DEF LedgerInv, ClaimsAreUnique
            <5>2. QED
              BY <1>4, <3>1, <4>0, <4>2, <5>1
          <4>3. QED
            BY <2>2, <4>1, <4>2
        <3>2. QED
          BY <1>4, <3>1, ClosesStep DEF Answers
      <2>9. Replied
        BY <1>4, <2>2 DEF Replied
      <2>10. QED
        BY <1>4, <2>3, <2>5, <2>6, <2>7, <2>8, <2>9, ClosesStep DEF LedgerInv
    <1>5. CASE /\ q \in pending /\ pending' = pending \ {q}
               /\ answered' = [answered EXCEPT ![q] = cmd.claim]
               /\ events' = IF q \in ServerRequests
                            THEN Append(events, ResolvedEvent(q)) ELSE events
               /\ Reply(cmd, "accepted")
      <2> DEFINE evs == IF q \in ServerRequests THEN <<ResolvedEvent(q)>> ELSE <<>>
      <2>1. ResolvedEvent(q) \in Event /\ ResolvedEvent(q).kind = "resolved"
            /\ ResolvedEvent(q).req = q
        BY <1>0, <1>2, ResolvedEventType
      <2>2. Range(evs) = IF q \in ServerRequests THEN {ResolvedEvent(q)} ELSE {}
        BY RangeOne, RangeEmpty
      <2>3. evs \in Seq(Event)
        BY <2>1
      <2>4. events' = events \o evs
        BY <1>0, <1>5, <2>1 DEF Types
      <2> HIDE DEF evs
      <2>5. answered' \in [Requests -> -1 .. MaxClaims] /\ answered'[q] = cmd.claim
            /\ \A r \in Requests \ {q} : answered'[r] = answered[r]
        <3>1. cmd.claim \in -1 .. MaxClaims
          BY <1>2, RequestConstants
        <3>2. QED
          BY <1>0, <1>2, <1>5, <3>1 DEF Types
      <2>6. Closes(evs)
        BY <1>3, <1>5, <2>1, <2>2, <2>4, <2>5 DEF Closes
      <2>7. QED
        BY <1>4, <1>5, <2>3, <2>5, <2>6
    <1>6. CASE UNCHANGED <<pending, answered, events>> /\ Reply(cmd, "refused")
      <2>1. <<>> \in Seq(Event) /\ events \o <<>> = events /\ Range(<<>>) = {}
        BY <1>0, RangeEmpty DEF Types
      <2>2. Closes(<<>>)
        BY <1>0, <1>3, <1>6, <2>1 DEF Closes, Types
      <2>3. QED
        BY <1>4, <1>6, <2>1, <2>2
    <1>7. QED
        BY <1>5, <1>6 DEF HandleRespond, cmd
-----------------------------------------------------------------------------
(* The steps of the event owner and the browser. *)

\* A harness resolution keeps the status and the claim of a record that is held.
LEMMA MarkEffect ==
    ASSUME NEW rec \in Record
    PROVE  LET new == [rec EXCEPT !.harnessResolved = TRUE] IN
           /\ new.status = rec.status /\ new.claim = rec.claim /\ new.turn = rec.turn
           /\ new.answer = rec.answer /\ new.harnessResolved = TRUE
           /\ new.revision = rec.revision /\ new.payload = rec.payload
    BY DEF Record

\* The owner applies an event.
LEMMA ApplyEventStep ==
    ASSUME LedgerInv, ApplyEvent
    PROVE  LedgerInv' /\ IsLedger(records) /\ IsLedger(records')
    <1> PICK e : e = Head(events)
        OBVIOUS
    <1>0. Types /\ events # <<>> /\ events' = Tail(events) /\ IsLedger(records)
          /\ records' = Applied(records, e)
        BY DEF LedgerInv, ApplyEvent, Types, IsLedger
    <1>1. e \in Event /\ events' \in Seq(Event) /\ Range(events) = {e} \cup Range(events')
        BY <1>0, RangeTail DEF Types
    <1>2. UNCHANGED <<lastClaim, task, commands, pending, turn, raised, raisedIn, answered,
                      channel, view, joins, joining, snapshot,
                      lost>>
        BY DEF ApplyEvent, adapter, browser
    <1>3. e.kind \in {"requested", "resolved", "turnCompleted"} /\ e.req \in Requests
          /\ e.turn \in Nat /\ e.payload \in Nat
        BY <1>1 DEF Event
    <1>4. e.kind = "requested" => e.turn \in 0 .. MaxTurns
      <2>1. \A x \in Range(events) : x.kind = "requested" => x.turn =< MaxTurns
        BY <1>0 DEF Types
      <2>2. e \in Range(events) /\ MaxTurns \in Nat
        BY <1>1, RequestConstants
      <2>3. QED
        BY <1>3, <2>1, <2>2
    <1>5. ownerOut' = IF e.kind = "turnCompleted" THEN <<TurnCompleted>>
                      ELSE Changed(records, records', e.req)
        BY <1>0 DEF ApplyEvent
    <1>6. e.kind # "turnCompleted" => raised[e.req] # 0
        BY <1>1, <1>3 DEF LedgerInv, Untouched
    <1>7. e.kind = "requested" /\ e.req \in ServerRequests \ pending =>
              Queued("resolved", e.req)'
      <2> SUFFICES ASSUME e.kind = "requested", e.req \in ServerRequests \ pending
                   PROVE  \E x \in Range(Tail(events)) : x.kind = "resolved" /\ x.req = e.req
        BY <1>0 DEF Queued
      <2>1. Covered(events, e.req) /\ events \in Seq(Event)
        BY <1>0 DEF LedgerInv, ClosedTrace, ClosedAt, Types
      <2>2. QED
        BY <1>0, <2>1, CoveredHead
    <1>8. \A q \in ServerRequests \ pending' : Covered(events', q)
        BY <1>0, <1>2, CoveredTail DEF LedgerInv, ClosedTrace, ClosedAt, Types
    <1>9. ASSUME IsLedger(records')
          PROVE  Types'
      <2>1. ownerOut' \in Seq(Wire)
        <3>1. Changed(records, records', e.req) \in Seq(Wire)
          BY <1>9, ChangedType, WireSeq
        <3>2. <<TurnCompleted>> \in Seq(Wire)
          BY DEF Wire
        <3>3. QED
          BY <1>5, <3>1, <3>2
      <2>2. QED
        BY <1>0, <1>1, <1>2, <1>9, <2>1 DEF Types, IsLedger
    <1>10. ClaimsAreUnique' /\ Answers'
        BY <1>2 DEF LedgerInv, ClaimsAreUnique, Answers
    <1>11. CASE e.kind = "requested"
      <2> DEFINE q == e.req
      <2>1. records' = Register(records, q, e.turn, e.payload)
        BY <1>0, <1>11 DEF Applied
      <2>2. Registered(records, records', q, e.turn)
        BY <1>0, <1>3, <1>4, <1>11, <2>1, RegisterEffect
      <2> HIDE DEF q
      <2>3. RespondingIffClaimed'
        BY <1>2, <2>2 DEF Registered, LedgerInv, RespondingIffClaimed, Claiming, Holds
      <2>4. AnswerWasDelivered'
        BY <1>2, <2>2 DEF Registered, LedgerInv, AnswerWasDelivered
      <2>5. Untouched'
        BY <1>1, <1>2, <1>6, <1>11, <2>2 DEF Registered, LedgerInv, Untouched, q
      <2>6. OpenTrace'
        <3> SUFFICES ASSUME NEW r \in pending
                     PROVE  /\ Queued("requested", r)' \/ r \in DOMAIN records'
                            /\ r \in DOMAIN records' =>
                                  records'[r].status # "resolved" /\ ~records'[r].harnessResolved
                            /\ ~Queued("resolved", r)'
          BY <1>2 DEF OpenTrace
        <3>1. /\ Queued("requested", r) \/ r \in DOMAIN records
              /\ r \in DOMAIN records =>
                     records[r].status # "resolved" /\ ~records[r].harnessResolved
              /\ ~Queued("resolved", r)
          BY DEF LedgerInv, OpenTrace
        <3>2. ~Queued("resolved", r)'
          BY <1>1, <3>1 DEF Queued
        <3>3. Queued("requested", r)' \/ r \in DOMAIN records'
          BY <1>1, <2>2, <3>1 DEF Registered, Queued, q
        <3>4. QED
          BY <2>2, <3>1, <3>2, <3>3 DEF Registered
      <2>7. ClosedTrace'
        <3> SUFFICES ASSUME NEW r \in ServerRequests \ pending
                     PROVE  ClosedAt(r)'
          BY <1>2 DEF ClosedTrace
        <3>1. ClosedAt(r) /\ Covered(events', r)
          BY <1>2, <1>8 DEF LedgerInv, ClosedTrace
        <3>2. CASE r \in DOMAIN records
          <4>1. Queued("resolved", r) => Queued("resolved", r)'
            BY <1>1, <1>11 DEF Queued
          <4>2. QED
            BY <2>2, <3>1, <3>2, <4>1 DEF Registered, ClosedAt
        <3>3. CASE r \notin DOMAIN records
          <4>1. CASE r = q
            <5>1. Queued("resolved", r)'
              BY <1>2, <1>7, <1>11, <4>1 DEF q
            <5>2. QED
              BY <3>1, <5>1 DEF ClosedAt
          <4>2. CASE r # q
            BY <2>2, <3>1, <3>3, <4>2 DEF Registered, ClosedAt
          <4>3. QED
            BY <4>1, <4>2
        <3>4. QED
          BY <3>2, <3>3
      <2>8. QED
        BY <1>0, <1>9, <1>10, <2>2, <2>3, <2>4, <2>5, <2>6, <2>7 DEF LedgerInv, Registered
    <1>12. CASE e.kind = "resolved"
      <2> DEFINE q == e.req
      <2>1. records' = ResolveFromHarness(records, q)
        BY <1>0, <1>12 DEF Applied
      <2>2. HarnessResolves(records, records', q)
        BY <1>0, <1>3, <2>1, HarnessEffect
      <2>3. q \in DOMAIN records => records[q] \in Record
        BY <1>0 DEF IsLedger
      <2>4. q \in DOMAIN records =>
                 \/ records[q].status = "resolved" /\ records'[q] = records[q]
                 \/ /\ records[q].status = "pending" /\ records'[q].status = "resolved"
                    /\ records'[q].answer = NullAnswer
                 \/ /\ records[q].status = "responding" /\ records'[q].status = "responding"
                    /\ records'[q].claim = records[q].claim
                    /\ records'[q].harnessResolved = TRUE
        <3>1. CASE /\ q \in DOMAIN records /\ records[q].status = "responding"
                   /\ records'[q] = [records[q] EXCEPT !.harnessResolved = TRUE]
          BY <2>3, <3>1, MarkEffect
        <3>2. QED
          BY <2>2, <3>1 DEF HarnessResolves, Resolves
      <2>5. q \notin pending
        BY <1>1, <1>12 DEF LedgerInv, OpenTrace, Queued
      <2>6. \A k, r : r # q \/ k # "resolved" => (Queued(k, r)' <=> Queued(k, r))
        BY <1>1, <1>12 DEF Queued
      <2> HIDE DEF q
      <2>7. RespondingIffClaimed'
        BY <1>2, <2>2, <2>4 DEF HarnessResolves, LedgerInv, RespondingIffClaimed, Claiming, Holds
      <2>8. AnswerWasDelivered'
        BY <1>2, <2>2, <2>4 DEF HarnessResolves, LedgerInv, AnswerWasDelivered
      <2>9. Untouched'
        BY <1>1, <1>2, <2>2 DEF HarnessResolves, LedgerInv, Untouched
      <2>10. OpenTrace'
        BY <1>2, <2>2, <2>5, <2>6 DEF HarnessResolves, LedgerInv, OpenTrace
      <2>11. ClosedTrace'
        BY <1>2, <1>8, <2>2, <2>4, <2>6 DEF HarnessResolves, LedgerInv, ClosedTrace, ClosedAt
      <2>12. QED
        BY <1>0, <1>9, <1>10, <2>2, <2>7, <2>8, <2>9, <2>10, <2>11 DEF HarnessResolves, LedgerInv
    <1>13. CASE e.kind = "turnCompleted"
      <2>1. records' = Pruned(records, e.turn)
        BY <1>0, <1>13 DEF Applied
      <2>2. Prunes(records, records', e.turn)
        BY <1>0, <2>1, PruneEffect
      <2>3. \A k, r : k # "turnCompleted" => (Queued(k, r)' <=> Queued(k, r))
        BY <1>1, <1>13 DEF Queued
      <2>4. RespondingIffClaimed'
        BY <1>2, <2>2 DEF Prunes, LedgerInv, RespondingIffClaimed, Claiming, Holds
      <2>5. AnswerWasDelivered'
        BY <1>2, <2>2 DEF Prunes, LedgerInv, AnswerWasDelivered
      <2>6. Untouched'
        BY <1>1, <1>2, <2>2 DEF Prunes, LedgerInv, Untouched
      <2>7. OpenTrace'
        BY <1>2, <2>2, <2>3 DEF Prunes, LedgerInv, OpenTrace
      <2>8. ClosedTrace'
        BY <1>2, <1>8, <2>2, <2>3 DEF Prunes, LedgerInv, ClosedTrace, ClosedAt
      <2>9. QED
        BY <1>0, <1>9, <1>10, <2>2, <2>4, <2>5, <2>6, <2>7, <2>8 DEF Prunes, LedgerInv
    <1>14. QED
        BY <1>3, <1>11, <1>12, <1>13

\* Steps that only move messages towards the browser.
LEMMA PublishStep ==
    ASSUME LedgerInv, UNCHANGED <<ledger, task, events, adapter>>,
           ownerOut' \in Seq(Wire), channel' \in Seq(Wire),
           DOMAIN view' \subseteq Requests, view' \in [DOMAIN view' -> Messages],
           joins' \in Nat, joining' \in BOOLEAN, snapshot' \subseteq Messages,
           lost' \subseteq Requests
    PROVE  LedgerInv'
    <1>1. UNCHANGED <<records, lastClaim, task, events, commands, pending, turn, raised,
                      raisedIn, answered>>
        BY DEF ledger, adapter
    <1>2. Types'
        BY <1>1 DEF LedgerInv, Types
    <1>3. RespondingIffClaimed' /\ AnswerWasDelivered' /\ ClaimsAreUnique' /\ Untouched'
          /\ Answers'
        BY <1>1 DEF LedgerInv, RespondingIffClaimed, Claiming, Holds, AnswerWasDelivered,
           ClaimsAreUnique, Untouched, Answers
    <1>4. OpenTrace' /\ ClosedTrace'
        BY <1>1 DEF LedgerInv, OpenTrace, ClosedTrace, ClosedAt, Queued
    <1>5. QED
        BY <1>2, <1>3, <1>4 DEF LedgerInv

\* What the hub does with messages: they are queued, or lost.
LEMMA PublishEffect ==
    ASSUME Types, NEW out \in Seq(Wire), Publish(out)
    PROVE  /\ UNCHANGED <<view, joins, joining, snapshot>>
           /\ channel' \in Seq(Wire) /\ lost' \subseteq Requests
           /\ \/ Range(channel') = Range(channel) \cup Range(out) /\ lost' = lost
              \/ /\ channel' = channel
                 /\ lost' = lost \cup {m.req : m \in Range(out) \ {TurnCompleted}}
    <1>1. channel \in Seq(Wire) /\ lost \subseteq Requests
        BY DEF Types
    <1>2. UNCHANGED <<view, joins, joining, snapshot>>
        BY DEF Publish
    <1>3. CASE channel' = channel \o out /\ lost' = lost
        BY <1>1, <1>2, <1>3, RangeConcat
    <1>4. CASE channel' = channel
               /\ lost' = lost \cup {m.req : m \in Range(out) \ {TurnCompleted}}
      <2>1. Range(out) \ {TurnCompleted} \subseteq Messages
        BY RangeType DEF Wire
      <2>2. \A m \in Messages : m.req \in Requests
        BY DEF Messages
      <2>3. QED
        BY <1>1, <1>2, <1>4, <2>1, <2>2
    <1>5. QED
        BY <1>3, <1>4 DEF Publish

\* The owner publishes what an event changed: the ledger does not move.
LEMMA PublishAppliedStep ==
    ASSUME LedgerInv, PublishApplied
    PROVE  LedgerInv'
    <1>1. Types /\ ownerOut' = <<>> /\ ownerOut' \in Seq(Wire)
        BY DEF LedgerInv, PublishApplied
    <1>2. ownerOut \in Seq(Wire) /\ Publish(ownerOut)
          /\ UNCHANGED <<ledger, task, events, adapter>>
        BY <1>1 DEF PublishApplied, Types
    <1>3. UNCHANGED <<view, joins, joining, snapshot>> /\ channel' \in Seq(Wire)
          /\ lost' \subseteq Requests
        BY <1>1, <1>2, PublishEffect
    <1>4. QED
        BY <1>1, <1>2, <1>3, PublishStep DEF Types

\* The browser receives a state: the ledger does not move.
LEMMA ReceiveStep ==
    ASSUME LedgerInv, Receive
    PROVE  LedgerInv'
    <1> DEFINE m == Head(channel)
    <1>0. Types
        BY DEF LedgerInv
    <1>1. channel \in Seq(Wire) /\ channel # <<>> /\ channel' = Tail(channel)
          /\ DOMAIN view \subseteq Requests /\ view \in [DOMAIN view -> Messages]
          /\ m # TurnCompleted
        BY <1>0 DEF Types, Receive
    <1>2. m \in Messages /\ channel' \in Seq(Wire)
        BY <1>1, RangeTail DEF Wire
    <1>3. m.req \in Requests
        BY <1>2 DEF Messages
    <1>4. view' = IF Accepts(view, m) THEN Put(view, m.req, m) ELSE view
        BY DEF Receive
    <1> HIDE DEF m
    <1>5. DOMAIN view' \subseteq Requests /\ view' \in [DOMAIN view' -> Messages]
        BY <1>1, <1>2, <1>3, <1>4 DEF Put
    <1>6. UNCHANGED <<ledger, task, ownerOut, events, adapter>>
          /\ UNCHANGED <<joins, joining, snapshot, lost>>
        BY DEF Receive
    <1>7. QED
        BY <1>0, <1>2, <1>5, <1>6, PublishStep DEF Types

\* The browser learns that a turn has ended: the ledger does not move.
LEMMA ReceiveCompletedStep ==
    ASSUME LedgerInv, ReceiveCompleted
    PROVE  LedgerInv'
    <1>0. Types
        BY DEF LedgerInv
    <1>1. channel \in Seq(Wire) /\ channel # <<>> /\ channel' = Tail(channel)
          /\ DOMAIN view \subseteq Requests /\ view \in [DOMAIN view -> Messages]
          /\ lost \subseteq Requests
        BY <1>0 DEF Types, ReceiveCompleted
    <1>2. channel' \in Seq(Wire)
        BY <1>1, RangeTail
    <1>3. DOMAIN view' \subseteq Requests /\ view' \in [DOMAIN view' -> Messages]
        BY <1>1 DEF ReceiveCompleted
    <1>4. lost' \subseteq Requests
        BY <1>1 DEF ReceiveCompleted
    <1>5. UNCHANGED <<ledger, task, ownerOut, events, adapter>>
          /\ UNCHANGED <<joins, joining, snapshot>>
        BY DEF ReceiveCompleted
    <1>6. QED
        BY <1>0, <1>2, <1>3, <1>4, <1>5, PublishStep DEF Types

\* The browser subscribes again: the ledger does not move.
LEMMA SubscribeStep ==
    ASSUME LedgerInv, Reconnect \/ ReadStates \/ SendState
    PROVE  LedgerInv'
    <1>0. Types /\ IsLedger(records)
        BY DEF LedgerInv, Types, IsLedger
    <1>1. UNCHANGED <<ledger, task, ownerOut, events, adapter>>
        BY DEF Reconnect, ReadStates, SendState
    <1>2. CASE Reconnect
      <2>1. channel' = <<>> /\ snapshot' = {} /\ lost' = Requests /\ joining' = TRUE
            /\ joins' = joins + 1 /\ view' \in {view, [q \in {} |-> 0]}
        BY <1>2 DEF Reconnect
      <2>2. channel' \in Seq(Wire) /\ joins' \in Nat
        BY <1>0, <2>1 DEF Types
      <2>3. DOMAIN view' \subseteq Requests /\ view' \in [DOMAIN view' -> Messages]
        BY <1>0, <2>1 DEF Types
      <2>4. QED
        BY <1>0, <1>1, <2>1, <2>2, <2>3, PublishStep DEF Types
    <1>3. CASE ReadStates
      <2>1. joining' = FALSE /\ lost' = {} /\ UNCHANGED <<channel, view, joins>>
            /\ snapshot' = {State(records, q) : q \in DOMAIN records}
        BY <1>3 DEF ReadStates
      <2>2. snapshot' \subseteq Messages
        BY <1>0, <2>1, StateType
      <2>3. QED
        BY <1>0, <1>1, <2>1, <2>2, PublishStep DEF Types
    <1>4. CASE SendState
      <2>1. PICK m \in snapshot : channel' = Append(channel, m) /\ snapshot' = snapshot \ {m}
        BY <1>4 DEF SendState
      <2>2. UNCHANGED <<view, joins, joining, lost>>
        BY <1>4 DEF SendState
      <2>3. m \in Wire /\ channel \in Seq(Wire)
        BY <1>0, <2>1 DEF Types, Wire
      <2>4. channel' \in Seq(Wire)
        BY <2>1, <2>3
      <2>5. QED
        BY <1>0, <1>1, <2>1, <2>2, <2>4, PublishStep DEF Types
    <1>5. QED
        BY <1>2, <1>3, <1>4
-----------------------------------------------------------------------------
(* The steps of a response. *)

\* A response takes the claim of a pending record.
LEMMA ClaimStep ==
    ASSUME LedgerInv, NEW p \in Responders, NEW q \in Requests, Claim(p, q)
    PROVE  LedgerInv'
    <1>0. Types /\ IsLedger(records) /\ q \in DOMAIN records
          /\ records[q].status = "pending" /\ task[p].pc = "idle"
        BY DEF LedgerInv, Types, IsLedger, Claim
    <1> PICK c : c = lastClaim + 1
        OBVIOUS
    <1> PICK t : t = [pc |-> "claimed", req |-> q, claim |-> c,
                      out |-> <<State(Claimed(records, q, c), q)>>]
        OBVIOUS
    <1>1. /\ c \in 1 .. MaxClaims /\ task' \in [Responders -> Task] /\ task'[p] = t
          /\ \A r \in Responders \ {p} : task'[r] = task[r]
        BY <1>0, ClaimTask
    <1>2. c \in 0 .. MaxClaims /\ c > lastClaim /\ c # NoClaim /\ lastClaim \in Nat
        BY <1>0, <1>1, RequestConstants, SMTT(30) DEF Types, NoClaim
    <1>3. records' = Claimed(records, q, c) /\ lastClaim' = c
        BY DEF Claim
    <1>4. /\ IsLedger(records') /\ DOMAIN records' = DOMAIN records
          /\ \A r \in DOMAIN records \ {q} : records'[r] = records[r]
          /\ records'[q].status = "responding" /\ records'[q].claim = c
          /\ records'[q].harnessResolved = FALSE
      <2>1. Claims(records, records', q, c)
        BY <1>0, <1>2, <1>3, ClaimEffect
      <2>2. QED
        BY <2>1 DEF Claims
    <1>5. UNCHANGED <<ownerOut, events, commands, pending, turn, raised, raisedIn,
                      answered, channel, view, joins, joining, snapshot,
                      lost>>
        BY DEF Claim, adapter, browser
    <1>6. t.pc = "claimed" /\ t.req = q /\ t.claim = c
        OBVIOUS
    <1>7. Types'
        BY <1>0, <1>1, <1>2, <1>3, <1>4, <1>5 DEF Types, IsLedger
    <1>8. RespondingIffClaimed'
      <2>1. ASSUME NEW r \in DOMAIN records', records'[r].status = "responding"
            PROVE  \E s \in Responders : /\ Claiming(s)' /\ task'[s].req = r
                                         /\ task'[s].claim = records'[r].claim
        <3>1. CASE r = q
          <4>1. Claiming(p)'
            BY <1>1, <1>6 DEF Claiming
          <4>2. QED
            BY <1>1, <1>4, <1>6, <3>1, <4>1
        <3>2. CASE r # q
          <4>1. PICK s \in Responders : /\ Claiming(s) /\ task[s].req = r
                                        /\ task[s].claim = records[r].claim
            BY <1>4, <2>1, <3>2 DEF LedgerInv, RespondingIffClaimed
          <4>2. s # p
            BY <1>0, <4>1 DEF Claiming
          <4>3. QED
            BY <1>1, <1>4, <2>1, <3>2, <4>1, <4>2 DEF Claiming
        <3>3. QED
          BY <3>1, <3>2
      <2>2. ASSUME NEW s \in Responders, Claiming(s)'
            PROVE  Holds(records', task'[s].req, task'[s].claim)
        <3>1. CASE s = p
          BY <1>0, <1>1, <1>4, <1>6, <3>1 DEF Holds
        <3>2. CASE s # p
          <4>1. Holds(records, task[s].req, task[s].claim)
            BY <1>1, <2>2, <3>2 DEF LedgerInv, RespondingIffClaimed, Claiming
          <4>2. task[s].req # q
            BY <1>0, <4>1 DEF Holds
          <4>3. QED
            BY <1>1, <1>4, <3>2, <4>1, <4>2 DEF Holds
        <3>3. QED
          BY <3>1, <3>2
      <2>3. QED
        BY <2>1, <2>2 DEF RespondingIffClaimed
    <1>9. AnswerWasDelivered'
        BY <1>4, <1>5 DEF LedgerInv, AnswerWasDelivered
    <1>10. ClaimsAreUnique'
      <2>1. \A r \in Responders : task[r].claim =< lastClaim /\ task[r].claim \in 0 .. MaxClaims
        BY <1>0 DEF LedgerInv, ClaimsAreUnique, Types, Task
      <2>2. \A r \in Responders : task[r].claim # c /\ task[r].claim < c
        BY <1>2, <2>1
      <2>3. \A x \in Range(commands) : x.claim \in Nat /\ x.by \in Responders
        <3>1. Range(commands) \subseteq Command
          BY <1>0, RangeType DEF Types
        <3>2. QED
          BY <3>1 DEF Command
      <2>4. \A x \in Range(commands) : x.claim =< lastClaim /\ x.claim # c /\ x.claim =< c
        BY <1>2, <2>3 DEF LedgerInv, ClaimsAreUnique
      <2>5. \A r \in Responders : /\ task'[r].claim =< lastClaim'
                                  /\ task'[r].pc # "idle" => task'[r].claim # NoClaim
        BY <1>1, <1>2, <1>3, <1>6, <2>1, <2>2 DEF LedgerInv, ClaimsAreUnique
      <2>6. \A r, s \in Responders : r # s /\ task'[r].claim = task'[s].claim
                                        => task'[r].claim = NoClaim
        BY <1>1, <1>6, <2>2 DEF LedgerInv, ClaimsAreUnique
      <2>7. \A x \in Range(commands') :
               /\ x.claim =< lastClaim'
               /\ task'[x.by].claim = x.claim => task'[x.by].req = x.req
        BY <1>1, <1>3, <1>5, <1>6, <2>3, <2>4 DEF LedgerInv, ClaimsAreUnique
      <2>8. QED
        BY <2>5, <2>6, <2>7 DEF ClaimsAreUnique
    <1>11. Untouched'
        BY <1>0, <1>1, <1>4, <1>5, <1>6 DEF LedgerInv, Untouched
    <1>12. Answers'
        BY <1>1, <1>5, <1>6 DEF LedgerInv, Answers
    <1>13. OpenTrace'
        BY <1>0, <1>4, <1>5 DEF LedgerInv, OpenTrace, Queued
    <1>14. ClosedTrace'
        BY <1>0, <1>4, <1>5 DEF LedgerInv, ClosedTrace, ClosedAt, Queued
    <1>15. QED
        BY <1>7, <1>8, <1>9, <1>10, <1>11, <1>12, <1>13, <1>14 DEF LedgerInv

\* Steps of a response that leave the ledger alone and move it on, with its claim
\* still open or not as before.
LEMMA MoveStep ==
    ASSUME LedgerInv, NEW p \in Responders, NEW stage, NEW out, stage # "accepted",
           task[p].pc # "idle",
           \/ Moved(p, stage, out)
           \/ Rested(p) /\ ~Claiming(p),
           Moved(p, stage, out) => (Claiming(p)' <=> Claiming(p)),
           UNCHANGED <<ledger, ownerOut, events, pending, turn, raised, raisedIn,
                       answered, view, joins, joining, snapshot>>,
           channel' \in Seq(Wire), lost' \subseteq Requests, commands' \in Seq(Command),
           \A c \in Range(commands') :
              \/ c \in Range(commands)
              \/ c.by = p /\ c.claim = task[p].claim /\ c.req = task[p].req
    PROVE  LedgerInv'
    <1>0. Types
        BY DEF LedgerInv
    <1>1. UNCHANGED <<records, lastClaim>>
        BY DEF ledger
    <1>2. /\ task' \in [Responders -> Task]
          /\ \A r \in Responders \ {p} : task'[r] = task[r]
          /\ \/ /\ task'[p].pc = stage /\ task'[p].req = task[p].req
                /\ task'[p].claim = task[p].claim
             \/ task'[p].pc = "idle" /\ task'[p].claim = NoClaim
        BY IdleType DEF Moved, Rested
    <1>3. Types'
        BY <1>0, <1>1, <1>2 DEF Types
    <1>4. \A r \in Responders : Claiming(r)' <=> Claiming(r)
        BY <1>2, IdleType DEF Claiming, Moved, Rested
    <1>5. \A r \in Responders : Claiming(r)
              => task'[r].req = task[r].req /\ task'[r].claim = task[r].claim
        BY <1>2, <1>4 DEF Claiming
    <1>6. RespondingIffClaimed'
        BY <1>1, <1>4, <1>5 DEF LedgerInv, RespondingIffClaimed, Holds
    <1>7. ClaimsAreUnique'
      <2>1. \A r \in Responders : task[r].claim \in 0 .. MaxClaims /\ task[r].claim =< lastClaim
        BY <1>0 DEF LedgerInv, ClaimsAreUnique, Types, Task
      <2>2. lastClaim \in Nat /\ NoClaim =< lastClaim
        BY <1>0, RequestConstants DEF Types, NoClaim
      <2>3. Range(commands') \subseteq Command
        BY RangeType
      <2>4. \A c \in Range(commands') : c.by \in Responders /\ c.claim # NoClaim
        BY <2>3 DEF Command, NoClaim
      <2>5. \A r \in Responders : /\ task'[r].claim =< lastClaim'
                                  /\ task'[r].pc # "idle" => task'[r].claim # NoClaim
        BY <1>1, <1>2, <2>1, <2>2 DEF LedgerInv, ClaimsAreUnique
      <2>6. \A r, s \in Responders : r # s /\ task'[r].claim = task'[s].claim
                                        => task'[r].claim = NoClaim
        BY <1>2 DEF LedgerInv, ClaimsAreUnique
      <2>7. \A c \in Range(commands') :
               /\ c.claim =< lastClaim'
               /\ task'[c.by].claim = c.claim => task'[c.by].req = c.req
        BY <1>1, <1>2, <2>1, <2>4 DEF LedgerInv, ClaimsAreUnique
      <2>8. QED
        BY <2>5, <2>6, <2>7 DEF ClaimsAreUnique
    <1>8. Untouched'
        BY <1>1, <1>2 DEF LedgerInv, Untouched
    <1>9. Answers'
        BY <1>2 DEF LedgerInv, Answers
    <1>10. AnswerWasDelivered' /\ OpenTrace' /\ ClosedTrace'
        BY <1>1 DEF LedgerInv, AnswerWasDelivered, OpenTrace, ClosedTrace, ClosedAt, Queued
    <1>11. QED
        BY <1>3, <1>6, <1>7, <1>8, <1>9, <1>10 DEF LedgerInv

\* A response publishes its claim and goes on to the send.
LEMMA PublishClaimStep ==
    ASSUME LedgerInv, NEW p \in Responders, PublishClaim(p)
    PROVE  LedgerInv' /\ Moved(p, "sending", <<>>)
    <1>0. Types /\ task[p] \in Task
        BY DEF LedgerInv, Types
    <1>1. Moved(p, "sending", <<>>)
      <2>1. <<>> \in Seq(Messages) /\ "sending" \in Stages
        BY DEF Stages
      <2>2. QED
        BY <1>0, <2>1, MoveBoth DEF PublishClaim, Types
    <1>2. Claiming(p)' /\ Claiming(p) /\ task[p].pc # "idle"
        BY <1>1 DEF Claiming, Moved, PublishClaim
    <1>3. channel' \in Seq(Wire) /\ lost' \subseteq Requests
          /\ UNCHANGED <<view, joins, joining, snapshot>>
      <2>1. task[p].out \in Seq(Wire) /\ Publish(task[p].out)
        BY <1>0, WireSeq DEF PublishClaim, Task
      <2>2. QED
        BY <1>0, <2>1, PublishEffect
    <1>4. UNCHANGED <<ledger, ownerOut, events, commands, pending, turn, raised, raisedIn,
                      answered>>
        BY DEF PublishClaim, adapter
    <1>5. commands' \in Seq(Command)
        BY <1>0, <1>4 DEF Types
    <1>6. QED
        BY <1>1, <1>2, <1>3, <1>4, <1>5, MoveStep

\* A response hands its answer to the harness.
LEMMA SendStep ==
    ASSUME LedgerInv, NEW p \in Responders, Send(p)
    PROVE  LedgerInv' /\ Moved(p, "waiting", task[p].out)
    <1>0. Types /\ task[p] \in Task
        BY DEF LedgerInv, Types
    <1>1. Moved(p, "waiting", task[p].out)
      <2>1. "waiting" \in Stages
        BY DEF Stages
      <2>2. QED
        BY <1>0, <2>1, MoveStage DEF Send, Types
    <1>2. Claiming(p)' /\ Claiming(p) /\ task[p].pc # "idle"
        BY <1>1 DEF Claiming, Moved, Send
    <1> DEFINE c == [by |-> p, req |-> task[p].req, claim |-> task[p].claim]
    <1>3. c \in Command
      <2>1. task[p].claim # NoClaim
        BY <1>2 DEF LedgerInv, ClaimsAreUnique
      <2>2. task[p].claim \in 1 .. MaxClaims /\ task[p].req \in Requests
        BY <1>0, <2>1, RequestConstants DEF Task, NoClaim
      <2>3. QED
        BY <2>2 DEF Command
    <1>4. UNCHANGED <<ledger, ownerOut, events, pending, turn, raised, raisedIn,
                      answered, channel, view, joins, joining, snapshot,
                      lost>> /\ commands' = Append(commands, c)
        BY DEF Send, browser
    <1>5. c.by = p /\ c.claim = task[p].claim /\ c.req = task[p].req
        OBVIOUS
    <1> HIDE DEF c
    <1>6. commands' \in Seq(Command) /\ Range(commands') = Range(commands) \cup {c}
          /\ channel' \in Seq(Wire) /\ lost' \subseteq Requests
        BY <1>0, <1>3, <1>4, RangeAppend DEF Types
    <1>7. QED
        BY <1>1, <1>2, <1>4, <1>5, <1>6, MoveStep

\* A response publishes what it settled and is over.
LEMMA PublishSettledStep ==
    ASSUME LedgerInv, NEW p \in Responders, PublishSettled(p)
    PROVE  LedgerInv' /\ Rested(p)
    <1>0. Types /\ task[p] \in Task
        BY DEF LedgerInv, Types
    <1>1. Rested(p)
        BY <1>0, Rest DEF PublishSettled, Types
    <1>2. ~Claiming(p) /\ task[p].pc # "idle"
        BY DEF Claiming, PublishSettled
    <1>3. channel' \in Seq(Wire) /\ lost' \subseteq Requests
          /\ UNCHANGED <<view, joins, joining, snapshot>>
      <2>1. task[p].out \in Seq(Wire) /\ Publish(task[p].out)
        BY <1>0, WireSeq DEF PublishSettled, Task
      <2>2. QED
        BY <1>0, <2>1, PublishEffect
    <1>4. UNCHANGED <<ledger, ownerOut, events, commands, pending, turn, raised, raisedIn,
                      answered>>
        BY DEF PublishSettled, adapter
    <1>5. commands' \in Seq(Command)
        BY <1>0, <1>4 DEF Types
    <1>6. ~Claiming(p)'
        BY <1>1, IdleType DEF Claiming, Rested
    <1>7. QED
        BY <1>1, <1>2, <1>3, <1>4, <1>5, <1>6, MoveStep

\* After a timeout the record is read again, or is gone.
LEMMA RereadStep ==
    ASSUME LedgerInv, NEW p \in Responders, Reread(p)
    PROVE  /\ LedgerInv'
           /\ \/ task[p].req \notin DOMAIN records /\ Rested(p)
              \/ /\ task[p].req \in DOMAIN records
                 /\ Moved(p, "reread", <<State(records, task[p].req)>>)
    <1>0. Types /\ task[p] \in Task /\ IsLedger(records)
        BY DEF LedgerInv, Types, IsLedger
    <1>1. ~Claiming(p) /\ task[p].pc # "idle"
        BY DEF Claiming, Reread
    <1>2. UNCHANGED <<ledger, ownerOut, events, commands, pending, turn, raised, raisedIn,
                      answered, channel, view, joins, joining, snapshot,
                      lost>>
        BY DEF Reread, adapter, browser
    <1>3. commands' \in Seq(Command) /\ channel' \in Seq(Wire)
          /\ lost' \subseteq Requests
        BY <1>0, <1>2 DEF Types
    <1>4. CASE task[p].req \notin DOMAIN records
      <2>1. Rested(p)
        BY <1>0, <1>4, Rest DEF Reread, Types
      <2>2. ~Claiming(p)'
        BY <2>1, IdleType DEF Claiming, Rested
      <2>3. QED
        BY <1>1, <1>2, <1>3, <1>4, <2>1, <2>2, MoveStep
    <1>5. CASE task[p].req \in DOMAIN records
      <2> DEFINE out == <<State(records, task[p].req)>>
      <2>1. State(records, task[p].req) \in Messages
        BY <1>0, <1>5, StateType
      <2>2. out \in Seq(Messages) /\ "reread" \in Stages
        BY <2>1 DEF Stages
      <2>3. task' = [task EXCEPT ![p].pc = "reread", ![p].out = out]
        BY <1>5 DEF Reread
      <2> HIDE DEF out
      <2>4. Moved(p, "reread", out)
        BY <1>0, <2>2, <2>3, MoveBoth DEF Types
      <2>5. ~Claiming(p)'
        BY <2>4 DEF Claiming, Moved
      <2>6. LedgerInv'
        BY <1>1, <1>2, <1>3, <2>4, <2>5, MoveStep
      <2>7. QED
        BY <1>5, <2>4, <2>6 DEF out
    <1>6. QED
        BY <1>4, <1>5

\* A response gives its claim up, settled one way or the other: only the record it
\* holds changes, and that is responding no more.
Releases(p) ==
    LET q == task[p].req
        c == task[p].claim
    IN  /\ IsLedger(records')
        /\ DOMAIN records' = DOMAIN records
        /\ \A r \in DOMAIN records \ {q} : records'[r] = records[r]
        /\ ~Holds(records, q, c) => records' = records
        /\ Holds(records, q, c) =>
             /\ records'[q].turn = records[q].turn /\ records'[q].claim = records[q].claim
             /\ records'[q].harnessResolved = records[q].harnessResolved
             /\ records'[q].revision = records[q].revision + 1
             /\ \/ /\ records'[q].status = "resolved" /\ records'[q].answer = c
                   /\ answered[q] = c
                \/ /\ records'[q].status = "resolved" /\ records'[q].answer = NullAnswer
                   /\ records[q].harnessResolved
                \/ /\ records'[q].status = "pending" /\ ~records[q].harnessResolved

\* A response that lets its claim go, committed or rolled back, keeps the invariant.
LEMMA ReleaseStep ==
    ASSUME LedgerInv, NEW p \in Responders, Releases(p), task[p].pc # "idle",
           \/ Rested(p)
           \/ \E stage \in {"settled", "timedOut"} : \E out : Moved(p, stage, out),
           UNCHANGED <<lastClaim, ownerOut, events, adapter, browser>>
    PROVE  LedgerInv'
    <1> PICK q : q = task[p].req
        OBVIOUS
    <1> PICK c : c = task[p].claim
        OBVIOUS
    <1>0. Types /\ IsLedger(records) /\ IsLedger(records') /\ q \in Requests /\ c # NoClaim
        BY DEF LedgerInv, Types, IsLedger, Releases, ClaimsAreUnique, Task
    <1>1. UNCHANGED <<lastClaim, ownerOut, events, commands, pending, turn, raised, raisedIn,
                      answered, channel, view, joins, joining, snapshot,
                      lost>>
        BY DEF adapter, browser
    <1>2. /\ task' \in [Responders -> Task]
          /\ \A r \in Responders \ {p} : task'[r] = task[r]
          /\ task'[p].pc \in {"idle", "settled", "timedOut"}
          /\ \/ task'[p].pc # "idle" /\ task'[p].req = q /\ task'[p].claim = c
             \/ task'[p].pc = "idle" /\ task'[p].claim = NoClaim
        BY IdleType DEF Moved, Rested
    <1>3. /\ DOMAIN records' = DOMAIN records
          /\ \A r \in DOMAIN records \ {q} : records'[r] = records[r]
          /\ ~Holds(records, q, c) => records' = records
          /\ Holds(records, q, c) =>
               /\ q \in DOMAIN records /\ records[q].status = "responding"
               /\ records[q].claim = c
               /\ records'[q].harnessResolved = records[q].harnessResolved
               /\ \/ /\ records'[q].status = "resolved" /\ records'[q].answer = c
                     /\ answered[q] = c
                  \/ /\ records'[q].status = "resolved" /\ records'[q].answer = NullAnswer
                     /\ records[q].harnessResolved
                  \/ /\ records'[q].status = "pending" /\ ~records[q].harnessResolved
        BY DEF Releases, Holds
    <1>4. Types'
        BY <1>0, <1>1, <1>2 DEF Types, IsLedger
    <1>5. \A r \in Responders : Claiming(r)' <=> r # p /\ Claiming(r)
        BY <1>2 DEF Claiming
    <1>6. \A r \in Responders : r # p => task[r].claim # c
        BY <1>0 DEF LedgerInv, ClaimsAreUnique
    <1>7. RespondingIffClaimed'
      <2>1. ASSUME NEW r \in DOMAIN records', records'[r].status = "responding"
            PROVE  \E s \in Responders : /\ Claiming(s)' /\ task'[s].req = r
                                         /\ task'[s].claim = records'[r].claim
        <3>1. r \in DOMAIN records /\ records'[r] = records[r] /\ ~(r = q /\ records[r].claim = c)
          BY <1>3, <2>1 DEF Holds
        <3>2. PICK s \in Responders : /\ Claiming(s) /\ task[s].req = r
                                      /\ task[s].claim = records[r].claim
          BY <2>1, <3>1 DEF LedgerInv, RespondingIffClaimed
        <3>3. s # p
          BY <3>1, <3>2
        <3>4. QED
          BY <1>2, <1>5, <3>1, <3>2, <3>3
      <2>2. ASSUME NEW s \in Responders, Claiming(s)'
            PROVE  Holds(records', task'[s].req, task'[s].claim)
        <3>1. s # p /\ Claiming(s) /\ task'[s] = task[s] /\ task[s].claim # c
          BY <1>2, <1>5, <1>6, <2>2
        <3>2. Holds(records, task[s].req, task[s].claim)
          BY <3>1 DEF LedgerInv, RespondingIffClaimed
        <3>3. QED
          BY <1>3, <3>1, <3>2 DEF Holds
      <2>3. QED
        BY <2>1, <2>2 DEF RespondingIffClaimed
    <1>8. AnswerWasDelivered'
        BY <1>1, <1>3 DEF LedgerInv, AnswerWasDelivered
    <1>9. ClaimsAreUnique'
      <2>1. \A r \in Responders : task[r].claim \in 0 .. MaxClaims /\ task[r].claim =< lastClaim
        BY <1>0 DEF LedgerInv, ClaimsAreUnique, Types, Task
      <2>2. lastClaim \in Nat /\ NoClaim =< lastClaim
        BY <1>0, RequestConstants DEF Types, NoClaim
      <2>3. Range(commands) \subseteq Command
        BY <1>0, RangeType DEF Types
      <2>4. \A x \in Range(commands) : x.by \in Responders /\ x.claim # NoClaim
        BY <2>3 DEF Command, NoClaim
      <2>5. \A r \in Responders : /\ task'[r].claim =< lastClaim'
                                  /\ task'[r].pc # "idle" => task'[r].claim # NoClaim
        BY <1>0, <1>1, <1>2, <2>1, <2>2 DEF LedgerInv, ClaimsAreUnique
      <2>6. \A r, s \in Responders : r # s /\ task'[r].claim = task'[s].claim
                                        => task'[r].claim = NoClaim
        BY <1>2, <1>6 DEF LedgerInv, ClaimsAreUnique
      <2>7. \A x \in Range(commands') :
               /\ x.claim =< lastClaim'
               /\ task'[x.by].claim = x.claim => task'[x.by].req = x.req
        BY <1>1, <1>2, <2>4 DEF LedgerInv, ClaimsAreUnique
      <2>8. QED
        BY <2>5, <2>6, <2>7 DEF ClaimsAreUnique
    <1>10. Untouched'
        BY <1>1, <1>2, <1>3 DEF LedgerInv, Untouched
    <1>11. Answers'
        BY <1>1, <1>2 DEF LedgerInv, Answers
    <1>12. OpenTrace'
      <2>1. q \in pending => answered[q] # c /\ (q \in DOMAIN records => ~records[q].harnessResolved)
        BY <1>0 DEF LedgerInv, Answers, OpenTrace
      <2>2. QED
        BY <1>1, <1>3, <2>1 DEF LedgerInv, OpenTrace, Queued
    <1>13. ClosedTrace'
        BY <1>1, <1>3 DEF LedgerInv, ClosedTrace, ClosedAt, Queued
    <1>14. QED
        BY <1>4, <1>7, <1>8, <1>9, <1>10, <1>11, <1>12, <1>13 DEF LedgerInv

\* Rolling a claim back gives it up.
LEMMA RollbackReleases ==
    ASSUME LedgerInv, NEW p \in Responders,
           records' = RolledBack(records, task[p].req, task[p].claim)
    PROVE  Releases(p)
    <1>1. IsLedger(records) /\ task[p].req \in Requests /\ task[p].claim \in 0 .. MaxClaims
        BY DEF LedgerInv, Types, IsLedger, Task
    <1>2. QED
        BY <1>1, RollbackEffect DEF Releases

\* The harness accepted the answer.
LEMMA OnAcceptedStep ==
    ASSUME LedgerInv, NEW p \in Responders, OnAccepted(p)
    PROVE  /\ LedgerInv' /\ Releases(p)
           /\ \/ Changed(records, records', task[p].req) = <<>> /\ Rested(p)
              \/ Moved(p, "settled", Changed(records, records', task[p].req))
    <1> DEFINE q == task[p].req
               c == task[p].claim
    <1>0. Types /\ IsLedger(records) /\ q \in Requests /\ c \in 0 .. MaxClaims
          /\ task[p].pc = "accepted" /\ answered[q] = c
        BY DEF LedgerInv, Types, IsLedger, Task, OnAccepted, Answers
    <1>1. Holds(records, q, c)
        BY <1>0 DEF LedgerInv, RespondingIffClaimed, Claiming
    <1>2. records' = Committed(records, q, c) /\ Settle(p, records')
          /\ UNCHANGED <<lastClaim, ownerOut, events, adapter, browser>>
        BY <1>1 DEF OnAccepted, Settle
    <1>3. IsLedger(records') /\ Releases(p)
        BY <1>0, <1>1, <1>2, CommitEffect DEF Releases, Resolves, Holds
    <1>4. \/ Changed(records, records', q) = <<>> /\ Rested(p)
          \/ Moved(p, "settled", Changed(records, records', q))
        BY <1>0, <1>2, <1>3, SettleEffect DEF Types
    <1>5. LedgerInv'
        BY <1>0, <1>2, <1>3, <1>4, ReleaseStep
    <1>6. QED
        BY <1>3, <1>4, <1>5

\* The harness call failed.
LEMMA OnRefusedStep ==
    ASSUME LedgerInv, NEW p \in Responders, OnRefused(p)
    PROVE  /\ LedgerInv' /\ Releases(p)
           /\ \/ Changed(records, records', task[p].req) = <<>> /\ Rested(p)
              \/ Moved(p, "settled", Changed(records, records', task[p].req))
    <1>0. Types /\ task[p].pc = "refused"
        BY DEF LedgerInv, OnRefused
    <1>1. records' = RolledBack(records, task[p].req, task[p].claim) /\ Settle(p, records')
          /\ UNCHANGED <<lastClaim, ownerOut, events, adapter, browser>>
        BY DEF OnRefused, Settle
    <1>2. IsLedger(records') /\ Releases(p)
        BY <1>1, RollbackReleases DEF Releases
    <1>3. \/ Changed(records, records', task[p].req) = <<>> /\ Rested(p)
          \/ Moved(p, "settled", Changed(records, records', task[p].req))
        BY <1>0, <1>1, <1>2, SettleEffect DEF Types
    <1>4. LedgerInv'
        BY <1>0, <1>1, <1>2, <1>3, ReleaseStep
    <1>5. QED
        BY <1>2, <1>3, <1>4

\* The timeout drops the response.
LEMMA TimeoutStep ==
    ASSUME LedgerInv, NEW p \in Responders, Timeout(p)
    PROVE  LedgerInv' /\ Releases(p) /\ Moved(p, "timedOut", <<>>)
    <1>0. Types /\ task[p].pc # "idle"
        BY DEF LedgerInv, Timeout
    <1>1. records' = RolledBack(records, task[p].req, task[p].claim)
          /\ UNCHANGED <<lastClaim, ownerOut, events, adapter, browser>>
          /\ task' = [task EXCEPT ![p].pc = "timedOut", ![p].out = <<>>]
        BY DEF Timeout
    <1>2. Releases(p)
        BY <1>1, RollbackReleases
    <1>3. Moved(p, "timedOut", <<>>)
      <2>1. <<>> \in Seq(Messages) /\ "timedOut" \in Stages
        BY DEF Stages
      <2>2. QED
        BY <1>0, <1>1, <2>1, MoveBoth DEF Types
    <1>4. LedgerInv'
        BY <1>0, <1>1, <1>2, <1>3, ReleaseStep
    <1>5. QED
        BY <1>2, <1>3, <1>4
-----------------------------------------------------------------------------
\* Initially nothing was raised and nothing is claimed.
LEMMA LedgerInit == Init => LedgerInv
    <1> SUFFICES ASSUME Init PROVE LedgerInv
        OBVIOUS
    <1>1. {MaxClaims, MaxRaised, MaxTurns} \subseteq Nat
        BY RequestConstants
    <1>2. DOMAIN records = {} /\ Range(events) = {} /\ Range(commands) = {}
          /\ pending = {} /\ \A p \in Responders : task[p] = Idle
        BY RangeEmpty DEF Init
    <1>3. Types
      <2>1. IsFiniteSet(pending)
        BY FS_EmptySet DEF Init
      <2>2. task \in [Responders -> Task]
        BY IdleType DEF Init
      <2>3. records \in [DOMAIN records -> Record] /\ view \in [DOMAIN view -> Messages]
            /\ DOMAIN view = {}
        BY DEF Init
      <2>4. ownerOut \in Seq(Wire) /\ events \in Seq(Event) /\ commands \in Seq(Command)
            /\ channel \in Seq(Wire)
        BY DEF Init
      <2>7. joins \in Nat /\ joining \in BOOLEAN /\ snapshot = {} /\ lost = {}
        BY DEF Init
      <2>5. /\ lastClaim \in 0 .. MaxClaims /\ turn \in Nat \ {0}
            /\ raised \in [Requests -> {0, 1}] /\ raisedIn \in [Requests -> 0 .. MaxTurns]
            /\ answered \in [Requests -> -1 .. MaxClaims]
        BY <1>1 DEF Init, NoClaim, NoTurn
      <2>6. QED
        BY <1>2, <2>1, <2>2, <2>3, <2>4, <2>5, <2>7 DEF Types
    <1>4. RespondingIffClaimed /\ ClaimsAreUnique
        BY <1>2, IdleType DEF RespondingIffClaimed, Claiming, ClaimsAreUnique, Init, NoClaim
    <1>5. AnswerWasDelivered /\ OpenTrace
        BY <1>2 DEF AnswerWasDelivered, OpenTrace
    <1>6. Untouched /\ Answers
        BY <1>2, IdleType DEF Untouched, Answers, Init
    <1>7. ClosedTrace
        BY <1>2 DEF ClosedTrace, ClosedAt, Covered, Init
    <1>8. QED
        BY <1>3, <1>4, <1>5, <1>6, <1>7 DEF LedgerInv

\* Every step keeps it.
LEMMA LedgerStep == LedgerInv /\ [Next]_vars => LedgerInv'
    <1> SUFFICES ASSUME LedgerInv, [Next]_vars PROVE LedgerInv'
        OBVIOUS
    <1>1. CASE UNCHANGED vars
      <2>1. UNCHANGED <<ledger, task, events, adapter>> /\ UNCHANGED <<ownerOut, browser>>
        BY <1>1 DEF vars
      <2>2. QED
        BY <2>1, PublishStep DEF LedgerInv, Types, browser
    <1>2. CASE \E q \in Requests, t \in NoTurn .. MaxTurns : Raise(q, t)
        BY <1>2, RaiseStep
    <1>3. CASE \E q \in Requests : Redeliver(q) \/ ProviderResolves(q)
        BY <1>3, RedeliverStep, ProviderResolvesStep
    <1>4. CASE HandleRespond \/ Interrupt \/ TurnEnds
        BY <1>4, HandleRespondStep, InterruptStep, TurnEndsStep
    <1>5. CASE \/ ApplyEvent \/ PublishApplied \/ Receive \/ ReceiveCompleted
               \/ Reconnect \/ ReadStates \/ SendState
        BY <1>5, ApplyEventStep, PublishAppliedStep, ReceiveStep, ReceiveCompletedStep,
           SubscribeStep
    <1>6. CASE \E p \in Responders : Responder(p)
        BY <1>6, ClaimStep, PublishClaimStep, SendStep, OnAcceptedStep, OnRefusedStep,
           PublishSettledStep, TimeoutStep, RereadStep DEF Responder
    <1>7. QED
        BY <1>1, <1>2, <1>3, <1>4, <1>5, <1>6 DEF Next

\* The parts of LedgerIsSound that are not parts of the invariant follow from it.
LEMMA LedgerInvSuffices == LedgerInv => LedgerIsSound
    <1> SUFFICES ASSUME LedgerInv PROVE LedgerIsSound
        OBVIOUS
    <1>0. Types
        BY DEF LedgerInv
    <1>1. TypeOK
      <2>1. \A q \in DOMAIN records : records[q] \in Record
        BY <1>0 DEF Types
      <2>2. \A p \in Responders : task[p] \in Task
        BY <1>0 DEF Types
      <2>3. \A i \in DOMAIN channel : channel[i] \in Messages \cup {TurnCompleted}
        BY <1>0 DEF Types, Wire
      <2>4. \A q \in DOMAIN view : view[q] \in Messages
        BY <1>0 DEF Types
      <2>5. \A t \in Task : /\ t.out \in Seq(Messages)
                            /\ t.pc \in {"idle", "claimed", "sending", "waiting", "accepted",
                                         "refused", "settled", "timedOut", "reread"}
        BY DEF Task
      <2>6. QED
        BY <1>0, <2>1, <2>2, <2>3, <2>4, <2>5 DEF TypeOK, Types, Record
    <1>2. ASSUME NEW q, Quiet(q)
          PROVE  /\ \A k \in {"requested", "resolved"} : ~Queued(k, q)
                 /\ q \in DOMAIN records => records[q].status # "responding"
      <2>1. \A e \in Range(events) : e.req # q
        BY <1>2 DEF Quiet, Range
      <2>2. ~ \E p \in Responders : Claiming(p) /\ task[p].req = q
        BY <1>2 DEF Quiet, Claiming
      <2>3. QED
        BY <2>1, <2>2 DEF Queued, LedgerInv, RespondingIffClaimed
    <1>3. \A q \in DOMAIN records : records[q].status \in Statuses
        BY <1>0 DEF Types, Record
    <1>4. OpenRequestIsClaimable
        BY <1>2, <1>3 DEF LedgerInv, OpenTrace, OpenRequestIsClaimable, Statuses
    <1>5. ClosedServerRequestIsResolved
        BY <1>2 DEF LedgerInv, ClosedTrace, ClosedAt, ClosedServerRequestIsResolved
    <1>6. QED
        BY <1>1, <1>4, <1>5 DEF LedgerInv, LedgerIsSound

\* In every behaviour, with any number of requests and responders: the types
\* hold; a record is responding exactly while one unsettled response holds it; a
\* resolved record shows the answer the provider got; and once nothing is in
\* flight about a request, it is claimable if the provider still waits on it and,
\* for a server request, resolved if not (requests.rs, registry.rs).
THEOREM LedgerCorrect == Spec => []LedgerIsSound
    <1>1. Spec => []LedgerInv
        BY LedgerInit, LedgerStep, PTL DEF Spec
    <1>2. QED
        BY <1>1, LedgerInvSuffices, PTL
-----------------------------------------------------------------------------
(* Revisions. *)

RevisionStep ==
    \A q \in DOMAIN records \cap DOMAIN records' :
        /\ records[q].status = "resolved" =>
              records'[q].status = "resolved"
                /\ records'[q].answer = records[q].answer
        /\ State(records, q) # State(records', q) =>
              records'[q].revision = records[q].revision + 1

\* Giving a claim up is one revision of the record that was held.
LEMMA ReleaseRevises ==
    ASSUME NEW p \in Responders, Releases(p)
    PROVE  RevisionStep
    BY DEF Releases, Holds, RevisionStep, State

\* Applying an event is one revision, if any, of one record.
LEMMA ApplyRevises ==
    ASSUME LedgerInv, ApplyEvent
    PROVE  /\ RevisionStep
           /\ \E e \in Range(events) :
                 /\ e = Head(events) /\ e \in Event /\ events' = Tail(events)
                 /\ Range(events) = {e} \cup Range(events')
                 /\ \/ /\ e.kind = "requested"
                       /\ Registered(records, records', e.req, e.turn)
                    \/ /\ e.kind = "resolved"
                       /\ HarnessResolves(records, records', e.req)
                    \/ /\ e.kind = "turnCompleted"
                       /\ Prunes(records, records', e.turn)
                 /\ ownerOut = <<>>
                 /\ ownerOut' = IF e.kind = "turnCompleted" THEN <<TurnCompleted>>
                                ELSE Changed(records, records', e.req)
    <1> PICK e : e = Head(events)
        OBVIOUS
    <1>0. Types /\ events # <<>> /\ events' = Tail(events) /\ IsLedger(records)
          /\ records' = Applied(records, e) /\ ownerOut = <<>>
        BY DEF LedgerInv, ApplyEvent, Types, IsLedger
    <1>1. e \in Event /\ Range(events) = {e} \cup Range(events')
        BY <1>0, RangeTail DEF Types
    <1>2. e.kind \in {"requested", "resolved", "turnCompleted"} /\ e.req \in Requests
          /\ e.turn \in Nat /\ e.payload \in Nat
        BY <1>1 DEF Event
    <1>3. e.kind = "requested" => e.turn \in 0 .. MaxTurns
        BY <1>0, <1>1, <1>2, RequestConstants, SMTT(30) DEF Types
    <1>4. ownerOut' = IF e.kind = "turnCompleted" THEN <<TurnCompleted>>
                      ELSE Changed(records, records', e.req)
        BY <1>0 DEF ApplyEvent
    <1>5. CASE e.kind = "requested"
      <2>1. records' = Register(records, e.req, e.turn, e.payload)
        BY <1>0, <1>5 DEF Applied
      <2>2. Registered(records, records', e.req, e.turn)
        BY <1>0, <1>2, <1>3, <1>5, <2>1, RegisterEffect
      <2>3. RevisionStep
        BY <2>2 DEF Registered, RevisionStep, State
      <2>4. QED
        BY <1>0, <1>1, <1>4, <1>5, <2>2, <2>3
    <1>6. CASE e.kind = "resolved"
      <2>1. records' = ResolveFromHarness(records, e.req)
        BY <1>0, <1>6 DEF Applied
      <2>2. HarnessResolves(records, records', e.req)
        BY <1>0, <1>2, <2>1, HarnessEffect
      <2>3. \A q \in DOMAIN records : records[q] \in Record
        BY <1>0 DEF IsLedger
      <2>4. RevisionStep
        <3>1. ASSUME e.req \in DOMAIN records,
                     records'[e.req] = [records[e.req] EXCEPT !.harnessResolved = TRUE]
              PROVE  State(records', e.req) = State(records, e.req)
          BY <2>3, <3>1, MarkEffect DEF State
        <3>2. \A q \in DOMAIN records : records'[q] = records[q] =>
                  State(records', q) = State(records, q)
          BY DEF State
        <3>3. QED
          BY <2>2, <3>1, <3>2 DEF HarnessResolves, Resolves, RevisionStep
      <2>5. QED
        BY <1>0, <1>1, <1>4, <1>6, <2>2, <2>4
    <1>7. CASE e.kind = "turnCompleted"
      <2>1. records' = Pruned(records, e.turn)
        BY <1>0, <1>7 DEF Applied
      <2>2. Prunes(records, records', e.turn)
        BY <1>0, <2>1, PruneEffect
      <2>3. RevisionStep
        BY <2>2 DEF Prunes, RevisionStep, State
      <2>4. QED
        BY <1>0, <1>1, <1>4, <1>7, <2>2, <2>3
    <1>8. QED
        BY <1>2, <1>5, <1>6, <1>7

\* What a claim does to the ledger.
LEMMA ClaimRevises ==
    ASSUME LedgerInv, NEW p \in Responders, NEW q \in Requests, Claim(p, q)
    PROVE  /\ q \in DOMAIN records /\ records[q].status = "pending"
           /\ Claims(records, records', q, lastClaim + 1)
    <1>1. IsLedger(records) /\ q \in DOMAIN records /\ records[q].status = "pending"
        BY DEF LedgerInv, Types, IsLedger, Claim
    <1>2. lastClaim + 1 \in 0 .. MaxClaims
        BY RequestConstants, SMTT(30) DEF LedgerInv, Types, Claim
    <1>3. records' = Claimed(records, q, lastClaim + 1)
        BY DEF Claim
    <1>4. QED
        BY <1>1, <1>2, <1>3, ClaimEffect

\* Every step leaves the revisions of the records faithful to their changes.
LEMMA EveryStepRevises == LedgerInv /\ [Next]_vars => [RevisionStep]_vars
    <1> SUFFICES ASSUME LedgerInv, Next PROVE RevisionStep
        OBVIOUS
    <1>1. CASE records' = records
        BY <1>1 DEF RevisionStep, State
    <1>2. CASE ApplyEvent
        BY <1>2, ApplyRevises
    <1>3. ASSUME NEW p \in Responders, NEW q \in Requests, Claim(p, q)
          PROVE  RevisionStep
        BY <1>3, ClaimRevises DEF Claims, RevisionStep, State
    <1>4. ASSUME NEW p \in Responders, OnAccepted(p) \/ OnRefused(p) \/ Timeout(p)
          PROVE  RevisionStep
        BY <1>4, OnAcceptedStep, OnRefusedStep, TimeoutStep, ReleaseRevises
    <1>5. ASSUME NEW p \in Responders,
                 PublishClaim(p) \/ Send(p) \/ PublishSettled(p) \/ Reread(p)
          PROVE  records' = records
        BY <1>5 DEF PublishClaim, Send, PublishSettled, Reread, ledger
    <1>6. ASSUME NEW q \in Requests,
                 Redeliver(q) \/ ProviderResolves(q) \/ \E t \in NoTurn .. MaxTurns : Raise(q, t)
          PROVE  records' = records
        BY <1>6 DEF Redeliver, ProviderResolves, Raise, ledger
    <1>7. ASSUME \/ HandleRespond \/ Interrupt \/ TurnEnds \/ PublishApplied \/ Receive
                 \/ ReceiveCompleted \/ Reconnect \/ ReadStates \/ SendState
          PROVE  records' = records
        BY <1>7 DEF HandleRespond, Interrupt, TurnEnds, PublishApplied, Receive,
           ReceiveCompleted, Reconnect, ReadStates, SendState, ledger
    <1>8. QED
        BY <1>1, <1>2, <1>3, <1>4, <1>5, <1>6, <1>7 DEF Next, Responder

\* No step, of any actor, takes a resolution back or changes the answer it shows,
\* and no step changes what a browser is shown of a record without taking exactly
\* the next revision (requests.rs: every mutation ends in revision += 1).
THEOREM RevisionsCorrect == Spec => RevisionsAreFaithful
    <1>1. Spec => []LedgerInv
        BY LedgerInit, LedgerStep, PTL DEF Spec
    <1>2. QED
        BY <1>1, EveryStepRevises, PTL DEF Spec, RevisionsAreFaithful, RevisionStep
-----------------------------------------------------------------------------
(* The browser. *)

\* Two events in the order that TurnOrder forbids.
InOrder(evs) ==
    \A i, j \in DOMAIN evs :
        i < j /\ evs[i].kind = "turnCompleted" /\ evs[j].kind = "requested"
            => evs[j].turn # evs[i].turn

\* Appending one event, or resolutions only, and taking the first keep the order.
LEMMA OrderAppend ==
    ASSUME events \in Seq(Event), InOrder(events), NEW e \in Event,
           e.kind = "requested" =>
              \A x \in Range(events) : x.kind = "turnCompleted" => x.turn # e.turn
    PROVE  InOrder(Append(events, e))
    <1> DEFINE evs == Append(events, e)
    <1>1. DOMAIN evs = 1 .. Len(events) + 1 /\ DOMAIN events = 1 .. Len(events)
          /\ Len(events) \in Nat
        OBVIOUS
    <1>2. \A i \in 1 .. Len(events) : evs[i] = events[i] /\ events[i] \in Range(events)
        BY DEF Range
    <1>3. evs[Len(events) + 1] = e
        OBVIOUS
    <1> HIDE DEF evs
    <1>4. InOrder(evs)
      <2> SUFFICES ASSUME NEW i \in DOMAIN evs, NEW j \in DOMAIN evs, i < j,
                          evs[i].kind = "turnCompleted", evs[j].kind = "requested"
                   PROVE  evs[j].turn # evs[i].turn
        BY DEF InOrder
      <2>1. i \in 1 .. Len(events)
        BY <1>1
      <2>2. CASE j = Len(events) + 1
        BY <1>2, <1>3, <2>1, <2>2
      <2>3. CASE j # Len(events) + 1
        BY <1>1, <1>2, <2>1, <2>3 DEF InOrder
      <2>4. QED
        BY <2>2, <2>3
    <1>5. QED
        BY <1>4 DEF evs

\* Resolutions appended to the queue do not disturb the order of the turns.
LEMMA OrderConcat ==
    ASSUME events \in Seq(Event), InOrder(events), NEW new \in Seq(Event),
           \A e \in Range(new) : e.kind = "resolved"
    PROVE  InOrder(events \o new)
    <1> DEFINE evs == events \o new
    <1>1. DOMAIN evs = 1 .. Len(events) + Len(new) /\ DOMAIN events = 1 .. Len(events)
          /\ Len(events) \in Nat /\ Len(new) \in Nat
        OBVIOUS
    <1>2. \A i \in 1 .. Len(events) : evs[i] = events[i]
        OBVIOUS
    <1>3. \A i \in 1 .. Len(new) : evs[Len(events) + i] = new[i] /\ new[i] \in Range(new)
        BY DEF Range
    <1> HIDE DEF evs
    <1>4. \A i \in DOMAIN evs : evs[i].kind # "resolved" => i \in 1 .. Len(events)
      <2> SUFFICES ASSUME NEW i \in DOMAIN evs, ~(i =< Len(events))
                   PROVE  evs[i].kind = "resolved"
        BY <1>1
      <2>1. i - Len(events) \in 1 .. Len(new) /\ evs[i] = new[i - Len(events)]
        BY <1>1, <1>3
      <2>2. QED
        BY <1>3, <2>1
    <1>5. InOrder(evs)
        BY <1>1, <1>2, <1>4 DEF InOrder
    <1>6. QED
        BY <1>5 DEF evs

\* Taking the first event keeps the order, and nothing of a completed turn follows
\* its completion.
LEMMA OrderTail ==
    ASSUME events \in Seq(Event), InOrder(events), events # <<>>
    PROVE  /\ InOrder(Tail(events))
           /\ Head(events).kind = "turnCompleted" =>
                 \A e \in Range(Tail(events)) :
                    e.kind = "requested" => e.turn # Head(events).turn
    <1> DEFINE evs == Tail(events)
    <1>1. DOMAIN evs = 1 .. Len(events) - 1 /\ DOMAIN events = 1 .. Len(events)
          /\ Len(events) \in Nat \ {0} /\ Head(events) = events[1]
        OBVIOUS
    <1>2. \A i \in 1 .. Len(events) - 1 : evs[i] = events[i + 1]
        OBVIOUS
    <1> HIDE DEF evs
    <1>3. InOrder(evs)
      <2> SUFFICES ASSUME NEW i \in DOMAIN evs, NEW j \in DOMAIN evs, i < j,
                          evs[i].kind = "turnCompleted", evs[j].kind = "requested"
                   PROVE  evs[j].turn # evs[i].turn
        BY DEF InOrder
      <2>1. i + 1 \in DOMAIN events /\ j + 1 \in DOMAIN events /\ i + 1 < j + 1
            /\ evs[i] = events[i + 1] /\ evs[j] = events[j + 1]
        BY <1>1, <1>2
      <2>2. QED
        BY <2>1 DEF InOrder
    <1>4. ASSUME Head(events).kind = "turnCompleted", NEW e \in Range(evs),
                 e.kind = "requested"
          PROVE  e.turn # Head(events).turn
      <2>1. PICK i \in 1 .. Len(events) - 1 : e = evs[i]
        BY <1>1 DEF Range
      <2>2. i + 1 \in DOMAIN events /\ 1 \in DOMAIN events /\ 1 < i + 1 /\ e = events[i + 1]
        BY <1>1, <1>2, <2>1
      <2>3. QED
        BY <1>1, <1>4, <2>2 DEF InOrder
    <1>5. QED
        BY <1>3, <1>4 DEF evs

\* The turns of deliveries, records and completions agree in every step.
LEMMA TurnOrderStep == LedgerInv /\ TurnOrder /\ [Next]_vars => TurnOrder'
    <1> SUFFICES ASSUME LedgerInv, TurnOrder, [Next]_vars PROVE TurnOrder'
        OBVIOUS
    <1>0. Types /\ InOrder(events) /\ turn \in Nat \ {0} /\ events \in Seq(Event)
          /\ raisedIn \in [Requests -> 0 .. MaxTurns]
        BY DEF LedgerInv, TurnOrder, InOrder, Types
    <1>1. CASE UNCHANGED <<events, turn, raisedIn, records>>
        BY <1>1 DEF TurnOrder
    <1>2. ASSUME NEW q \in Requests, NEW t \in NoTurn .. MaxTurns, Raise(q, t)
          PROVE  TurnOrder'
      <2> DEFINE e == [kind |-> "requested", req |-> q, turn |-> t, payload |-> 2 * raised[q]]
      <2>1. e \in Event /\ events' = Append(events, e) /\ e.kind = "requested" /\ e.turn = t
            /\ e.req = q /\ raised[q] = 0
        BY <1>0, <1>2 DEF Raise, Event, NoTurn, Types
      <2> HIDE DEF e
      <2>2. \A x \in Range(events) : x.kind = "turnCompleted" => x.turn # e.turn
        <3>1. t \in {turn, NoTurn}
          BY <1>2 DEF Raise
        <3>2. \A x \in Range(events) : x.kind = "turnCompleted" =>
                  x.turn \in Nat /\ x.turn < turn /\ x.turn # NoTurn
          <4>1. Range(events) \subseteq Event
            BY <1>0, RangeType
          <4>2. QED
            BY <4>1 DEF TurnOrder, Event
        <3>3. QED
          BY <1>0, <2>1, <3>1, <3>2
      <2>3. InOrder(events') /\ Range(events') = Range(events) \cup {e}
        BY <1>0, <2>1, <2>2, OrderAppend, RangeAppend
      <2>4. UNCHANGED <<records, turn>> /\ raisedIn' = [raisedIn EXCEPT ![q] = t]
        BY <1>2 DEF Raise, ledger
      <2>5. /\ q \notin DOMAIN records /\ DOMAIN records \subseteq Requests
            /\ \A x \in Range(events) : x.kind = "requested" => x.req # q /\ x.req \in Requests
        <3>1. Range(events) \subseteq Event
          BY <1>0, RangeType
        <3>2. QED
          BY <1>0, <2>1, <3>1 DEF LedgerInv, Untouched, Types, Event
      <2>6. QED
        BY <1>0, <2>1, <2>3, <2>4, <2>5 DEF TurnOrder, InOrder
    <1>3. ASSUME NEW q \in Requests, Redeliver(q)
          PROVE  TurnOrder'
      <2> DEFINE e == [kind |-> "requested", req |-> q, turn |-> raisedIn[q],
                       payload |-> 2 * raised[q] - 1]
      <2>0. raised[q] = 1 /\ raisedIn[q] \in 0 .. MaxTurns
        BY <1>0, <1>3 DEF LedgerInv, Untouched, Types, Redeliver
      <2>1. e \in Event /\ events' = Append(events, e) /\ e.kind = "requested"
            /\ e.turn = raisedIn[q] /\ e.req = q
        BY <1>0, <1>3, <2>0, RequestConstants DEF Redeliver, Event
      <2> HIDE DEF e
      <2>2. \A x \in Range(events) : x.kind = "turnCompleted" => x.turn # e.turn
        <3>1. raisedIn[q] \in {turn, NoTurn}
          BY <1>3 DEF Redeliver
        <3>2. \A x \in Range(events) : x.kind = "turnCompleted" =>
                  x.turn \in Nat /\ x.turn < turn /\ x.turn # NoTurn
          <4>1. Range(events) \subseteq Event
            BY <1>0, RangeType
          <4>2. QED
            BY <4>1 DEF TurnOrder, Event
        <3>3. QED
          BY <1>0, <2>1, <3>1, <3>2
      <2>3. InOrder(events') /\ Range(events') = Range(events) \cup {e}
        BY <1>0, <2>1, <2>2, OrderAppend, RangeAppend
      <2>4. UNCHANGED <<records, turn, raisedIn>>
        BY <1>3 DEF Redeliver, ledger, adapter
      <2>5. QED
        BY <2>1, <2>3, <2>4 DEF TurnOrder, InOrder
    <1>4. ASSUME NEW evs \in Seq(Event), Closes(evs)
          PROVE  TurnOrder'
      <2>1. events' = events \o evs /\ \A e \in Range(evs) : e.kind = "resolved"
        BY <1>4 DEF Closes
      <2>2. InOrder(events') /\ Range(events') = Range(events) \cup Range(evs)
        BY <1>0, <2>1, OrderConcat, RangeConcat
      <2>3. UNCHANGED <<records, turn, raisedIn>>
        BY <1>4 DEF Closes
      <2>4. QED
        BY <2>1, <2>2, <2>3 DEF TurnOrder, InOrder
    <1>5. CASE TurnEnds
      <2> DEFINE e == [kind |-> "turnCompleted", req |-> Idle.req, turn |-> turn,
                       payload |-> 0]
      <2>1. e \in Event /\ events' = Append(events, e) /\ e.kind = "turnCompleted"
            /\ e.turn = turn
        BY <1>0, <1>5, IdleType DEF TurnEnds, Event
      <2> HIDE DEF e
      <2>2. InOrder(events') /\ Range(events') = Range(events) \cup {e}
        BY <1>0, <2>1, OrderAppend, RangeAppend
      <2>3. UNCHANGED <<records, raisedIn>> /\ turn' = turn + 1
        BY <1>5 DEF TurnEnds, ledger
      <2>4. \A x \in Range(events) : x.turn \in Nat
        <3>1. Range(events) \subseteq Event
          BY <1>0, RangeType
        <3>2. QED
          BY <3>1 DEF Event
      <2>5. QED
        BY <1>0, <2>1, <2>2, <2>3, <2>4 DEF TurnOrder, InOrder, NoTurn
    <1>6. CASE ApplyEvent
      <2>1. PICK e \in Range(events) :
                 /\ e = Head(events) /\ events' = Tail(events)
                 /\ Range(events) = {e} \cup Range(events')
                 /\ \/ /\ e.kind = "requested"
                       /\ Registered(records, records', e.req, e.turn)
                    \/ /\ e.kind = "resolved"
                       /\ HarnessResolves(records, records', e.req)
                    \/ /\ e.kind = "turnCompleted"
                       /\ Prunes(records, records', e.turn)
        BY <1>6, ApplyRevises
      <2>2. InOrder(events')
        BY <1>0, <1>6, <2>1, OrderTail DEF ApplyEvent
      <2>3. UNCHANGED <<turn, raisedIn>>
        BY <1>6 DEF ApplyEvent, adapter
      <2>4. \A q \in DOMAIN records : records[q] \in Record
        BY <1>0 DEF Types
      <2>5. \A q \in DOMAIN records' : records'[q].turn = raisedIn[q]
        <3>1. CASE e.kind = "requested" /\ Registered(records, records', e.req, e.turn)
          BY <2>1, <3>1 DEF Registered, TurnOrder
        <3>2. CASE e.kind = "resolved" /\ HarnessResolves(records, records', e.req)
          <4>0. ASSUME e.req \in DOMAIN records,
                       records'[e.req] = [records[e.req] EXCEPT !.harnessResolved = TRUE]
                PROVE  records'[e.req].turn = records[e.req].turn
            BY <2>4, <4>0, MarkEffect
          <4>1. \A q \in DOMAIN records : records'[q].turn = records[q].turn
            BY <3>2, <4>0 DEF HarnessResolves, Resolves
          <4>2. QED
            BY <3>2, <4>1 DEF HarnessResolves, TurnOrder
        <3>3. CASE e.kind = "turnCompleted" /\ Prunes(records, records', e.turn)
          BY <3>3 DEF Prunes, TurnOrder
        <3>4. QED
          BY <2>1, <3>1, <3>2, <3>3
      <2>6. QED
        BY <2>1, <2>2, <2>3, <2>5 DEF TurnOrder, InOrder
    <1>7. ASSUME NEW p \in Responders, NEW q \in Requests, Claim(p, q)
          PROVE  TurnOrder'
      <2>1. Claims(records, records', q, lastClaim + 1)
        BY <1>7, ClaimRevises
      <2>2. UNCHANGED <<events, turn, raisedIn>>
        BY <1>7 DEF Claim, adapter
      <2>3. QED
        BY <2>1, <2>2 DEF Claims, TurnOrder
    <1>8. ASSUME NEW p \in Responders, OnAccepted(p) \/ OnRefused(p) \/ Timeout(p)
          PROVE  TurnOrder'
      <2>1. Releases(p)
        BY <1>8, OnAcceptedStep, OnRefusedStep, TimeoutStep
      <2>2. UNCHANGED <<events, turn, raisedIn>>
        BY <1>8 DEF OnAccepted, OnRefused, Timeout, Settle, adapter
      <2>3. DOMAIN records' = DOMAIN records
            /\ \A r \in DOMAIN records : records'[r].turn = records[r].turn
        BY <2>1 DEF Releases
      <2>4. QED
        BY <2>2, <2>3 DEF TurnOrder
    <1>9. ASSUME NEW p \in Responders,
                 PublishClaim(p) \/ Send(p) \/ PublishSettled(p) \/ Reread(p)
          PROVE  UNCHANGED <<events, turn, raisedIn, records>>
        BY <1>9 DEF PublishClaim, Send, PublishSettled, Reread, ledger, adapter
    <1>10. ASSUME \/ PublishApplied \/ Receive \/ ReceiveCompleted \/ Reconnect
                  \/ ReadStates \/ SendState \/ UNCHANGED vars
           PROVE  UNCHANGED <<events, turn, raisedIn, records>>
        BY <1>10 DEF PublishApplied, Receive, ReceiveCompleted, Reconnect, ReadStates,
           SendState, ledger, adapter, vars
    <1>11. ASSUME HandleRespond \/ Interrupt \/ \E q \in Requests : ProviderResolves(q)
           PROVE  TurnOrder'
        BY <1>4, <1>11, HandleRespondStep, InterruptStep, ProviderResolvesStep
    <1>12. QED
        BY <1>1, <1>2, <1>3, <1>5, <1>6, <1>7, <1>8, <1>9, <1>10, <1>11 DEF Next, Responder

ViewParts == Outs /\ Viewed /\ NoneNewer /\ LastWord

\* The messages are messages.
LEMMA SentType == Types => Sent \subseteq Messages
    <1> SUFFICES ASSUME Types PROVE Sent \subseteq Messages
        OBVIOUS
    <1>1. Range(channel) \subseteq Wire /\ Range(ownerOut) \subseteq Wire
        BY RangeType DEF Types
    <1>2. Range(view) \subseteq Messages /\ snapshot \subseteq Messages
        BY DEF Types, Range
    <1>3. \A p \in Responders : Range(task[p].out) \subseteq Messages
      <2>1. \A p \in Responders : task[p].out \in Seq(Messages)
        BY DEF Types, Task
      <2>2. QED
        BY <2>1, RangeType
    <1>4. QED
        BY <1>1, <1>2, <1>3 DEF Sent, InFlight, Wire

\* A state of the ledger is not mistaken for the turn's completion.
LEMMA StateIsNews ==
    ASSUME LedgerInv', NEW q \in DOMAIN records'
    PROVE  State(records', q) # TurnCompleted
    <1>1. IsLedger(records')
        BY DEF LedgerInv, Types, IsLedger
    <1>2. State(records', q) \in Messages
        BY <1>1, StateType
    <1>3. QED
        BY <1>2, WireSeq

\* What becomes of the messages when one response changes what it has to publish.
LEMMA SentMove ==
    ASSUME NEW p \in Responders, \A r \in Responders \ {p} : task'[r] = task[r],
           UNCHANGED <<ownerOut, view, channel, snapshot>>,
           TurnCompleted \notin Range(task'[p].out)
    PROVE  /\ Sent' \subseteq Sent \cup Range(task'[p].out)
           /\ \A m \in Sent : m \in Sent' \/ m \in Range(task[p].out)
           /\ Range(task'[p].out) \subseteq Sent'
    BY DEF Sent, InFlight

\* Steps that change neither the ledger nor any message.
LEMMA ViewQuietStep ==
    ASSUME ViewInv, LedgerInv', UNCHANGED <<records, channel, ownerOut, view, snapshot, lost>>,
           \A p \in Responders :
              /\ task'[p].out = task[p].out
              /\ \/ task'[p] = task[p]
                 \/ /\ task[p].pc \in {"sending", "waiting"} /\ task'[p].req = task[p].req
                    /\ task'[p].pc \in {"waiting", "accepted", "refused"},
           \A q \in Requests \ DOMAIN records :
              raised'[q] = 0 \/ Queued("requested", q)' =>
                  raised[q] = 0 \/ Queued("requested", q)
    PROVE  ViewParts'
    <1>1. Sent' = Sent
        BY DEF Sent, InFlight
    <1>2. Outs'
        BY DEF ViewInv, Outs
    <1>3. Viewed'
        BY DEF ViewInv, Viewed
    <1>4. NoneNewer'
      <2>1. \A m \in Sent' : m.req \in DOMAIN records' =>
              /\ m.revision =< records'[m.req].revision
              /\ m.revision = records'[m.req].revision => m = State(records', m.req)
        BY <1>1 DEF ViewInv, NoneNewer, State
      <2>2. \A p \in Responders : /\ task'[p].pc # "idle" => task[p].pc # "idle"
                                  /\ task'[p].req = task[p].req
        OBVIOUS
      <2>3. ASSUME NEW q \in Requests \ DOMAIN records', raised'[q] = 0 \/ Queued("requested", q)'
            PROVE  /\ \A m \in Sent' : m.req # q
                   /\ \A p \in Responders : task'[p].pc # "idle" => task'[p].req # q
        BY <1>1, <2>2, <2>3 DEF ViewInv, NoneNewer
      <2>4. QED
        BY <2>1, <2>3 DEF NoneNewer
    <1>5. LastWord'
      <2>1. \A p \in Responders : task[p].pc = "timedOut" =>
                task'[p].pc = "timedOut" /\ task'[p].req = task[p].req
        OBVIOUS
      <2>2. QED
        BY <1>1, <2>1 DEF ViewInv, LastWord, Gone, State
    <1>6. QED
        BY <1>2, <1>3, <1>4, <1>5 DEF ViewParts

\* Steps that only carry messages on, or give up a response that has none left.
LEMMA ViewCarryStep ==
    ASSUME ViewInv, LedgerInv', UNCHANGED <<records, raised>>,
           \A q \in Requests : Queued("requested", q)' => Queued("requested", q),
           Sent' \subseteq Sent, Outs', Viewed',
           \A p \in Responders : task'[p].pc # "idle" =>
              task[p].pc # "idle" /\ task'[p].req = task[p].req,
           \A p \in Responders : task[p].pc = "timedOut" =>
              \/ task'[p].pc = "timedOut" /\ task'[p].req = task[p].req
              \/ task[p].req \notin DOMAIN records,
           lost \subseteq lost',
           \A q \in DOMAIN records \ lost' : State(records, q) \in Sent =>
              State(records, q) \in Sent' \/ Gone(q)'
    PROVE  ViewParts'
    <1>1. NoneNewer'
      <2>1. \A m \in Sent' : m.req \in DOMAIN records' =>
              /\ m.revision =< records'[m.req].revision
              /\ m.revision = records'[m.req].revision => m = State(records', m.req)
        BY DEF ViewInv, NoneNewer, State
      <2>2. ASSUME NEW q \in Requests \ DOMAIN records', raised'[q] = 0 \/ Queued("requested", q)'
            PROVE  /\ \A m \in Sent' : m.req # q
                   /\ \A p \in Responders : task'[p].pc # "idle" => task'[p].req # q
        BY <2>2 DEF ViewInv, NoneNewer
      <2>3. QED
        BY <2>1, <2>2 DEF NoneNewer
    <1>2. LastWord'
      <2> SUFFICES ASSUME NEW q \in DOMAIN records \ lost'
                   PROVE  \/ State(records, q) \in Sent'
                          \/ \E p \in Responders : task'[p].pc = "timedOut" /\ task'[p].req = q
                          \/ Gone(q)'
        BY DEF LastWord, State
      <2>1. CASE State(records, q) \in Sent
        BY <2>1
      <2>2. CASE \E p \in Responders : task[p].pc = "timedOut" /\ task[p].req = q
        BY <2>2
      <2>3. CASE Gone(q)
        BY <2>3 DEF Gone
      <2>4. QED
        BY <2>1, <2>2, <2>3 DEF ViewInv, LastWord
    <1>3. QED
        BY <1>1, <1>2 DEF ViewParts

\* Steps that change one record, at most, and say so or leave it to a response that
\* was dropped.
LEMMA ViewChangeStep ==
    ASSUME ViewInv, LedgerInv', NEW q \in Requests,
           UNCHANGED <<raised, lost>>, Outs', Viewed',
           q \in DOMAIN records \/ Queued("requested", q),
           DOMAIN records' = DOMAIN records \cup {q},
           \A r \in DOMAIN records \ {q} : State(records', r) = State(records, r),
           \/ q \notin DOMAIN records
           \/ State(records', q) = State(records, q)
           \/ records'[q].revision = records[q].revision + 1,
           \A r \in Requests \ DOMAIN records' :
              Queued("requested", r)' => Queued("requested", r),
           Sent' \subseteq Sent \cup {State(records', q)},
           \A m \in Sent : m.req # q => m \in Sent',
           \A p \in Responders : task'[p].pc # "idle" =>
              task'[p].req = q \/ (task[p].pc # "idle" /\ task'[p].req = task[p].req),
           \A p \in Responders : task[p].pc = "timedOut" =>
              task[p].req = q \/ (task'[p].pc = "timedOut" /\ task'[p].req = task[p].req),
           \/ q \in lost
           \/ State(records', q) \in Sent'
           \/ \E p \in Responders : task'[p].pc = "timedOut" /\ task'[p].req = q
           \/ Gone(q)'
    PROVE  ViewParts'
    <1>0. IsLedger(records) /\ IsLedger(records')
        BY DEF ViewInv, LedgerInv, Types, IsLedger
    <1>1. \A rs, r : State(rs, r).req = r /\ State(rs, r).revision = rs[r].revision
        BY DEF State
    <1>2. NoneNewer'
      <2>1. ASSUME NEW m \in Sent', m.req \in DOMAIN records'
            PROVE  /\ m.revision =< records'[m.req].revision
                   /\ m.revision = records'[m.req].revision => m = State(records', m.req)
        <3>1. records'[m.req].revision \in Nat
          BY <1>0, <2>1 DEF IsLedger, Record
        <3>2. CASE m = State(records', q)
          BY <1>1, <3>1, <3>2
        <3>3. CASE m \in Sent
          <4>1. CASE m.req # q
            <5>1. m.req \in DOMAIN records \ {q}
              BY <2>1, <4>1
            <5>2. State(records', m.req) = State(records, m.req)
              BY <5>1
            <5>3. records'[m.req].revision = records[m.req].revision
              BY <1>1, <5>2
            <5>4. QED
              BY <3>3, <5>1, <5>2, <5>3 DEF ViewInv, NoneNewer
          <4>2. CASE m.req = q
            <5>1. q \in DOMAIN records
              BY <3>3, <4>2 DEF ViewInv, NoneNewer
            <5>2. m.revision =< records[q].revision
                  /\ (m.revision = records[q].revision => m = State(records, q))
              BY <3>3, <4>2, <5>1 DEF ViewInv, NoneNewer
            <5>3. records[q].revision \in Nat /\ m.revision \in Nat
              <6>1. m \in Messages
                BY <3>3, SentType DEF ViewInv, LedgerInv
              <6>2. QED
                BY <1>0, <5>1, <6>1 DEF IsLedger, Record, Messages
            <5>4. CASE State(records', q) = State(records, q)
              BY <1>1, <4>2, <5>2, <5>4
            <5>5. CASE records'[q].revision = records[q].revision + 1
              BY <4>2, <5>2, <5>3, <5>5
            <5>6. QED
              BY <5>1, <5>4, <5>5
          <4>3. QED
            BY <4>1, <4>2
        <3>4. QED
          BY <2>1, <3>2, <3>3
      <2>2. ASSUME NEW r \in Requests \ DOMAIN records', raised'[r] = 0 \/ Queued("requested", r)'
            PROVE  /\ \A m \in Sent' : m.req # r
                   /\ \A p \in Responders : task'[p].pc # "idle" => task'[p].req # r
        <3>1. r # q /\ r \notin DOMAIN records /\ (raised[r] = 0 \/ Queued("requested", r))
          BY <2>2
        <3>2. /\ \A m \in Sent : m.req # r
              /\ \A p \in Responders : task[p].pc # "idle" => task[p].req # r
          BY <2>2, <3>1 DEF ViewInv, NoneNewer
        <3>3. QED
          BY <1>1, <3>1, <3>2
      <2>3. QED
        BY <2>1, <2>2 DEF NoneNewer
    <1>3. LastWord'
      <2> SUFFICES ASSUME NEW r \in DOMAIN records' \ lost'
                   PROVE  \/ State(records', r) \in Sent'
                          \/ \E p \in Responders : task'[p].pc = "timedOut" /\ task'[p].req = r
                          \/ Gone(r)'
        BY DEF LastWord
      <2>1. CASE r = q
        BY <2>1
      <2>2. CASE r # q
        <3>1. r \in DOMAIN records \ {q} /\ State(records', r) = State(records, r)
          BY <2>2
        <3>2. CASE State(records, r) \in Sent
          BY <1>1, <2>2, <3>1, <3>2
        <3>3. CASE \E p \in Responders : task[p].pc = "timedOut" /\ task[p].req = r
          BY <2>2, <3>3
        <3>4. CASE Gone(r)
          <4>1. records'[r].status = records[r].status
            BY <3>1 DEF State
          <4>2. \A m \in Sent' : m.req # r
            BY <1>1, <2>2, <3>4 DEF Gone
          <4>3. QED
            BY <3>4, <4>1, <4>2 DEF Gone
        <3>5. QED
          BY <3>1, <3>2, <3>3, <3>4 DEF ViewInv, LastWord
      <2>3. QED
        BY <2>1, <2>2
    <1>4. QED
        BY <1>2, <1>3 DEF ViewParts

\* The provider's and the adapter's steps say nothing to the browser.
LEMMA ViewAdapterStep ==
    ASSUME ViewInv, LedgerInv',
           \/ \E q \in Requests, t \in NoTurn .. MaxTurns : Raise(q, t)
           \/ \E q \in Requests : Redeliver(q) \/ ProviderResolves(q)
           \/ HandleRespond \/ Interrupt \/ TurnEnds
           \/ \E p \in Responders : Send(p)
    PROVE  ViewParts'
    <1>0. LedgerInv /\ Types
        BY DEF ViewInv, LedgerInv
    <1>1. ASSUME NEW q \in Requests, NEW t \in NoTurn .. MaxTurns, Raise(q, t)
          PROVE  ViewParts'
      <2> DEFINE e == [kind |-> "requested", req |-> q, turn |-> t, payload |-> 2 * raised[q]]
      <2>1. e \in Event /\ events' = Append(events, e) /\ e.req = q /\ raised[q] = 0
        BY <1>0, <1>1 DEF Raise, Event, NoTurn, Types
      <2> HIDE DEF e
      <2>2. Range(events') = Range(events) \cup {e}
        BY <1>0, <2>1, RangeAppend DEF Types
      <2>3. UNCHANGED <<records, task, ownerOut, channel, view, joins, joining, snapshot,
                      lost>>
            /\ raised' = [raised EXCEPT ![q] = 1]
        BY <1>1, <2>1 DEF Raise, ledger, browser
      <2>4. \A r \in Requests : raised'[r] = 0 \/ Queued("requested", r)' =>
                raised[r] = 0 \/ Queued("requested", r)
        BY <1>0, <2>1, <2>2, <2>3 DEF Queued, Types
      <2>5. QED
        BY <2>3, <2>4, ViewQuietStep
    <1>2. ASSUME NEW q \in Requests, Redeliver(q)
          PROVE  ViewParts'
      <2> DEFINE e == [kind |-> "requested", req |-> q, turn |-> raisedIn[q],
                       payload |-> 2 * raised[q] - 1]
      <2>0. raised[q] = 1 /\ raisedIn[q] \in 0 .. MaxTurns /\ q \in pending
        BY <1>0, <1>2 DEF LedgerInv, Untouched, Types, Redeliver
      <2>1. e \in Event /\ events' = Append(events, e) /\ e.req = q
        BY <1>0, <1>2, <2>0, RequestConstants DEF Redeliver, Event
      <2> HIDE DEF e
      <2>2. Range(events') = Range(events) \cup {e}
        BY <1>0, <2>1, RangeAppend DEF Types
      <2>3. UNCHANGED <<records, task, ownerOut, channel, view, raised, snapshot,
                      lost>>
        BY <1>2 DEF Redeliver, ledger, adapter, browser
      <2>4. Queued("requested", q) \/ q \in DOMAIN records
        BY <1>0, <2>0 DEF LedgerInv, OpenTrace
      <2>5. \A r \in Requests \ DOMAIN records : raised'[r] = 0 \/ Queued("requested", r)' =>
                raised[r] = 0 \/ Queued("requested", r)
        BY <2>1, <2>2, <2>3, <2>4 DEF Queued
      <2>6. QED
        BY <2>3, <2>5, ViewQuietStep
    <1>3. ASSUME NEW evs \in Seq(Event), Closes(evs), Replied
          PROVE  ViewParts'
      <2>1. Range(events') = Range(events) \cup Range(evs)
            /\ \A e \in Range(evs) : e.kind = "resolved"
        BY <1>0, <1>3, ClosesStep DEF Closes
      <2>2. UNCHANGED <<records, ownerOut, channel, view, raised, snapshot, lost>>
        BY <1>3 DEF Closes
      <2>3. \A r \in Requests : Queued("requested", r)' => Queued("requested", r)
        BY <2>1 DEF Queued
      <2>4. QED
        BY <1>3, <2>2, <2>3, ViewQuietStep DEF Replied
    <1>4. CASE HandleRespond
        BY <1>0, <1>3, <1>4, HandleRespondStep
    <1>5. CASE Interrupt \/ \E q \in Requests : ProviderResolves(q)
      <2>1. UNCHANGED task
        BY <1>5 DEF Interrupt, ProviderResolves
      <2>2. Replied
        BY <2>1 DEF Replied
      <2>3. QED
        BY <1>0, <1>3, <1>5, <2>2, InterruptStep, ProviderResolvesStep
    <1>6. CASE TurnEnds
      <2> DEFINE e == [kind |-> "turnCompleted", req |-> Idle.req, turn |-> turn,
                       payload |-> 0]
      <2>1. e \in Event /\ events' = Append(events, e) /\ e.kind = "turnCompleted"
        BY <1>0, <1>6, IdleType DEF TurnEnds, Event, Types
      <2> HIDE DEF e
      <2>2. Range(events') = Range(events) \cup {e}
        BY <1>0, <2>1, RangeAppend DEF Types
      <2>3. UNCHANGED <<records, task, ownerOut, channel, view, raised, snapshot,
                      lost>>
        BY <1>6 DEF TurnEnds, ledger, browser
      <2>4. \A r \in Requests : Queued("requested", r)' => Queued("requested", r)
        BY <2>1, <2>2 DEF Queued
      <2>5. QED
        BY <2>3, <2>4, ViewQuietStep
    <1>7. ASSUME NEW p \in Responders, Send(p)
          PROVE  ViewParts'
      <2>1. Moved(p, "waiting", task[p].out) /\ task[p].pc = "sending"
        BY <1>0, <1>7, SendStep DEF Send
      <2>2. UNCHANGED <<records, events, ownerOut, channel, view, raised, snapshot,
                      lost>>
        BY <1>7 DEF Send, ledger, browser
      <2>3. \A r \in Requests : Queued("requested", r)' => Queued("requested", r)
        BY <2>2 DEF Queued
      <2>4. QED
        BY <2>1, <2>2, <2>3, ViewQuietStep DEF Moved
    <1>8. QED
        BY <1>1, <1>2, <1>4, <1>5, <1>6, <1>7

\* Messages move on towards the browser, or are dropped at its queue.
LEMMA ViewPublishStep ==
    ASSUME ViewInv, LedgerInv',
           \/ PublishApplied
           \/ \E p \in Responders : PublishClaim(p) \/ PublishSettled(p)
    PROVE  ViewParts'
    <1>0. LedgerInv /\ Types /\ Outs /\ Viewed
        BY DEF ViewInv, LedgerInv
    <1>1. \A q : State(records, q).req = q
        BY DEF State
    <1>2. CASE PublishApplied
      <2>1. UNCHANGED <<records, raised, events, task>> /\ ownerOut' = <<>>
            /\ ownerOut \in Seq(Wire) /\ Publish(ownerOut)
        BY <1>0, <1>2 DEF PublishApplied, ledger, adapter, Types
      <2>2. UNCHANGED <<view, snapshot>> /\ Range(ownerOut') = {}
        BY <1>0, <2>1, PublishEffect, RangeEmpty
      <2>3. \/ Range(channel') = Range(channel) \cup Range(ownerOut) /\ lost' = lost
            \/ /\ channel' = channel
               /\ lost' = lost \cup {m.req : m \in Range(ownerOut) \ {TurnCompleted}}
        BY <1>0, <2>1, PublishEffect
      <2>4. Sent' \subseteq Sent
        BY <2>1, <2>2, <2>3 DEF Sent, InFlight
      <2>5. \A m \in Sent : m \in Sent' \/ m.req \in lost'
        BY <2>1, <2>2, <2>3 DEF Sent, InFlight
      <2>6. Outs' /\ Viewed' /\ lost \subseteq lost'
        BY <1>0, <2>1, <2>2, <2>3 DEF Outs, Viewed
      <2>7. \A q \in Requests : Queued("requested", q)' => Queued("requested", q)
        BY <2>1 DEF Queued
      <2>8. QED
        BY <1>1, <2>1, <2>4, <2>5, <2>6, <2>7, ViewCarryStep
    <1>3. ASSUME NEW p \in Responders, PublishClaim(p) \/ PublishSettled(p)
          PROVE  ViewParts'
      <2>1. /\ \A r \in Responders \ {p} : task'[r] = task[r]
            /\ task'[p].out = <<>>
            /\ task'[p].pc = "idle" \/ (task'[p].pc = "sending" /\ task'[p].req = task[p].req)
            /\ task[p].pc \notin {"idle", "timedOut"}
        <3>1. CASE PublishClaim(p)
          BY <1>0, <3>1, PublishClaimStep DEF Moved, PublishClaim
        <3>2. CASE PublishSettled(p)
          BY <1>0, <3>2, PublishSettledStep, IdleType DEF Rested, PublishSettled
        <3>3. QED
          BY <1>3, <3>1, <3>2
      <2>2. UNCHANGED <<records, raised, events, ownerOut>> /\ Publish(task[p].out)
        BY <1>3 DEF PublishClaim, PublishSettled, ledger, adapter
      <2>3. task[p].out \in Seq(Wire)
        <3>1. task[p].out \in Seq(Messages)
          BY <1>0 DEF Types, Task
        <3>2. QED
          BY <3>1, WireSeq
      <2>4. /\ UNCHANGED <<view, snapshot>>
            /\ \/ Range(channel') = Range(channel) \cup Range(task[p].out) /\ lost' = lost
               \/ /\ channel' = channel
                  /\ lost' = lost \cup {m.req : m \in Range(task[p].out) \ {TurnCompleted}}
        BY <1>0, <2>2, <2>3, PublishEffect
      <2>5. Range(task'[p].out) = {}
        BY <2>1, RangeEmpty
      <2>6. Sent' \subseteq Sent
        BY <2>1, <2>2, <2>4, <2>5 DEF Sent, InFlight
      <2>7. \A m \in Sent : m \in Sent' \/ m.req \in lost'
        BY <2>1, <2>2, <2>4 DEF Sent, InFlight
      <2>8. Outs'
        BY <1>0, <2>1, <2>5 DEF Outs
      <2>9. Viewed' /\ lost \subseteq lost'
        BY <1>0, <2>4 DEF Viewed
      <2>10. \A q \in Requests : Queued("requested", q)' => Queued("requested", q)
        BY <2>2 DEF Queued
      <2>11. \A r \in Responders : task'[r].pc # "idle" =>
                task[r].pc # "idle" /\ task'[r].req = task[r].req
        BY <2>1
      <2>12. \A r \in Responders : task[r].pc = "timedOut" =>
                task'[r].pc = "timedOut" /\ task'[r].req = task[r].req
        BY <2>1
      <2>13. QED
        BY <1>1, <2>2, <2>6, <2>7, <2>8, <2>9, <2>10, <2>11, <2>12, ViewCarryStep
    <1>4. QED
        BY <1>2, <1>3

\* The browser keeps the newer of what it has and what arrives.
LEMMA ViewReceiveStep ==
    ASSUME ViewInv, LedgerInv', Receive
    PROVE  ViewParts'
    <1>0. LedgerInv /\ Types /\ Outs /\ Viewed
        BY DEF ViewInv, LedgerInv
    <1> PICK m : m = Head(channel)
        OBVIOUS
    <1>1. /\ channel # <<>> /\ channel' = Tail(channel) /\ channel \in Seq(Wire)
          /\ UNCHANGED <<records, task, ownerOut, events, raised, snapshot, lost>>
          /\ m # TurnCompleted
          /\ view' = IF Accepts(view, m) THEN Put(view, m.req, m) ELSE view
        BY <1>0 DEF Receive, ledger, adapter, Types
    <1>2. Range(channel) = {m} \cup Range(channel') /\ m \in Messages
        BY <1>1, RangeTail DEF Wire
    <1>3. Range(view') \subseteq Range(view) \cup {m}
        BY <1>1 DEF Put, Range
    <1>4. Sent' \subseteq Sent
        BY <1>1, <1>2, <1>3 DEF Sent, InFlight
    <1>5. Outs'
        BY <1>0, <1>1 DEF Outs
    <1>6. Viewed'
        BY <1>0, <1>1 DEF Viewed, Put
    <1>7. ASSUME NEW q \in DOMAIN records, State(records, q) \in Sent
          PROVE  State(records, q) \in Sent'
      <2> DEFINE s == State(records, q)
      <2>1. s.req = q /\ s.revision = records[q].revision /\ records[q].revision \in Nat
        BY <1>0 DEF State, Types, Record
      <2> HIDE DEF s
      <2>2. ASSUME NEW n \in Sent, n.req = q
            PROVE  /\ n.revision =< records[q].revision
                   /\ n.revision = records[q].revision => n = s
        BY <2>2 DEF ViewInv, NoneNewer, s
      <2>3. m \in Sent /\ Range(view) \subseteq Sent
        BY <1>1, <1>2 DEF Sent, InFlight
      <2>4. CASE s \in Range(view)
        <3>1. PICK r \in DOMAIN view : view[r] = s
          BY <2>4 DEF Range
        <3>2. q \in DOMAIN view /\ view[q] = s
          BY <1>0, <2>1, <3>1 DEF Viewed
        <3>3. view'[q] = s /\ q \in DOMAIN view'
          <4>1. CASE m.req # q
            BY <1>1, <3>2, <4>1 DEF Put
          <4>2. CASE m.req = q /\ ~Accepts(view, m)
            BY <1>1, <3>2, <4>2
          <4>3. CASE m.req = q /\ Accepts(view, m)
            <5>1. s.revision =< m.revision /\ m.revision =< s.revision /\ m.revision \in Nat
              BY <1>2, <2>1, <2>2, <2>3, <3>2, <4>3 DEF Accepts, Messages
            <5>2. m = s
              BY <2>1, <2>2, <2>3, <4>3, <5>1
            <5>3. QED
              BY <1>1, <4>3, <5>2 DEF Put
          <4>4. QED
            BY <4>1, <4>2, <4>3
        <3>4. s \in Range(view')
          BY <3>3 DEF Range
        <3>5. QED
          BY <3>4 DEF Sent, s
      <2>5. CASE s = m
        <3>1. Accepts(view, m)
          <4> SUFFICES ASSUME q \in DOMAIN view PROVE view[q].revision =< m.revision
            BY <2>1, <2>5 DEF Accepts
          <4>1. view[q] \in Sent /\ view[q].req = q
            BY <1>0, <2>3 DEF Viewed, Range
          <4>2. QED
            BY <2>1, <2>2, <2>5, <4>1
        <3>2. q \in DOMAIN view' /\ view'[q] = s
          BY <1>1, <2>1, <2>5, <3>1 DEF Put
        <3>3. s \in Range(view')
          BY <3>2 DEF Range
        <3>4. QED
          BY <3>3 DEF Sent, s
      <2>6. CASE s \notin Range(view) /\ s # m
        <3>1. s \in InFlight'
          BY <1>1, <1>2, <1>7, <2>6 DEF Sent, InFlight, s
        <3>2. QED
          BY <3>1 DEF Sent, s
      <2>7. QED
        BY <2>4, <2>5, <2>6
    <1>8. \A q \in Requests : Queued("requested", q)' => Queued("requested", q)
        BY <1>1 DEF Queued
    <1>9. QED
        BY <1>1, <1>4, <1>5, <1>6, <1>7, <1>8, ViewCarryStep

\* The browser forgets the resolved requests with a turn.
LEMMA ViewCompletedStep ==
    ASSUME ViewInv, LedgerInv', ReceiveCompleted
    PROVE  ViewParts'
    <1>0. LedgerInv /\ Types /\ Outs /\ Viewed
        BY DEF ViewInv, LedgerInv
    <1>1. /\ channel # <<>> /\ channel' = Tail(channel) /\ channel \in Seq(Wire)
          /\ UNCHANGED <<records, task, ownerOut, events, raised, snapshot>>
          /\ Head(channel) = TurnCompleted
          /\ view' = [q \in {r \in DOMAIN view : ~Forgets(view, r)} |-> view[q]]
          /\ lost' = lost \cup {q \in DOMAIN view :
                  /\ Forgets(view, q)
                  /\ \E m \in InFlight : m.req = q /\ m.revision < view[q].revision}
        BY <1>0 DEF ReceiveCompleted, ledger, adapter, Types
    <1>2. Range(channel) = {TurnCompleted} \cup Range(channel')
        BY <1>1, RangeTail
    <1>3. InFlight' = InFlight
        BY <1>1, <1>2 DEF InFlight
    <1>4. Range(view') \subseteq Range(view)
        BY <1>1 DEF Range
    <1>5. Sent' \subseteq Sent
        BY <1>3, <1>4 DEF Sent
    <1>6. Outs' /\ Viewed'
        BY <1>0, <1>1 DEF Outs, Viewed
    <1>7. ASSUME NEW q \in DOMAIN records \ lost', State(records, q) \in Sent
          PROVE  State(records, q) \in Sent' \/ Gone(q)'
      <2> DEFINE s == State(records, q)
      <2>1. s.req = q /\ s.revision = records[q].revision /\ s.status = records[q].status
            /\ records[q].revision \in Nat
        BY <1>0 DEF State, Types, Record
      <2> HIDE DEF s
      <2>2. CASE s \in InFlight
        BY <1>3, <2>2 DEF Sent, s
      <2>3. CASE s \notin InFlight
        <3>1. s \in Range(view)
          BY <1>7, <2>3 DEF Sent, s
        <3>2. q \in DOMAIN view /\ view[q] = s
          BY <1>0, <2>1, <3>1 DEF Viewed, Range
        <3>3. CASE ~Forgets(view, q)
          <4>1. q \in DOMAIN view' /\ view'[q] = s
            BY <1>1, <3>2, <3>3
          <4>2. s \in Range(view')
            BY <4>1 DEF Range
          <4>3. QED
            BY <4>2 DEF Sent, s
        <3>4. CASE Forgets(view, q)
          <4>1. records[q].status = "resolved" /\ q \notin DOMAIN view'
            BY <1>1, <2>1, <3>2, <3>4 DEF Forgets
          <4>2. ASSUME NEW m \in InFlight, m.req = q PROVE FALSE
            <5>1. m \in Sent /\ m \in Messages
              BY <1>0, SentType DEF Sent
            <5>2. m.revision \in Nat /\ m.revision =< s.revision /\ m # s
              BY <2>1, <2>3, <4>2, <5>1 DEF ViewInv, NoneNewer, Messages
            <5>3. m.revision # s.revision
              BY <2>1, <4>2, <5>1, <5>2 DEF ViewInv, NoneNewer, s
            <5>4. m.revision < view[q].revision
              BY <2>1, <3>2, <5>2, <5>3
            <5>5. q \in lost'
              BY <1>1, <3>2, <3>4, <4>2, <5>4
            <5>6. QED
              BY <1>7, <5>5
          <4>3. \A m \in Range(view') : m.req # q
            BY <1>6, <4>1 DEF Viewed, Range
          <4>4. \A m \in Sent' : m.req # q
            BY <1>3, <4>2, <4>3 DEF Sent
          <4>5. QED
            BY <1>1, <4>1, <4>4 DEF Gone
        <3>5. QED
          BY <3>3, <3>4
      <2>4. QED
        BY <2>2, <2>3
    <1>8. \A q \in Requests : Queued("requested", q)' => Queued("requested", q)
        BY <1>1 DEF Queued
    <1>9. lost \subseteq lost'
        BY <1>1
    <1>10. QED
        BY <1>1, <1>5, <1>6, <1>7, <1>8, <1>9, ViewCarryStep

\* A new subscription reads the whole ledger and sends what it read.
LEMMA ViewSubscribeStep ==
    ASSUME ViewInv, LedgerInv', Reconnect \/ ReadStates \/ SendState
    PROVE  ViewParts'
    <1>0. LedgerInv /\ Types /\ Outs /\ Viewed
        BY DEF ViewInv, LedgerInv
    <1>1. UNCHANGED <<records, task, ownerOut, events, raised>>
        BY DEF Reconnect, ReadStates, SendState, ledger, adapter
    <1>2. \A q \in Requests : Queued("requested", q)' <=> Queued("requested", q)
        BY <1>1 DEF Queued
    <1>3. Outs'
        BY <1>0, <1>1 DEF Outs
    <1>4. CASE Reconnect
      <2>1. channel' = <<>> /\ snapshot' = {} /\ lost' = Requests
            /\ view' \in {view, [q \in {} |-> 0]}
        BY <1>4 DEF Reconnect
      <2>2. Range(channel') = {} /\ Range(view') \subseteq Range(view)
        BY <2>1, RangeEmpty DEF Range
      <2>3. Sent' \subseteq Sent
        BY <1>1, <2>1, <2>2 DEF Sent, InFlight
      <2>4. Viewed'
        BY <1>0, <2>1 DEF Viewed
      <2>5. lost \subseteq lost' /\ DOMAIN records \ lost' = {}
        BY <1>0, <2>1 DEF Types
      <2>6. QED
        BY <1>1, <1>2, <1>3, <2>3, <2>4, <2>5, ViewCarryStep
    <1>5. CASE ReadStates
      <2>1. UNCHANGED <<channel, view>>
            /\ snapshot' = {State(records, q) : q \in DOMAIN records}
        BY <1>5 DEF ReadStates
      <2>2. Viewed'
        BY <1>0, <2>1 DEF Viewed
      <2>3. ASSUME NEW q \in DOMAIN records PROVE State(records, q) \in Sent'
        <3>1. State(records, q) \in Messages
          BY <1>0, StateType DEF Types, IsLedger
        <3>2. State(records, q) # TurnCompleted
          BY <3>1, WireSeq
        <3>3. QED
          BY <2>1, <3>2 DEF Sent, InFlight
      <2>4. Sent' \subseteq Sent \cup {State(records, q) : q \in DOMAIN records}
        BY <1>1, <2>1 DEF Sent, InFlight
      <2>5. \A q : State(records, q).req = q /\ State(records, q).revision = records[q].revision
        BY DEF State
      <2>6. \A q \in DOMAIN records : records[q].revision \in Nat
        BY <1>0 DEF Types, Record
      <2>7. ASSUME NEW m \in Sent', m.req \in DOMAIN records'
            PROVE  /\ m.revision =< records'[m.req].revision
                   /\ m.revision = records'[m.req].revision => m = State(records', m.req)
        <3>1. CASE m \in Sent
          BY <1>1, <2>7, <3>1 DEF ViewInv, NoneNewer, State
        <3>2. CASE \E q \in DOMAIN records : m = State(records, q)
          <4>1. PICK q \in DOMAIN records : m = State(records, q)
            BY <3>2
          <4>2. m.req = q /\ m.revision = records[q].revision /\ records[q].revision \in Nat
            BY <2>5, <2>6, <4>1
          <4>3. State(records', q) = State(records, q)
            BY <1>1 DEF State
          <4>4. QED
            BY <1>1, <4>1, <4>2, <4>3
        <3>3. QED
          BY <2>4, <2>7, <3>1, <3>2
      <2>8. ASSUME NEW q \in Requests \ DOMAIN records', raised'[q] = 0 \/ Queued("requested", q)'
            PROVE  /\ \A m \in Sent' : m.req # q
                   /\ \A p \in Responders : task'[p].pc # "idle" => task'[p].req # q
        <3>1. /\ \A m \in Sent : m.req # q
              /\ \A p \in Responders : task[p].pc # "idle" => task[p].req # q
          BY <1>1, <1>2, <2>8 DEF ViewInv, NoneNewer
        <3>2. QED
          BY <1>1, <2>4, <2>5, <2>8, <3>1
      <2>9. NoneNewer'
        BY <2>7, <2>8 DEF NoneNewer
      <2>10. LastWord'
        <3>1. \A q \in DOMAIN records' : State(records', q) \in Sent'
          BY <1>1, <2>3 DEF State
        <3>2. QED
          BY <3>1 DEF LastWord
      <2>11. QED
        BY <1>3, <2>2, <2>9, <2>10 DEF ViewParts
    <1>6. CASE SendState
      <2>1. PICK m \in snapshot : channel' = Append(channel, m) /\ snapshot' = snapshot \ {m}
        BY <1>6 DEF SendState
      <2>2. UNCHANGED <<view, lost>>
        BY <1>6 DEF SendState
      <2>3. m \in Wire /\ channel \in Seq(Wire)
        BY <1>0, <2>1 DEF Types, Wire
      <2>4. Range(channel') = Range(channel) \cup {m}
        BY <2>1, <2>3, RangeAppend
      <2>5. Sent' = Sent
        BY <1>1, <2>1, <2>2, <2>4 DEF Sent, InFlight
      <2>6. Viewed'
        BY <1>0, <2>2 DEF Viewed
      <2>7. QED
        BY <1>1, <1>2, <1>3, <2>2, <2>5, <2>6, ViewCarryStep
    <1>7. QED
        BY <1>4, <1>5, <1>6

\* A response takes a claim and has the new state to publish.
LEMMA ViewClaimStep ==
    ASSUME ViewInv, LedgerInv', NEW p \in Responders, NEW q \in Requests, Claim(p, q)
    PROVE  ViewParts'
    <1>0. LedgerInv /\ Types /\ Outs /\ Viewed /\ task[p].pc = "idle"
        BY DEF ViewInv, LedgerInv, Claim
    <1>1. q \in DOMAIN records /\ Claims(records, records', q, lastClaim + 1)
        BY <1>0, ClaimRevises
    <1>2. /\ \A r \in Responders \ {p} : task'[r] = task[r]
          /\ task'[p] = [pc |-> "claimed", req |-> q, claim |-> lastClaim + 1,
                         out |-> <<State(records', q)>>]
      <2>1. records' = Claimed(records, q, lastClaim + 1)
        BY DEF Claim
      <2>2. QED
        BY <1>0, <2>1, ClaimTask
    <1>3. task'[p].pc = "claimed" /\ task'[p].req = q /\ task'[p].out = <<State(records', q)>>
          /\ Range(task'[p].out) = {State(records', q)}
        BY <1>2, RangeOne
    <1>4. Range(task[p].out) = {}
        BY <1>0, RangeEmpty DEF Outs
    <1>5. UNCHANGED <<ownerOut, events, channel, view, raised, snapshot, lost>>
        BY DEF Claim, adapter, browser
    <1>5a. State(records', q) # TurnCompleted
        BY <1>1, StateIsNews DEF Claims
    <1>6. /\ Sent' \subseteq Sent \cup {State(records', q)} /\ Sent \subseteq Sent'
          /\ State(records', q) \in Sent'
        BY <1>2, <1>3, <1>4, <1>5, <1>5a, SentMove
    <1>7. Outs'
      <2>1. State(records', q).req = q
        BY DEF State
      <2>2. QED
        BY <1>0, <1>2, <1>3, <2>1 DEF Outs
    <1>8. Viewed'
        BY <1>0, <1>5 DEF Viewed
    <1>9. \A r \in Requests : Queued("requested", r)' => Queued("requested", r)
        BY <1>5 DEF Queued
    <1>10. /\ DOMAIN records' = DOMAIN records \cup {q}
           /\ \A r \in DOMAIN records \ {q} : State(records', r) = State(records, r)
           /\ records'[q].revision = records[q].revision + 1
        BY <1>1 DEF Claims, State
    <1>11. \A r \in Responders : task'[r].pc # "idle" =>
              task'[r].req = q \/ (task[r].pc # "idle" /\ task'[r].req = task[r].req)
        BY <1>2, <1>3
    <1>12. \A r \in Responders : task[r].pc = "timedOut" =>
              task'[r].pc = "timedOut" /\ task'[r].req = task[r].req
        BY <1>0, <1>2
    <1>13. QED
        BY <1>1, <1>5, <1>6, <1>7, <1>8, <1>9, <1>10, <1>11, <1>12, ViewChangeStep

\* A response gives its claim up: what changed is published, or was dropped and
\* will be read again.
LEMMA ViewReleaseStep ==
    ASSUME ViewInv, LedgerInv', NEW p \in Responders,
           OnAccepted(p) \/ OnRefused(p) \/ Timeout(p)
    PROVE  ViewParts'
    <1>0. LedgerInv /\ Types /\ Outs /\ Viewed
        BY DEF ViewInv, LedgerInv
    <1> PICK q : q = task[p].req
        OBVIOUS
    <1>1. Releases(p) /\ q \in Requests /\ task[p].pc \notin {"idle", "timedOut"}
        BY <1>0, OnAcceptedStep, OnRefusedStep, TimeoutStep
           DEF OnAccepted, OnRefused, Timeout, Types, Task
    <1>2. UNCHANGED <<ownerOut, events, channel, view, raised, snapshot, lost>>
        BY DEF OnAccepted, OnRefused, Timeout, Settle, adapter, browser
    <1>3. \A r \in Requests : Queued("requested", r)' => Queued("requested", r)
        BY <1>2 DEF Queued
    <1>4. Viewed'
        BY <1>0, <1>2 DEF Viewed
    <1>5. \A m \in Range(task[p].out) : m.req = q
        BY <1>0 DEF Outs
    <1>6. /\ DOMAIN records' = DOMAIN records
          /\ \A r \in DOMAIN records \ {q} : State(records', r) = State(records, r)
          /\ \/ records' = records
             \/ q \in DOMAIN records /\ records'[q].revision = records[q].revision + 1
        BY <1>1 DEF Releases, State, Holds
    <1>7. CASE Timeout(p)
      <2>1. Moved(p, "timedOut", <<>>)
        BY <1>0, <1>7, TimeoutStep
      <2>2. /\ \A r \in Responders \ {p} : task'[r] = task[r]
            /\ task'[p].pc = "timedOut" /\ task'[p].req = q /\ task'[p].out = <<>>
            /\ Range(task'[p].out) = {}
        BY <2>1, RangeEmpty DEF Moved
      <2>3. Outs'
        BY <1>0, <2>2 DEF Outs
      <2>4. Sent' \subseteq Sent /\ \A m \in Sent : m.req # q => m \in Sent'
        BY <1>2, <1>5, <2>2, SentMove
      <2>5. \A r \in Responders : task'[r].pc # "idle" =>
                task[r].pc # "idle" /\ task'[r].req = task[r].req
        BY <1>1, <2>2
      <2>6. \A r \in Responders : task[r].pc = "timedOut" =>
                task'[r].pc = "timedOut" /\ task'[r].req = task[r].req
        BY <1>1, <2>2
      <2>7. CASE q \in DOMAIN records
        <3>1. DOMAIN records' = DOMAIN records \cup {q}
          BY <1>6, <2>7
        <3>2. \/ State(records', q) = State(records, q)
              \/ records'[q].revision = records[q].revision + 1
          BY <1>6 DEF State
        <3>3. QED
          BY <1>1, <1>2, <1>3, <1>4, <1>6, <2>2, <2>3, <2>4, <2>5, <2>6, <2>7, <3>1, <3>2,
             ViewChangeStep
      <2>8. CASE q \notin DOMAIN records
        <3>1. records' = records
          BY <1>6, <2>8
        <3>2. \A r \in DOMAIN records : State(records, r).req # q
          BY <2>8 DEF State
        <3>3. QED
          BY <1>2, <1>3, <1>4, <2>3, <2>4, <2>5, <2>6, <3>1, <3>2, ViewCarryStep
      <2>9. QED
        BY <2>7, <2>8
    <1>8. CASE OnAccepted(p) \/ OnRefused(p)
      <2>1. /\ \/ Changed(records, records', q) = <<>> /\ Rested(p)
               \/ Moved(p, "settled", Changed(records, records', q))
            /\ task[p].pc \in {"accepted", "refused"}
        BY <1>0, <1>8, OnAcceptedStep, OnRefusedStep DEF OnAccepted, OnRefused
      <2>2. Holds(records, q, task[p].claim)
        BY <1>0, <2>1 DEF LedgerInv, RespondingIffClaimed, Claiming
      <2>3. q \in DOMAIN records /\ records'[q].revision = records[q].revision + 1
            /\ records[q].revision \in Nat
        BY <1>0, <1>1, <2>2 DEF Releases, Holds, Types, Record
      <2>4. Changed(records, records', q) = <<State(records', q)>>
        BY <1>6, <2>3 DEF Changed
      <2>5. Moved(p, "settled", <<State(records', q)>>)
        BY <2>1, <2>4
      <2>6. /\ \A r \in Responders \ {p} : task'[r] = task[r]
            /\ task'[p].pc = "settled" /\ task'[p].req = q
            /\ task'[p].out = <<State(records', q)>>
            /\ Range(task'[p].out) = {State(records', q)}
        BY <2>5, RangeOne DEF Moved
      <2>7. State(records', q).req = q
        BY DEF State
      <2>7a. State(records', q) # TurnCompleted
        BY <1>6, <2>3, StateIsNews
      <2>8. Outs'
        BY <1>0, <2>6, <2>7 DEF Outs
      <2>9. /\ Sent' \subseteq Sent \cup {State(records', q)}
            /\ \A m \in Sent : m.req # q => m \in Sent'
            /\ State(records', q) \in Sent'
        BY <1>2, <1>5, <2>6, <2>7a, SentMove
      <2>10. \A r \in Responders : task'[r].pc # "idle" =>
                task[r].pc # "idle" /\ task'[r].req = task[r].req
        BY <1>1, <2>6
      <2>11. \A r \in Responders : task[r].pc = "timedOut" =>
                task'[r].pc = "timedOut" /\ task'[r].req = task[r].req
        BY <1>1, <2>6
      <2>12. DOMAIN records' = DOMAIN records \cup {q}
        BY <1>6, <2>3
      <2>13. QED
        BY <1>1, <1>2, <1>3, <1>4, <1>6, <2>3, <2>8, <2>9, <2>10, <2>11, <2>12, ViewChangeStep
    <1>9. QED
        BY <1>7, <1>8

\* The handler reads a record again after a timeout.
LEMMA ViewRereadStep ==
    ASSUME ViewInv, LedgerInv', NEW p \in Responders, Reread(p)
    PROVE  ViewParts'
    <1>0. LedgerInv /\ Types /\ Outs /\ Viewed /\ task[p].pc = "timedOut"
        BY DEF ViewInv, LedgerInv, Reread
    <1> PICK q : q = task[p].req
        OBVIOUS
    <1>1. q \in Requests
        BY <1>0 DEF Types, Task
    <1>2. UNCHANGED <<records, ownerOut, events, channel, view, raised, snapshot, lost>>
        BY DEF Reread, ledger, adapter, browser
    <1>3. \A r \in Requests : Queued("requested", r)' => Queued("requested", r)
        BY <1>2 DEF Queued
    <1>4. Viewed'
        BY <1>0, <1>2 DEF Viewed
    <1>5. Range(task[p].out) = {}
        BY <1>0, RangeEmpty DEF Outs
    <1>6. CASE q \notin DOMAIN records
      <2>1. Rested(p)
        BY <1>0, <1>6, RereadStep
      <2>2. /\ \A r \in Responders \ {p} : task'[r] = task[r]
            /\ task'[p].pc = "idle" /\ task'[p].out = <<>> /\ Range(task'[p].out) = {}
        BY <2>1, IdleType, RangeEmpty DEF Rested
      <2>3. Outs'
        BY <1>0, <2>2 DEF Outs
      <2>4. Sent' \subseteq Sent /\ Sent \subseteq Sent'
        BY <1>2, <1>5, <2>2, SentMove
      <2>5. QED
        BY <1>2, <1>3, <1>4, <1>6, <2>2, <2>3, <2>4, ViewCarryStep
    <1>7. CASE q \in DOMAIN records
      <2>1. Moved(p, "reread", <<State(records, q)>>)
        BY <1>0, <1>7, RereadStep
      <2>2. State(records', q) = State(records, q) /\ State(records, q).req = q
        BY <1>2 DEF State
      <2>2a. State(records, q) # TurnCompleted
        BY <1>2, <1>7, <2>2, StateIsNews
      <2>3. /\ \A r \in Responders \ {p} : task'[r] = task[r]
            /\ task'[p].pc = "reread" /\ task'[p].req = q
            /\ task'[p].out = <<State(records, q)>>
            /\ Range(task'[p].out) = {State(records, q)}
        BY <2>1, RangeOne DEF Moved
      <2>4. Outs'
        BY <1>0, <2>2, <2>3 DEF Outs
      <2>5. /\ Sent' \subseteq Sent \cup {State(records', q)} /\ Sent \subseteq Sent'
            /\ State(records', q) \in Sent'
        BY <1>2, <1>5, <2>2, <2>3, <2>2a, SentMove
      <2>6. /\ DOMAIN records' = DOMAIN records \cup {q}
            /\ \A r \in DOMAIN records \ {q} : State(records', r) = State(records, r)
        BY <1>2, <1>7
      <2>7. \A r \in Responders : task'[r].pc # "idle" =>
                task[r].pc # "idle" /\ task'[r].req = task[r].req
        BY <1>0, <2>3
      <2>8. \A r \in Responders : task[r].pc = "timedOut" =>
                task[r].req = q \/ (task'[r].pc = "timedOut" /\ task'[r].req = task[r].req)
        BY <2>3
      <2>9. QED
        BY <1>1, <1>2, <1>3, <1>4, <1>7, <2>2, <2>4, <2>5, <2>6, <2>7, <2>8, ViewChangeStep
    <1>8. QED
        BY <1>6, <1>7

\* The owner applies an event and has what it changed to publish.
LEMMA ViewApplyStep ==
    ASSUME ViewInv, LedgerInv', ApplyEvent
    PROVE  ViewParts'
    <1>0. LedgerInv /\ Types /\ Outs /\ Viewed /\ TurnOrder /\ IsLedger(records)
          /\ IsLedger(records')
        BY DEF ViewInv, LedgerInv, Types, IsLedger
    <1>1. PICK e \in Range(events) :
             /\ e = Head(events) /\ e \in Event /\ events' = Tail(events)
             /\ Range(events) = {e} \cup Range(events')
             /\ \/ /\ e.kind = "requested"
                   /\ Registered(records, records', e.req, e.turn)
                \/ /\ e.kind = "resolved"
                   /\ HarnessResolves(records, records', e.req)
                \/ /\ e.kind = "turnCompleted"
                   /\ Prunes(records, records', e.turn)
             /\ ownerOut = <<>>
             /\ ownerOut' = IF e.kind = "turnCompleted" THEN <<TurnCompleted>>
                            ELSE Changed(records, records', e.req)
        BY <1>0, ApplyRevises
    <1> PICK q : q = e.req
        OBVIOUS
    <1>2. UNCHANGED <<task, channel, view, raised, snapshot, lost>> /\ q \in Requests
        BY <1>1 DEF ApplyEvent, adapter, browser, Event
    <1>3. Outs' /\ Viewed'
        BY <1>0, <1>2 DEF Outs, Viewed
    <1>4. \A r \in Requests : Queued("requested", r)' => Queued("requested", r)
        BY <1>1 DEF Queued
    <1>5. Sent' = (Sent \cup (Range(ownerOut') \ {TurnCompleted}))
      <2>1. Range(ownerOut) = {}
        BY <1>1, RangeEmpty
      <2>2. QED
        BY <1>2, <2>1 DEF Sent, InFlight
    <1>6. ASSUME e.kind # "turnCompleted", q \in DOMAIN records \/ e.kind = "requested",
                 DOMAIN records' = DOMAIN records \cup {q},
                 \A r \in DOMAIN records \ {q} : records'[r] = records[r],
                 \/ q \notin DOMAIN records
                 \/ State(records', q) = State(records, q)
                 \/ records'[q].revision = records[q].revision + 1
          PROVE  ViewParts'
      <2>1. ownerOut' = Changed(records, records', q)
        BY <1>1, <1>6
      <2>2. Range(ownerOut') \subseteq {State(records', q)}
        BY <1>0, <2>1, ChangedType
      <2>3. q \in DOMAIN records => records[q].revision \in Nat
        BY <1>0 DEF IsLedger, Record
      <2>4. q \notin DOMAIN records \/ records'[q].revision = records[q].revision + 1
              => Range(ownerOut') = {State(records', q)}
        <3>1. Range(<<State(records', q)>>) = {State(records', q)}
          BY RangeOne
        <3>2. QED
          BY <1>6, <2>1, <2>3, <3>1 DEF Changed
      <2>5. q \in DOMAIN records \/ Queued("requested", q)
        BY <1>1, <1>6 DEF Queued
      <2>6. \A r \in DOMAIN records \ {q} : State(records', r) = State(records, r)
        BY <1>6 DEF State
      <2>7. Sent' \subseteq Sent \cup {State(records', q)} /\ Sent \subseteq Sent'
        BY <1>5, <2>2
      <2>8. \/ q \in lost
            \/ State(records', q) \in Sent'
            \/ \E p \in Responders : task'[p].pc = "timedOut" /\ task'[p].req = q
            \/ Gone(q)'
        <3>1. CASE q \notin DOMAIN records \/ records'[q].revision = records[q].revision + 1
          <4>1. q \in DOMAIN records'
            BY <1>6
          <4>2. State(records', q) # TurnCompleted
            BY <4>1, StateIsNews
          <4>3. QED
            BY <1>5, <2>4, <3>1, <4>2
        <3>2. CASE q \in DOMAIN records /\ State(records', q) = State(records, q)
          <4>1. /\ records'[q].revision = records[q].revision
                /\ records'[q].status = records[q].status
            BY <3>2 DEF State
          <4>2. ownerOut' = <<>>
            BY <2>1, <3>2, <4>1 DEF Changed
          <4>3. Sent' = Sent
            BY <1>5, <4>2, RangeEmpty
          <4>4. Gone(q) => Gone(q)'
            BY <4>1, <4>3 DEF Gone
          <4>5. QED
            BY <1>2, <3>2, <4>3, <4>4 DEF ViewInv, LastWord
        <3>3. QED
          BY <1>6, <3>1, <3>2
      <2>9. QED
        BY <1>2, <1>3, <1>4, <1>6, <2>5, <2>6, <2>7, <2>8, ViewChangeStep
    <1>7. CASE e.kind = "requested" /\ Registered(records, records', q, e.turn)
      <2>1. \/ q \notin DOMAIN records
            \/ State(records', q) = State(records, q)
            \/ records'[q].revision = records[q].revision + 1
        BY <1>7 DEF Registered, State
      <2>2. QED
        BY <1>6, <1>7, <2>1 DEF Registered
    <1>8. CASE e.kind = "resolved" /\ HarnessResolves(records, records', q)
      <2>1. CASE q \in DOMAIN records
        <3>1. \/ State(records', q) = State(records, q)
              \/ records'[q].revision = records[q].revision + 1
          <4>1. ASSUME records'[q] = [records[q] EXCEPT !.harnessResolved = TRUE]
                PROVE  State(records', q) = State(records, q)
            <5>1. records[q] \in Record
              BY <1>0, <2>1 DEF IsLedger
            <5>2. QED
              BY <4>1, <5>1, MarkEffect DEF State
          <4>2. records'[q] = records[q] => State(records', q) = State(records, q)
            BY DEF State
          <4>3. QED
            BY <1>8, <2>1, <4>1, <4>2 DEF HarnessResolves, Resolves
        <3>2. QED
          BY <1>6, <1>8, <2>1, <3>1 DEF HarnessResolves
      <2>2. CASE q \notin DOMAIN records
        <3>1. records' = records
          BY <1>0, <1>8, <2>2 DEF HarnessResolves, IsLedger
        <3>2. ownerOut' = <<>>
          BY <1>1, <1>8, <2>2, <3>1 DEF Changed
        <3>3. Sent' = Sent
          BY <1>5, <3>2, RangeEmpty
        <3>4. QED
          BY <1>2, <1>3, <1>4, <3>1, <3>3, ViewCarryStep
      <2>3. QED
        BY <2>1, <2>2
    <1>9. CASE e.kind = "turnCompleted" /\ Prunes(records, records', e.turn)
      <2>1. Sent' = Sent
        <3>1. Range(ownerOut') = {TurnCompleted}
          BY <1>1, <1>9, RangeOne
        <3>2. QED
          BY <1>5, <3>1
      <2>2. \A r \in DOMAIN records' : r \in DOMAIN records /\ records'[r] = records[r]
        BY <1>9 DEF Prunes
      <2>3. LastWord'
        BY <1>2, <2>1, <2>2 DEF ViewInv, LastWord, Gone, State
      <2>4. \A m \in Sent' : m.req \in DOMAIN records' =>
              /\ m.revision =< records'[m.req].revision
              /\ m.revision = records'[m.req].revision => m = State(records', m.req)
        BY <2>1, <2>2 DEF ViewInv, NoneNewer, State
      <2>5. ASSUME NEW r \in DOMAIN records \ DOMAIN records'
            PROVE  raised[r] # 0 /\ ~Queued("requested", r)'
        <3>1. r \in Requests /\ raised[r] # 0
          BY <1>0 DEF LedgerInv, Untouched, Types
        <3>2. records[r].turn = e.turn /\ raisedIn[r] = e.turn
          BY <1>0, <1>9, <2>5 DEF Prunes, TurnOrder
        <3>3. \A x \in Range(events') : x.kind = "requested" => x.turn # e.turn
          <4>1. events \in Seq(Event) /\ InOrder(events) /\ events # <<>>
            BY <1>0 DEF Types, TurnOrder, InOrder, ApplyEvent
          <4>2. QED
            BY <1>1, <1>9, <4>1, OrderTail
        <3>4. \A x \in Range(events') : x.kind = "requested" => x.turn = raisedIn[x.req]
          BY <1>0, <1>1 DEF TurnOrder
        <3>5. QED
          BY <3>1, <3>2, <3>3, <3>4 DEF Queued
      <2>6. ASSUME NEW r \in Requests \ DOMAIN records', raised'[r] = 0 \/ Queued("requested", r)'
            PROVE  /\ \A m \in Sent' : m.req # r
                   /\ \A p \in Responders : task'[p].pc # "idle" => task'[p].req # r
        <3>1. r \notin DOMAIN records
          BY <1>2, <2>5, <2>6
        <3>2. QED
          BY <1>2, <1>4, <2>1, <2>6, <3>1 DEF ViewInv, NoneNewer
      <2>7. NoneNewer'
        BY <2>4, <2>6 DEF NoneNewer
      <2>8. QED
        BY <1>3, <2>3, <2>7 DEF ViewParts
    <1>10. QED
        BY <1>1, <1>7, <1>8, <1>9

\* An empty system is in its invariant.
LEMMA ViewInit == Init => ViewInv
    <1> SUFFICES ASSUME Init PROVE ViewInv
        OBVIOUS
    <1>1. Range(channel) = {} /\ Range(ownerOut) = {} /\ Range(view) = {} /\ Range(events) = {}
          /\ DOMAIN records = {} /\ DOMAIN view = {} /\ DOMAIN events = {} /\ snapshot = {}
          /\ \A p \in Responders : task[p] = Idle
        BY RangeEmpty DEF Init, Range
    <1>2. \A p \in Responders : Range(task[p].out) = {} /\ task[p].pc = "idle"
                                /\ task[p].out = <<>>
        BY <1>1, IdleType, RangeEmpty
    <1>3. Sent = {}
        BY <1>1, <1>2 DEF Sent, InFlight
    <1>4. TurnOrder
        BY <1>1 DEF TurnOrder
    <1>5. Outs
        BY <1>2 DEF Outs
    <1>6. Viewed /\ NoneNewer /\ LastWord
        BY <1>1, <1>2, <1>3 DEF Viewed, NoneNewer, LastWord
    <1>7. QED
        BY <1>4, <1>5, <1>6, LedgerInit DEF ViewInv

\* Every step keeps the invariant of the ledger and of the browser's view.
LEMMA ViewStep == ViewInv /\ [Next]_vars => ViewInv'
    <1> SUFFICES ASSUME ViewInv, [Next]_vars PROVE ViewInv'
        OBVIOUS
    <1>1. LedgerInv' /\ TurnOrder'
        BY LedgerStep, TurnOrderStep DEF ViewInv
    <1>2. CASE UNCHANGED vars
      <2>1. UNCHANGED <<records, raised, events, task, channel, ownerOut, view, snapshot,
                      lost>>
        BY <1>2 DEF vars, ledger, adapter, browser
      <2>2. \A q \in Requests : Queued("requested", q)' => Queued("requested", q)
        BY <2>1 DEF Queued
      <2>3. ViewParts'
        BY <1>1, <2>1, <2>2, ViewQuietStep
      <2>4. QED
        BY <1>1, <2>3 DEF ViewInv, ViewParts
    <1>3. CASE Next
      <2>1. ViewParts'
        BY <1>1, <1>3, ViewAdapterStep, ViewPublishStep, ViewReceiveStep, ViewCompletedStep,
           ViewSubscribeStep, ViewClaimStep,
           ViewReleaseStep, ViewRereadStep, ViewApplyStep DEF Next, Responder
      <2>2. QED
        BY <1>1, <2>1 DEF ViewInv, ViewParts
    <1>4. QED
        BY <1>2, <1>3

\* In every behaviour: when nothing is on its way and no response is in flight,
\* the browser shows the ledger's state of every record, or has forgotten a
\* resolved one with a turn, although publications race, a dropped response drops
\* what it had to publish, and the queue drops messages: what was missed so is
\* excepted until the next subscription has read the ledger (ws.rs, hub.rs, app.js).
THEOREM ViewCorrect == Spec => []ViewConverges
    <1>1. Spec => []ViewInv
        BY ViewInit, ViewStep, PTL DEF Spec
    <1>2. ViewInv => ViewConverges
      <2> SUFFICES ASSUME ViewInv, channel = <<>>, ownerOut = <<>>, snapshot = {},
                          \A p \in Responders : task[p].pc = "idle",
                          NEW q \in DOMAIN records \ lost
                   PROVE  \/ q \in DOMAIN view /\ view[q] = State(records, q)
                          \/ q \notin DOMAIN view /\ records[q].status = "resolved"
        BY DEF ViewConverges
      <2>1. \A p \in Responders : task[p].out = <<>> /\ Range(task[p].out) = {}
        BY RangeEmpty DEF ViewInv, Outs
      <2>2. Sent = Range(view)
        BY <2>1, RangeEmpty DEF Sent, InFlight
      <2>3. CASE State(records, q) \in Range(view)
        <3>1. PICK r \in DOMAIN view : view[r] = State(records, q)
          BY <2>3 DEF Range
        <3>2. r = q
          BY <3>1 DEF ViewInv, Viewed, State
        <3>3. QED
          BY <3>1, <3>2
      <2>4. CASE Gone(q)
        <3>1. q \notin DOMAIN view
          BY <2>2, <2>4 DEF Gone, ViewInv, Viewed, Range
        <3>2. QED
          BY <2>4, <3>1 DEF Gone
      <2>5. QED
        BY <2>2, <2>3, <2>4 DEF ViewInv, LastWord
    <1>3. QED
        BY <1>1, <1>2, PTL
=============================================================================
