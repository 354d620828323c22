------------------------- MODULE ClaudeSessionProofs -------------------------
(***************************************************************************)
(* For every number of calls, children, logs and asks and every length of  *)
(* the command queue: the stream of a thread, the turn it shows and the    *)
(* asks it owes an answer agree with the child that serves the thread, and *)
(* what a supervisor writes to its child somebody still wants.             *)
(***************************************************************************)
EXTENDS ClaudeSession, WellFoundedInduction, TLAPS

Phases    == Reading \cup {"none", "hung", "exiting", "closing", "ended"}
AskStates == {"unused", "awaiting", "withdrawn", "answered", "stale", "gone"}

EntryType == [log : 0..MaxLogs, child : 0..MaxChildren]
LogType   == [state : {"none", "open", "closed"}, turn : Turns]
ChildType == [phase : Phases, reaped : BOOLEAN, log : 0..MaxLogs, queue : Seq(Calls),
              setup : 0..MaxCalls, turn : Turns, waiters : SUBSET Calls,
              withdrawn : SUBSET Asks]
CallType  == [op : Ops, pc : Steps, tries : {0, 1}, log : 0..MaxLogs,
              child : 0..MaxChildren, ask : SUBSET Asks]
AskType   == [child : 0..MaxChildren, state : AskStates]

SupType  == sup \in [Children -> ChildType]
QueueFits == \A g \in Children : Len(sup[g].queue) <= QueueLimit
AsksType == pending \subseteq Asks /\ lost \subseteq Asks /\ cli \in [Asks -> AskType]

\* The types, with what TypeOK leaves open.
SessionType ==
    /\ entry \in EntryType
    /\ logs \in [Logs -> LogType]
    /\ gate \in [Logs -> 0..MaxCalls]
    /\ SupType /\ QueueFits
    /\ call \in [Calls -> CallType]
    /\ AsksType

\* A call is in a queue.
In(q, k) == \E n \in DOMAIN q : q[n] = k

USE DEF Calls, Children, Logs, None, Own, Turns

\* A nonempty set of numbers has a least one.
LEMMA Least ==
    ASSUME NEW S, S \subseteq Nat, S # {}
    PROVE  \E x \in S : \A y \in S : x <= y
    <1> DEFINE R == {p \in Nat \X Nat : p[1] < p[2]}
    <1>1. IsWellFoundedOn(R, Nat)
      <2>1. R = OpToRel(<, Nat)
        BY DEF OpToRel
      <2>2. QED
        BY <2>1, NatLessThanWellFounded
    <1>2. PICK x \in S : \A y \in S : ~(<<y, x>> \in R)
      <2> HIDE DEF R
      <2>1. QED
        BY <1>1, WFMin
    <1>3. ASSUME NEW y \in S PROVE x <= y
      <2>1. ~(<<y, x>> \in R) /\ y \in Nat /\ x \in Nat
        BY <1>2
      <2>2. QED
        BY <2>1
    <1>4. QED
        BY <1>3

\* A child that was never spawned is there to be spawned.
LEMMA NextChildUnused ==
    ASSUME SupType, Unused(sup) # {}
    PROVE  NextChild \in Children /\ sup[NextChild] = Child0
    <1>1. Unused(sup) \subseteq Children /\ Unused(sup) \subseteq Nat
        BY ClaudeSessionAssumption DEF Unused, SupType
    <1>2. \E g \in Unused(sup) : \A h \in Unused(sup) : g <= h
        BY <1>1, Least
    <1>3. NextChild \in Unused(sup)
        BY <1>2 DEF NextChild
    <1>4. QED
        BY <1>1, <1>3 DEF Unused

\* So is a log that was never opened.
LEMMA NextLogUnused ==
    ASSUME \E i \in Logs : logs[i].state = "none"
    PROVE  NextLog \in Logs /\ logs[NextLog].state = "none"
    <1> DEFINE S == {i \in Logs : logs[i].state = "none"}
    <1>0. MaxLogs \in Nat
        BY ClaudeSessionAssumption
    <1>1. S # {} /\ S \subseteq Nat
        BY <1>0
    <1>2. PICK i \in S : \A j \in S : i <= j
        BY <1>1, Least
    <1>3. i \in Logs /\ logs[i].state = "none" /\ \A j \in 1..(i - 1) : logs[j].state # "none"
        BY <1>0, <1>2
    <1>4. QED
        BY <1>3 DEF NextLog

\* What a queue holds after a command was appended or taken.
LEMMA InAppend ==
    ASSUME NEW q \in Seq(Calls), NEW k \in Calls
    PROVE  /\ Append(q, k) \in Seq(Calls) /\ Len(Append(q, k)) = Len(q) + 1
           /\ \A j : In(Append(q, k), j) <=> In(q, j) \/ j = k
    <1>1. Append(q, k) \in Seq(Calls) /\ Len(Append(q, k)) = Len(q) + 1
        OBVIOUS
    <1>2. DOMAIN Append(q, k) = 1..(Len(q) + 1) /\ DOMAIN q = 1..Len(q) /\ Len(q) \in Nat
        OBVIOUS
    <1>3. /\ \A n \in 1..Len(q) : Append(q, k)[n] = q[n]
          /\ Append(q, k)[Len(q) + 1] = k
        OBVIOUS
    <1>4. ASSUME NEW j PROVE In(Append(q, k), j) <=> In(q, j) \/ j = k
        BY <1>2, <1>3 DEF In
    <1>5. QED
        BY <1>1, <1>4

\* The elements of a tail.
LEMMA TailElements ==
    ASSUME NEW S, NEW s \in Seq(S), s # <<>>
    PROVE  /\ Tail(s) \in Seq(S) /\ Len(s) \in Nat \ {0} /\ Len(Tail(s)) = Len(s) - 1
           /\ \A k \in 1 .. Len(s) - 1 : Tail(s)[k] = s[k + 1]
           /\ Head(s) = s[1] /\ s[1] \in S
    OBVIOUS

\* Taking the head leaves the rest.
LEMMA InTail ==
    ASSUME NEW q \in Seq(Calls), q # <<>>
    PROVE  /\ Tail(q) \in Seq(Calls) /\ Len(Tail(q)) <= Len(q) /\ Head(q) \in Calls
           /\ In(q, Head(q))
           /\ \A j : In(Tail(q), j) => In(q, j)
           /\ \A j : In(q, j) => In(Tail(q), j) \/ j = Head(q)
    <1>1. /\ Tail(q) \in Seq(Calls) /\ Len(Tail(q)) = Len(q) - 1 /\ Len(q) \in Nat \ {0}
          /\ Head(q) = q[1] /\ q[1] \in Calls
        BY TailElements
    <1>2. DOMAIN Tail(q) = 1..(Len(q) - 1) /\ DOMAIN q = 1..Len(q)
        BY <1>1
    <1>3. \A n \in 1..(Len(q) - 1) : Tail(q)[n] = q[n + 1]
        BY TailElements
    <1>4. ASSUME NEW j, In(Tail(q), j) PROVE In(q, j)
      <2>1. PICK n \in 1..(Len(q) - 1) : q[n + 1] = j
        BY <1>2, <1>3, <1>4 DEF In
      <2>2. n + 1 \in 1..Len(q)
        BY <1>1, <2>1
      <2>3. QED
        BY <1>2, <2>1, <2>2 DEF In
    <1>5. ASSUME NEW j, In(q, j), j # Head(q) PROVE In(Tail(q), j)
      <2>1. PICK n \in 1..Len(q) : q[n] = j
        BY <1>2, <1>5 DEF In
      <2>2. n # 1
        BY <1>1, <1>5, <2>1
      <2>3. n - 1 \in 1..(Len(q) - 1) /\ n = (n - 1) + 1
        BY <1>1, <2>1, <2>2
      <2>4. Tail(q)[n - 1] = j
        BY <1>3, <2>1, <2>3
      <2>5. QED
        BY <1>2, <2>3, <2>4 DEF In
    <1>6. In(q, Head(q)) /\ Len(Tail(q)) <= Len(q)
        BY <1>1, <1>2 DEF In
    <1>7. QED
        BY <1>1, <1>4, <1>5, <1>6

\* The state of a child that was never spawned.
LEMMA Child0Facts ==
    /\ Child0 \in ChildType
    /\ Child0.phase = "none" /\ Child0.log = 0 /\ Child0.queue = <<>> /\ Child0.reaped = FALSE
    /\ Child0.turn = 0 /\ Child0.setup = 0 /\ Child0.waiters = {} /\ Child0.withdrawn = {}
    <1>1. MaxCalls \in Nat /\ MaxLogs \in Nat /\ <<>> \in Seq(Calls)
        BY ClaudeSessionAssumption
    <1>2. QED
        BY <1>1 DEF Child0, ChildType, Phases, Reading

\* The state of a child that is spawned, of one that is gone, and of one that has taken
\* a command.
LEMMA SpawnedFacts ==
    ASSUME NEW i \in 0..MaxLogs
    PROVE  /\ Spawned(i) \in ChildType /\ Spawned(i).phase = "serving" /\ Spawned(i).log = i
           /\ Spawned(i).queue = <<>> /\ Spawned(i).reaped = FALSE /\ Spawned(i).turn = 0
           /\ Spawned(i).setup = 0 /\ Spawned(i).waiters = {} /\ Spawned(i).withdrawn = {}
    <1>1. QED
        BY Child0Facts DEF Spawned, ChildType, Phases, Reading

\* The state of a child whose task is over.
LEMMA EndedFacts ==
    ASSUME SupType, NEW g \in Children
    PROVE  /\ Ended(g) \in ChildType /\ Ended(g).phase = "ended" /\ Ended(g).log = sup[g].log
           /\ Ended(g).queue = <<>> /\ Ended(g).reaped = FALSE /\ Ended(g).turn = 0
           /\ Ended(g).setup = 0 /\ Ended(g).waiters = {} /\ Ended(g).withdrawn = {}
    <1>1. sup[g].log \in 0..MaxLogs
        BY DEF SupType, ChildType
    <1>2. QED
        BY <1>1, Child0Facts DEF Ended, ChildType, Phases, Reading

\* The state of a child that has taken a command.
LEMMA PoppedFacts ==
    ASSUME SupType, QueueFits, NEW g \in Children, sup[g].queue # <<>>
    PROVE  /\ Popped(g) \in ChildType /\ Len(Popped(g).queue) <= QueueLimit
           /\ Popped(g).phase = sup[g].phase /\ Popped(g).log = sup[g].log
           /\ Popped(g).reaped = sup[g].reaped /\ Popped(g).turn = sup[g].turn
           /\ Popped(g).setup = sup[g].setup /\ Popped(g).waiters = sup[g].waiters
           /\ Popped(g).withdrawn = sup[g].withdrawn /\ Popped(g).queue = Tail(sup[g].queue)
           /\ NextCommand(g) \in Calls /\ NextCommand(g) = Head(sup[g].queue)
    <1>1. sup[g] \in ChildType /\ sup[g].queue \in Seq(Calls) /\ Len(sup[g].queue) <= QueueLimit
        BY DEF SupType, ChildType, QueueFits
    <1>2. Tail(sup[g].queue) \in Seq(Calls) /\ Len(Tail(sup[g].queue)) <= Len(sup[g].queue)
          /\ Head(sup[g].queue) \in Calls
        BY <1>1, InTail
    <1>3. Len(Tail(sup[g].queue)) <= QueueLimit
        BY <1>1, <1>2, ClaudeSessionAssumption
    <1>4. QED
        BY <1>1, <1>2, <1>3 DEF Popped, ChildType, NextCommand

\* What replying does to the calls.
LEMMA RepliedFacts ==
    ASSUME call \in [Calls -> CallType], NEW S
    PROVE  /\ Replied(S) \in [Calls -> CallType]
           /\ Done \in CallType /\ Done.ask = {} /\ Done.op = "none" /\ Done.pc = "done"
           /\ \A k \in Calls : \/ Replied(S)[k] = call[k]
                               \/ /\ Replied(S)[k] = Done /\ k \in S
                                  /\ call[k].pc \in {"waiting", "done"}
           /\ \A k \in S \cap Calls : call[k].pc \in {"waiting", "done"} => Replied(S)[k] = Done
    <1>1. Done \in CallType /\ Done.ask = {} /\ Done.op = "none" /\ Done.pc = "done"
        BY ClaudeSessionAssumption DEF Done, Idle0, CallType, Ops, Steps
    <1>2. QED
        BY <1>1 DEF Replied

\* The types are those of TypeOK.
LEMMA SessionTypeOK == SessionType => TypeOK
    BY DEF SessionType, TypeOK, EntryType, LogType, SupType, QueueFits, ChildType, CallType,
           AsksType, Phases

-----------------------------------------------------------------------------
(* Who serves the thread.                                                  *)

Running(g) == sup[g].phase \notin {"none", "ended"}

\* Children, logs and asks come into being in this order.
Registered ==
    /\ \A g \in Children : IF sup[g].phase = "none" THEN sup[g] = Child0
                           ELSE sup[g].log \in Logs /\ logs[sup[g].log].state # "none"
    /\ \A i \in Logs : logs[i].state = "none" => logs[i].turn = None
    /\ entry.log # None => logs[entry.log].state # "none"
    /\ \A a \in Asks : cli[a].child # None => sup[cli[a].child].phase # "none"

\* The child of the entry runs and writes to the log of the entry; no other
\* child that was not reaped does.
OneWriter ==
    /\ entry.child # None =>
         /\ entry.log # None /\ Running(entry.child)
         /\ sup[entry.child].log = entry.log /\ ~sup[entry.child].reaped
    /\ entry.log # None =>
         \A g \in Children :
            Running(g) /\ ~sup[g].reaped /\ sup[g].log = entry.log => g = entry.child
    /\ \A g \in Children : sup[g].reaped => sup[g].phase # "serving"

\* A call that stops a child has taken the entry of its log away.
Stopped ==
    \A k \in Calls : call[k].pc \in {"stopping", "joining"} =>
        /\ call[k].child \in Children
        /\ sup[call[k].child].phase # "none" /\ sup[call[k].child].log = call[k].log
        /\ entry.log # call[k].log

Structure == SessionType /\ Registered /\ OneWriter /\ Stopped

\* The fields of a child.
Child(s, phase, reaped, log, queue, setup, turn, waiters, withdrawn) ==
    /\ s.phase = phase /\ s.reaped = reaped /\ s.log = log /\ s.queue = queue
    /\ s.setup = setup /\ s.turn = turn /\ s.waiters = waiters /\ s.withdrawn = withdrawn

\* A step changes one child.
Others(g) ==
    SupType' /\ QueueFits' /\ \A h \in Children \ {g} : sup'[h] = sup[h]

\* The next state of the children when one of them changes.
LEMMA SupUpdate ==
    ASSUME SupType, QueueFits, NEW g \in Children, NEW s \in ChildType,
           Len(s.queue) <= QueueLimit, sup' = [sup EXCEPT ![g] = s]
    PROVE  Others(g) /\ sup'[g] = s
    BY DEF SupType, QueueFits, Others

\* No call and no turn, and the turn the CLI opens.
LEMMA Zeros == 0 \in 0..MaxCalls /\ 0 \in 0..(MaxCalls + 1)
        /\ MaxCalls + 1 \in 0..(MaxCalls + 1)
    BY ClaudeSessionAssumption

\* The constants and the types of one child.
LEMMA ChildFacts ==
    ASSUME SessionType, NEW g \in Children
    PROVE  /\ SupType /\ QueueFits /\ sup[g] \in ChildType /\ Len(sup[g].queue) <= QueueLimit
           /\ sup[g].queue \in Seq(Calls) /\ sup[g].log \in 0..MaxLogs
           /\ sup[g].setup \in 0..MaxCalls /\ sup[g].turn \in 0..(MaxCalls + 1)
           /\ sup[g].waiters \subseteq Calls /\ sup[g].withdrawn \subseteq Asks
           /\ sup[g].reaped \in BOOLEAN /\ sup[g].phase \in Phases
           /\ MaxCalls \in Nat \ {0} /\ QueueLimit \in Nat \ {0} /\ MaxLogs \in Nat \ {0}
           /\ MaxChildren \in Nat \ {0}
    BY ClaudeSessionAssumption DEF SessionType, SupType, QueueFits, ChildType

\* The CLI opens a turn of its own.
LEMMA OwnTurnSup ==
    ASSUME Structure, NEW g \in Children,
           OwnTurn(g)
    PROVE  Others(g)
           /\ Child(sup'[g], sup[g].phase, sup[g].reaped, sup[g].log, sup[g].queue,
                    sup[g].setup, Own, sup[g].waiters, sup[g].withdrawn)
           /\ sup[g].phase \in Reading
    <1>1. sup[g] \in ChildType /\ SupType /\ QueueFits /\ MaxCalls \in Nat \ {0}
        BY ChildFacts DEF Structure
    <1> DEFINE s == [sup[g] EXCEPT !.turn = Own]
    <1>2. sup' = [sup EXCEPT ![g] = s] /\ sup[g].phase \in Reading
        BY DEF OwnTurn, Hears
    <1>3. s \in ChildType
        BY <1>1, Zeros DEF ChildType, Phases, Reading
    <1>4. Child(s, sup[g].phase, sup[g].reaped, sup[g].log, sup[g].queue, sup[g].setup, Own,
                sup[g].waiters, sup[g].withdrawn)
        BY <1>1 DEF ChildType, Child
    <1>5. Len(s.queue) <= QueueLimit
        BY <1>1, <1>4 DEF Child, QueueFits
    <1> HIDE DEF s
    <1>6. QED
        BY <1>1, <1>2, <1>3, <1>4, <1>5, SupUpdate

\* A turn ends.
LEMMA TurnResultSup ==
    ASSUME Structure, NEW g \in Children,
           TurnResult(g)
    PROVE  Others(g)
           /\ Child(sup'[g],
                    (IF sup[g].phase = "interrupting" THEN "draining" ELSE sup[g].phase),
                    sup[g].reaped, sup[g].log, sup[g].queue, sup[g].setup, 0, sup[g].waiters,
                    sup[g].withdrawn)
           /\ sup[g].phase \in Reading
    <1>1. sup[g] \in ChildType /\ SupType /\ QueueFits /\ MaxCalls \in Nat \ {0}
        BY ChildFacts DEF Structure
    <1> DEFINE s == [sup[g] EXCEPT !.turn = None,
            !.phase = IF @ = "interrupting" THEN "draining" ELSE @]
    <1>2. sup' = [sup EXCEPT ![g] = s] /\ sup[g].phase \in Reading
        BY DEF TurnResult, Hears
    <1>3. s \in ChildType
        BY <1>1, Zeros DEF ChildType, Phases, Reading
    <1>4. Child(s, (IF sup[g].phase = "interrupting" THEN "draining" ELSE sup[g].phase),
                sup[g].reaped, sup[g].log, sup[g].queue, sup[g].setup, 0, sup[g].waiters,
                sup[g].withdrawn)
        BY <1>1 DEF ChildType, Child
    <1>5. Len(s.queue) <= QueueLimit
        BY <1>1, <1>4 DEF Child, QueueFits
    <1> HIDE DEF s
    <1>6. QED
        BY <1>1, <1>2, <1>3, <1>4, <1>5, SupUpdate

\* A waiter is resolved.
LEMMA ControlResponseSup ==
    ASSUME Structure, NEW g \in Children, NEW k \in Calls,
           ControlResponse(g, k)
    PROVE  Others(g)
           /\ Child(sup'[g], sup[g].phase, sup[g].reaped, sup[g].log, sup[g].queue,
                    sup[g].setup, sup[g].turn, sup[g].waiters \ {k}, sup[g].withdrawn)
           /\ sup[g].phase \in Reading
    <1>1. sup[g] \in ChildType /\ SupType /\ QueueFits /\ MaxCalls \in Nat \ {0}
        BY ChildFacts DEF Structure
    <1> DEFINE s == [sup[g] EXCEPT !.waiters = @ \ {k}]
    <1>2. sup' = [sup EXCEPT ![g] = s] /\ sup[g].phase \in Reading
        BY DEF ControlResponse, Hears
    <1>3. s \in ChildType
        BY <1>1, Zeros DEF ChildType, Phases, Reading
    <1>4. Child(s, sup[g].phase, sup[g].reaped, sup[g].log, sup[g].queue, sup[g].setup,
                sup[g].turn, sup[g].waiters \ {k}, sup[g].withdrawn)
        BY <1>1 DEF ChildType, Child
    <1>5. Len(s.queue) <= QueueLimit
        BY <1>1, <1>4 DEF Child, QueueFits
    <1> HIDE DEF s
    <1>6. QED
        BY <1>1, <1>2, <1>3, <1>4, <1>5, SupUpdate

\* A setup fails.
LEMMA FailTurnSetupSup ==
    ASSUME Structure, NEW g \in Children,
           FailTurnSetup(g)
    PROVE  Others(g)
           /\ Child(sup'[g], sup[g].phase, sup[g].reaped, sup[g].log, sup[g].queue, 0,
                    sup[g].turn, sup[g].waiters, sup[g].withdrawn)
           /\ sup[g].phase = "serving"
    <1>1. sup[g] \in ChildType /\ SupType /\ QueueFits /\ MaxCalls \in Nat \ {0}
        BY ChildFacts DEF Structure
    <1> DEFINE s == [sup[g] EXCEPT !.setup = None]
    <1>2. sup' = [sup EXCEPT ![g] = s] /\ sup[g].phase = "serving"
        BY DEF FailTurnSetup
    <1>3. s \in ChildType
        BY <1>1, Zeros DEF ChildType, Phases, Reading
    <1>4. Child(s, sup[g].phase, sup[g].reaped, sup[g].log, sup[g].queue, 0, sup[g].turn,
                sup[g].waiters, sup[g].withdrawn)
        BY <1>1 DEF ChildType, Child
    <1>5. Len(s.queue) <= QueueLimit
        BY <1>1, <1>4 DEF Child, QueueFits
    <1> HIDE DEF s
    <1>6. QED
        BY <1>1, <1>2, <1>3, <1>4, <1>5, SupUpdate

\* A stop goes on.
LEMMA StopDeadlineSup ==
    ASSUME Structure, NEW g \in Children,
           StopDeadline(g)
    PROVE  Others(g)
           /\ Child(sup'[g], (IF sup[g].phase = "interrupting" THEN "draining" ELSE "exiting"),
                    sup[g].reaped, sup[g].log, sup[g].queue, sup[g].setup, sup[g].turn,
                    sup[g].waiters, sup[g].withdrawn)
           /\ sup[g].phase \in {"interrupting", "draining"}
    <1>1. sup[g] \in ChildType /\ SupType /\ QueueFits /\ MaxCalls \in Nat \ {0}
        BY ChildFacts DEF Structure
    <1> DEFINE s == [sup[g] EXCEPT !.phase = IF @ = "interrupting" THEN "draining" ELSE "exiting"]
    <1>2. sup' = [sup EXCEPT ![g] = s] /\ sup[g].phase \in {"interrupting", "draining"}
        BY DEF StopDeadline
    <1>3. s \in ChildType
        BY <1>1, Zeros DEF ChildType, Phases, Reading
    <1>4. Child(s, (IF sup[g].phase = "interrupting" THEN "draining" ELSE "exiting"),
                sup[g].reaped, sup[g].log, sup[g].queue, sup[g].setup, sup[g].turn,
                sup[g].waiters, sup[g].withdrawn)
        BY <1>1 DEF ChildType, Child
    <1>5. Len(s.queue) <= QueueLimit
        BY <1>1, <1>4 DEF Child, QueueFits
    <1> HIDE DEF s
    <1>6. QED
        BY <1>1, <1>2, <1>3, <1>4, <1>5, SupUpdate

\* A shutdown reaches a child.
LEMMA ShutdownSignalSup ==
    ASSUME Structure, NEW g \in Children,
           ShutdownSignal(g)
    PROVE  Others(g)
           /\ Child(sup'[g], (IF sup[g].turn # None THEN "interrupting" ELSE "draining"),
                    sup[g].reaped, sup[g].log, sup[g].queue, 0, sup[g].turn, sup[g].waiters,
                    sup[g].withdrawn)
           /\ sup[g].phase = "serving"
    <1>1. sup[g] \in ChildType /\ SupType /\ QueueFits /\ MaxCalls \in Nat \ {0}
        BY ChildFacts DEF Structure
    <1> DEFINE s == [sup[g] EXCEPT !.setup = None,
            !.phase = IF sup[g].turn # None THEN "interrupting" ELSE "draining"]
    <1>2. sup' = [sup EXCEPT ![g] = s] /\ sup[g].phase = "serving"
        BY DEF ShutdownSignal, Stopping
    <1>3. s \in ChildType
        BY <1>1, Zeros DEF ChildType, Phases, Reading
    <1>4. Child(s, (IF sup[g].turn # None THEN "interrupting" ELSE "draining"), sup[g].reaped,
                sup[g].log, sup[g].queue, 0, sup[g].turn, sup[g].waiters, sup[g].withdrawn)
        BY <1>1 DEF ChildType, Child
    <1>5. Len(s.queue) <= QueueLimit
        BY <1>1, <1>4 DEF Child, QueueFits
    <1> HIDE DEF s
    <1>6. QED
        BY <1>1, <1>2, <1>3, <1>4, <1>5, SupUpdate

\* An idle child drains.
LEMMA ReapSup ==
    ASSUME Structure, NEW g \in Children,
           Reap(g)
    PROVE  Others(g)
           /\ Child(sup'[g], "draining", HoldsEntry(g), sup[g].log, sup[g].queue, 0,
                    sup[g].turn, sup[g].waiters, sup[g].withdrawn)
           /\ sup[g].phase = "serving" /\ sup[g].turn = 0 /\ sup[g].setup = 0
    <1>1. sup[g] \in ChildType /\ SupType /\ QueueFits /\ MaxCalls \in Nat \ {0}
        BY ChildFacts DEF Structure
    <1> DEFINE r == HoldsEntry(g)
               d == [sup[g] EXCEPT !.setup = None, !.phase = "draining"]
               s == [d EXCEPT !.reaped = r]
    <1>2. sup[g].phase = "serving" /\ sup[g].turn = 0 /\ sup[g].setup = 0 /\ r \in BOOLEAN
        BY DEF Reap, IsIdle, HoldsEntry
    <1>3. d = Stopping(sup[g])
        BY <1>2 DEF Stopping
    <1>4. sup' = [sup EXCEPT ![g] = s]
        BY <1>3 DEF Reap
    <1>5. d \in ChildType /\ d.phase = "draining" /\ d.reaped = sup[g].reaped
            /\ d.log = sup[g].log
          /\ d.queue = sup[g].queue /\ d.setup = 0 /\ d.turn = sup[g].turn
          /\ d.waiters = sup[g].waiters /\ d.withdrawn = sup[g].withdrawn
        BY <1>1, Zeros DEF ChildType, Phases, Reading
    <1> HIDE DEF d, r
    <1>6. s \in ChildType /\ Child(s, "draining", r, sup[g].log, sup[g].queue, 0,
                                   sup[g].turn, sup[g].waiters, sup[g].withdrawn)
        BY <1>2, <1>5 DEF ChildType, Child
    <1>7. Len(s.queue) <= QueueLimit
        BY <1>1, <1>6 DEF Child, QueueFits
    <1> HIDE DEF s
    <1>8. Others(g) /\ sup'[g] = s
        BY <1>1, <1>4, <1>6, <1>7, SupUpdate
    <1>9. QED
        BY <1>2, <1>6, <1>8 DEF r

\* A child exits.
LEMMA OnExitSup ==
    ASSUME Structure, NEW g \in Children,
           OnExit(g)
    PROVE  Others(g)
           /\ Child(sup'[g], "closing", sup[g].reaped, sup[g].log, sup[g].queue, 0, 0, {},
                    sup[g].withdrawn)
           /\ sup[g].phase = "exiting"
    <1>1. sup[g] \in ChildType /\ SupType /\ QueueFits /\ MaxCalls \in Nat \ {0}
        BY ChildFacts DEF Structure
    <1> DEFINE s == [sup[g] EXCEPT !.phase = "closing", !.turn = None, !.setup = None,
            !.waiters = {}]
    <1>2. sup' = [sup EXCEPT ![g] = s] /\ sup[g].phase = "exiting"
        BY DEF OnExit
    <1>3. s \in ChildType
        BY <1>1, Zeros DEF ChildType, Phases, Reading
    <1>4. Child(s, "closing", sup[g].reaped, sup[g].log, sup[g].queue, 0, 0, {},
                sup[g].withdrawn)
        BY <1>1 DEF ChildType, Child
    <1>5. Len(s.queue) <= QueueLimit
        BY <1>1, <1>4 DEF Child, QueueFits
    <1> HIDE DEF s
    <1>6. QED
        BY <1>1, <1>2, <1>3, <1>4, <1>5, SupUpdate

\* A fresh child, on the log of the entry.
LEMMA RegisterOpenedSup ==
    ASSUME Structure, NEW k \in Calls, RegisterOpened(k), ~UNCHANGED <<entry, logs, sup>>
    PROVE  /\ Others(NextChild) /\ NextChild \in Children /\ sup[NextChild] = Child0
           /\ Child(sup'[NextChild], "serving", FALSE, NextLog, <<>>, 0, 0, {}, {})
           /\ entry' = [log |-> NextLog, child |-> NextChild] /\ NextLog \in Logs
           /\ entry.log = None /\ logs[NextLog].state = "none"
           /\ logs' = [logs EXCEPT ![NextLog].state = "open"]
    <1>1. /\ Unused(sup) # {} /\ \E i \in Logs : logs[i].state = "none"
          /\ sup' = [sup EXCEPT ![NextChild] = Spawned(NextLog)]
          /\ entry' = [log |-> NextLog, child |-> NextChild] /\ entry.log = None
          /\ logs' = [logs EXCEPT ![NextLog].state = "open"]
        BY DEF RegisterOpened
    <1>2. NextChild \in Children /\ sup[NextChild] = Child0 /\ NextLog \in Logs
          /\ logs[NextLog].state = "none"
        BY <1>1, NextChildUnused, NextLogUnused DEF Structure, SessionType
    <1>3. NextLog \in 0..MaxLogs
        BY <1>2, ClaudeSessionAssumption
    <1>4. Spawned(NextLog) \in ChildType /\ Spawned(NextLog).queue = <<>>
          /\ Child(Spawned(NextLog), "serving", FALSE, NextLog, <<>>, 0, 0, {}, {})
        BY <1>3, SpawnedFacts DEF Child
    <1>5. Len(Spawned(NextLog).queue) <= QueueLimit
        BY <1>4, ClaudeSessionAssumption
    <1>6. QED
        BY <1>1, <1>2, <1>4, <1>5, SupUpdate DEF Structure, SessionType

\* A fresh child, on the log of the entry.
LEMMA RespawnSup ==
    ASSUME Structure, NEW k \in Calls, Respawn(k), ~UNCHANGED <<entry, sup>>
    PROVE  /\ Others(NextChild) /\ NextChild \in Children /\ sup[NextChild] = Child0
           /\ Child(sup'[NextChild], "serving", FALSE, entry.log, <<>>, 0, 0, {}, {})
           /\ entry' = [log |-> entry.log, child |-> NextChild] /\ entry.log \in Logs
           /\ entry.child = None /\ logs' = logs
    <1>1. /\ Unused(sup) # {} /\ sup' = [sup EXCEPT ![NextChild] = Spawned(entry.log)]
          /\ entry' = [entry EXCEPT !.child = NextChild] /\ entry.log # None
          /\ entry.child = None /\ logs' = logs
        BY DEF Respawn, CanRespawn
    <1>2. NextChild \in Children /\ sup[NextChild] = Child0
        BY <1>1, NextChildUnused DEF Structure, SessionType
    <1>3. entry.log \in Logs /\ entry.log \in 0..MaxLogs
          /\ entry' = [log |-> entry.log, child |-> NextChild]
        BY <1>1, ClaudeSessionAssumption DEF Structure, SessionType, EntryType
    <1>4. Spawned(entry.log) \in ChildType /\ Spawned(entry.log).queue = <<>>
          /\ Child(Spawned(entry.log), "serving", FALSE, entry.log, <<>>, 0, 0, {}, {})
        BY <1>3, SpawnedFacts DEF Child
    <1>5. Len(Spawned(entry.log).queue) <= QueueLimit
        BY <1>4, ClaudeSessionAssumption
    <1>6. QED
        BY <1>1, <1>2, <1>3, <1>4, <1>5, SupUpdate DEF Structure, SessionType

\* A child whose task is over.
LEMMA StopTimeoutSup ==
    ASSUME Structure, NEW k \in Calls, StopTimeout(k)
    PROVE  /\ Others(call[k].child)
           /\ Child(sup'[call[k].child], "ended", FALSE, sup[call[k].child].log, <<>>, 0, 0, {},
                    {})
           /\ call[k].child \in Children /\ sup[call[k].child].phase \notin {"none", "ended"}
    <1> DEFINE g == call[k].child
    <1>1. g \in Children /\ sup[g].phase \notin {"none", "ended"}
            /\ sup' = [sup EXCEPT ![g] = Ended(g)]
        BY DEF StopTimeout, Structure, Stopped
    <1> HIDE DEF g
    <1>2. Ended(g) \in ChildType
          /\ Child(Ended(g), "ended", FALSE, sup[g].log, <<>>, 0, 0, {}, {})
        BY <1>1, EndedFacts DEF Structure, SessionType, Child
    <1>3. Len(Ended(g).queue) <= QueueLimit
        BY <1>2, ClaudeSessionAssumption DEF Child
    <1>4. Others(g) /\ sup'[g] = Ended(g)
        BY <1>1, <1>2, <1>3, SupUpdate DEF Structure, SessionType
    <1>5. QED
        BY <1>1, <1>2, <1>4 DEF g

\* A child whose task is over.
LEMMA UnregisterSup ==
    ASSUME Structure, NEW c \in Children, Unregister(c)
    PROVE  /\ Others(c) /\ Child(sup'[c], "ended", FALSE, sup[c].log, <<>>, 0, 0, {}, {})
           /\ c \in Children /\ sup[c].phase \notin {"none", "ended"}
    <1> DEFINE g == c
    <1>1. g \in Children /\ sup[g].phase \notin {"none", "ended"}
            /\ sup' = [sup EXCEPT ![g] = Ended(g)]
        BY DEF Unregister, Structure, Stopped
    <1> HIDE DEF g
    <1>2. Ended(g) \in ChildType
          /\ Child(Ended(g), "ended", FALSE, sup[g].log, <<>>, 0, 0, {}, {})
        BY <1>1, EndedFacts DEF Structure, SessionType, Child
    <1>3. Len(Ended(g).queue) <= QueueLimit
        BY <1>2, ClaudeSessionAssumption DEF Child
    <1>4. Others(g) /\ sup'[g] = Ended(g)
        BY <1>1, <1>2, <1>3, SupUpdate DEF Structure, SessionType
    <1>5. QED
        BY <1>1, <1>2, <1>4 DEF g

\* A command is appended to the queue of a child.
LEMMA QueueAppend ==
    ASSUME Structure, NEW g \in Children, NEW k \in Calls, Len(sup[g].queue) < QueueLimit,
           sup' = [sup EXCEPT ![g].queue = Append(@, k)]
    PROVE  /\ Others(g)
           /\ Child(sup'[g], sup[g].phase, sup[g].reaped, sup[g].log, Append(sup[g].queue, k),
                    sup[g].setup, sup[g].turn, sup[g].waiters, sup[g].withdrawn)
    <1>1. sup[g] \in ChildType /\ SupType /\ QueueFits /\ sup[g].queue \in Seq(Calls)
        BY ChildFacts DEF Structure
    <1> DEFINE q == Append(sup[g].queue, k)
               s == [sup[g] EXCEPT !.queue = q]
    <1>2. sup' = [sup EXCEPT ![g] = s]
        OBVIOUS
    <1>3. q \in Seq(Calls) /\ Len(q) <= QueueLimit
        BY <1>1, InAppend, ClaudeSessionAssumption
    <1> HIDE DEF q
    <1>4. s \in ChildType /\ s.queue = q
          /\ Child(s, sup[g].phase, sup[g].reaped, sup[g].log, q, sup[g].setup, sup[g].turn,
                   sup[g].waiters, sup[g].withdrawn)
        BY <1>1, <1>3 DEF ChildType, Child
    <1> HIDE DEF s
    <1>5. Others(g) /\ sup'[g] = s
        BY <1>1, <1>2, <1>3, <1>4, SupUpdate
    <1>6. QED
        BY <1>4, <1>5 DEF q

\* enqueue puts a command in the queue of the child of the entry.
LEMMA EnqueueSup ==
    ASSUME Structure, NEW k \in Calls, Enqueue(k), sup' # sup
    PROVE  /\ entry.child \in Children /\ Others(entry.child)
           /\ Child(sup'[entry.child], sup[entry.child].phase, sup[entry.child].reaped,
                    sup[entry.child].log, Append(sup[entry.child].queue, k),
                    sup[entry.child].setup, sup[entry.child].turn,
                    sup[entry.child].waiters, sup[entry.child].withdrawn)
    <1>1. entry.child \in Children /\ Len(sup[entry.child].queue) < QueueLimit
          /\ sup' = [sup EXCEPT ![entry.child].queue = Append(@, k)]
      <2>1. entry.child \in Children
        BY ClaudeSessionAssumption DEF Enqueue, Structure, SessionType, EntryType
      <2>2. sup[entry.child].queue \in Seq(Calls) /\ QueueLimit \in Nat
        BY <2>1, ChildFacts DEF Structure
      <2>3. QED
        BY <2>1, <2>2 DEF Enqueue
    <1>2. QED
        BY <1>1, QueueAppend

\* stop_handle puts a stop in the queue of the child it stops.
LEMMA SendStopSup ==
    ASSUME Structure, NEW k \in Calls, SendStop(k), sup' # sup
    PROVE  /\ call[k].child \in Children /\ Others(call[k].child)
           /\ Child(sup'[call[k].child], sup[call[k].child].phase, sup[call[k].child].reaped,
                    sup[call[k].child].log, Append(sup[call[k].child].queue, k),
                    sup[call[k].child].setup, sup[call[k].child].turn,
                    sup[call[k].child].waiters, sup[call[k].child].withdrawn)
    <1>1. call[k].child \in Children /\ Len(sup[call[k].child].queue) < QueueLimit
          /\ sup' = [sup EXCEPT ![call[k].child].queue = Append(@, k)]
        BY DEF SendStop, Structure, Stopped
    <1>2. QED
        BY <1>1, QueueAppend

\* A command is refused.
LEMMA RefuseSup ==
    ASSUME Structure, NEW g \in Children,
           Refuse(g)
    PROVE  /\ Others(g)
           /\ Child(sup'[g], sup[g].phase, sup[g].reaped, sup[g].log, Tail(sup[g].queue),
                    sup[g].setup, sup[g].turn, sup[g].waiters, sup[g].withdrawn)
           /\ sup[g].queue # <<>> /\ NextCommand(g) = Head(sup[g].queue)
                   /\ NextCommand(g) \in Calls
    <1>1. sup[g] \in ChildType /\ SupType /\ QueueFits /\ MaxCalls \in Nat \ {0}
        BY ChildFacts DEF Structure
    <1> DEFINE s == Popped(g)
    <1>2. sup' = [sup EXCEPT ![g] = s] /\ sup[g].queue # <<>>
        BY DEF Refuse
    <1>3. /\ Popped(g) \in ChildType /\ Len(Popped(g).queue) <= QueueLimit
          /\ Popped(g).phase = sup[g].phase /\ Popped(g).log = sup[g].log
          /\ Popped(g).reaped = sup[g].reaped /\ Popped(g).turn = sup[g].turn
          /\ Popped(g).setup = sup[g].setup /\ Popped(g).waiters = sup[g].waiters
          /\ Popped(g).withdrawn = sup[g].withdrawn /\ Popped(g).queue = Tail(sup[g].queue)
          /\ NextCommand(g) \in Calls /\ NextCommand(g) = Head(sup[g].queue)
        BY <1>1, <1>2, PoppedFacts
    <1>4. s \in ChildType
      <2>1. /\ \A j \in Calls : j \in 0..MaxCalls /\ j \in 0..(MaxCalls + 1)
            /\ \A x \in Outcomes : After(x, sup[g].phase) \in Phases
        BY <1>1 DEF ChildType, Phases, Outcomes, After
      <2>2. QED
        BY <1>1, <1>3, <2>1, Zeros DEF ChildType, Phases, Reading
    <1>5. Child(s, sup[g].phase, sup[g].reaped, sup[g].log, Tail(sup[g].queue), sup[g].setup,
                sup[g].turn, sup[g].waiters, sup[g].withdrawn)
        BY <1>1, <1>3 DEF ChildType, Child
    <1>6. Len(s.queue) <= QueueLimit
        BY <1>1, <1>3, <1>5 DEF Child, QueueFits
    <1> HIDE DEF s
    <1>7. QED
        BY <1>1, <1>2, <1>3, <1>4, <1>5, <1>6, SupUpdate

\* A stop begins.
LEMMA OnStopSup ==
    ASSUME Structure, NEW g \in Children,
           OnStop(g), sup[g].phase = "serving"
    PROVE  /\ Others(g)
           /\ Child(sup'[g], (IF sup[g].turn # None THEN "interrupting" ELSE "draining"),
                    sup[g].reaped, sup[g].log, Tail(sup[g].queue), 0, sup[g].turn,
                    sup[g].waiters, sup[g].withdrawn)
           /\ sup[g].queue # <<>> /\ NextCommand(g) = Head(sup[g].queue)
                   /\ NextCommand(g) \in Calls
    <1>1. sup[g] \in ChildType /\ SupType /\ QueueFits /\ MaxCalls \in Nat \ {0}
        BY ChildFacts DEF Structure
    <1> DEFINE s == [Popped(g) EXCEPT !.setup = None,
            !.phase = IF Popped(g).turn # None THEN "interrupting" ELSE "draining"]
    <1>2. sup' = [sup EXCEPT ![g] = s] /\ sup[g].queue # <<>>
        BY DEF OnStop, Stopping
    <1>3. /\ Popped(g) \in ChildType /\ Len(Popped(g).queue) <= QueueLimit
          /\ Popped(g).phase = sup[g].phase /\ Popped(g).log = sup[g].log
          /\ Popped(g).reaped = sup[g].reaped /\ Popped(g).turn = sup[g].turn
          /\ Popped(g).setup = sup[g].setup /\ Popped(g).waiters = sup[g].waiters
          /\ Popped(g).withdrawn = sup[g].withdrawn /\ Popped(g).queue = Tail(sup[g].queue)
          /\ NextCommand(g) \in Calls /\ NextCommand(g) = Head(sup[g].queue)
        BY <1>1, <1>2, PoppedFacts
    <1>4. s \in ChildType
      <2>1. /\ \A j \in Calls : j \in 0..MaxCalls /\ j \in 0..(MaxCalls + 1)
            /\ \A x \in Outcomes : After(x, sup[g].phase) \in Phases
        BY <1>1 DEF ChildType, Phases, Outcomes, After
      <2>2. QED
        BY <1>1, <1>3, <2>1, Zeros DEF ChildType, Phases, Reading
    <1>5. Child(s, (IF sup[g].turn # None THEN "interrupting" ELSE "draining"), sup[g].reaped,
                sup[g].log, Tail(sup[g].queue), 0, sup[g].turn, sup[g].waiters,
                sup[g].withdrawn)
        BY <1>1, <1>3 DEF ChildType, Child
    <1>6. Len(s.queue) <= QueueLimit
        BY <1>1, <1>3, <1>5 DEF Child, QueueFits
    <1> HIDE DEF s
    <1>7. QED
        BY <1>1, <1>2, <1>3, <1>4, <1>5, <1>6, SupUpdate

\* A stop joins the one that runs.
LEMMA OnStopAgainSup ==
    ASSUME Structure, NEW g \in Children,
           OnStop(g), sup[g].phase # "serving"
    PROVE  /\ Others(g)
           /\ Child(sup'[g], sup[g].phase, sup[g].reaped, sup[g].log, Tail(sup[g].queue),
                    sup[g].setup, sup[g].turn, sup[g].waiters, sup[g].withdrawn)
           /\ sup[g].queue # <<>> /\ NextCommand(g) = Head(sup[g].queue)
                   /\ NextCommand(g) \in Calls
    <1>1. sup[g] \in ChildType /\ SupType /\ QueueFits /\ MaxCalls \in Nat \ {0}
        BY ChildFacts DEF Structure
    <1> DEFINE s == Popped(g)
    <1>2. sup' = [sup EXCEPT ![g] = s] /\ sup[g].queue # <<>>
        BY DEF OnStop
    <1>3. /\ Popped(g) \in ChildType /\ Len(Popped(g).queue) <= QueueLimit
          /\ Popped(g).phase = sup[g].phase /\ Popped(g).log = sup[g].log
          /\ Popped(g).reaped = sup[g].reaped /\ Popped(g).turn = sup[g].turn
          /\ Popped(g).setup = sup[g].setup /\ Popped(g).waiters = sup[g].waiters
          /\ Popped(g).withdrawn = sup[g].withdrawn /\ Popped(g).queue = Tail(sup[g].queue)
          /\ NextCommand(g) \in Calls /\ NextCommand(g) = Head(sup[g].queue)
        BY <1>1, <1>2, PoppedFacts
    <1>4. s \in ChildType
      <2>1. /\ \A j \in Calls : j \in 0..MaxCalls /\ j \in 0..(MaxCalls + 1)
            /\ \A x \in Outcomes : After(x, sup[g].phase) \in Phases
        BY <1>1 DEF ChildType, Phases, Outcomes, After
      <2>2. QED
        BY <1>1, <1>3, <2>1, Zeros DEF ChildType, Phases, Reading
    <1>5. Child(s, sup[g].phase, sup[g].reaped, sup[g].log, Tail(sup[g].queue), sup[g].setup,
                sup[g].turn, sup[g].waiters, sup[g].withdrawn)
        BY <1>1, <1>3 DEF ChildType, Child
    <1>6. Len(s.queue) <= QueueLimit
        BY <1>1, <1>3, <1>5 DEF Child, QueueFits
    <1> HIDE DEF s
    <1>7. QED
        BY <1>1, <1>2, <1>3, <1>4, <1>5, <1>6, SupUpdate

\* A turn is not set up.
LEMMA DropTurnSup ==
    ASSUME Structure, NEW g \in Children,
           BeginTurnSetup(g), ~Listening(NextCommand(g)) \/ Busy(g)
    PROVE  /\ Others(g)
           /\ Child(sup'[g], sup[g].phase, sup[g].reaped, sup[g].log, Tail(sup[g].queue),
                    sup[g].setup, sup[g].turn, sup[g].waiters, sup[g].withdrawn)
           /\ sup[g].queue # <<>> /\ NextCommand(g) = Head(sup[g].queue)
                   /\ NextCommand(g) \in Calls
    <1>1. sup[g] \in ChildType /\ SupType /\ QueueFits /\ MaxCalls \in Nat \ {0}
        BY ChildFacts DEF Structure
    <1> DEFINE s == Popped(g)
    <1>2. sup' = [sup EXCEPT ![g] = s] /\ sup[g].queue # <<>>
        BY DEF BeginTurnSetup, Serves
    <1>3. /\ Popped(g) \in ChildType /\ Len(Popped(g).queue) <= QueueLimit
          /\ Popped(g).phase = sup[g].phase /\ Popped(g).log = sup[g].log
          /\ Popped(g).reaped = sup[g].reaped /\ Popped(g).turn = sup[g].turn
          /\ Popped(g).setup = sup[g].setup /\ Popped(g).waiters = sup[g].waiters
          /\ Popped(g).withdrawn = sup[g].withdrawn /\ Popped(g).queue = Tail(sup[g].queue)
          /\ NextCommand(g) \in Calls /\ NextCommand(g) = Head(sup[g].queue)
        BY <1>1, <1>2, PoppedFacts
    <1>4. s \in ChildType
      <2>1. /\ \A j \in Calls : j \in 0..MaxCalls /\ j \in 0..(MaxCalls + 1)
            /\ \A x \in Outcomes : After(x, sup[g].phase) \in Phases
        BY <1>1 DEF ChildType, Phases, Outcomes, After
      <2>2. QED
        BY <1>1, <1>3, <2>1, Zeros DEF ChildType, Phases, Reading
    <1>5. Child(s, sup[g].phase, sup[g].reaped, sup[g].log, Tail(sup[g].queue), sup[g].setup,
                sup[g].turn, sup[g].waiters, sup[g].withdrawn)
        BY <1>1, <1>3 DEF ChildType, Child
    <1>6. Len(s.queue) <= QueueLimit
        BY <1>1, <1>3, <1>5 DEF Child, QueueFits
    <1> HIDE DEF s
    <1>7. QED
        BY <1>1, <1>2, <1>3, <1>4, <1>5, <1>6, SupUpdate

\* A turn is set up.
LEMMA SetupSup ==
    ASSUME Structure, NEW g \in Children,
           BeginTurnSetup(g), ~(~Listening(NextCommand(g)) \/ Busy(g))
    PROVE  /\ Others(g)
           /\ Child(sup'[g], sup[g].phase, sup[g].reaped, sup[g].log, Tail(sup[g].queue),
                    NextCommand(g), sup[g].turn, sup[g].waiters, sup[g].withdrawn)
           /\ sup[g].queue # <<>> /\ NextCommand(g) = Head(sup[g].queue)
                   /\ NextCommand(g) \in Calls
    <1>1. sup[g] \in ChildType /\ SupType /\ QueueFits /\ MaxCalls \in Nat \ {0}
        BY ChildFacts DEF Structure
    <1> DEFINE s == [Popped(g) EXCEPT !.setup = NextCommand(g)]
    <1>2. sup' = [sup EXCEPT ![g] = s] /\ sup[g].queue # <<>>
        BY DEF BeginTurnSetup, Serves
    <1>3. /\ Popped(g) \in ChildType /\ Len(Popped(g).queue) <= QueueLimit
          /\ Popped(g).phase = sup[g].phase /\ Popped(g).log = sup[g].log
          /\ Popped(g).reaped = sup[g].reaped /\ Popped(g).turn = sup[g].turn
          /\ Popped(g).setup = sup[g].setup /\ Popped(g).waiters = sup[g].waiters
          /\ Popped(g).withdrawn = sup[g].withdrawn /\ Popped(g).queue = Tail(sup[g].queue)
          /\ NextCommand(g) \in Calls /\ NextCommand(g) = Head(sup[g].queue)
        BY <1>1, <1>2, PoppedFacts
    <1>4. s \in ChildType
      <2>1. /\ \A j \in Calls : j \in 0..MaxCalls /\ j \in 0..(MaxCalls + 1)
            /\ \A x \in Outcomes : After(x, sup[g].phase) \in Phases
        BY <1>1 DEF ChildType, Phases, Outcomes, After
      <2>2. QED
        BY <1>1, <1>3, <2>1, Zeros DEF ChildType, Phases, Reading
    <1>5. Child(s, sup[g].phase, sup[g].reaped, sup[g].log, Tail(sup[g].queue), NextCommand(g),
                sup[g].turn, sup[g].waiters, sup[g].withdrawn)
        BY <1>1, <1>3 DEF ChildType, Child
    <1>6. Len(s.queue) <= QueueLimit
        BY <1>1, <1>3, <1>5 DEF Child, QueueFits
    <1> HIDE DEF s
    <1>7. QED
        BY <1>1, <1>2, <1>3, <1>4, <1>5, <1>6, SupUpdate

\* A control request is written.
LEMMA SendControlSup ==
    ASSUME Structure, NEW g \in Children,
           SendControl(g)
    PROVE  /\ Others(g)
           /\ Child(sup'[g], sup[g].phase, sup[g].reaped, sup[g].log, Tail(sup[g].queue),
                    sup[g].setup, sup[g].turn, sup[g].waiters \cup {NextCommand(g)},
                    sup[g].withdrawn)
           /\ sup[g].queue # <<>> /\ NextCommand(g) = Head(sup[g].queue)
                   /\ NextCommand(g) \in Calls
    <1>1. sup[g] \in ChildType /\ SupType /\ QueueFits /\ MaxCalls \in Nat \ {0}
        BY ChildFacts DEF Structure
    <1> DEFINE s == [Popped(g) EXCEPT !.waiters = @ \cup {NextCommand(g)}]
    <1>2. sup' = [sup EXCEPT ![g] = s] /\ sup[g].queue # <<>>
        BY DEF SendControl, Serves
    <1>3. /\ Popped(g) \in ChildType /\ Len(Popped(g).queue) <= QueueLimit
          /\ Popped(g).phase = sup[g].phase /\ Popped(g).log = sup[g].log
          /\ Popped(g).reaped = sup[g].reaped /\ Popped(g).turn = sup[g].turn
          /\ Popped(g).setup = sup[g].setup /\ Popped(g).waiters = sup[g].waiters
          /\ Popped(g).withdrawn = sup[g].withdrawn /\ Popped(g).queue = Tail(sup[g].queue)
          /\ NextCommand(g) \in Calls /\ NextCommand(g) = Head(sup[g].queue)
        BY <1>1, <1>2, PoppedFacts
    <1>4. s \in ChildType
      <2>1. /\ \A j \in Calls : j \in 0..MaxCalls /\ j \in 0..(MaxCalls + 1)
            /\ \A x \in Outcomes : After(x, sup[g].phase) \in Phases
        BY <1>1 DEF ChildType, Phases, Outcomes, After
      <2>2. QED
        BY <1>1, <1>3, <2>1, Zeros DEF ChildType, Phases, Reading
    <1>5. Child(s, sup[g].phase, sup[g].reaped, sup[g].log, Tail(sup[g].queue), sup[g].setup,
                sup[g].turn, sup[g].waiters \cup {NextCommand(g)}, sup[g].withdrawn)
        BY <1>1, <1>3 DEF ChildType, Child
    <1>6. Len(s.queue) <= QueueLimit
        BY <1>1, <1>3, <1>5 DEF Child, QueueFits
    <1> HIDE DEF s
    <1>7. QED
        BY <1>1, <1>2, <1>3, <1>4, <1>5, <1>6, SupUpdate

\* A compaction is dropped.
LEMMA DropCompactSup ==
    ASSUME Structure, NEW g \in Children, NEW w \in Outcomes,
           Compact(g, w), ~Listening(NextCommand(g)) \/ Busy(g)
    PROVE  /\ Others(g)
           /\ Child(sup'[g], sup[g].phase, sup[g].reaped, sup[g].log, Tail(sup[g].queue),
                    sup[g].setup, sup[g].turn, sup[g].waiters, sup[g].withdrawn)
           /\ sup[g].queue # <<>> /\ NextCommand(g) = Head(sup[g].queue)
                   /\ NextCommand(g) \in Calls
    <1>1. sup[g] \in ChildType /\ SupType /\ QueueFits /\ MaxCalls \in Nat \ {0}
        BY ChildFacts DEF Structure
    <1> DEFINE s == Popped(g)
    <1>2. sup' = [sup EXCEPT ![g] = s] /\ sup[g].queue # <<>>
        BY DEF Compact, Serves
    <1>3. /\ Popped(g) \in ChildType /\ Len(Popped(g).queue) <= QueueLimit
          /\ Popped(g).phase = sup[g].phase /\ Popped(g).log = sup[g].log
          /\ Popped(g).reaped = sup[g].reaped /\ Popped(g).turn = sup[g].turn
          /\ Popped(g).setup = sup[g].setup /\ Popped(g).waiters = sup[g].waiters
          /\ Popped(g).withdrawn = sup[g].withdrawn /\ Popped(g).queue = Tail(sup[g].queue)
          /\ NextCommand(g) \in Calls /\ NextCommand(g) = Head(sup[g].queue)
        BY <1>1, <1>2, PoppedFacts
    <1>4. s \in ChildType
      <2>1. /\ \A j \in Calls : j \in 0..MaxCalls /\ j \in 0..(MaxCalls + 1)
            /\ \A x \in Outcomes : After(x, sup[g].phase) \in Phases
        BY <1>1 DEF ChildType, Phases, Outcomes, After
      <2>2. QED
        BY <1>1, <1>3, <2>1, Zeros DEF ChildType, Phases, Reading
    <1>5. Child(s, sup[g].phase, sup[g].reaped, sup[g].log, Tail(sup[g].queue), sup[g].setup,
                sup[g].turn, sup[g].waiters, sup[g].withdrawn)
        BY <1>1, <1>3 DEF ChildType, Child
    <1>6. Len(s.queue) <= QueueLimit
        BY <1>1, <1>3, <1>5 DEF Child, QueueFits
    <1> HIDE DEF s
    <1>7. QED
        BY <1>1, <1>2, <1>3, <1>4, <1>5, <1>6, SupUpdate

\* A compaction starts.
LEMMA CompactSup ==
    ASSUME Structure, NEW g \in Children, NEW w \in Outcomes,
           Compact(g, w), ~(~Listening(NextCommand(g)) \/ Busy(g))
    PROVE  /\ Others(g)
           /\ Child(sup'[g], After(w, sup[g].phase), sup[g].reaped, sup[g].log,
                    Tail(sup[g].queue), 0, NextCommand(g), sup[g].waiters, {})
           /\ sup[g].queue # <<>> /\ NextCommand(g) = Head(sup[g].queue)
                   /\ NextCommand(g) \in Calls
    <1>1. sup[g] \in ChildType /\ SupType /\ QueueFits /\ MaxCalls \in Nat \ {0}
        BY ChildFacts DEF Structure
    <1> DEFINE s == [Popped(g) EXCEPT !.withdrawn = {}, !.turn = NextCommand(g),
            !.setup = None, !.phase = After(w, @)]
    <1>2. sup' = [sup EXCEPT ![g] = s] /\ sup[g].queue # <<>>
        BY DEF Compact, Serves, Begun
    <1>3. /\ Popped(g) \in ChildType /\ Len(Popped(g).queue) <= QueueLimit
          /\ Popped(g).phase = sup[g].phase /\ Popped(g).log = sup[g].log
          /\ Popped(g).reaped = sup[g].reaped /\ Popped(g).turn = sup[g].turn
          /\ Popped(g).setup = sup[g].setup /\ Popped(g).waiters = sup[g].waiters
          /\ Popped(g).withdrawn = sup[g].withdrawn /\ Popped(g).queue = Tail(sup[g].queue)
          /\ NextCommand(g) \in Calls /\ NextCommand(g) = Head(sup[g].queue)
        BY <1>1, <1>2, PoppedFacts
    <1>4. s \in ChildType
      <2>1. /\ \A j \in Calls : j \in 0..MaxCalls /\ j \in 0..(MaxCalls + 1)
            /\ \A x \in Outcomes : After(x, sup[g].phase) \in Phases
        BY <1>1 DEF ChildType, Phases, Outcomes, After
      <2>2. QED
        BY <1>1, <1>3, <2>1, Zeros DEF ChildType, Phases, Reading
    <1>5. Child(s, After(w, sup[g].phase), sup[g].reaped, sup[g].log, Tail(sup[g].queue), 0,
                NextCommand(g), sup[g].waiters, {})
        BY <1>1, <1>3 DEF ChildType, Child
    <1>6. Len(s.queue) <= QueueLimit
        BY <1>1, <1>3, <1>5 DEF Child, QueueFits
    <1> HIDE DEF s
    <1>7. QED
        BY <1>1, <1>2, <1>3, <1>4, <1>5, <1>6, SupUpdate

\* An answer is refused.
LEMMA RefuseAnswerSup ==
    ASSUME Structure, NEW g \in Children, NEW fits \in BOOLEAN, NEW w \in Outcomes,
           Respond(g, fits, w),
           call[NextCommand(g)].ask \cap sup[g].withdrawn # {} \/ ~Listening(NextCommand(g))
                   \/ ~fits
    PROVE  /\ Others(g)
           /\ Child(sup'[g], sup[g].phase, sup[g].reaped, sup[g].log, Tail(sup[g].queue),
                    sup[g].setup, sup[g].turn, sup[g].waiters,
                    sup[g].withdrawn \ call[NextCommand(g)].ask)
           /\ sup[g].queue # <<>> /\ NextCommand(g) = Head(sup[g].queue)
                   /\ NextCommand(g) \in Calls
    <1>1. sup[g] \in ChildType /\ SupType /\ QueueFits /\ MaxCalls \in Nat \ {0}
        BY ChildFacts DEF Structure
    <1> DEFINE s == [Popped(g) EXCEPT !.withdrawn = @ \ call[NextCommand(g)].ask]
    <1>2. sup' = [sup EXCEPT ![g] = s] /\ sup[g].queue # <<>>
        BY DEF Respond, Serves
    <1>3. /\ Popped(g) \in ChildType /\ Len(Popped(g).queue) <= QueueLimit
          /\ Popped(g).phase = sup[g].phase /\ Popped(g).log = sup[g].log
          /\ Popped(g).reaped = sup[g].reaped /\ Popped(g).turn = sup[g].turn
          /\ Popped(g).setup = sup[g].setup /\ Popped(g).waiters = sup[g].waiters
          /\ Popped(g).withdrawn = sup[g].withdrawn /\ Popped(g).queue = Tail(sup[g].queue)
          /\ NextCommand(g) \in Calls /\ NextCommand(g) = Head(sup[g].queue)
        BY <1>1, <1>2, PoppedFacts
    <1>4. s \in ChildType
      <2>1. /\ \A j \in Calls : j \in 0..MaxCalls /\ j \in 0..(MaxCalls + 1)
            /\ \A x \in Outcomes : After(x, sup[g].phase) \in Phases
        BY <1>1 DEF ChildType, Phases, Outcomes, After
      <2>2. QED
        BY <1>1, <1>3, <2>1, Zeros DEF ChildType, Phases, Reading
    <1>5. Child(s, sup[g].phase, sup[g].reaped, sup[g].log, Tail(sup[g].queue), sup[g].setup,
                sup[g].turn, sup[g].waiters, sup[g].withdrawn \ call[NextCommand(g)].ask)
        BY <1>1, <1>3 DEF ChildType, Child
    <1>6. Len(s.queue) <= QueueLimit
        BY <1>1, <1>3, <1>5 DEF Child, QueueFits
    <1> HIDE DEF s
    <1>7. QED
        BY <1>1, <1>2, <1>3, <1>4, <1>5, <1>6, SupUpdate

\* An answer is written.
LEMMA AnswerSup ==
    ASSUME Structure, NEW g \in Children, NEW fits \in BOOLEAN, NEW w \in Outcomes,
           Respond(g, fits, w),
           ~(call[NextCommand(g)].ask \cap sup[g].withdrawn # {}
                   \/ ~Listening(NextCommand(g)) \/ ~fits)
    PROVE  /\ Others(g)
           /\ Child(sup'[g], After(w, sup[g].phase), sup[g].reaped, sup[g].log,
                    Tail(sup[g].queue), sup[g].setup, sup[g].turn, sup[g].waiters,
                    sup[g].withdrawn)
           /\ sup[g].queue # <<>> /\ NextCommand(g) = Head(sup[g].queue)
                   /\ NextCommand(g) \in Calls
    <1>1. sup[g] \in ChildType /\ SupType /\ QueueFits /\ MaxCalls \in Nat \ {0}
        BY ChildFacts DEF Structure
    <1> DEFINE s == [Popped(g) EXCEPT !.phase = After(w, @)]
    <1>2. sup' = [sup EXCEPT ![g] = s] /\ sup[g].queue # <<>>
        BY DEF Respond, Serves
    <1>3. /\ Popped(g) \in ChildType /\ Len(Popped(g).queue) <= QueueLimit
          /\ Popped(g).phase = sup[g].phase /\ Popped(g).log = sup[g].log
          /\ Popped(g).reaped = sup[g].reaped /\ Popped(g).turn = sup[g].turn
          /\ Popped(g).setup = sup[g].setup /\ Popped(g).waiters = sup[g].waiters
          /\ Popped(g).withdrawn = sup[g].withdrawn /\ Popped(g).queue = Tail(sup[g].queue)
          /\ NextCommand(g) \in Calls /\ NextCommand(g) = Head(sup[g].queue)
        BY <1>1, <1>2, PoppedFacts
    <1>4. s \in ChildType
      <2>1. /\ \A j \in Calls : j \in 0..MaxCalls /\ j \in 0..(MaxCalls + 1)
            /\ \A x \in Outcomes : After(x, sup[g].phase) \in Phases
        BY <1>1 DEF ChildType, Phases, Outcomes, After
      <2>2. QED
        BY <1>1, <1>3, <2>1, Zeros DEF ChildType, Phases, Reading
    <1>5. Child(s, After(w, sup[g].phase), sup[g].reaped, sup[g].log, Tail(sup[g].queue),
                sup[g].setup, sup[g].turn, sup[g].waiters, sup[g].withdrawn)
        BY <1>1, <1>3 DEF ChildType, Child
    <1>6. Len(s.queue) <= QueueLimit
        BY <1>1, <1>3, <1>5 DEF Child, QueueFits
    <1> HIDE DEF s
    <1>7. QED
        BY <1>1, <1>2, <1>3, <1>4, <1>5, <1>6, SupUpdate

\* A turn that was set up does not start.
LEMMA DropSetupSup ==
    ASSUME Structure, NEW g \in Children, NEW w \in Outcomes,
           FinishTurnSetup(g, w), ~Listening(sup[g].setup) \/ sup[g].turn # None
    PROVE  /\ Others(g)
           /\ Child(sup'[g], sup[g].phase, sup[g].reaped, sup[g].log, sup[g].queue, 0,
                    sup[g].turn, sup[g].waiters, sup[g].withdrawn)
    <1>1. sup[g] \in ChildType /\ SupType /\ QueueFits /\ MaxCalls \in Nat \ {0}
        BY ChildFacts DEF Structure
    <1> DEFINE s == [sup[g] EXCEPT !.setup = None]
    <1>2. sup' = [sup EXCEPT ![g] = s]
        BY DEF FinishTurnSetup
    <1>3. sup[g].setup \in 0..MaxCalls /\ sup[g].setup \in 0..(MaxCalls + 1)
        BY <1>1 DEF ChildType
    <1>4. s \in ChildType
      <2>1. /\ \A j \in Calls : j \in 0..MaxCalls /\ j \in 0..(MaxCalls + 1)
            /\ \A x \in Outcomes : After(x, sup[g].phase) \in Phases
        BY <1>1 DEF ChildType, Phases, Outcomes, After
      <2>2. QED
        BY <1>1, <1>3, <2>1, Zeros DEF ChildType, Phases, Reading
    <1>5. Child(s, sup[g].phase, sup[g].reaped, sup[g].log, sup[g].queue, 0, sup[g].turn,
                sup[g].waiters, sup[g].withdrawn)
        BY <1>1, <1>3 DEF ChildType, Child
    <1>6. Len(s.queue) <= QueueLimit
        BY <1>1, <1>3, <1>5 DEF Child, QueueFits
    <1> HIDE DEF s
    <1>7. QED
        BY <1>1, <1>2, <1>3, <1>4, <1>5, <1>6, SupUpdate

\* A turn that was set up starts.
LEMMA StartSup ==
    ASSUME Structure, NEW g \in Children, NEW w \in Outcomes,
           FinishTurnSetup(g, w), Listening(sup[g].setup) /\ sup[g].turn = None
    PROVE  /\ Others(g)
           /\ Child(sup'[g], After(w, sup[g].phase), sup[g].reaped, sup[g].log, sup[g].queue, 0,
                    sup[g].setup, sup[g].waiters, {})
    <1>1. sup[g] \in ChildType /\ SupType /\ QueueFits /\ MaxCalls \in Nat \ {0}
        BY ChildFacts DEF Structure
    <1> DEFINE s == [sup[g] EXCEPT !.withdrawn = {}, !.turn = sup[g].setup, !.setup = None,
            !.phase = After(w, @)]
    <1>2. sup' = [sup EXCEPT ![g] = s] /\ sup[g].setup # 0
        BY DEF FinishTurnSetup, Begun
    <1>3. sup[g].setup \in 0..MaxCalls /\ sup[g].setup \in 0..(MaxCalls + 1)
        BY <1>1 DEF ChildType
    <1>4. s \in ChildType
      <2>1. /\ \A j \in Calls : j \in 0..MaxCalls /\ j \in 0..(MaxCalls + 1)
            /\ \A x \in Outcomes : After(x, sup[g].phase) \in Phases
        BY <1>1 DEF ChildType, Phases, Outcomes, After
      <2>2. QED
        BY <1>1, <1>3, <2>1, Zeros DEF ChildType, Phases, Reading
    <1>5. Child(s, After(w, sup[g].phase), sup[g].reaped, sup[g].log, sup[g].queue, 0,
                sup[g].setup, sup[g].waiters, {})
        BY <1>1, <1>3 DEF ChildType, Child
    <1>6. Len(s.queue) <= QueueLimit
        BY <1>1, <1>3, <1>5 DEF Child, QueueFits
    <1> HIDE DEF s
    <1>7. QED
        BY <1>1, <1>2, <1>3, <1>4, <1>5, <1>6, SupUpdate

\* A withdrawal is remembered.
LEMMA CancelRequestSup ==
    ASSUME Structure, NEW g \in Children, NEW a \in Asks,
           CancelRequest(g, a), a \notin pending
    PROVE  /\ Others(g)
           /\ Child(sup'[g], sup[g].phase, sup[g].reaped, sup[g].log, sup[g].queue,
                    sup[g].setup, sup[g].turn, sup[g].waiters, sup[g].withdrawn \cup {a})
    <1>1. sup[g] \in ChildType /\ SupType /\ QueueFits /\ MaxCalls \in Nat \ {0}
        BY ChildFacts DEF Structure
    <1> DEFINE s == [sup[g] EXCEPT !.withdrawn = @ \cup {a}]
    <1>2. sup' = [sup EXCEPT ![g] = s]
        BY DEF CancelRequest
    <1>3. sup[g].setup \in 0..MaxCalls /\ sup[g].setup \in 0..(MaxCalls + 1)
        BY <1>1 DEF ChildType
    <1>4. s \in ChildType
      <2>1. /\ \A j \in Calls : j \in 0..MaxCalls /\ j \in 0..(MaxCalls + 1)
            /\ \A x \in Outcomes : After(x, sup[g].phase) \in Phases
        BY <1>1 DEF ChildType, Phases, Outcomes, After
      <2>2. QED
        BY <1>1, <1>3, <2>1, Zeros DEF ChildType, Phases, Reading
    <1>5. Child(s, sup[g].phase, sup[g].reaped, sup[g].log, sup[g].queue, sup[g].setup,
                sup[g].turn, sup[g].waiters, sup[g].withdrawn \cup {a})
        BY <1>1, <1>3 DEF ChildType, Child
    <1>6. Len(s.queue) <= QueueLimit
        BY <1>1, <1>3, <1>5 DEF Child, QueueFits
    <1> HIDE DEF s
    <1>7. QED
        BY <1>1, <1>2, <1>3, <1>4, <1>5, <1>6, SupUpdate

\* The stream of a child ends.
LEMMA StdoutEndsSup ==
    ASSUME Structure, NEW g \in Children, StdoutEnds(g)
    PROVE  /\ sup[g].phase \in Reading /\ Others(g)
           /\ \E p \in {"exiting", "hung"} :
                Child(sup'[g], p, sup[g].reaped, sup[g].log, sup[g].queue, sup[g].setup,
                      sup[g].turn, sup[g].waiters, sup[g].withdrawn)
    <1>1. sup[g] \in ChildType /\ SupType /\ QueueFits
        BY ChildFacts DEF Structure
    <1>2. PICK p \in {"exiting", "hung"} : sup' = [sup EXCEPT ![g].phase = p]
        BY DEF StdoutEnds
    <1> DEFINE s == [sup[g] EXCEPT !.phase = p]
    <1>3. sup' = [sup EXCEPT ![g] = s]
        BY <1>2
    <1>4. s \in ChildType
        BY <1>1 DEF ChildType, Phases
    <1>5. Child(s, p, sup[g].reaped, sup[g].log, sup[g].queue, sup[g].setup, sup[g].turn,
                sup[g].waiters, sup[g].withdrawn)
        BY <1>1 DEF ChildType, Child
    <1>6. Len(s.queue) <= QueueLimit /\ sup[g].phase \in Reading
        BY <1>1, <1>5 DEF Child, QueueFits, StdoutEnds, Hears
    <1> HIDE DEF s
    <1>7. QED
        BY <1>1, <1>3, <1>4, <1>5, <1>6, SupUpdate

-----------------------------------------------------------------------------
(* What the steps do to the calls.                                         *)

\* A step changes one call.
OneCall(k) ==
    /\ call' \in [Calls -> CallType]
    /\ \A j \in Calls \ {k} : call'[j] = call[j]

\* A call returns, or goes on at one of pcs with the ask it has.
Goes(k, pcs, op) ==
    /\ OneCall(k)
    /\ \/ call'[k] = Done
       \/ call'[k].pc \in pcs /\ call'[k].op = op /\ call'[k].ask = call[k].ask

\* Calls of S are replied to.
Answers(S) ==
    /\ call' \in [Calls -> CallType]
    /\ \A k \in Calls : \/ call'[k] = call[k]
                        \/ call'[k] = Done /\ k \in S /\ call[k].pc \in {"waiting", "done"}

\* The next state of the calls when one of them changes.
LEMMA CallUpdate ==
    ASSUME call \in [Calls -> CallType], NEW k \in Calls, NEW c \in CallType,
           call' = [call EXCEPT ![k] = c]
    PROVE  OneCall(k) /\ call'[k] = c
    BY DEF OneCall

\* A call that has returned.
LEMMA DoneFacts ==
    Done \in CallType /\ Done.ask = {} /\ Done.op = "none" /\ Done.pc = "done"
    BY ClaudeSessionAssumption DEF Done, Idle0, CallType, Ops, Steps

\* A step of a call that only moves its pc.
LEMMA ToFacts ==
    ASSUME Structure, NEW k \in Calls, NEW pc \in Steps, To(k, pc)
    PROVE  /\ OneCall(k)
           /\ pc = "done" => call'[k] = Done
           /\ pc # "done" => /\ call'[k].pc = pc /\ call'[k].op = call[k].op
                             /\ call'[k].ask = call[k].ask /\ call'[k].log = call[k].log
                             /\ call'[k].child = call[k].child
    <1>1. call \in [Calls -> CallType] /\ call[k] \in CallType
        BY DEF Structure, SessionType
    <1>2. CASE pc = "done"
      <2>1. call' = [call EXCEPT ![k] = Done]
        BY <1>2 DEF To
      <2>2. QED
        BY <1>1, <1>2, <2>1, DoneFacts, CallUpdate
    <1>3. CASE pc # "done"
      <2> DEFINE c == [call[k] EXCEPT !.pc = pc]
      <2>1. call' = [call EXCEPT ![k] = c]
        BY <1>3 DEF To
      <2>2. c \in CallType /\ c.pc = pc /\ c.op = call[k].op /\ c.ask = call[k].ask
            /\ c.log = call[k].log /\ c.child = call[k].child
        BY <1>1 DEF CallType
      <2> HIDE DEF c
      <2>3. OneCall(k) /\ call'[k] = c
        BY <1>1, <2>1, <2>2, CallUpdate
      <2>4. QED
        BY <1>3, <2>2, <2>3
    <1>4. QED
        BY <1>2, <1>3

\* ensure_child, for a call that is not stopping anything.
LEMMA EnsuredFacts ==
    ASSUME Structure, NEW c \in CallType
    PROVE  /\ Ensured(c) \in CallType
           /\ \/ Ensured(c) = Done
              \/ /\ Ensured(c).pc \in {"gate", "send"} /\ Ensured(c).op = c.op
                 /\ Ensured(c).ask = c.ask
    <1>1. entry.log \in 0..MaxLogs
        BY DEF Structure, SessionType, EntryType
    <1>2. CASE entry.log = None
        BY <1>2, DoneFacts DEF Ensured
    <1>3. CASE entry.log # None /\ entry.child # None
      <2>1. Ensured(c) = IF c.op = "open" THEN Done ELSE [c EXCEPT !.pc = "send"]
        BY <1>3 DEF Ensured, Ready
      <2>2. QED
        BY <2>1, DoneFacts DEF CallType, Steps
    <1>4. CASE entry.log # None /\ entry.child = None
      <2>1. Ensured(c) = [c EXCEPT !.log = entry.log, !.pc = "gate"]
        BY <1>4 DEF Ensured
      <2>2. QED
        BY <1>1, <2>1 DEF CallType, Steps
    <1>5. QED
        BY <1>2, <1>3, <1>4

\* The child is there, for a call that needs it.
LEMMA ReadyFacts ==
    ASSUME NEW c \in CallType
    PROVE  /\ Ready(c) \in CallType
           /\ \/ Ready(c) = Done
              \/ Ready(c).pc = "send" /\ Ready(c).op = c.op /\ Ready(c).ask = c.ask
    <1>1. Ready(c) = IF c.op = "open" THEN Done ELSE [c EXCEPT !.pc = "send"]
        BY DEF Ready
    <1>2. QED
        BY <1>1, DoneFacts DEF CallType, Steps

\* A call that starts takes its operation with it.
LEMMA WithOp ==
    ASSUME NEW c \in CallType, NEW op \in Ops
    PROVE  /\ [c EXCEPT !.op = op] \in CallType /\ [c EXCEPT !.op = op].op = op
           /\ [c EXCEPT !.op = op].ask = c.ask
    BY DEF CallType

\* open_thread.
LEMMA OpenThreadCall ==
    ASSUME Structure, NEW k \in Calls, OpenThread(k)
    PROVE  call[k].pc = "idle" /\ Goes(k, {"opening", "gate", "send"}, "open")
    <1>1. call \in [Calls -> CallType] /\ call[k] \in CallType /\ "open" \in Ops
        BY DEF Structure, SessionType, Ops
    <1> DEFINE o == [call[k] EXCEPT !.op = "open"]
               p == [call[k] EXCEPT !.op = "open", !.pc = "opening"]
               c == IF shutdown THEN Done ELSE IF entry.log = None THEN p ELSE Ensured(o)
    <1>2. call' = [call EXCEPT ![k] = c] /\ call[k].pc = "idle"
        BY DEF OpenThread, Starts
    <1>3. o \in CallType /\ o.op = "open" /\ o.ask = call[k].ask
        BY <1>1, WithOp
    <1>4. p \in CallType /\ p.op = "open" /\ p.ask = call[k].ask /\ p.pc = "opening"
        BY <1>1 DEF CallType, Ops, Steps
    <1> HIDE DEF o, p
    <1>5. /\ Ensured(o) \in CallType
          /\ \/ Ensured(o) = Done
             \/ /\ Ensured(o).pc \in {"gate", "send"} /\ Ensured(o).op = "open"
                /\ Ensured(o).ask = call[k].ask
        BY <1>3, EnsuredFacts
    <1>6. c \in CallType /\ \/ c = Done
                            \/ /\ c.pc \in {"opening", "gate", "send"} /\ c.op = "open"
                               /\ c.ask = call[k].ask
        BY <1>4, <1>5, DoneFacts
    <1> HIDE DEF c
    <1>7. OneCall(k) /\ call'[k] = c
        BY <1>1, <1>2, <1>6, CallUpdate
    <1>8. QED
        BY <1>2, <1>6, <1>7 DEF Goes

\* start_turn and compact_thread.
LEMMA StartTurnCall ==
    ASSUME Structure, NEW k \in Calls, NEW op \in TurnOps, StartTurn(k, op)
    PROVE  call[k].pc = "idle" /\ Goes(k, {"gate", "send"}, op)
    <1>1. call \in [Calls -> CallType] /\ call[k] \in CallType /\ op \in Ops
        BY DEF Structure, SessionType, Ops
    <1> DEFINE o == [call[k] EXCEPT !.op = op]
    <1>2. call' = [call EXCEPT ![k] = Ensured(o)] /\ call[k].pc = "idle"
        BY DEF StartTurn, Starts
    <1>3. o \in CallType /\ o.op = op /\ o.ask = call[k].ask
        BY <1>1, WithOp
    <1> HIDE DEF o
    <1>4. /\ Ensured(o) \in CallType
          /\ \/ Ensured(o) = Done
             \/ /\ Ensured(o).pc \in {"gate", "send"} /\ Ensured(o).op = op
                /\ Ensured(o).ask = call[k].ask
        BY <1>3, EnsuredFacts
    <1>5. OneCall(k) /\ call'[k] = Ensured(o)
        BY <1>1, <1>2, <1>4, CallUpdate
    <1>6. QED
        BY <1>2, <1>4, <1>5 DEF Goes

\* ensure_child holds the gate.
LEMMA TakeGateCall ==
    ASSUME Structure, NEW k \in Calls, TakeGate(k)
    PROVE  call[k].pc = "gate" /\ Goes(k, {"spawn", "send"}, call[k].op)
    <1>1. call \in [Calls -> CallType] /\ call[k] \in CallType /\ call[k].pc = "gate"
        BY DEF Structure, SessionType, TakeGate
    <1>2. CASE To(k, "spawn")
        BY <1>1, <1>2, ToFacts DEF Goes, Steps
    <1>3. CASE ~To(k, "spawn")
      <2> DEFINE c == IF entry.child # None THEN Ready(call[k]) ELSE Done
      <2>1. call' = [call EXCEPT ![k] = c]
        BY <1>3 DEF TakeGate
      <2>2. c \in CallType /\ \/ c = Done
                              \/ c.pc = "send" /\ c.op = call[k].op /\ c.ask = call[k].ask
        BY <1>1, ReadyFacts, DoneFacts
      <2> HIDE DEF c
      <2>3. OneCall(k) /\ call'[k] = c
        BY <1>1, <2>1, <2>2, CallUpdate
      <2>4. QED
        BY <1>1, <2>2, <2>3 DEF Goes
    <1>4. QED
        BY <1>2, <1>3

\* The end of a spawn.
LEMMA RespawnCall ==
    ASSUME Structure, NEW k \in Calls, Respawn(k)
    PROVE  call[k].pc = "spawn" /\ Goes(k, {"send"}, call[k].op)
    <1>1. call \in [Calls -> CallType] /\ call[k] \in CallType /\ call[k].pc = "spawn"
        BY DEF Structure, SessionType, Respawn
    <1>2. CASE To(k, "done")
        BY <1>1, <1>2, ToFacts DEF Goes, Steps
    <1>3. CASE ~To(k, "done")
      <2>1. call' = [call EXCEPT ![k] = Ready(call[k])]
        BY <1>3 DEF Respawn
      <2>2. Ready(call[k]) \in CallType
            /\ \/ Ready(call[k]) = Done
               \/ /\ Ready(call[k]).pc = "send" /\ Ready(call[k]).op = call[k].op
                  /\ Ready(call[k]).ask = call[k].ask
        BY <1>1, ReadyFacts
      <2>3. OneCall(k) /\ call'[k] = Ready(call[k])
        BY <1>1, <2>1, <2>2, CallUpdate
      <2>4. QED
        BY <1>1, <2>2, <2>3 DEF Goes
    <1>4. QED
        BY <1>2, <1>3

\* interrupt, set_thread_name and terminate_command.
LEMMA ControlCall ==
    ASSUME Structure, NEW k \in Calls, Control(k)
    PROVE  call[k].pc = "idle" /\ Goes(k, {"send"}, "control")
    <1>1. call \in [Calls -> CallType] /\ call[k] \in CallType /\ call[k].pc = "idle"
        BY DEF Structure, SessionType, Control, Starts
    <1> DEFINE c == [call[k] EXCEPT !.op = "control", !.pc = "send"]
    <1>2. call' = [call EXCEPT ![k] = c]
        BY <1>1 DEF Control
    <1>3. c \in CallType /\ c.op = "control" /\ c.pc = "send" /\ c.ask = call[k].ask
        BY <1>1 DEF CallType, Ops, Steps
    <1> HIDE DEF c
    <1>4. OneCall(k) /\ call'[k] = c
        BY <1>1, <1>2, <1>3, CallUpdate
    <1>5. QED
        BY <1>1, <1>3, <1>4 DEF Goes

\* respond_approval and respond_server_request take a pending ask.
LEMMA TakeAskCall ==
    ASSUME Structure, NEW k \in Calls, NEW a \in Asks, TakeAsk(k, a)
    PROVE  /\ call[k].pc = "idle" /\ OneCall(k)
           /\ IF a \in pending THEN /\ call'[k].pc = "send" /\ call'[k].op = "answer"
                                    /\ call'[k].ask = {a}
              ELSE call'[k] = Done
    <1>1. call \in [Calls -> CallType] /\ call[k] \in CallType /\ call[k].pc = "idle"
        BY DEF Structure, SessionType, TakeAsk, Starts
    <1> DEFINE c == [call[k] EXCEPT !.op = "answer", !.ask = {a}, !.pc = "send"]
    <1>2. c \in CallType /\ c.op = "answer" /\ c.pc = "send" /\ c.ask = {a}
        BY <1>1 DEF CallType, Ops, Steps
    <1>3. call' = [call EXCEPT ![k] = IF a \notin pending THEN Done ELSE c]
        BY DEF TakeAsk
    <1> HIDE DEF c
    <1>4. CASE a \in pending
        BY <1>1, <1>2, <1>3, <1>4, CallUpdate
    <1>5. CASE a \notin pending
      <2>1. call' = [call EXCEPT ![k] = Done]
        BY <1>3, <1>5
      <2>2. QED
        BY <1>1, <1>5, <2>1, DoneFacts, CallUpdate
    <1>6. QED
        BY <1>4, <1>5

\* enqueue without a child.
LEMMA EnqueueNowhereCall ==
    ASSUME Structure, NEW k \in Calls, EnqueueNowhere(k)
    PROVE  /\ call[k].pc = "send" /\ entry.child = None
           /\ Goes(k, {"gate"}, call[k].op)
           /\ call'[k] # Done => call[k].op \in TurnOps
    <1>1. call \in [Calls -> CallType] /\ call[k] \in CallType /\ call[k].pc = "send"
          /\ entry.child = None /\ entry.log \in 0..MaxLogs
        BY DEF Structure, SessionType, EnqueueNowhere, EntryType
    <1> DEFINE t == [call[k] EXCEPT !.tries = 1]
               g == [t EXCEPT !.log = entry.log, !.pc = "gate"]
               b == entry.log # None /\ call[k].op \in TurnOps /\ call[k].tries = 0
    <1>2. call' = [call EXCEPT ![k] = IF b THEN Ensured(t) ELSE Done]
        BY DEF EnqueueNowhere
    <1>3. t \in CallType /\ t.op = call[k].op /\ t.ask = call[k].ask
        BY <1>1 DEF CallType
    <1>4. b => Ensured(t) = g /\ call[k].op \in TurnOps
        BY <1>1 DEF Ensured
    <1> HIDE DEF t
    <1>5. g \in CallType /\ g.pc = "gate" /\ g.op = call[k].op /\ g.ask = call[k].ask
        BY <1>1, <1>3 DEF CallType, Steps
    <1> HIDE DEF g, b
    <1>6. CASE b
      <2>1. call' = [call EXCEPT ![k] = g]
        BY <1>2, <1>4, <1>6
      <2>2. OneCall(k) /\ call'[k] = g
        BY <1>1, <1>5, <2>1, CallUpdate
      <2>3. QED
        BY <1>1, <1>4, <1>5, <1>6, <2>2 DEF Goes
    <1>7. CASE ~b
      <2>1. call' = [call EXCEPT ![k] = Done]
        BY <1>2, <1>7
      <2>2. OneCall(k) /\ call'[k] = Done
        BY <1>1, <2>1, DoneFacts, CallUpdate
      <2>3. QED
        BY <1>1, <2>2 DEF Goes
    <1>8. QED
        BY <1>6, <1>7

\* The timeout of an answer.
LEMMA GiveUpCall ==
    ASSUME Structure, NEW k \in Calls, GiveUp(k)
    PROVE  /\ call[k].pc = "waiting" /\ Goes(k, {"done"}, call[k].op)
           /\ Queued(k) => call'[k].ask = call[k].ask
    <1>1. call \in [Calls -> CallType] /\ call[k] \in CallType /\ call[k].pc = "waiting"
        BY DEF Structure, SessionType, GiveUp, Listening
    <1> DEFINE c == [call[k] EXCEPT !.pc = "done"]
    <1>2. call' = [call EXCEPT ![k] = IF Queued(k) THEN c ELSE Done]
        BY DEF GiveUp
    <1>3. c \in CallType /\ c.op = call[k].op /\ c.ask = call[k].ask /\ c.pc = "done"
        BY <1>1 DEF CallType, Steps
    <1> HIDE DEF c
    <1>4. CASE Queued(k)
      <2>1. OneCall(k) /\ call'[k] = c
        BY <1>1, <1>2, <1>3, <1>4, CallUpdate
      <2>2. QED
        BY <1>1, <1>3, <2>1 DEF Goes
    <1>5. CASE ~Queued(k)
      <2>1. call' = [call EXCEPT ![k] = Done]
        BY <1>2, <1>5
      <2>2. OneCall(k) /\ call'[k] = Done
        BY <1>1, <2>1, DoneFacts, CallUpdate
      <2>3. QED
        BY <1>1, <1>5, <2>2 DEF Goes
    <1>6. QED
        BY <1>4, <1>5

\* stop_thread and shutdown take the entry.
LEMMA StopThreadCall ==
    ASSUME Structure, NEW k \in Calls, NEW op \in StopOps, StopThread(k, op)
    PROVE  /\ call[k].pc = "idle" /\ Goes(k, {"stopping", "forget"}, op)
           /\ call'[k].pc = "stopping" => /\ entry.child # None /\ call'[k].log = entry.log
                                          /\ call'[k].child = entry.child
    <1>1. call \in [Calls -> CallType] /\ call[k] \in CallType /\ op \in Ops
          /\ entry.log \in 0..MaxLogs /\ entry.child \in 0..MaxChildren /\ call[k].pc = "idle"
        BY DEF Structure, SessionType, Ops, EntryType, StopThread, Starts
    <1> DEFINE pc == IF entry.child # None THEN "stopping"
                     ELSE IF entry.log # None \/ op = "shutdown" THEN "forget" ELSE "done"
               c == [call[k] EXCEPT !.op = op, !.pc = pc, !.log = entry.log,
                                    !.child = entry.child]
    <1>2. call' = [call EXCEPT ![k] = IF pc = "done" THEN Done ELSE c]
        BY DEF StopThread
    <1>3. pc \in {"stopping", "forget", "done"} /\ (pc = "stopping" => entry.child # None)
        OBVIOUS
    <1> HIDE DEF pc
    <1>4. c \in CallType /\ c.op = op /\ c.ask = call[k].ask /\ c.pc = pc
          /\ c.log = entry.log /\ c.child = entry.child
        BY <1>1, <1>3 DEF CallType, Steps
    <1> HIDE DEF c
    <1>5. CASE pc = "done"
      <2>1. call' = [call EXCEPT ![k] = Done]
        BY <1>2, <1>5
      <2>2. OneCall(k) /\ call'[k] = Done
        BY <1>1, <2>1, DoneFacts, CallUpdate
      <2>3. QED
        BY <1>1, <2>2, DoneFacts DEF Goes
    <1>6. CASE pc # "done"
      <2>1. OneCall(k) /\ call'[k] = c
        BY <1>1, <1>2, <1>4, <1>6, CallUpdate
      <2>2. QED
        BY <1>1, <1>3, <1>4, <1>6, <2>1 DEF Goes
    <1>7. QED
        BY <1>5, <1>6

\* The supervisor of the call is aborted.
LEMMA StopTimeoutCall ==
    ASSUME Structure, NEW k \in Calls, StopTimeout(k)
    PROVE  /\ call' \in [Calls -> CallType]
           /\ call[k].pc \in {"stopping", "joining"} /\ call'[k].pc = "forget"
           /\ call'[k].ask = call[k].ask /\ call'[k].op = call[k].op
           /\ \A j \in Calls \ {k} :
                \/ call'[j] = call[j]
                \/ /\ call'[j] = Done /\ j \in Owed(call[k].child)
                   /\ call[j].pc \in {"waiting", "done"}
    <1>1. call \in [Calls -> CallType] /\ call[k].pc \in {"stopping", "joining"}
        BY DEF Structure, SessionType, StopTimeout
    <1> DEFINE r == Replied(Owed(call[k].child))
    <1>2. r \in [Calls -> CallType] /\ r[k] = call[k]
          /\ \A j \in Calls : \/ r[j] = call[j]
                              \/ /\ r[j] = Done /\ j \in Owed(call[k].child)
                                 /\ call[j].pc \in {"waiting", "done"}
        BY <1>1, RepliedFacts
    <1>3. call' = [r EXCEPT ![k].pc = "forget"]
        BY DEF StopTimeout
    <1> HIDE DEF r
    <1>4. call' \in [Calls -> CallType] /\ call'[k].pc = "forget"
          /\ call'[k].ask = call[k].ask /\ call'[k].op = call[k].op
        BY <1>2, <1>3 DEF CallType, Steps
    <1>5. \A j \in Calls \ {k} : call'[j] = r[j]
        BY <1>2, <1>3
    <1>6. QED
        BY <1>1, <1>2, <1>4, <1>5

\* Replying to the calls of S.
LEMMA AnswersFacts ==
    ASSUME Structure, NEW S, call' = Replied(S) \/ call' = call
    PROVE  Answers(S)
    <1>1. call \in [Calls -> CallType]
        BY DEF Structure, SessionType
    <1>2. CASE call' = call
        BY <1>1, <1>2 DEF Answers
    <1>3. CASE call' = Replied(S)
      <2>1. /\ Replied(S) \in [Calls -> CallType]
            /\ \A k \in Calls : \/ Replied(S)[k] = call[k]
                                \/ /\ Replied(S)[k] = Done /\ k \in S
                                   /\ call[k].pc \in {"waiting", "done"}
        BY <1>1, RepliedFacts
      <2>2. QED
        BY <1>3, <2>1 DEF Answers
    <1>4. QED
        BY <1>2, <1>3

-----------------------------------------------------------------------------
(* The structure is kept.                                                  *)

\* A child stays what it is: neither spawned nor reaped nor gone.
Shape(s, t) ==
    /\ t.log = s.log /\ t.reaped = s.reaped
    /\ t.phase = "none" <=> s.phase = "none"
    /\ t.phase = "ended" <=> s.phase = "ended"
    /\ t.phase = "serving" => s.phase = "serving"
    /\ s.phase = "closing" => t.phase = "closing"
    /\ s.phase = "none" => t = s

\* The steps in which a child is spawned, reaped or gone.
Turnover ==
    \/ \E k \in Calls : RegisterOpened(k) \/ Respawn(k) \/ StopTimeout(k)
    \/ \E g \in Children : Reap(g) \/ Unregister(g)

Shapes == \A g \in Children : Shape(sup[g], sup'[g])

\* The steps in which a turn begins or ends.
Talk ==
    \E g \in Children : \/ OwnTurn(g) \/ TurnResult(g) \/ OnExit(g)
                        \/ \E w \in Outcomes : Compact(g, w) \/ FinishTurnSetup(g, w)

TurnsKept == \A g \in Children : sup'[g].turn = sup[g].turn

\* One child that keeps its shape, and all others unchanged.
LEMMA OneShape ==
    ASSUME NEW g \in Children, Others(g), Shape(sup[g], sup'[g])
    PROVE  SupType' /\ QueueFits' /\ Shapes /\ (sup'[g].turn = sup[g].turn => TurnsKept)
    BY DEF Others, Shape, Shapes, TurnsKept

\* After a write.
LEMMA AfterFacts ==
    ASSUME NEW w \in Outcomes, NEW p \in Phases \ {"none", "ended"}
    PROVE  After(w, p) \notin {"none", "ended"} /\ After(w, p) \in Phases
    BY DEF Outcomes, After, Phases

\* Every other step leaves every child what it is, and most leave it its turn.
LEMMA ShapeStep ==
    Structure /\ [Next]_vars =>
        (SupType' /\ QueueFits' /\ (Turnover \/ (Shapes /\ (Talk \/ TurnsKept))))
    <1> SUFFICES ASSUME Structure, [Next]_vars
             PROVE  (SupType' /\ QueueFits' /\ (Turnover \/ (Shapes /\ (Talk \/ TurnsKept))))
        OBVIOUS
    <1>0. MaxCalls \in Nat \ {0} /\ MaxChildren \in Nat \ {0} /\ MaxLogs \in Nat \ {0}
          /\ QueueLimit \in Nat \ {0}
        BY ClaudeSessionAssumption
    <1>1. CASE \E k \in Calls : RegisterOpened(k)
      <2> PICK k \in Calls : RegisterOpened(k)
        BY <1>1
      <2>1. CASE UNCHANGED <<entry, logs, sup>>
        BY <2>1 DEF Turnover, Structure, SessionType, SupType, QueueFits
      <2>2. CASE ~UNCHANGED <<entry, logs, sup>>
        BY <2>2, RegisterOpenedSup DEF Others, Turnover
      <2>3. QED
        BY <2>1, <2>2
    <1>2. CASE \E k \in Calls : Respawn(k)
      <2> PICK k \in Calls : Respawn(k)
        BY <1>2
      <2>1. CASE UNCHANGED <<entry, sup>>
        BY <2>1 DEF Turnover, Structure, SessionType, SupType, QueueFits
      <2>2. CASE ~UNCHANGED <<entry, sup>>
        BY <2>2, RespawnSup DEF Others, Turnover
      <2>3. QED
        BY <2>1, <2>2
    <1>3. CASE \E k \in Calls : StopTimeout(k)
      <2> PICK k \in Calls : StopTimeout(k)
        BY <1>3
      <2> QED
        BY StopTimeoutSup DEF Others, Turnover
    <1>4. CASE \E g \in Children : Reap(g)
      <2> PICK g \in Children : Reap(g)
        BY <1>4
      <2> QED
        BY ReapSup DEF Others, Turnover
    <1>5. CASE \E g \in Children : Unregister(g)
      <2> PICK g \in Children : Unregister(g)
        BY <1>5
      <2> QED
        BY UnregisterSup DEF Others, Turnover
    <1>6. CASE \E k \in Calls : Enqueue(k)
      <2> PICK k \in Calls : Enqueue(k)
        BY <1>6
      <2>1. CASE sup' = sup
        BY <2>1 DEF Shapes, Shape, TurnsKept, Structure, SessionType, SupType, QueueFits
      <2>2. CASE sup' # sup
        <3>1. Others(entry.child) /\ Shape(sup[entry.child], sup'[entry.child])
              /\ entry.child \in Children /\ sup'[entry.child].turn = sup[entry.child].turn
          BY <2>2, EnqueueSup DEF Child, Shape, Enqueue, Structure, OneWriter, Running
        <3>2. QED
          BY <3>1, OneShape
      <2>3. QED
        BY <2>1, <2>2
    <1>7. CASE \E k \in Calls : SendStop(k)
      <2> PICK k \in Calls : SendStop(k)
        BY <1>7
      <2>1. CASE sup' = sup
        BY <2>1 DEF Shapes, Shape, TurnsKept, Structure, SessionType, SupType, QueueFits
      <2>2. CASE sup' # sup
        <3>1. Others(call[k].child) /\ Shape(sup[call[k].child], sup'[call[k].child])
              /\ call[k].child \in Children
                      /\ sup'[call[k].child].turn = sup[call[k].child].turn
          BY <2>2, SendStopSup DEF Child, Shape, SendStop, Structure, Stopped
        <3>2. QED
          BY <3>1, OneShape
      <2>3. QED
        BY <2>1, <2>2
    <1>8. CASE \E g \in Children : Refuse(g)
      <2> PICK g \in Children : Refuse(g)
        BY <1>8
      <2>1. Others(g) /\ Shape(sup[g], sup'[g]) /\ sup'[g].turn = sup[g].turn
        BY RefuseSup DEF Child, Shape, Reading, Refuse
      <2>2. QED
        BY <2>1, OneShape
    <1>9. CASE \E g \in Children : OnStop(g)
      <2> PICK g \in Children : OnStop(g)
        BY <1>9
      <2>1. CASE sup[g].phase = "serving"
        <3>1. Others(g) /\ Shape(sup[g], sup'[g]) /\ sup'[g].turn = sup[g].turn
          BY <2>1, OnStopSup DEF Child, Shape, Reading
        <3>2. QED
          BY <3>1, OneShape
      <2>2. CASE ~(sup[g].phase = "serving")
        <3>1. Others(g) /\ Shape(sup[g], sup'[g]) /\ sup'[g].turn = sup[g].turn
          BY <2>2, OnStopAgainSup DEF Child, Shape, Reading, OnStop
        <3>2. QED
          BY <3>1, OneShape
      <2>3. QED
        BY <2>1, <2>2
    <1>10. CASE \E g \in Children : BeginTurnSetup(g)
      <2> PICK g \in Children : BeginTurnSetup(g)
        BY <1>10
      <2>1. CASE ~Listening(NextCommand(g)) \/ Busy(g)
        <3>1. Others(g) /\ Shape(sup[g], sup'[g]) /\ sup'[g].turn = sup[g].turn
          BY <2>1, DropTurnSup DEF Child, Shape, Reading, BeginTurnSetup, Serves
        <3>2. QED
          BY <3>1, OneShape
      <2>2. CASE ~(~Listening(NextCommand(g)) \/ Busy(g))
        <3>1. Others(g) /\ Shape(sup[g], sup'[g]) /\ sup'[g].turn = sup[g].turn
          BY <2>2, SetupSup DEF Child, Shape, Reading, BeginTurnSetup, Serves
        <3>2. QED
          BY <3>1, OneShape
      <2>3. QED
        BY <2>1, <2>2
    <1>11. CASE \E g \in Children : SendControl(g)
      <2> PICK g \in Children : SendControl(g)
        BY <1>11
      <2>1. Others(g) /\ Shape(sup[g], sup'[g]) /\ sup'[g].turn = sup[g].turn
        BY SendControlSup DEF Child, Shape, Reading, SendControl, Serves
      <2>2. QED
        BY <2>1, OneShape
    <1>12. CASE \E g \in Children, w \in Outcomes : Compact(g, w)
      <2> PICK g \in Children, w \in Outcomes : Compact(g, w)
        BY <1>12
      <2>0. sup[g].phase = "serving" /\ After(w, "serving") \notin {"none", "ended"}
        BY AfterFacts DEF Compact, Serves, Phases, Reading
      <2>1. CASE ~Listening(NextCommand(g)) \/ Busy(g)
        <3>1. Others(g) /\ Shape(sup[g], sup'[g]) /\ sup'[g].turn = sup[g].turn
          BY <2>1, DropCompactSup, <2>0 DEF Child, Shape, Reading
        <3>2. QED
          BY <3>1, OneShape
      <2>2. CASE ~(~Listening(NextCommand(g)) \/ Busy(g))
        <3>1. Others(g) /\ Shape(sup[g], sup'[g])
          BY <2>2, CompactSup, <2>0 DEF Child, Shape, Reading
        <3>2. QED
          BY <3>1, OneShape DEF Talk
      <2>3. QED
        BY <2>1, <2>2
    <1>13. CASE \E g \in Children, fits \in BOOLEAN, w \in Outcomes : Respond(g, fits, w)
      <2> PICK g \in Children, fits \in BOOLEAN, w \in Outcomes : Respond(g, fits, w)
        BY <1>13
      <2>0. sup[g].phase = "serving" /\ After(w, "serving") \notin {"none", "ended"}
        BY AfterFacts DEF Respond, Serves, Phases, Reading
      <2>1. CASE call[NextCommand(g)].ask \cap sup[g].withdrawn # {}
              \/ ~Listening(NextCommand(g)) \/ ~fits
        <3>1. Others(g) /\ Shape(sup[g], sup'[g]) /\ sup'[g].turn = sup[g].turn
          BY <2>1, RefuseAnswerSup, <2>0 DEF Child, Shape, Reading
        <3>2. QED
          BY <3>1, OneShape
      <2>2. CASE ~(call[NextCommand(g)].ask \cap sup[g].withdrawn # {}
              \/ ~Listening(NextCommand(g)) \/ ~fits)
        <3>1. Others(g) /\ Shape(sup[g], sup'[g]) /\ sup'[g].turn = sup[g].turn
          BY <2>2, AnswerSup, <2>0 DEF Child, Shape, Reading
        <3>2. QED
          BY <3>1, OneShape
      <2>3. QED
        BY <2>1, <2>2
    <1>14. CASE \E g \in Children : OwnTurn(g)
      <2> PICK g \in Children : OwnTurn(g)
        BY <1>14
      <2>1. Others(g) /\ Shape(sup[g], sup'[g])
        BY OwnTurnSup DEF Child, Shape, Reading
      <2>2. QED
        BY <2>1, OneShape DEF Talk
    <1>15. CASE \E g \in Children : TurnResult(g)
      <2> PICK g \in Children : TurnResult(g)
        BY <1>15
      <2>1. Others(g) /\ Shape(sup[g], sup'[g])
        BY TurnResultSup DEF Child, Shape, Reading
      <2>2. QED
        BY <2>1, OneShape DEF Talk
    <1>16. CASE \E g \in Children : StdoutEnds(g)
      <2> PICK g \in Children : StdoutEnds(g)
        BY <1>16
      <2>1. Others(g) /\ Shape(sup[g], sup'[g]) /\ sup'[g].turn = sup[g].turn
        BY StdoutEndsSup DEF Child, Shape, Reading
      <2>2. QED
        BY <2>1, OneShape
    <1>17. CASE \E g \in Children, a \in Asks : CancelRequest(g, a)
      <2> PICK g \in Children, a \in Asks : CancelRequest(g, a)
        BY <1>17
      <2>1. CASE a \in pending
        BY <2>1 DEF CancelRequest, TurnsKept, Shapes, Shape, Structure, SessionType, SupType,
                QueueFits
      <2>2. CASE a \notin pending
        <3>1. Others(g) /\ Shape(sup[g], sup'[g]) /\ sup'[g].turn = sup[g].turn
          BY <2>2, CancelRequestSup DEF Child, Shape, Reading, CancelRequest, Hears
        <3>2. QED
          BY <3>1, OneShape
      <2>3. QED
        BY <2>1, <2>2
    <1>18. CASE \E g \in Children, k \in Calls : ControlResponse(g, k)
      <2> PICK g \in Children, k \in Calls : ControlResponse(g, k)
        BY <1>18
      <2>1. Others(g) /\ Shape(sup[g], sup'[g]) /\ sup'[g].turn = sup[g].turn
        BY ControlResponseSup DEF Child, Shape, Reading
      <2>2. QED
        BY <2>1, OneShape
    <1>19. CASE \E g \in Children : FailTurnSetup(g)
      <2> PICK g \in Children : FailTurnSetup(g)
        BY <1>19
      <2>1. Others(g) /\ Shape(sup[g], sup'[g]) /\ sup'[g].turn = sup[g].turn
        BY FailTurnSetupSup DEF Child, Shape, Reading
      <2>2. QED
        BY <2>1, OneShape
    <1>20. CASE \E g \in Children, w \in Outcomes : FinishTurnSetup(g, w)
      <2> PICK g \in Children, w \in Outcomes : FinishTurnSetup(g, w)
        BY <1>20
      <2>0. sup[g].phase = "serving" /\ After(w, "serving") \notin {"none", "ended"}
        BY AfterFacts DEF FinishTurnSetup, Phases, Reading
      <2>1. CASE ~Listening(sup[g].setup) \/ sup[g].turn # None
        <3>1. Others(g) /\ Shape(sup[g], sup'[g]) /\ sup'[g].turn = sup[g].turn
          BY <2>1, DropSetupSup, <2>0 DEF Child, Shape, Reading
        <3>2. QED
          BY <3>1, OneShape
      <2>2. CASE ~(~Listening(sup[g].setup) \/ sup[g].turn # None)
        <3>1. Others(g) /\ Shape(sup[g], sup'[g])
          BY <2>2, StartSup, <2>0 DEF Child, Shape, Reading
        <3>2. QED
          BY <3>1, OneShape DEF Talk
      <2>3. QED
        BY <2>1, <2>2
    <1>21. CASE \E g \in Children : StopDeadline(g)
      <2> PICK g \in Children : StopDeadline(g)
        BY <1>21
      <2>1. Others(g) /\ Shape(sup[g], sup'[g]) /\ sup'[g].turn = sup[g].turn
        BY StopDeadlineSup DEF Child, Shape, Reading
      <2>2. QED
        BY <2>1, OneShape
    <1>22. CASE \E g \in Children : ShutdownSignal(g)
      <2> PICK g \in Children : ShutdownSignal(g)
        BY <1>22
      <2>1. Others(g) /\ Shape(sup[g], sup'[g]) /\ sup'[g].turn = sup[g].turn
        BY ShutdownSignalSup DEF Child, Shape, Reading
      <2>2. QED
        BY <2>1, OneShape
    <1>23. CASE \E g \in Children : OnExit(g)
      <2> PICK g \in Children : OnExit(g)
        BY <1>23
      <2>1. Others(g) /\ Shape(sup[g], sup'[g])
        BY OnExitSup DEF Child, Shape, Reading
      <2>2. QED
        BY <2>1, OneShape DEF Talk
    <1>24. CASE UNCHANGED vars
              \/ (\E k \in Calls : OpenThread(k))
              \/ (\E k \in Calls : SpawnFails(k))
              \/ (\E k \in Calls, op \in TurnOps : StartTurn(k, op))
              \/ (\E k \in Calls : TakeGate(k))
              \/ (\E k \in Calls : Control(k))
              \/ (\E k \in Calls, a \in Asks : TakeAsk(k, a))
              \/ (\E k \in Calls : EnqueueNowhere(k))
              \/ (\E k \in Calls : GiveUp(k))
              \/ (\E k \in Calls, op \in StopOps : StopThread(k, op))
              \/ (\E k \in Calls : Joined(k))
              \/ (\E k \in Calls : Forget(k))
              \/ (\E g \in Children, a \in Asks : Ask(g, a))
      <2>1. UNCHANGED <<sup>>
        BY <1>24 DEF OpenThread, SpawnFails, StartTurn, TakeGate, Control, TakeAsk,
           EnqueueNowhere, GiveUp, StopThread, Joined, Forget, Ask, vars, To
      <2>2. QED
        BY <2>1 DEF Shapes, Shape, TurnsKept, Structure, SessionType, SupType,
           QueueFits
    <1>25. QED
        BY <1>1, <1>2, <1>3, <1>4, <1>5, <1>6, <1>7, <1>8, <1>9, <1>10, <1>11,
           <1>12, <1>13, <1>14, <1>15, <1>16, <1>17, <1>18, <1>19, <1>20, <1>21,
           <1>22, <1>23, <1>24 DEF Next, Caller, StopCall, Commands, Lines, Timers,
           Exits

\* A call that stops a child has done so before.
StopsKept ==
    \A k \in Calls : call'[k].pc \in {"stopping", "joining"} =>
        /\ call[k].pc \in {"stopping", "joining"}
        /\ call'[k].child = call[k].child /\ call'[k].log = call[k].log

\* A step that replies to calls stops nothing.
LEMMA AnswersKept ==
    ASSUME NEW S, Answers(S) PROVE call' \in [Calls -> CallType] /\ StopsKept
    BY DoneFacts DEF Answers, StopsKept

\* Nor does a step of a call that does not go on to a stop.
LEMMA GoesKept ==
    ASSUME NEW k \in Calls, NEW pcs, NEW op, Goes(k, pcs, op),
           "stopping" \notin pcs, "joining" \notin pcs
    PROVE  call' \in [Calls -> CallType] /\ StopsKept
    BY DoneFacts DEF Goes, OneCall, StopsKept

\* Every step keeps the types of the calls, and only stop_thread and shutdown begin a stop.
LEMMA CallStep ==
    Structure /\ [Next]_vars =>
        (call' \in [Calls -> CallType] /\ (StopsKept \/ \E k \in Calls,
        op \in StopOps : StopThread(k, op)))
    <1> SUFFICES ASSUME Structure, [Next]_vars
             PROVE  (call' \in [Calls -> CallType] /\ (StopsKept \/ \E k \in Calls,
                    op \in StopOps : StopThread(k, op)))
        OBVIOUS
    <1>0. MaxCalls \in Nat \ {0} /\ MaxChildren \in Nat \ {0} /\ MaxLogs \in Nat \ {0}
          /\ QueueLimit \in Nat \ {0}
        BY ClaudeSessionAssumption
    <1>1. CASE \E k \in Calls : OpenThread(k)
      <2> PICK k \in Calls : OpenThread(k)
        BY <1>1
      <2>1. Goes(k, {"opening", "gate", "send"}, "open")
        BY OpenThreadCall
      <2>2. QED
        BY <2>1, GoesKept
    <1>2. CASE \E k \in Calls, op \in TurnOps : StartTurn(k, op)
      <2> PICK k \in Calls, op \in TurnOps : StartTurn(k, op)
        BY <1>2
      <2>1. Goes(k, {"gate", "send"}, op)
        BY StartTurnCall
      <2>2. QED
        BY <2>1, GoesKept
    <1>3. CASE \E k \in Calls : TakeGate(k)
      <2> PICK k \in Calls : TakeGate(k)
        BY <1>3
      <2>1. Goes(k, {"spawn", "send"}, call[k].op)
        BY TakeGateCall
      <2>2. QED
        BY <2>1, GoesKept
    <1>4. CASE \E k \in Calls : Respawn(k)
      <2> PICK k \in Calls : Respawn(k)
        BY <1>4
      <2>1. Goes(k, {"send"}, call[k].op)
        BY RespawnCall
      <2>2. QED
        BY <2>1, GoesKept
    <1>5. CASE \E k \in Calls : Control(k)
      <2> PICK k \in Calls : Control(k)
        BY <1>5
      <2>1. Goes(k, {"send"}, "control")
        BY ControlCall
      <2>2. QED
        BY <2>1, GoesKept
    <1>6. CASE \E k \in Calls : EnqueueNowhere(k)
      <2> PICK k \in Calls : EnqueueNowhere(k)
        BY <1>6
      <2>1. Goes(k, {"gate"}, call[k].op)
        BY EnqueueNowhereCall
      <2>2. QED
        BY <2>1, GoesKept
    <1>7. CASE \E k \in Calls : GiveUp(k)
      <2> PICK k \in Calls : GiveUp(k)
        BY <1>7
      <2>1. Goes(k, {"done"}, call[k].op)
        BY GiveUpCall
      <2>2. QED
        BY <2>1, GoesKept
    <1>8. CASE \E k \in Calls, a \in Asks : TakeAsk(k, a)
      <2> PICK k \in Calls, a \in Asks : TakeAsk(k, a)
        BY <1>8
      <2>1. OneCall(k) /\ call'[k].pc \in {"send", "done"}
        BY TakeAskCall, DoneFacts
      <2>2. QED
        BY <2>1 DEF OneCall, StopsKept
    <1>9. CASE \E k \in Calls : RegisterOpened(k)
      <2> PICK k \in Calls : RegisterOpened(k)
        BY <1>9
      <2>1. To(k, "done")
        BY DEF RegisterOpened
      <2>2. OneCall(k) /\ call'[k].pc \notin {"stopping", "joining"}
        BY <2>1, ToFacts, DoneFacts DEF Steps
      <2>3. QED
        BY <2>2 DEF OneCall, StopsKept
    <1>10. CASE \E k \in Calls : SpawnFails(k)
      <2> PICK k \in Calls : SpawnFails(k)
        BY <1>10
      <2>1. To(k, "done")
        BY DEF SpawnFails
      <2>2. OneCall(k) /\ call'[k].pc \notin {"stopping", "joining"}
        BY <2>1, ToFacts, DoneFacts DEF Steps
      <2>3. QED
        BY <2>2 DEF OneCall, StopsKept
    <1>11. CASE \E k \in Calls : Forget(k)
      <2> PICK k \in Calls : Forget(k)
        BY <1>11
      <2>1. To(k, "done")
        BY DEF Forget
      <2>2. OneCall(k) /\ call'[k].pc \notin {"stopping", "joining"}
        BY <2>1, ToFacts, DoneFacts DEF Steps
      <2>3. QED
        BY <2>2 DEF OneCall, StopsKept
    <1>12. CASE \E k \in Calls : Joined(k)
      <2> PICK k \in Calls : Joined(k)
        BY <1>12
      <2>1. To(k, "forget")
        BY DEF Joined
      <2>2. OneCall(k) /\ call'[k].pc \notin {"stopping", "joining"}
        BY <2>1, ToFacts, DoneFacts DEF Steps
      <2>3. QED
        BY <2>2 DEF OneCall, StopsKept
    <1>13. CASE \E k \in Calls : Enqueue(k)
      <2> PICK k \in Calls : Enqueue(k)
        BY <1>13
      <2>1. To(k, "waiting") \/ To(k, "done")
        BY DEF Enqueue
      <2>2. OneCall(k) /\ call'[k].pc \notin {"stopping", "joining"}
        BY <2>1, ToFacts, DoneFacts DEF Steps
      <2>3. QED
        BY <2>2 DEF OneCall, StopsKept
    <1>14. CASE \E k \in Calls : SendStop(k)
      <2> PICK k \in Calls : SendStop(k)
        BY <1>14
      <2>1. To(k, "joining") /\ call[k].pc = "stopping"
        BY DEF SendStop
      <2>2. OneCall(k) /\ call'[k].child = call[k].child /\ call'[k].log = call[k].log
        BY <2>1, ToFacts DEF Steps
      <2>3. QED
        BY <2>1, <2>2 DEF OneCall, StopsKept
    <1>15. CASE \E k \in Calls : StopTimeout(k)
      <2> PICK k \in Calls : StopTimeout(k)
        BY <1>15
      <2> QED
        BY StopTimeoutCall, DoneFacts DEF StopsKept
    <1>16. CASE \E k \in Calls, op \in StopOps : StopThread(k, op)
      <2> PICK k \in Calls, op \in StopOps : StopThread(k, op)
        BY <1>16
      <2>1. OneCall(k)
        BY StopThreadCall DEF Goes
      <2>2. QED
        BY <2>1 DEF OneCall
    <1>17. CASE \E g \in Children : Refuse(g)
      <2> PICK g \in Children : Refuse(g)
        BY <1>17
      <2>1. call' = Replied({NextCommand(g)}) \/ call' = call
        BY DEF Refuse
      <2>2. QED
        BY <2>1, AnswersFacts, AnswersKept
    <1>18. CASE \E g \in Children : OnStop(g)
      <2> PICK g \in Children : OnStop(g)
        BY <1>18
      <2>1. call' = Replied({sup[g].setup}) \/ call' = call
        BY DEF OnStop
      <2>2. QED
        BY <2>1, AnswersFacts, AnswersKept
    <1>19. CASE \E g \in Children : BeginTurnSetup(g)
      <2> PICK g \in Children : BeginTurnSetup(g)
        BY <1>19
      <2>1. call' = Replied({NextCommand(g)}) \/ call' = call
        BY DEF BeginTurnSetup
      <2>2. QED
        BY <2>1, AnswersFacts, AnswersKept
    <1>20. CASE \E g \in Children, w \in Outcomes : Compact(g, w)
      <2> PICK g \in Children, w \in Outcomes : Compact(g, w)
        BY <1>20
      <2>1. call' = Replied({NextCommand(g)}) \/ call' = call
        BY DEF Compact, Begun, Written
      <2>2. QED
        BY <2>1, AnswersFacts, AnswersKept
    <1>21. CASE \E g \in Children, fits \in BOOLEAN, w \in Outcomes : Respond(g, fits, w)
      <2> PICK g \in Children, fits \in BOOLEAN, w \in Outcomes : Respond(g, fits, w)
        BY <1>21
      <2>1. call' = Replied({NextCommand(g)}) \/ call' = call
        BY DEF Respond, Written
      <2>2. QED
        BY <2>1, AnswersFacts, AnswersKept
    <1>22. CASE \E g \in Children, k \in Calls : ControlResponse(g, k)
      <2> PICK g \in Children, k \in Calls : ControlResponse(g, k)
        BY <1>22
      <2>1. call' = Replied({k}) \/ call' = call
        BY DEF ControlResponse
      <2>2. QED
        BY <2>1, AnswersFacts, AnswersKept
    <1>23. CASE \E g \in Children : FailTurnSetup(g)
      <2> PICK g \in Children : FailTurnSetup(g)
        BY <1>23
      <2>1. call' = Replied({sup[g].setup}) \/ call' = call
        BY DEF FailTurnSetup
      <2>2. QED
        BY <2>1, AnswersFacts, AnswersKept
    <1>24. CASE \E g \in Children, w \in Outcomes : FinishTurnSetup(g, w)
      <2> PICK g \in Children, w \in Outcomes : FinishTurnSetup(g, w)
        BY <1>24
      <2>1. call' = Replied({sup[g].setup}) \/ call' = call
        BY DEF FinishTurnSetup, Begun, Written
      <2>2. QED
        BY <2>1, AnswersFacts, AnswersKept
    <1>25. CASE \E g \in Children : ShutdownSignal(g)
      <2> PICK g \in Children : ShutdownSignal(g)
        BY <1>25
      <2>1. call' = Replied({sup[g].setup}) \/ call' = call
        BY DEF ShutdownSignal
      <2>2. QED
        BY <2>1, AnswersFacts, AnswersKept
    <1>26. CASE \E g \in Children : OnExit(g)
      <2> PICK g \in Children : OnExit(g)
        BY <1>26
      <2>1. call' = Replied(sup[g].waiters \cup {sup[g].setup}) \/ call' = call
        BY DEF OnExit
      <2>2. QED
        BY <2>1, AnswersFacts, AnswersKept
    <1>27. CASE \E g \in Children : Unregister(g)
      <2> PICK g \in Children : Unregister(g)
        BY <1>27
      <2>1. call' = Replied(Owed(g)) \/ call' = call
        BY DEF Unregister
      <2>2. QED
        BY <2>1, AnswersFacts, AnswersKept
    <1>28. CASE UNCHANGED vars
              \/ (\E g \in Children : SendControl(g))
              \/ (\E g \in Children : OwnTurn(g))
              \/ (\E g \in Children : TurnResult(g))
              \/ (\E g \in Children : StdoutEnds(g))
              \/ (\E g \in Children, a \in Asks : Ask(g, a))
              \/ (\E g \in Children, a \in Asks : CancelRequest(g, a))
              \/ (\E g \in Children : Reap(g))
              \/ (\E g \in Children : StopDeadline(g))
      <2>1. UNCHANGED <<call>>
        BY <1>28 DEF SendControl, OwnTurn, TurnResult, StdoutEnds, Ask,
           CancelRequest, Reap, StopDeadline, vars, To
      <2>2. QED
        BY <2>1 DEF StopsKept, Structure, SessionType
    <1>29. QED
        BY <1>1, <1>2, <1>3, <1>4, <1>5, <1>6, <1>7, <1>8, <1>9, <1>10, <1>11,
           <1>12, <1>13, <1>14, <1>15, <1>16, <1>17, <1>18, <1>19, <1>20, <1>21,
           <1>22, <1>23, <1>24, <1>25, <1>26, <1>27, <1>28 DEF Next, Caller,
           StopCall, Commands, Lines, Timers, Exits

\* A log that was opened stays opened, and one that was not shows no turn.
LogsKept ==
    /\ logs' \in [Logs -> LogType]
    /\ \A i \in Logs : logs[i].state # "none" => logs'[i].state # "none"
    /\ \A i \in Logs : logs'[i].state = "none" => logs'[i].turn = None

\* Closing a log and appending to one.
LEMMA LogUpdate ==
    ASSUME Structure, NEW i \in Logs, NEW g \in Children, NEW t \in Turns,
           logs' = Closed(i) \/ logs' = Appended(g, t) \/ logs' = logs
    PROVE  LogsKept
    <1>1. logs \in [Logs -> LogType] /\ sup[g].log \in 0..MaxLogs
          /\ (sup[g].log = 0 \/ sup[g].log \in Logs) /\ 0 \in 0..(MaxCalls + 1)
        BY ChildFacts, Zeros DEF Structure, SessionType
    <1>2. CASE logs' = logs
        BY <1>1, <1>2 DEF LogsKept, Structure, Registered
    <1>3. CASE logs' = Closed(i)
      <2>1. logs' \in [Logs -> LogType] /\ logs'[i].state = "closed"
            /\ \A j \in Logs : j # i => logs'[j] = logs[j]
        BY <1>1, <1>3 DEF Closed, LogType
      <2>2. QED
        BY <2>1 DEF LogsKept, Structure, Registered
    <1>4. CASE logs' = Appended(g, t) /\ logs' # logs
      <2> DEFINE j == sup[g].log
      <2>1. logs' = [logs EXCEPT ![j].turn = t] /\ logs[j].state = "open"
        BY <1>4 DEF Appended
      <2>2. \A n \in Logs : n # j => logs'[n] = logs[n]
        BY <1>1, <2>1
      <2>5. \A n \in Logs : [logs[n] EXCEPT !.turn = t] \in LogType
        BY <1>1 DEF LogType
      <2>6. logs' \in [Logs -> LogType]
        BY <1>1, <2>1, <2>5
      <2>3. logs' \in [Logs -> LogType] /\ (j \in Logs => logs'[j].state = "open")
        BY <1>1, <2>1, <2>6 DEF LogType
      <2> HIDE DEF j
      <2>4. QED
        BY <2>1, <2>2, <2>3 DEF LogsKept, Structure, Registered
    <1>5. QED
        BY <1>2, <1>3, <1>4

\* Every step keeps the types of the logs and the logs that were opened.
LEMMA LogStep == Structure /\ [Next]_vars => LogsKept
    <1> SUFFICES ASSUME Structure, [Next]_vars PROVE LogsKept
        OBVIOUS
    <1>0. MaxCalls \in Nat \ {0} /\ MaxChildren \in Nat \ {0} /\ MaxLogs \in Nat \ {0}
          /\ QueueLimit \in Nat \ {0}
        BY ClaudeSessionAssumption
    <1>1. CASE \E k \in Calls : RegisterOpened(k)
      <2> PICK k \in Calls : RegisterOpened(k)
        BY <1>1
      <2>1. CASE logs' = logs
        BY <2>1 DEF LogsKept, Structure, SessionType, Registered
      <2>2. CASE logs' # logs
        <3>1. logs' = [logs EXCEPT ![NextLog].state = "open"] /\ NextLog \in Logs
          BY <2>2, NextLogUnused DEF RegisterOpened
        <3>2. /\ logs' \in [Logs -> LogType] /\ logs'[NextLog].state = "open"
              /\ \A j \in Logs : j # NextLog => logs'[j] = logs[j]
          BY <3>1 DEF Structure, SessionType, LogType
        <3>3. QED
          BY <3>1, <3>2 DEF LogsKept, Structure, Registered
      <2>3. QED
        BY <2>1, <2>2
    <1>2. CASE \E k \in Calls, op \in StopOps : StopThread(k, op)
      <2> PICK k \in Calls, op \in StopOps : StopThread(k, op)
        BY <1>2
      <2>1. 1 \in Children /\ 0 \in Turns
        BY <1>0
      <2>2. CASE entry.log # None /\ entry.child = None
        <3>1. entry.log \in Logs /\ logs' = Closed(entry.log)
          BY <1>0, <2>2 DEF StopThread, Structure, SessionType, EntryType
        <3>2. QED
          BY <2>1, <3>1, LogUpdate
      <2>3. CASE ~(entry.log # None /\ entry.child = None)
        <3>1. logs' = logs /\ 1 \in Logs
          BY <1>0, <2>3 DEF StopThread
        <3>2. QED
          BY <2>1, <3>1, LogUpdate
      <2>4. QED
        BY <2>2, <2>3
    <1>3. CASE \E k \in Calls : StopTimeout(k)
      <2> PICK k \in Calls : StopTimeout(k)
        BY <1>3
      <2>1. call[k].child \in Children /\ call[k].log \in Logs /\ 0 \in Turns
            /\ logs' = Closed(call[k].log)
        BY <1>0 DEF StopTimeout, Structure, Stopped, Registered
      <2>2. QED
        BY <2>1, LogUpdate
    <1>4. CASE \E g \in Children, w \in Outcomes : Compact(g, w)
      <2> PICK g \in Children, w \in Outcomes : Compact(g, w)
        BY <1>4
      <2>1. logs' = logs \/ (logs' = Appended(g, NextCommand(g)) /\ NextCommand(g) \in Calls)
        BY CompactSup DEF Compact, Begun
      <2>2. 1 \in Logs /\ 0 \in Turns /\ \A j \in Calls : j \in Turns
        BY <1>0
      <2>3. QED
        BY <2>1, <2>2, LogUpdate
    <1>5. CASE \E g \in Children, w \in Outcomes : FinishTurnSetup(g, w)
      <2> PICK g \in Children, w \in Outcomes : FinishTurnSetup(g, w)
        BY <1>5
      <2>1. logs' = logs \/ logs' = Appended(g, sup[g].setup)
        BY DEF FinishTurnSetup, Begun
      <2>2. 1 \in Logs /\ sup[g].setup \in Turns
        BY <1>0, ChildFacts DEF Structure
      <2>3. QED
        BY <2>1, <2>2, LogUpdate
    <1>6. CASE \E g \in Children : OwnTurn(g)
      <2> PICK g \in Children : OwnTurn(g)
        BY <1>6
      <2>1. logs' = Appended(g, Own) /\ 1 \in Logs /\ Own \in Turns
        BY <1>0 DEF OwnTurn
      <2>2. QED
        BY <2>1, LogUpdate
    <1>7. CASE \E g \in Children : TurnResult(g)
      <2> PICK g \in Children : TurnResult(g)
        BY <1>7
      <2>1. logs' = Appended(g, 0) /\ 1 \in Logs /\ 0 \in Turns
        BY <1>0 DEF TurnResult
      <2>2. QED
        BY <2>1, LogUpdate
    <1>8. CASE \E g \in Children : OnExit(g)
      <2> PICK g \in Children : OnExit(g)
        BY <1>8
      <2>1. (logs' = logs \/ logs' = Closed(sup[g].log)) /\ sup[g].log \in Logs /\ 0 \in Turns
        BY <1>0 DEF OnExit, Structure, Registered
      <2>2. QED
        BY <2>1, LogUpdate
    <1>9. CASE UNCHANGED vars
              \/ (\E k \in Calls : OpenThread(k))
              \/ (\E k \in Calls : SpawnFails(k))
              \/ (\E k \in Calls, op \in TurnOps : StartTurn(k, op))
              \/ (\E k \in Calls : TakeGate(k))
              \/ (\E k \in Calls : Respawn(k))
              \/ (\E k \in Calls : Control(k))
              \/ (\E k \in Calls, a \in Asks : TakeAsk(k, a))
              \/ (\E k \in Calls : EnqueueNowhere(k))
              \/ (\E k \in Calls : Enqueue(k))
              \/ (\E k \in Calls : GiveUp(k))
              \/ (\E k \in Calls : SendStop(k))
              \/ (\E k \in Calls : Joined(k))
              \/ (\E k \in Calls : Forget(k))
              \/ (\E g \in Children : Refuse(g))
              \/ (\E g \in Children : OnStop(g))
              \/ (\E g \in Children : BeginTurnSetup(g))
              \/ (\E g \in Children : SendControl(g))
              \/ (\E g \in Children, fits \in BOOLEAN, w \in Outcomes : Respond(g, fits, w))
              \/ (\E g \in Children : StdoutEnds(g))
              \/ (\E g \in Children, a \in Asks : Ask(g, a))
              \/ (\E g \in Children, a \in Asks : CancelRequest(g, a))
              \/ (\E g \in Children, k \in Calls : ControlResponse(g, k))
              \/ (\E g \in Children : FailTurnSetup(g))
              \/ (\E g \in Children : Reap(g))
              \/ (\E g \in Children : StopDeadline(g))
              \/ (\E g \in Children : ShutdownSignal(g))
              \/ (\E g \in Children : Unregister(g))
      <2>1. UNCHANGED <<logs>>
        BY <1>9 DEF OpenThread, SpawnFails, StartTurn, TakeGate, Respawn, Control,
           TakeAsk, EnqueueNowhere, Enqueue, GiveUp, SendStop, Joined, Forget,
           Refuse, OnStop, BeginTurnSetup, SendControl, Respond, StdoutEnds, Ask,
           CancelRequest, ControlResponse, FailTurnSetup, Reap, StopDeadline,
           ShutdownSignal, Unregister, vars, To
      <2>2. QED
        BY <2>1 DEF LogsKept, Structure, SessionType, Registered
    <1>10. QED
        BY <1>1, <1>2, <1>3, <1>4, <1>5, <1>6, <1>7, <1>8, <1>9 DEF Next, Caller,
           StopCall, Commands, Lines, Timers, Exits

\* Who raised an ask is known from when it was raised.
AskersKept ==
    \A a \in Asks : \/ cli'[a].child = cli[a].child
                    \/ \E g \in Children : cli'[a].child = g /\ sup[g].phase # "none"

\* What the CLI is told, and what it forgets.
LEMMA CliUpdate ==
    ASSUME Structure, NEW g, NEW A,
           cli' = Gone(g) \/ cli' = Staled(g) \/ cli' = Told(g, A) \/ cli' = cli
    PROVE  /\ cli' \in [Asks -> AskType] /\ AskersKept
           /\ \A a \in Asks : cli'[a].child = cli[a].child
           /\ \A a \in Asks : cli'[a].state \in {"unused", "awaiting", "withdrawn"}
                                 => cli'[a].state = cli[a].state
    <1>1. cli \in [Asks -> AskType]
        BY DEF Structure, SessionType, AsksType
    <1>2. CASE cli' = Gone(g)
        BY <1>1, <1>2 DEF Gone, AskType, AskStates, AskersKept
    <1>3. CASE cli' = Staled(g)
        BY <1>1, <1>3 DEF Staled, AskType, AskStates, AskersKept
    <1>4. CASE cli' = Told(g, A)
        BY <1>1, <1>4 DEF Told, AskType, AskStates, AskersKept
    <1>5. CASE cli' = cli
        BY <1>1, <1>5 DEF AskersKept
    <1>6. QED
        BY <1>2, <1>3, <1>4, <1>5

\* Every step keeps the types of the asks and who raised them.
LEMMA AskStep == Structure /\ [Next]_vars => (AsksType' /\ AskersKept)
    <1> SUFFICES ASSUME Structure, [Next]_vars PROVE (AsksType' /\ AskersKept)
        OBVIOUS
    <1>0. MaxCalls \in Nat \ {0} /\ MaxChildren \in Nat \ {0} /\ MaxLogs \in Nat \ {0}
          /\ QueueLimit \in Nat \ {0}
        BY ClaudeSessionAssumption
    <1>1. CASE \E k \in Calls, a \in Asks : TakeAsk(k, a)
      <2> PICK k \in Calls, a \in Asks : TakeAsk(k, a)
        BY <1>1
      <2> QED
        BY DEF TakeAsk, AskersKept, Structure, SessionType, AsksType
    <1>2. CASE \E k \in Calls : Enqueue(k)
      <2> PICK k \in Calls : Enqueue(k)
        BY <1>2
      <2>1. call[k].ask \subseteq Asks /\ UNCHANGED <<pending, cli>>
            /\ (lost' = lost \/ lost' = lost \cup call[k].ask)
        BY DEF Enqueue, Structure, SessionType, CallType
      <2>2. QED
        BY <2>1 DEF AskersKept, Structure, SessionType, AsksType
    <1>3. CASE \E k \in Calls : StopTimeout(k)
      <2> PICK k \in Calls : StopTimeout(k)
        BY <1>3
      <2>1. cli' = Gone(call[k].child) /\ pending' = pending
            /\ lost' \subseteq lost
        BY DEF StopTimeout, Live
      <2>2. cli' \in [Asks -> AskType] /\ AskersKept
        BY <2>1, CliUpdate
      <2>3. QED
        BY <2>1, <2>2 DEF Structure, SessionType, AsksType
    <1>4. CASE \E k \in Calls : Forget(k)
      <2> PICK k \in Calls : Forget(k)
        BY <1>4
      <2> QED
        BY DEF Forget, AskersKept, Structure, SessionType, AsksType
    <1>5. CASE \E g \in Children, w \in Outcomes : Compact(g, w)
      <2> PICK g \in Children, w \in Outcomes : Compact(g, w)
        BY <1>5
      <2>1. (cli' = cli \/ cli' = Staled(g)) /\ UNCHANGED <<pending, lost>>
        BY DEF Compact, Begun
      <2>2. cli' \in [Asks -> AskType] /\ AskersKept
        BY <2>1, CliUpdate
      <2>3. QED
        BY <2>1, <2>2 DEF Structure, SessionType, AsksType
    <1>6. CASE \E g \in Children, fits \in BOOLEAN, w \in Outcomes : Respond(g, fits, w)
      <2> PICK g \in Children, fits \in BOOLEAN, w \in Outcomes : Respond(g, fits, w)
        BY <1>6
      <2> DEFINE A == call[NextCommand(g)].ask
      <2>1. /\ cli' = cli \/ cli' = Told(g, A)
            /\ pending' = pending \/ pending' = pending \cup A
            /\ lost' = lost
        BY DEF Respond
      <2>2. A \subseteq Asks
        <3>1. NextCommand(g) \in Calls
          BY PoppedFacts DEF Respond, Serves, Structure, SessionType
        <3>2. QED
          BY <3>1 DEF Structure, SessionType, CallType
      <2> HIDE DEF A
      <2>3. cli' \in [Asks -> AskType] /\ AskersKept
        BY <2>1, CliUpdate
      <2>4. QED
        BY <2>1, <2>2, <2>3 DEF Structure, SessionType, AsksType
    <1>7. CASE \E g \in Children, a \in Asks : Ask(g, a)
      <2> PICK g \in Children, a \in Asks : Ask(g, a)
        BY <1>7
      <2>1. /\ cli' = [cli EXCEPT ![a] = [child |-> g, state |-> "awaiting"]]
            /\ pending' \subseteq pending \cup {a} /\ lost' = lost /\ sup[g].phase # "none"
        BY DEF Ask, Hears, Reading
      <2>2. g \in 0..MaxChildren /\ cli \in [Asks -> AskType]
        BY <1>0 DEF Structure, SessionType, AsksType
      <2>3. cli' \in [Asks -> AskType] /\ cli'[a].child = g
            /\ \A x \in Asks : x # a => cli'[x] = cli[x]
        BY <2>1, <2>2 DEF AskType, AskStates
      <2>4. QED
        BY <2>1, <2>3 DEF AskersKept, Structure, SessionType, AsksType
    <1>8. CASE \E g \in Children, a \in Asks : CancelRequest(g, a)
      <2> PICK g \in Children, a \in Asks : CancelRequest(g, a)
        BY <1>8
      <2>1. /\ cli' = [cli EXCEPT ![a].state = "withdrawn"]
            /\ pending' \subseteq pending /\ lost' = lost /\ cli \in [Asks -> AskType]
        BY DEF CancelRequest, Structure, SessionType, AsksType
      <2>2. cli' \in [Asks -> AskType] /\ cli'[a].child = cli[a].child
            /\ \A x \in Asks : x # a => cli'[x] = cli[x]
        BY <2>1 DEF AskType, AskStates
      <2>3. QED
        BY <2>1, <2>2 DEF AskersKept, Structure, SessionType, AsksType
    <1>9. CASE \E g \in Children, w \in Outcomes : FinishTurnSetup(g, w)
      <2> PICK g \in Children, w \in Outcomes : FinishTurnSetup(g, w)
        BY <1>9
      <2>1. (cli' = cli \/ cli' = Staled(g)) /\ UNCHANGED <<pending, lost>>
        BY DEF FinishTurnSetup, Begun
      <2>2. cli' \in [Asks -> AskType] /\ AskersKept
        BY <2>1, CliUpdate
      <2>3. QED
        BY <2>1, <2>2 DEF Structure, SessionType, AsksType
    <1>10. CASE \E g \in Children : OnExit(g)
      <2> PICK g \in Children : OnExit(g)
        BY <1>10
      <2>1. cli' = Gone(g) /\ pending' \subseteq pending /\ lost' \subseteq lost \cup pending
        BY DEF OnExit, Live
      <2>2. cli' \in [Asks -> AskType] /\ AskersKept
        BY <2>1, CliUpdate
      <2>3. QED
        BY <2>1, <2>2 DEF Structure, SessionType, AsksType
    <1>11. CASE UNCHANGED vars
              \/ (\E k \in Calls : OpenThread(k))
              \/ (\E k \in Calls : RegisterOpened(k))
              \/ (\E k \in Calls : SpawnFails(k))
              \/ (\E k \in Calls, op \in TurnOps : StartTurn(k, op))
              \/ (\E k \in Calls : TakeGate(k))
              \/ (\E k \in Calls : Respawn(k))
              \/ (\E k \in Calls : Control(k))
              \/ (\E k \in Calls : EnqueueNowhere(k))
              \/ (\E k \in Calls : GiveUp(k))
              \/ (\E k \in Calls, op \in StopOps : StopThread(k, op))
              \/ (\E k \in Calls : SendStop(k))
              \/ (\E k \in Calls : Joined(k))
              \/ (\E g \in Children : Refuse(g))
              \/ (\E g \in Children : OnStop(g))
              \/ (\E g \in Children : BeginTurnSetup(g))
              \/ (\E g \in Children : SendControl(g))
              \/ (\E g \in Children : OwnTurn(g))
              \/ (\E g \in Children : TurnResult(g))
              \/ (\E g \in Children : StdoutEnds(g))
              \/ (\E g \in Children, k \in Calls : ControlResponse(g, k))
              \/ (\E g \in Children : FailTurnSetup(g))
              \/ (\E g \in Children : Reap(g))
              \/ (\E g \in Children : StopDeadline(g))
              \/ (\E g \in Children : ShutdownSignal(g))
              \/ (\E g \in Children : Unregister(g))
      <2>1. UNCHANGED <<pending, lost, cli>>
        BY <1>11 DEF OpenThread, RegisterOpened, SpawnFails, StartTurn, TakeGate,
           Respawn, Control, EnqueueNowhere, GiveUp, StopThread, SendStop, Joined,
           Refuse, OnStop, BeginTurnSetup, SendControl, OwnTurn, TurnResult,
           StdoutEnds, ControlResponse, FailTurnSetup, Reap, StopDeadline,
           ShutdownSignal, Unregister, vars, To
      <2>2. QED
        BY <2>1 DEF AskersKept, Structure, SessionType, AsksType
    <1>12. QED
        BY <1>1, <1>2, <1>3, <1>4, <1>5, <1>6, <1>7, <1>8, <1>9, <1>10, <1>11 DEF
           Next, Caller, StopCall, Commands, Lines, Timers, Exits

\* The gate of an entry is taken or released.
LEMMA GateUpdate ==
    ASSUME Structure, NEW i, NEW v \in 0..MaxCalls
    PROVE  [gate EXCEPT ![i] = v] \in [Logs -> 0..MaxCalls]
    <1>1. gate \in [Logs -> 0..MaxCalls]
        BY DEF Structure, SessionType
    <1>2. QED
        BY <1>1

\* Every step keeps the types of the entry and of the gate.
LEMMA EntryStep ==
    Structure /\ [Next]_vars =>
        (entry' \in EntryType /\ gate' \in [Logs -> 0..MaxCalls])
    <1> SUFFICES ASSUME Structure, [Next]_vars
             PROVE  (entry' \in EntryType /\ gate' \in [Logs -> 0..MaxCalls])
        OBVIOUS
    <1>0. MaxCalls \in Nat \ {0} /\ MaxChildren \in Nat \ {0} /\ MaxLogs \in Nat \ {0}
          /\ QueueLimit \in Nat \ {0}
        BY ClaudeSessionAssumption
    <1>1. CASE \E k \in Calls : RegisterOpened(k)
      <2> PICK k \in Calls : RegisterOpened(k)
        BY <1>1
      <2>1. gate' = gate /\ (sup' = sup => entry' = entry \/ entry' = [log |-> NextLog,
              child |-> NextChild])
        BY DEF RegisterOpened
      <2>2. CASE entry' = entry
        BY <2>1, <2>2 DEF Structure, SessionType
      <2>3. CASE entry' # entry
        <3>1. /\ entry' = [log |-> NextLog, child |-> NextChild]
              /\ Unused(sup) # {} /\ \E i \in Logs : logs[i].state = "none"
          BY <2>3 DEF RegisterOpened
        <3>2. NextLog \in Logs /\ NextChild \in Children
          BY <3>1, NextLogUnused, NextChildUnused DEF Structure, SessionType
        <3>3. QED
          BY <1>0, <2>1, <3>1, <3>2 DEF Structure, SessionType, EntryType
      <2>4. QED
        BY <2>2, <2>3
    <1>2. CASE \E k \in Calls : SpawnFails(k)
      <2> PICK k \in Calls : SpawnFails(k)
        BY <1>2
      <2>1. (gate' = gate \/ gate' = [gate EXCEPT ![call[k].log] = 0]) /\ entry' = entry
        BY DEF SpawnFails, Released
      <2>2. QED
        BY <2>1, Zeros, GateUpdate DEF Structure, SessionType
    <1>3. CASE \E k \in Calls : TakeGate(k)
      <2> PICK k \in Calls : TakeGate(k)
        BY <1>3
      <2>1. (gate' = gate \/ gate' = [gate EXCEPT ![call[k].log] = k]) /\ entry' = entry
            /\ k \in 0..MaxCalls
        BY <1>0 DEF TakeGate
      <2>2. QED
        BY <2>1, GateUpdate DEF Structure, SessionType
    <1>4. CASE \E k \in Calls : Respawn(k)
      <2> PICK k \in Calls : Respawn(k)
        BY <1>4
      <2>1. gate' \in [Logs -> 0..MaxCalls]
        <3>1. gate' = [gate EXCEPT ![call[k].log] = 0]
          BY DEF Respawn, Released
        <3>2. QED
          BY <3>1, Zeros, GateUpdate
      <2>2. CASE entry' = entry
        BY <2>1, <2>2 DEF Structure, SessionType
      <2>3. CASE entry' # entry
        <3>1. entry' = [entry EXCEPT !.child = NextChild] /\ Unused(sup) # {}
          BY <2>3 DEF Respawn
        <3>2. NextChild \in 0..MaxChildren
          BY <1>0, <3>1, NextChildUnused DEF Structure, SessionType
        <3>3. QED
          BY <2>1, <3>1, <3>2 DEF Structure, SessionType, EntryType
      <2>4. QED
        BY <2>2, <2>3
    <1>5. CASE \E k \in Calls, op \in StopOps : StopThread(k, op)
      <2> PICK k \in Calls, op \in StopOps : StopThread(k, op)
        BY <1>5
      <2>1. entry' = [log |-> 0, child |-> 0] /\ gate' = gate
        BY DEF StopThread, NoEntry
      <2>2. QED
        BY <1>0, <2>1 DEF Structure, SessionType, EntryType
    <1>6. CASE \E g \in Children : Reap(g)
      <2> PICK g \in Children : Reap(g)
        BY <1>6
      <2>1. (entry' = entry \/ entry' = [entry EXCEPT !.child = 0]) /\ gate' = gate
        BY DEF Reap
      <2>2. QED
        BY <1>0, <2>1 DEF Structure, SessionType, EntryType
    <1>7. CASE \E g \in Children : Unregister(g)
      <2> PICK g \in Children : Unregister(g)
        BY <1>7
      <2>1. (entry' = entry \/ entry' = [log |-> 0, child |-> 0]) /\ gate' = gate
        BY DEF Unregister, NoEntry
      <2>2. QED
        BY <1>0, <2>1 DEF Structure, SessionType, EntryType
    <1>8. CASE UNCHANGED vars
              \/ (\E k \in Calls : OpenThread(k))
              \/ (\E k \in Calls, op \in TurnOps : StartTurn(k, op))
              \/ (\E k \in Calls : Control(k))
              \/ (\E k \in Calls, a \in Asks : TakeAsk(k, a))
              \/ (\E k \in Calls : EnqueueNowhere(k))
              \/ (\E k \in Calls : Enqueue(k))
              \/ (\E k \in Calls : GiveUp(k))
              \/ (\E k \in Calls : SendStop(k))
              \/ (\E k \in Calls : Joined(k))
              \/ (\E k \in Calls : StopTimeout(k))
              \/ (\E k \in Calls : Forget(k))
              \/ (\E g \in Children : Refuse(g))
              \/ (\E g \in Children : OnStop(g))
              \/ (\E g \in Children : BeginTurnSetup(g))
              \/ (\E g \in Children : SendControl(g))
              \/ (\E g \in Children, w \in Outcomes : Compact(g, w))
              \/ (\E g \in Children, fits \in BOOLEAN, w \in Outcomes : Respond(g, fits, w))
              \/ (\E g \in Children : OwnTurn(g))
              \/ (\E g \in Children : TurnResult(g))
              \/ (\E g \in Children : StdoutEnds(g))
              \/ (\E g \in Children, a \in Asks : Ask(g, a))
              \/ (\E g \in Children, a \in Asks : CancelRequest(g, a))
              \/ (\E g \in Children, k \in Calls : ControlResponse(g, k))
              \/ (\E g \in Children : FailTurnSetup(g))
              \/ (\E g \in Children, w \in Outcomes : FinishTurnSetup(g, w))
              \/ (\E g \in Children : StopDeadline(g))
              \/ (\E g \in Children : ShutdownSignal(g))
              \/ (\E g \in Children : OnExit(g))
      <2>1. UNCHANGED <<entry, gate>>
        BY <1>8 DEF OpenThread, StartTurn, Control, TakeAsk, EnqueueNowhere,
           Enqueue, GiveUp, SendStop, Joined, StopTimeout, Forget, Refuse, OnStop,
           BeginTurnSetup, SendControl, Compact, Respond, OwnTurn, TurnResult,
           StdoutEnds, Ask, CancelRequest, ControlResponse, FailTurnSetup,
           FinishTurnSetup, StopDeadline, ShutdownSignal, OnExit, vars, To
      <2>2. QED
        BY <2>1 DEF Structure, SessionType
    <1>9. QED
        BY <1>1, <1>2, <1>3, <1>4, <1>5, <1>6, <1>7, <1>8 DEF Next, Caller,
           StopCall, Commands, Lines, Timers, Exits

\* The types are kept.
LEMMA TypeStep == Structure /\ [Next]_vars => SessionType'
    <1> SUFFICES ASSUME Structure, [Next]_vars PROVE SessionType'
        OBVIOUS
    <1>1. SupType' /\ QueueFits'
        BY ShapeStep
    <1>2. call' \in [Calls -> CallType]
        BY CallStep
    <1>3. logs' \in [Logs -> LogType]
        BY LogStep DEF LogsKept
    <1>4. AsksType'
        BY AskStep
    <1>5. entry' \in EntryType /\ gate' \in [Logs -> 0..MaxCalls]
        BY EntryStep
    <1>6. QED
        BY <1>1, <1>2, <1>3, <1>4, <1>5 DEF SessionType

\* Every child stays on its log, and a spawned one gets a log that was opened.
Succession ==
    /\ \A g \in Children : sup[g].phase # "none" =>
            sup'[g].phase # "none" /\ sup'[g].log = sup[g].log
    /\ \A g \in Children : sup[g].phase = "none" =>
            \/ sup'[g] = sup[g]
            \/ /\ sup'[g].phase # "none" /\ sup'[g].log \in Logs
               /\ logs'[sup'[g].log].state # "none"
    /\ \/ entry'.log \in {0, entry.log}
       \/ entry'.log \in Logs /\ logs'[entry'.log].state # "none"

\* A succession of children keeps the order in which things come into being.
LEMMA RegisteredFrom ==
    ASSUME Structure, LogsKept, AskersKept, Succession, cli' \in [Asks -> AskType]
    PROVE  Registered'
    <1>0. MaxLogs \in Nat \ {0} /\ MaxChildren \in Nat \ {0}
        BY ClaudeSessionAssumption
    <1>1. ASSUME NEW g \in Children
          PROVE  IF sup'[g].phase = "none" THEN sup'[g] = Child0
                 ELSE sup'[g].log \in Logs /\ logs'[sup'[g].log].state # "none"
      <2>1. CASE sup[g].phase = "none"
        BY <2>1, Child0Facts DEF Succession, Structure, Registered
      <2>2. CASE sup[g].phase # "none"
        BY <2>2 DEF Succession, Structure, Registered, LogsKept
      <2>3. QED
        BY <2>1, <2>2
    <1>2. entry'.log # None => logs'[entry'.log].state # "none"
      <2>1. entry.log \in 0..MaxLogs
        BY DEF Structure, SessionType, EntryType
      <2>2. QED
        BY <1>0, <2>1 DEF Succession, Structure, Registered, LogsKept
    <1>3. ASSUME NEW a \in Asks, cli'[a].child # None PROVE sup'[cli'[a].child].phase # "none"
      <2>1. cli'[a].child \in Children
        BY <1>0, <1>3 DEF AskType
      <2>2. sup[cli'[a].child].phase # "none"
        BY <1>3, <2>1 DEF AskersKept, Structure, Registered
      <2>3. QED
        BY <2>1, <2>2 DEF Succession
    <1>4. QED
        BY <1>1, <1>2, <1>3 DEF Registered, LogsKept

\* Every step is a succession.
LEMMA SuccessionStep == Structure /\ [Next]_vars => Succession
    <1> SUFFICES ASSUME Structure, [Next]_vars PROVE Succession
        OBVIOUS
    <1>0. MaxCalls \in Nat \ {0} /\ MaxChildren \in Nat \ {0} /\ MaxLogs \in Nat \ {0}
          /\ QueueLimit \in Nat \ {0}
        BY ClaudeSessionAssumption
    <1>a. SupType /\ logs \in [Logs -> LogType] /\ entry \in EntryType
        BY DEF Structure, SessionType
    <1>1. CASE \E k \in Calls : RegisterOpened(k)
      <2> PICK k \in Calls : RegisterOpened(k)
        BY <1>1
      <2>1. CASE UNCHANGED <<entry, logs, sup>>
        BY <2>1 DEF Succession
      <2>2. CASE ~UNCHANGED <<entry, logs, sup>>
        <3>1. /\ Others(NextChild) /\ NextChild \in Children /\ sup[NextChild] = Child0
              /\ Child(sup'[NextChild], "serving", FALSE, NextLog, <<>>, 0, 0, {}, {})
              /\ entry' = [log |-> NextLog, child |-> NextChild] /\ NextLog \in Logs
              /\ logs' = [logs EXCEPT ![NextLog].state = "open"] /\ cli' = cli
          BY <2>2, RegisterOpenedSup DEF RegisterOpened
        <3>2. logs'[NextLog].state = "open" /\ entry'.log = NextLog
          BY <1>a, <3>1 DEF LogType
        <3>3. Child0.phase = "none"
          BY Child0Facts
        <3>4. QED
          BY <1>0, <3>1, <3>2, <3>3 DEF Others, Child, Succession
      <2>3. QED
        BY <2>1, <2>2
    <1>2. CASE \E k \in Calls : Respawn(k)
      <2> PICK k \in Calls : Respawn(k)
        BY <1>2
      <2>1. CASE UNCHANGED <<entry, sup>>
        BY <2>1 DEF Succession
      <2>2. CASE ~UNCHANGED <<entry, sup>>
        <3>1. /\ Others(NextChild) /\ NextChild \in Children
              /\ Child(sup'[NextChild], "serving", FALSE, entry.log, <<>>, 0, 0, {}, {})
              /\ entry' = [log |-> entry.log, child |-> NextChild] /\ entry.log \in Logs
              /\ logs' = logs /\ cli' = cli
          BY <2>2, RespawnSup DEF Respawn
        <3>2. entry.log # None /\ entry'.log = entry.log
          BY <1>0, <3>1
        <3>3. Child0.phase = "none" /\ sup[NextChild] = Child0
                /\ logs'[entry.log].state # "none"
          BY <2>2, <3>1, <3>2, RespawnSup, Child0Facts DEF Structure, Registered
        <3>4. QED
          BY <1>0, <3>1, <3>2, <3>3 DEF Others, Child, Succession
      <2>3. QED
        BY <2>1, <2>2
    <1>3. CASE \E k \in Calls : StopTimeout(k)
      <2> PICK k \in Calls : StopTimeout(k)
        BY <1>3
      <2> DEFINE g == call[k].child
      <2>1. /\ Others(g) /\ Child(sup'[g], "ended", FALSE, sup[g].log, <<>>, 0, 0, {}, {})
            /\ g \in Children /\ sup[g].phase \notin {"none", "ended"} /\ entry' = entry
            /\ \A a \in Asks : cli'[a].child = cli[a].child
        BY StopTimeoutSup, CliUpdate DEF StopTimeout
      <2> HIDE DEF g
      <2>2. QED
        BY <1>0, <2>1 DEF Others, Child, Succession
    <1>4. CASE \E g \in Children : Unregister(g)
      <2> PICK g \in Children : Unregister(g)
        BY <1>4
      <2>1. /\ Others(g) /\ Child(sup'[g], "ended", FALSE, sup[g].log, <<>>, 0, 0, {}, {})
            /\ sup[g].phase \notin {"none", "ended"} /\ cli' = cli /\ logs' = logs
            /\ entry' = entry \/ entry'.log = 0
        BY UnregisterSup DEF Unregister, NoEntry
      <2>2. QED
        BY <1>0, <2>1 DEF Others, Child, Succession
    <1>5. CASE \E g \in Children : Reap(g)
      <2> PICK g \in Children : Reap(g)
        BY <1>5
      <2>1. /\ Others(g) /\ sup'[g].phase = "draining" /\ sup'[g].log = sup[g].log
            /\ sup[g].phase = "serving" /\ cli' = cli /\ logs' = logs
        BY ReapSup DEF Reap, Child
      <2>2. entry'.log = entry.log
        BY <1>a DEF Reap, EntryType
      <2>3. QED
        BY <1>0, <2>1, <2>2 DEF Others, Succession
    <1>6. CASE \E k \in Calls, op \in StopOps : StopThread(k, op)
      <2> PICK k \in Calls, op \in StopOps : StopThread(k, op)
        BY <1>6
      <2>1. entry'.log = 0 /\ UNCHANGED <<sup, cli>>
        BY DEF StopThread, NoEntry
      <2>2. QED
        BY <2>1 DEF Succession
    <1>7. CASE /\ ~Turnover
              /\ \/ UNCHANGED vars
                 \/ (\E k \in Calls : OpenThread(k))
                 \/ (\E k \in Calls : SpawnFails(k))
                 \/ (\E k \in Calls, op \in TurnOps : StartTurn(k, op))
                 \/ (\E k \in Calls : TakeGate(k))
                 \/ (\E k \in Calls : Control(k))
                 \/ (\E k \in Calls, a \in Asks : TakeAsk(k, a))
                 \/ (\E k \in Calls : EnqueueNowhere(k))
                 \/ (\E k \in Calls : Enqueue(k))
                 \/ (\E k \in Calls : GiveUp(k))
                 \/ (\E k \in Calls : SendStop(k))
                 \/ (\E k \in Calls : Joined(k))
                 \/ (\E k \in Calls : Forget(k))
                 \/ (\E g \in Children : Refuse(g))
                 \/ (\E g \in Children : OnStop(g))
                 \/ (\E g \in Children : BeginTurnSetup(g))
                 \/ (\E g \in Children : SendControl(g))
                 \/ (\E g \in Children, w \in Outcomes : Compact(g, w))
                 \/ (\E g \in Children, fits \in BOOLEAN, w \in Outcomes : Respond(g, fits, w))
                 \/ (\E g \in Children : OwnTurn(g))
                 \/ (\E g \in Children : TurnResult(g))
                 \/ (\E g \in Children : StdoutEnds(g))
                 \/ (\E g \in Children, a \in Asks : Ask(g, a))
                 \/ (\E g \in Children, a \in Asks : CancelRequest(g, a))
                 \/ (\E g \in Children, k \in Calls : ControlResponse(g, k))
                 \/ (\E g \in Children : FailTurnSetup(g))
                 \/ (\E g \in Children, w \in Outcomes : FinishTurnSetup(g, w))
                 \/ (\E g \in Children : StopDeadline(g))
                 \/ (\E g \in Children : ShutdownSignal(g))
                 \/ (\E g \in Children : OnExit(g))
      <2>1. entry' = entry
        BY <1>7 DEF OpenThread, SpawnFails, StartTurn, TakeGate, Control, TakeAsk,
                EnqueueNowhere, Enqueue, GiveUp, SendStop, Joined, Forget, Refuse, OnStop,
                BeginTurnSetup, SendControl, Compact, Respond, OwnTurn, TurnResult, StdoutEnds,
                Ask, CancelRequest, ControlResponse, FailTurnSetup, FinishTurnSetup,
                StopDeadline, ShutdownSignal, OnExit, vars
      <2>2. Shapes
        BY <1>7, ShapeStep
      <2>3. QED
        BY <2>1, <2>2 DEF Shapes, Shape, Succession
    <1>8. QED
        BY <1>1, <1>2, <1>3, <1>4, <1>5, <1>6, <1>7 DEF Next, Caller, StopCall,
           Commands, Lines, Timers, Exits, Turnover

\* Children, logs and asks come into being in order.
LEMMA RegisteredStep == Structure /\ [Next]_vars => Registered'
    <1> SUFFICES ASSUME Structure, [Next]_vars PROVE Registered'
        OBVIOUS
    <1>1. LogsKept /\ AskersKept /\ AsksType' /\ Succession
        BY LogStep, AskStep, SuccessionStep
    <1>2. QED
        BY <1>1, RegisteredFrom DEF AsksType

\* One child that was not reaped writes to the log of the entry.
LEMMA OneWriterStep == Structure /\ [Next]_vars => OneWriter'
    <1> SUFFICES ASSUME Structure, [Next]_vars PROVE OneWriter'
        OBVIOUS
    <1>0. MaxCalls \in Nat \ {0} /\ MaxChildren \in Nat \ {0} /\ MaxLogs \in Nat \ {0}
          /\ QueueLimit \in Nat \ {0}
        BY ClaudeSessionAssumption
    <1>a. entry \in EntryType /\ (entry.child = 0 \/ entry.child \in Children)
        BY <1>0 DEF Structure, SessionType, EntryType
    <1>1. CASE \E k \in Calls : RegisterOpened(k)
      <2> PICK k \in Calls : RegisterOpened(k)
        BY <1>1
      <2>1. CASE UNCHANGED <<entry, logs, sup>>
        BY <2>1 DEF Structure, OneWriter, Running
      <2>2. CASE ~UNCHANGED <<entry, logs, sup>>
        <3>1. /\ Others(NextChild) /\ NextChild \in Children /\ NextLog \in Logs
              /\ Child(sup'[NextChild], "serving", FALSE, NextLog, <<>>, 0, 0, {}, {})
              /\ entry' = [log |-> NextLog, child |-> NextChild]
              /\ logs[NextLog].state = "none"
          BY <2>2, RegisterOpenedSup
        <3>2. entry'.log = NextLog /\ entry'.child = NextChild
          BY <3>1
        <3>3. \A h \in Children : Running(h) => sup[h].log # NextLog
          BY <3>1 DEF Structure, Registered, Running
        <3>4. QED
          BY <1>0, <3>1, <3>2, <3>3 DEF Others, Child, Structure, OneWriter, Running
      <2>3. QED
        BY <2>1, <2>2
    <1>2. CASE \E k \in Calls : Respawn(k)
      <2> PICK k \in Calls : Respawn(k)
        BY <1>2
      <2>1. CASE UNCHANGED <<entry, sup>>
        BY <2>1 DEF Structure, OneWriter, Running
      <2>2. CASE ~UNCHANGED <<entry, sup>>
        <3>1. /\ Others(NextChild) /\ NextChild \in Children /\ entry.log \in Logs
              /\ Child(sup'[NextChild], "serving", FALSE, entry.log, <<>>, 0, 0, {}, {})
              /\ entry' = [log |-> entry.log, child |-> NextChild] /\ entry.child = None
          BY <2>2, RespawnSup
        <3>2. entry'.log = entry.log /\ entry'.child = NextChild
          BY <3>1
        <3>3. \A h \in Children : Running(h) /\ ~sup[h].reaped => sup[h].log # entry.log
          BY <1>0, <3>1 DEF Structure, OneWriter
        <3>4. QED
          BY <1>0, <3>1, <3>2, <3>3 DEF Others, Child, Structure, OneWriter, Running
      <2>3. QED
        BY <2>1, <2>2
    <1>3. CASE \E k \in Calls : StopTimeout(k)
      <2> PICK k \in Calls : StopTimeout(k)
        BY <1>3
      <2>1. call[k].child # entry.child /\ entry' = entry
        BY DEF StopTimeout, Structure, Stopped, OneWriter
      <2> DEFINE g == call[k].child
      <2>2. /\ Others(g) /\ sup'[g].phase = "ended" /\ sup'[g].reaped = FALSE /\ g \in Children
        BY StopTimeoutSup DEF Child
      <2>3. entry.child # g
        BY <2>1
      <2> HIDE DEF g
      <2>4. QED
        BY <1>a, <2>1, <2>2, <2>3 DEF Others, Structure, OneWriter, Running
    <1>4. CASE \E g \in Children : Unregister(g)
      <2> PICK g \in Children : Unregister(g)
        BY <1>4
      <2>1. Others(g) /\ sup'[g].phase = "ended" /\ sup'[g].reaped = FALSE
        BY UnregisterSup DEF Child
      <2>2. CASE entry.child = g
        <3>1. entry'.log = 0 /\ entry'.child = 0
          BY <2>2 DEF Unregister, HoldsEntry, Structure, OneWriter, NoEntry
        <3>2. QED
          BY <2>1, <3>1 DEF Others, Structure, OneWriter, Running
      <2>3. CASE entry.child # g
        <3>1. entry' = entry
          BY <2>3 DEF Unregister, HoldsEntry
        <3>2. QED
          BY <1>a, <2>1, <2>3, <3>1 DEF Others, Structure, OneWriter, Running
      <2>4. QED
        BY <2>2, <2>3
    <1>5. CASE \E g \in Children : Reap(g)
      <2> PICK g \in Children : Reap(g)
        BY <1>5
      <2>1. /\ Others(g) /\ sup'[g].phase = "draining" /\ sup'[g].log = sup[g].log
            /\ sup'[g].reaped = HoldsEntry(g) /\ sup[g].phase = "serving"
        BY ReapSup DEF Child
      <2>2. CASE HoldsEntry(g)
        <3>1. entry'.log = entry.log /\ entry'.child = 0 /\ entry.child = g /\ sup'[g].reaped
          BY <1>a, <2>1, <2>2 DEF Reap, EntryType, HoldsEntry
        <3>2. QED
          BY <1>0, <2>1, <3>1 DEF Others, Structure, OneWriter, Running
      <2>3. CASE ~HoldsEntry(g)
        <3>1. entry' = entry /\ ~sup'[g].reaped /\ entry.child # g /\ ~sup[g].reaped
          <4>1. ~sup'[g].reaped /\ ~sup[g].reaped
            BY <2>1, <2>3 DEF Structure, OneWriter
          <4>2. entry' = entry
            BY <2>3 DEF Reap
          <4>3. entry.child # g
            BY <1>0, <2>3 DEF HoldsEntry, Structure, OneWriter
          <4>4. QED
            BY <4>1, <4>2, <4>3
        <3>2. QED
          BY <1>a, <2>1, <3>1 DEF Others, Structure, OneWriter, Running
      <2>4. QED
        BY <2>2, <2>3
    <1>6. CASE \E k \in Calls, op \in StopOps : StopThread(k, op)
      <2> PICK k \in Calls, op \in StopOps : StopThread(k, op)
        BY <1>6
      <2>1. entry'.log = 0 /\ entry'.child = 0 /\ sup' = sup
        BY DEF StopThread, NoEntry
      <2>2. QED
        BY <2>1 DEF Structure, OneWriter
    <1>7. CASE /\ ~Turnover
              /\ \/ UNCHANGED vars
                 \/ (\E k \in Calls : OpenThread(k))
                 \/ (\E k \in Calls : SpawnFails(k))
                 \/ (\E k \in Calls, op \in TurnOps : StartTurn(k, op))
                 \/ (\E k \in Calls : TakeGate(k))
                 \/ (\E k \in Calls : Control(k))
                 \/ (\E k \in Calls, a \in Asks : TakeAsk(k, a))
                 \/ (\E k \in Calls : EnqueueNowhere(k))
                 \/ (\E k \in Calls : Enqueue(k))
                 \/ (\E k \in Calls : GiveUp(k))
                 \/ (\E k \in Calls : SendStop(k))
                 \/ (\E k \in Calls : Joined(k))
                 \/ (\E k \in Calls : Forget(k))
                 \/ (\E g \in Children : Refuse(g))
                 \/ (\E g \in Children : OnStop(g))
                 \/ (\E g \in Children : BeginTurnSetup(g))
                 \/ (\E g \in Children : SendControl(g))
                 \/ (\E g \in Children, w \in Outcomes : Compact(g, w))
                 \/ (\E g \in Children, fits \in BOOLEAN, w \in Outcomes : Respond(g, fits, w))
                 \/ (\E g \in Children : OwnTurn(g))
                 \/ (\E g \in Children : TurnResult(g))
                 \/ (\E g \in Children : StdoutEnds(g))
                 \/ (\E g \in Children, a \in Asks : Ask(g, a))
                 \/ (\E g \in Children, a \in Asks : CancelRequest(g, a))
                 \/ (\E g \in Children, k \in Calls : ControlResponse(g, k))
                 \/ (\E g \in Children : FailTurnSetup(g))
                 \/ (\E g \in Children, w \in Outcomes : FinishTurnSetup(g, w))
                 \/ (\E g \in Children : StopDeadline(g))
                 \/ (\E g \in Children : ShutdownSignal(g))
                 \/ (\E g \in Children : OnExit(g))
      <2>1. entry' = entry
        BY <1>7 DEF OpenThread, SpawnFails, StartTurn, TakeGate, Control, TakeAsk,
                EnqueueNowhere, Enqueue, GiveUp, SendStop, Joined, Forget, Refuse, OnStop,
                BeginTurnSetup, SendControl, Compact, Respond, OwnTurn, TurnResult, StdoutEnds,
                Ask, CancelRequest, ControlResponse, FailTurnSetup, FinishTurnSetup,
                StopDeadline, ShutdownSignal, OnExit, vars
      <2>2. Shapes
        BY <1>7, ShapeStep
      <2>3. QED
        BY <1>a, <2>1, <2>2 DEF Shapes, Shape, Structure, OneWriter, Running
    <1>8. QED
        BY <1>1, <1>2, <1>3, <1>4, <1>5, <1>6, <1>7 DEF Next, Caller, StopCall,
           Commands, Lines, Timers, Exits, Turnover

\* A thread is opened on a log of its own.
LEMMA EntryLogStep ==
    Structure /\ [Next]_vars =>
        (entry'.log \in {0, entry.log} \/ logs[entry'.log].state = "none")
    <1> SUFFICES ASSUME Structure, [Next]_vars
             PROVE  (entry'.log \in {0, entry.log} \/ logs[entry'.log].state = "none")
        OBVIOUS
    <1>0. MaxCalls \in Nat \ {0} /\ MaxChildren \in Nat \ {0} /\ MaxLogs \in Nat \ {0}
          /\ QueueLimit \in Nat \ {0}
        BY ClaudeSessionAssumption
    <1>1. CASE \E k \in Calls : RegisterOpened(k)
      <2> PICK k \in Calls : RegisterOpened(k)
        BY <1>1
      <2>1. CASE UNCHANGED <<entry, logs, sup>>
        BY <2>1
      <2>2. CASE ~UNCHANGED <<entry, logs, sup>>
        <3>1. entry' = [log |-> NextLog, child |-> NextChild] /\ logs[NextLog].state = "none"
          BY <2>2, RegisterOpenedSup
        <3>2. QED
          BY <3>1
      <2>3. QED
        BY <2>1, <2>2
    <1>2. CASE \E k \in Calls : Respawn(k)
      <2> PICK k \in Calls : Respawn(k)
        BY <1>2
      <2>1. CASE UNCHANGED <<entry, sup>>
        BY <2>1
      <2>2. CASE ~UNCHANGED <<entry, sup>>
        <3>1. entry' = [log |-> entry.log, child |-> NextChild]
          BY <2>2, RespawnSup
        <3>2. QED
          BY <3>1
      <2>3. QED
        BY <2>1, <2>2
    <1>3. CASE \E k \in Calls, op \in StopOps : StopThread(k, op)
      <2> PICK k \in Calls, op \in StopOps : StopThread(k, op)
        BY <1>3
      <2> QED
        BY DEF StopThread, NoEntry
    <1>4. CASE \E g \in Children : Reap(g)
      <2> PICK g \in Children : Reap(g)
        BY <1>4
      <2>1. entry' = entry \/ entry' = [entry EXCEPT !.child = None]
        BY DEF Reap
      <2>2. QED
        BY <2>1 DEF Structure, SessionType, EntryType
    <1>5. CASE \E g \in Children : Unregister(g)
      <2> PICK g \in Children : Unregister(g)
        BY <1>5
      <2> QED
        BY DEF Unregister, NoEntry
    <1>6. CASE UNCHANGED vars
              \/ (\E k \in Calls : OpenThread(k))
              \/ (\E k \in Calls : SpawnFails(k))
              \/ (\E k \in Calls, op \in TurnOps : StartTurn(k, op))
              \/ (\E k \in Calls : TakeGate(k))
              \/ (\E k \in Calls : Control(k))
              \/ (\E k \in Calls, a \in Asks : TakeAsk(k, a))
              \/ (\E k \in Calls : EnqueueNowhere(k))
              \/ (\E k \in Calls : Enqueue(k))
              \/ (\E k \in Calls : GiveUp(k))
              \/ (\E k \in Calls : SendStop(k))
              \/ (\E k \in Calls : Joined(k))
              \/ (\E k \in Calls : StopTimeout(k))
              \/ (\E k \in Calls : Forget(k))
              \/ (\E g \in Children : Refuse(g))
              \/ (\E g \in Children : OnStop(g))
              \/ (\E g \in Children : BeginTurnSetup(g))
              \/ (\E g \in Children : SendControl(g))
              \/ (\E g \in Children, w \in Outcomes : Compact(g, w))
              \/ (\E g \in Children, fits \in BOOLEAN, w \in Outcomes : Respond(g, fits, w))
              \/ (\E g \in Children : OwnTurn(g))
              \/ (\E g \in Children : TurnResult(g))
              \/ (\E g \in Children : StdoutEnds(g))
              \/ (\E g \in Children, a \in Asks : Ask(g, a))
              \/ (\E g \in Children, a \in Asks : CancelRequest(g, a))
              \/ (\E g \in Children, k \in Calls : ControlResponse(g, k))
              \/ (\E g \in Children : FailTurnSetup(g))
              \/ (\E g \in Children, w \in Outcomes : FinishTurnSetup(g, w))
              \/ (\E g \in Children : StopDeadline(g))
              \/ (\E g \in Children : ShutdownSignal(g))
              \/ (\E g \in Children : OnExit(g))
      <2>1. UNCHANGED <<entry>>
        BY <1>6 DEF OpenThread, SpawnFails, StartTurn, TakeGate, Control, TakeAsk,
           EnqueueNowhere, Enqueue, GiveUp, SendStop, Joined, StopTimeout, Forget,
           Refuse, OnStop, BeginTurnSetup, SendControl, Compact, Respond, OwnTurn,
           TurnResult, StdoutEnds, Ask, CancelRequest, ControlResponse,
           FailTurnSetup, FinishTurnSetup, StopDeadline, ShutdownSignal, OnExit,
           vars, To
      <2>2. QED
        BY <2>1 DEF Structure
    <1>7. QED
        BY <1>1, <1>2, <1>3, <1>4, <1>5, <1>6 DEF Next, Caller, StopCall, Commands,
           Lines, Timers, Exits

\* A call that stops a child has taken its entry away.
LEMMA StoppedStep == Structure /\ [Next]_vars => Stopped'
    <1> SUFFICES ASSUME Structure, [Next]_vars PROVE Stopped'
        OBVIOUS
    <1>0. MaxCalls \in Nat \ {0} /\ MaxChildren \in Nat \ {0} /\ MaxLogs \in Nat \ {0}
          /\ QueueLimit \in Nat \ {0}
        BY ClaudeSessionAssumption
    <1>a. entry \in EntryType
        BY DEF Structure, SessionType
    <1>1. CASE \E k \in Calls, op \in StopOps : StopThread(k, op)
      <2> PICK k \in Calls, op \in StopOps : StopThread(k, op)
        BY <1>1
      <2>1. /\ call[k].pc = "idle" /\ OneCall(k)
            /\ call'[k].pc \in {"stopping", "forget"} \/ call'[k] = Done
            /\ call'[k].pc = "stopping" => /\ entry.child # None /\ call'[k].log = entry.log
                                           /\ call'[k].child = entry.child
        BY StopThreadCall DEF Goes
      <2>2. entry'.log = 0 /\ sup' = sup
        BY DEF StopThread, NoEntry
      <2>3. ASSUME NEW j \in Calls, call'[j].pc \in {"stopping", "joining"}
            PROVE  /\ call'[j].child \in Children /\ sup[call'[j].child].phase # "none"
                   /\ sup[call'[j].child].log = call'[j].log /\ call'[j].log # 0
        <3>1. CASE j = k
          <4>1. call'[k].pc = "stopping"
            BY <2>1, <2>3, <3>1, DoneFacts
          <4>2. entry.child \in Children
            BY <1>0, <1>a, <2>1, <4>1 DEF EntryType
          <4>3. QED
            BY <2>1, <3>1, <4>1, <4>2 DEF Structure, OneWriter, Running
        <3>2. CASE j # k
          BY <1>0, <2>1, <2>3, <3>2 DEF OneCall, Structure, Stopped, Registered
        <3>3. QED
          BY <3>1, <3>2
      <2>4. QED
        BY <2>2, <2>3 DEF Stopped
    <1>2. CASE /\ ~(\E k \in Calls, op \in StopOps : StopThread(k, op))
              /\ \/ UNCHANGED vars
                 \/ (\E k \in Calls : OpenThread(k))
                 \/ (\E k \in Calls : RegisterOpened(k))
                 \/ (\E k \in Calls : SpawnFails(k))
                 \/ (\E k \in Calls, op \in TurnOps : StartTurn(k, op))
                 \/ (\E k \in Calls : TakeGate(k))
                 \/ (\E k \in Calls : Respawn(k))
                 \/ (\E k \in Calls : Control(k))
                 \/ (\E k \in Calls, a \in Asks : TakeAsk(k, a))
                 \/ (\E k \in Calls : EnqueueNowhere(k))
                 \/ (\E k \in Calls : Enqueue(k))
                 \/ (\E k \in Calls : GiveUp(k))
                 \/ (\E k \in Calls : SendStop(k))
                 \/ (\E k \in Calls : Joined(k))
                 \/ (\E k \in Calls : StopTimeout(k))
                 \/ (\E k \in Calls : Forget(k))
                 \/ (\E g \in Children : Refuse(g))
                 \/ (\E g \in Children : OnStop(g))
                 \/ (\E g \in Children : BeginTurnSetup(g))
                 \/ (\E g \in Children : SendControl(g))
                 \/ (\E g \in Children, w \in Outcomes : Compact(g, w))
                 \/ (\E g \in Children, fits \in BOOLEAN, w \in Outcomes : Respond(g, fits, w))
                 \/ (\E g \in Children : OwnTurn(g))
                 \/ (\E g \in Children : TurnResult(g))
                 \/ (\E g \in Children : StdoutEnds(g))
                 \/ (\E g \in Children, a \in Asks : Ask(g, a))
                 \/ (\E g \in Children, a \in Asks : CancelRequest(g, a))
                 \/ (\E g \in Children, k \in Calls : ControlResponse(g, k))
                 \/ (\E g \in Children : FailTurnSetup(g))
                 \/ (\E g \in Children, w \in Outcomes : FinishTurnSetup(g, w))
                 \/ (\E g \in Children : Reap(g))
                 \/ (\E g \in Children : StopDeadline(g))
                 \/ (\E g \in Children : ShutdownSignal(g))
                 \/ (\E g \in Children : OnExit(g))
                 \/ (\E g \in Children : Unregister(g))
      <2>1. ASSUME NEW j \in Calls, call'[j].pc \in {"stopping", "joining"}
            PROVE  /\ call[j].pc \in {"stopping", "joining"}
                   /\ call'[j].child = call[j].child /\ call'[j].log = call[j].log
        BY <1>2, <2>1, CallStep DEF StopsKept
      <2>2. ASSUME NEW g \in Children, sup[g].phase # "none"
            PROVE  sup'[g].phase # "none" /\ sup'[g].log = sup[g].log
        BY <2>2, SuccessionStep DEF Succession
      <2>3. ASSUME NEW j \in Calls, call[j].pc \in {"stopping", "joining"}
            PROVE  entry'.log # call[j].log
        <3>1. call[j].log \in Logs /\ logs[call[j].log].state # "none"
                /\ entry.log # call[j].log
          BY <2>3 DEF Structure, Stopped, Registered
        <3>2. entry'.log \in {0, entry.log} \/ logs[entry'.log].state = "none"
          BY EntryLogStep
        <3>3. QED
          BY <1>0, <3>1, <3>2
      <2>4. QED
        BY <2>1, <2>2, <2>3 DEF Stopped, Structure
    <1>3. QED
        BY <1>1, <1>2 DEF Next, Caller, StopCall, Commands, Lines, Timers, Exits,
           Turnover

\* The structure is inductive.
LEMMA StructureStep == Structure /\ [Next]_vars => Structure'
    BY TypeStep, RegisteredStep, OneWriterStep, StoppedStep DEF Structure

-----------------------------------------------------------------------------
(* The stream of the thread.                                               *)

Stream == EntryLogIsOpen /\ ShownTurnRuns

\* The entry names a log and a child there are.
LEMMA EntryFacts ==
    ASSUME Structure
    PROVE  /\ entry.log = 0 \/ entry.log \in Logs
           /\ entry.child = 0 \/ entry.child \in Children
           /\ 0 \notin Logs /\ 0 \notin Children
    BY ClaudeSessionAssumption DEF Structure, SessionType, EntryType

\* What append does to the logs.
LEMMA AppendedFacts ==
    ASSUME Structure, NEW g \in Children, Running(g), NEW t \in Turns, logs' = Appended(g, t)
    PROVE  /\ \A n \in Logs : logs'[n].state = logs[n].state
           /\ \A n \in Logs : sup[g].reaped \/ n # sup[g].log => logs'[n] = logs[n]
           /\ ~sup[g].reaped /\ logs[sup[g].log].state = "open" => logs'[sup[g].log].turn = t
    <1>1. logs \in [Logs -> LogType] /\ sup[g].log \in Logs
        BY DEF Structure, SessionType, Registered, Running
    <1>2. CASE sup[g].reaped \/ logs[sup[g].log].state # "open"
        BY <1>2 DEF Appended
    <1>3. CASE ~(sup[g].reaped \/ logs[sup[g].log].state # "open")
      <2>1. logs' = [logs EXCEPT ![sup[g].log].turn = t]
        BY <1>3 DEF Appended
      <2>2. QED
        BY <1>1, <1>3, <2>1 DEF LogType
    <1>4. QED
        BY <1>2, <1>3

\* A turn begins or ends in a child that runs.
LEMMA TalkStream ==
    ASSUME Structure, Stream, NEW g \in Children, NEW t \in Turns, Others(g),
           Running(g), sup[g].phase # "closing",
           sup'[g].turn = t, logs' = Appended(g, t), entry' = entry
    PROVE  Stream'
    <1>1. /\ \A n \in Logs : logs'[n].state = logs[n].state
          /\ \A n \in Logs : sup[g].reaped \/ n # sup[g].log => logs'[n] = logs[n]
          /\ ~sup[g].reaped /\ logs[sup[g].log].state = "open" => logs'[sup[g].log].turn = t
        BY AppendedFacts
    <1>2. /\ entry.log = 0 \/ entry.log \in Logs
          /\ entry.child = 0 \/ entry.child \in Children
          /\ 0 \notin Logs /\ 0 \notin Children
        BY EntryFacts
    <1>3. CASE entry.log = 0
        BY <1>3 DEF Stream, EntryLogIsOpen, ShownTurnRuns
    <1>4. CASE entry.log # 0 /\ entry.child = g
      <2>1. sup[g].log = entry.log /\ ~sup[g].reaped /\ logs[entry.log].state = "open"
        BY <1>2, <1>4 DEF Structure, OneWriter, Stream, EntryLogIsOpen
      <2>2. QED
        BY <1>1, <1>2, <1>4, <2>1 DEF Stream, EntryLogIsOpen, ShownTurnRuns
    <1>5. CASE entry.log # 0 /\ entry.child # g
      <2>1. sup[g].reaped \/ sup[g].log # entry.log
        BY <1>5 DEF Structure, OneWriter
      <2>2. logs'[entry.log] = logs[entry.log]
        BY <1>1, <1>2, <1>5, <2>1
      <2>3. entry.child # 0 => sup'[entry.child] = sup[entry.child]
        BY <1>2, <1>5 DEF Others
      <2>4. QED
        BY <1>5, <2>2, <2>3 DEF Stream, EntryLogIsOpen, ShownTurnRuns
    <1>6. QED
        BY <1>3, <1>4, <1>5

\* Nothing happens to the stream.
LEMMA StreamFrame ==
    ASSUME Structure, Stream, UNCHANGED <<entry, logs>>, TurnsKept,
           \A g \in Children : sup[g].phase = "closing" => sup'[g].phase = "closing"
    PROVE  Stream'
    <1>1. entry.child = 0 \/ entry.child \in Children
        BY EntryFacts
    <1>2. QED
        BY <1>1 DEF Stream, EntryLogIsOpen, ShownTurnRuns, TurnsKept

\* The stream of the thread agrees with the child that serves it.
LEMMA StreamStep == (Structure /\ Stream) /\ [Next]_vars => Stream'
    <1> SUFFICES ASSUME (Structure /\ Stream), [Next]_vars PROVE Stream'
        OBVIOUS
    <1>0. MaxCalls \in Nat \ {0} /\ MaxChildren \in Nat \ {0} /\ MaxLogs \in Nat \ {0}
          /\ QueueLimit \in Nat \ {0}
        BY ClaudeSessionAssumption
    <1>1. CASE \E k \in Calls : RegisterOpened(k)
      <2> PICK k \in Calls : RegisterOpened(k)
        BY <1>1
      <2>1. CASE UNCHANGED <<entry, logs, sup>>
        BY <2>1 DEF Stream, EntryLogIsOpen, ShownTurnRuns
      <2>2. CASE ~UNCHANGED <<entry, logs, sup>>
        <3>1. /\ entry' = [log |-> NextLog, child |-> NextChild] /\ NextLog \in Logs
              /\ logs[NextLog].state = "none" /\ logs' = [logs EXCEPT ![NextLog].state = "open"]
          BY <2>2, RegisterOpenedSup
        <3>2. entry'.log = NextLog /\ logs'[NextLog].state = "open" /\ logs'[NextLog].turn = 0
          BY <3>1 DEF Structure, SessionType, LogType, Registered
        <3>3. QED
          BY <3>2 DEF Stream, EntryLogIsOpen, ShownTurnRuns
      <2>3. QED
        BY <2>1, <2>2
    <1>2. CASE \E k \in Calls : Respawn(k)
      <2> PICK k \in Calls : Respawn(k)
        BY <1>2
      <2>1. CASE UNCHANGED <<entry, sup>>
        BY <2>1 DEF Respawn, Stream, EntryLogIsOpen, ShownTurnRuns
      <2>2. CASE ~UNCHANGED <<entry, sup>>
        <3>1. /\ entry' = [log |-> entry.log, child |-> NextChild] /\ entry.child = None
              /\ logs' = logs
          BY <2>2, RespawnSup
        <3>2. entry'.log = entry.log
          BY <3>1
        <3>3. QED
          BY <3>1, <3>2 DEF Stream, EntryLogIsOpen, ShownTurnRuns
      <2>3. QED
        BY <2>1, <2>2
    <1>3. CASE \E k \in Calls, op \in StopOps : StopThread(k, op)
      <2> PICK k \in Calls, op \in StopOps : StopThread(k, op)
        BY <1>3
      <2>1. entry'.log = 0
        BY DEF StopThread, NoEntry
      <2>2. QED
        BY <2>1 DEF Stream, EntryLogIsOpen, ShownTurnRuns
    <1>4. CASE \E k \in Calls : StopTimeout(k)
      <2> PICK k \in Calls : StopTimeout(k)
        BY <1>4
      <2>1. /\ call[k].child # entry.child /\ entry' = entry /\ logs' = Closed(call[k].log)
            /\ entry.log # call[k].log /\ call[k].child \in Children
        BY DEF StopTimeout, Structure, Stopped, OneWriter
      <2>2. Others(call[k].child)
        BY StopTimeoutSup
      <2>3. entry.child # 0 => sup'[entry.child] = sup[entry.child]
        BY <2>1, <2>2, EntryFacts DEF Others
      <2>4. entry.log # 0 => logs'[entry.log] = logs[entry.log]
        <3>1. logs \in [Logs -> LogType]
          BY DEF Structure, SessionType
        <3>2. QED
          BY <2>1, <3>1, EntryFacts DEF Closed
      <2>5. QED
        BY <2>1, <2>3, <2>4 DEF Stream, EntryLogIsOpen, ShownTurnRuns
    <1>5. CASE \E g \in Children : Unregister(g)
      <2> PICK g \in Children : Unregister(g)
        BY <1>5
      <2>1. Others(g) /\ logs' = logs
        BY UnregisterSup DEF Unregister
      <2>2. CASE entry.child = g
        <3>1. entry'.log = 0
          BY <2>2 DEF Unregister, HoldsEntry, Structure, OneWriter, NoEntry
        <3>2. QED
          BY <3>1 DEF Stream, EntryLogIsOpen, ShownTurnRuns
      <2>3. CASE entry.child # g
        <3>1. entry' = entry /\ (entry.child # 0 => sup'[entry.child] = sup[entry.child])
          BY <2>1, <2>3, EntryFacts DEF Unregister, HoldsEntry, Others
        <3>2. QED
          BY <2>1, <3>1 DEF Stream, EntryLogIsOpen, ShownTurnRuns
      <2>4. QED
        BY <2>2, <2>3
    <1>6. CASE \E g \in Children : Reap(g)
      <2> PICK g \in Children : Reap(g)
        BY <1>6
      <2>1. /\ Others(g) /\ sup'[g].turn = sup[g].turn /\ logs' = logs
            /\ sup[g].phase = "serving" /\ sup[g].turn = 0
        BY ReapSup DEF Child, Reap
      <2>2. CASE HoldsEntry(g)
        <3>1. entry'.log = entry.log /\ entry.child = g /\ entry.log # 0
          BY <2>2 DEF Reap, HoldsEntry, Structure, SessionType, EntryType
        <3>2. logs[entry.log].state = "open" /\ logs[entry.log].turn = 0
          BY <2>1, <3>1 DEF Stream, EntryLogIsOpen, ShownTurnRuns
        <3>3. QED
          BY <2>1, <3>1, <3>2 DEF Stream, EntryLogIsOpen, ShownTurnRuns
      <2>3. CASE ~HoldsEntry(g)
        <3>1. entry' = entry
          BY <2>3 DEF Reap
        <3>2. TurnsKept /\ \A h \in Children : sup[h].phase = "closing"
                => sup'[h].phase = "closing"
          BY <2>1 DEF Others, TurnsKept
        <3>3. QED
          BY <2>1, <3>1, <3>2, StreamFrame
      <2>4. QED
        BY <2>2, <2>3
    <1>7. CASE \E g \in Children : OwnTurn(g)
      <2> PICK g \in Children : OwnTurn(g)
        BY <1>7
      <2>1. /\ Others(g) /\ sup'[g].turn = Own /\ sup[g].phase \in Reading
            /\ logs' = Appended(g, Own) /\ entry' = entry /\ Own \in Turns
        BY Zeros, OwnTurnSup DEF Child, OwnTurn
      <2>2. QED
        BY <2>1, TalkStream DEF Running, Reading
    <1>8. CASE \E g \in Children : TurnResult(g)
      <2> PICK g \in Children : TurnResult(g)
        BY <1>8
      <2>1. /\ Others(g) /\ sup'[g].turn = 0 /\ sup[g].phase \in Reading
            /\ logs' = Appended(g, 0) /\ entry' = entry /\ 0 \in Turns
        BY Zeros, TurnResultSup DEF Child, TurnResult
      <2>2. QED
        BY <2>1, TalkStream DEF Running, Reading
    <1>9. CASE \E g \in Children, w \in Outcomes : Compact(g, w)
      <2> PICK g \in Children, w \in Outcomes : Compact(g, w)
        BY <1>9
      <2>1. CASE ~Listening(NextCommand(g)) \/ Busy(g)
        <3>1. /\ Others(g) /\ sup'[g].turn = sup[g].turn /\ sup'[g].phase = sup[g].phase
          BY <2>1, DropCompactSup DEF Child
        <3>2. UNCHANGED <<entry, logs>>
          BY <2>1 DEF Compact
        <3>3. QED
          BY <3>1, <3>2, StreamFrame DEF Others, TurnsKept
      <2>2. CASE ~(~Listening(NextCommand(g)) \/ Busy(g))
        <3>1. /\ Others(g) /\ sup'[g].turn = NextCommand(g) /\ NextCommand(g) \in Calls
          BY <2>2, CompactSup DEF Child
        <3>2. logs' = Appended(g, NextCommand(g)) /\ entry' = entry /\ sup[g].phase = "serving"
          BY <2>2 DEF Compact, Begun, Serves
        <3>3. NextCommand(g) \in Turns
          BY <1>0, <3>1
        <3>4. QED
          BY <3>1, <3>2, <3>3, TalkStream DEF Running
      <2>3. QED
        BY <2>1, <2>2
    <1>10. CASE \E g \in Children, w \in Outcomes : FinishTurnSetup(g, w)
      <2> PICK g \in Children, w \in Outcomes : FinishTurnSetup(g, w)
        BY <1>10
      <2>1. CASE ~Listening(sup[g].setup) \/ sup[g].turn # None
        <3>1. /\ Others(g) /\ sup'[g].turn = sup[g].turn /\ sup'[g].phase = sup[g].phase
          BY <2>1, DropSetupSup DEF Child
        <3>2. UNCHANGED <<entry, logs>>
          BY <2>1 DEF FinishTurnSetup
        <3>3. QED
          BY <3>1, <3>2, StreamFrame DEF Others, TurnsKept
      <2>2. CASE ~(~Listening(sup[g].setup) \/ sup[g].turn # None)
        <3>1. /\ Others(g) /\ sup'[g].turn = sup[g].setup
          BY <2>2, StartSup DEF Child
        <3>2. logs' = Appended(g, sup[g].setup) /\ entry' = entry /\ sup[g].phase = "serving"
          BY <2>2 DEF FinishTurnSetup, Begun
        <3>3. sup[g].setup \in Turns
          BY <1>0, ChildFacts DEF Structure
        <3>4. QED
          BY <3>1, <3>2, <3>3, TalkStream DEF Running
      <2>3. QED
        BY <2>1, <2>2
    <1>11. CASE \E g \in Children : OnExit(g)
      <2> PICK g \in Children : OnExit(g)
        BY <1>11
      <2>1. /\ Others(g) /\ sup'[g].turn = 0 /\ sup'[g].phase = "closing" /\ entry' = entry
            /\ sup[g].phase = "exiting"
        BY OnExitSup DEF Child, OnExit
      <2>2. sup[g].log \in Logs /\ logs \in [Logs -> LogType] /\ Running(g)
        BY <2>1 DEF Structure, SessionType, Registered, Running
      <2>3. CASE entry.child = g
        <3>1. ~sup[g].reaped /\ sup[g].log = entry.log /\ entry.child # 0
          BY <2>3, EntryFacts DEF Structure, OneWriter
        <3>2. logs' = Closed(entry.log)
          BY <3>1 DEF OnExit
        <3>3. logs'[entry.log].turn = 0
          BY <2>2, <3>1, <3>2 DEF Closed
        <3>4. QED
          BY <2>1, <2>3, <3>1, <3>3 DEF Stream, EntryLogIsOpen, ShownTurnRuns
      <2>4. CASE entry.child # g
        <3>1. entry.child # 0 => sup'[entry.child] = sup[entry.child]
          BY <2>1, <2>4, EntryFacts DEF Others
        <3>2. entry.log # 0 => sup[g].reaped \/ sup[g].log # entry.log
          BY <2>2, <2>4 DEF Structure, OneWriter
        <3>3. logs' = logs \/ (~sup[g].reaped /\ logs' = Closed(sup[g].log))
          BY DEF OnExit
        <3>4. entry.log # 0 => logs'[entry.log] = logs[entry.log]
          BY <2>2, <3>2, <3>3, EntryFacts DEF Closed
        <3>5. QED
          BY <2>1, <3>1, <3>4 DEF Stream, EntryLogIsOpen, ShownTurnRuns
      <2>5. QED
        BY <2>3, <2>4
    <1>12. CASE /\ ~(Turnover \/ Talk)
              /\ \/ UNCHANGED vars
                 \/ (\E k \in Calls : OpenThread(k))
                 \/ (\E k \in Calls : SpawnFails(k))
                 \/ (\E k \in Calls, op \in TurnOps : StartTurn(k, op))
                 \/ (\E k \in Calls : TakeGate(k))
                 \/ (\E k \in Calls : Control(k))
                 \/ (\E k \in Calls, a \in Asks : TakeAsk(k, a))
                 \/ (\E k \in Calls : EnqueueNowhere(k))
                 \/ (\E k \in Calls : Enqueue(k))
                 \/ (\E k \in Calls : GiveUp(k))
                 \/ (\E k \in Calls : SendStop(k))
                 \/ (\E k \in Calls : Joined(k))
                 \/ (\E k \in Calls : Forget(k))
                 \/ (\E g \in Children : Refuse(g))
                 \/ (\E g \in Children : OnStop(g))
                 \/ (\E g \in Children : BeginTurnSetup(g))
                 \/ (\E g \in Children : SendControl(g))
                 \/ (\E g \in Children, fits \in BOOLEAN, w \in Outcomes : Respond(g, fits, w))
                 \/ (\E g \in Children : StdoutEnds(g))
                 \/ (\E g \in Children, a \in Asks : Ask(g, a))
                 \/ (\E g \in Children, a \in Asks : CancelRequest(g, a))
                 \/ (\E g \in Children, k \in Calls : ControlResponse(g, k))
                 \/ (\E g \in Children : FailTurnSetup(g))
                 \/ (\E g \in Children : StopDeadline(g))
                 \/ (\E g \in Children : ShutdownSignal(g))
      <2>1. UNCHANGED <<entry, logs>>
        BY <1>12 DEF OpenThread, SpawnFails, StartTurn, TakeGate, Control, TakeAsk,
                EnqueueNowhere, Enqueue, GiveUp, SendStop, Joined, Forget, Refuse, OnStop,
                BeginTurnSetup, SendControl, Respond, StdoutEnds, Ask, CancelRequest,
                ControlResponse, FailTurnSetup, StopDeadline, ShutdownSignal, vars
      <2>2. Shapes /\ TurnsKept
        BY <1>12, ShapeStep
      <2>3. QED
        BY <2>1, <2>2, StreamFrame DEF Shapes, Shape
    <1>13. QED
        BY <1>1, <1>2, <1>3, <1>4, <1>5, <1>6, <1>7, <1>8, <1>9, <1>10, <1>11, <1>12
           DEF Next, Caller, StopCall, Commands, Lines, Timers, Exits, Turnover, Talk

-----------------------------------------------------------------------------
(* The asks.                                                               *)

\* Where the call of a command in a queue, or of one that is served, can be.
Sent == {"waiting", "done", "joining", "forget"}

\* A call has an ask only to answer it; a command is in one queue; what a
\* child sets up or waits for is not an answer.
Asked ==
    /\ \A k \in Calls : call[k].ask # {} =>
            /\ call[k].op = "answer" /\ call[k].pc \in {"send", "waiting", "done"}
            /\ \E a \in Asks : call[k].ask = {a}
    /\ \A k \in Calls, g \in Children : In(sup[g].queue, k) => call[k].pc \in Sent
    /\ \A k \in Calls, g, h \in Children : In(sup[g].queue, k) /\ In(sup[h].queue, k) => g = h
    /\ \A g \in Children, k \in Calls : k \in sup[g].waiters \/ k = sup[g].setup =>
            call[k].op # "answer" /\ call[k].pc \in Sent

\* The answer to an ask is on its way.
Carries(k, a) ==
    a \in call[k].ask /\ (call[k].pc = "send" \/ \E g \in Children : In(sup[g].queue, k))

\* An ask is pending, or one answer to it is on its way; an answer to the
\* child of the entry is in the queue of that child.
Carried ==
    /\ \A k \in Calls, a \in Asks : Carries(k, a) =>
            a \notin pending /\ \A l \in Calls : Carries(l, a) => l = k
    /\ \A a \in Asks : cli[a].state = "unused" =>
            a \notin pending /\ \A k \in Calls : a \notin call[k].ask
    /\ \A a \in Asks, k \in Calls, g \in Children :
            a \in call[k].ask /\ In(sup[g].queue, k) /\ cli[a].child = entry.child
              /\ entry.child # None => g = entry.child

\* A child remembers the asks it withdrew while an answer was on its way.
Withdrawn ==
    /\ \A g \in Children, a \in Asks : a \in sup[g].withdrawn =>
            cli[a].state \notin {"unused", "awaiting"}
    /\ \A g \in Children, a \in Asks :
            cli[a].child = g /\ cli[a].state = "withdrawn" /\ sup[g].phase = "serving" =>
              /\ g = entry.child => a \notin pending
              /\ \A k \in Calls :
                    (/\ a \in call[k].ask
                     /\ In(sup[g].queue, k) \/ (g = entry.child /\ call[k].pc = "send"))
                      => a \in sup[g].withdrawn

\* What the serving child waits for is pending, lost, or on its way to it.
Awaited ==
    \A a \in Asks :
        /\ entry.child # None /\ cli[a].child = entry.child /\ cli[a].state = "awaiting"
        /\ sup[entry.child].phase = "serving"
        => \/ a \in pending \cup lost
           \/ \E k \in Calls : /\ a \in call[k].ask
                               /\ call[k].pc = "send" \/ In(sup[entry.child].queue, k)

AsksInv == Structure /\ Asked /\ Carried /\ Withdrawn /\ Awaited

\* What a step may do to a call and to the ask it has.
Path(k) ==
    /\ call[k].pc \in Sent => call'[k].pc \in Sent
    /\ call[k].pc # "idle" /\ call[k].op # "answer" => call'[k].op # "answer"
    /\ call'[k].ask # {} =>
         \/ /\ call'[k].ask = call[k].ask /\ call'[k].op = call[k].op /\ call[k].pc # "idle"
            /\ call'[k].pc = "send" => call[k].pc = "send"
            /\ call'[k].pc \in {"send", "waiting", "done"}
         \/ /\ call[k].pc = "idle" /\ call'[k].op = "answer" /\ call'[k].pc = "send"
            /\ \E a \in pending : call'[k].ask = {a} /\ a \notin pending'
            /\ \A l \in Calls \ {k} : call'[l] = call[l]

\* A call that does not change, and one that returns.
LEMMA PathSame ==
    ASSUME Asked, NEW k \in Calls, call'[k] = call[k] \/ (call'[k] = Done
            /\ call[k].pc # "idle")
                                   \/ call'[k] = Done
    PROVE  Path(k)
    BY DoneFacts DEF Path, Asked, Sent

\* A step that replies to calls.
LEMMA AnswersPath ==
    ASSUME Asked, NEW S, Answers(S) PROVE \A k \in Calls : Path(k)
    BY PathSame DEF Answers

\* A step of one call.
LEMMA OneCallPath ==
    ASSUME Asked, NEW k \in Calls, OneCall(k), Path(k) PROVE \A j \in Calls : Path(j)
    BY PathSame DEF OneCall

\* A step of a call without an ask.
LEMMA GoesPath ==
    ASSUME Asked, NEW k \in Calls, NEW pcs, NEW op, Goes(k, pcs, op),
           call[k].pc \in Sent => pcs \subseteq Sent,
           call[k].ask = {} \/ (pcs \subseteq {"waiting", "done"} /\ op = call[k].op),
           op # "answer" \/ op = call[k].op, call[k].pc # "idle" \/ op # "answer"
    PROVE  \A j \in Calls : Path(j)
    <1>1. CASE call'[k] = Done
        BY <1>1, PathSame, OneCallPath DEF Goes
    <1>2. CASE call'[k].pc \in pcs /\ call'[k].op = op /\ call'[k].ask = call[k].ask
      <2>1. Path(k)
        BY <1>2 DEF Path, Asked, Sent
      <2>2. QED
        BY <2>1, OneCallPath DEF Goes
    <1>3. QED
        BY <1>1, <1>2 DEF Goes

\* Every step takes every call along its path.
LEMMA PathStep == (Structure /\ Asked) /\ [Next]_vars => (\A k \in Calls : Path(k))
    <1> SUFFICES ASSUME (Structure /\ Asked), [Next]_vars PROVE (\A k \in Calls : Path(k))
        OBVIOUS
    <1>0. MaxCalls \in Nat \ {0} /\ MaxChildren \in Nat \ {0} /\ MaxLogs \in Nat \ {0}
          /\ QueueLimit \in Nat \ {0}
        BY ClaudeSessionAssumption
    <1>1. CASE \E k \in Calls : OpenThread(k)
      <2> PICK k \in Calls : OpenThread(k)
        BY <1>1
      <2>1. Goes(k, {"opening", "gate", "send"}, "open") /\ call[k].ask = {}
              /\ call[k].pc \notin Sent
            /\ ("open" # "answer" \/ "open" = call[k].op) /\ (call[k].pc # "idle"
                    \/ "open" # "answer")
        BY OpenThreadCall DEF Asked, Sent
      <2>2. QED
        BY <2>1, GoesPath
    <1>2. CASE \E k \in Calls, op \in TurnOps : StartTurn(k, op)
      <2> PICK k \in Calls, op \in TurnOps : StartTurn(k, op)
        BY <1>2
      <2>1. Goes(k, {"gate", "send"}, op) /\ call[k].ask = {} /\ call[k].pc \notin Sent
            /\ (op # "answer" \/ op = call[k].op) /\ (call[k].pc # "idle" \/ op # "answer")
        BY StartTurnCall DEF Asked, Sent, TurnOps
      <2>2. QED
        BY <2>1, GoesPath
    <1>3. CASE \E k \in Calls : TakeGate(k)
      <2> PICK k \in Calls : TakeGate(k)
        BY <1>3
      <2>1. Goes(k, {"spawn", "send"}, call[k].op) /\ call[k].ask = {} /\ call[k].pc \notin Sent
            /\ (call[k].op # "answer" \/ call[k].op = call[k].op) /\ (call[k].pc # "idle"
                    \/ call[k].op # "answer")
        BY TakeGateCall DEF Asked, Sent
      <2>2. QED
        BY <2>1, GoesPath
    <1>4. CASE \E k \in Calls : Respawn(k)
      <2> PICK k \in Calls : Respawn(k)
        BY <1>4
      <2>1. Goes(k, {"send"}, call[k].op) /\ call[k].ask = {} /\ call[k].pc \notin Sent
            /\ (call[k].op # "answer" \/ call[k].op = call[k].op) /\ (call[k].pc # "idle"
                    \/ call[k].op # "answer")
        BY RespawnCall DEF Asked, Sent
      <2>2. QED
        BY <2>1, GoesPath
    <1>5. CASE \E k \in Calls : Control(k)
      <2> PICK k \in Calls : Control(k)
        BY <1>5
      <2>1. Goes(k, {"send"}, "control") /\ call[k].ask = {} /\ call[k].pc \notin Sent
            /\ ("control" # "answer" \/ "control" = call[k].op) /\ (call[k].pc # "idle"
                    \/ "control" # "answer")
        BY ControlCall DEF Asked, Sent
      <2>2. QED
        BY <2>1, GoesPath
    <1>6. CASE \E k \in Calls : EnqueueNowhere(k)
      <2> PICK k \in Calls : EnqueueNowhere(k)
        BY <1>6
      <2>1. call[k].pc = "send" /\ OneCall(k)
            /\ \/ call'[k] = Done
               \/ /\ call'[k].pc = "gate" /\ call'[k].op = call[k].op
                  /\ call'[k].ask = call[k].ask /\ call[k].op \in TurnOps
        BY EnqueueNowhereCall DEF Goes
      <2>2. Path(k)
        BY <2>1, PathSame DEF Path, Asked, Sent, TurnOps
      <2>3. QED
        BY <2>1, <2>2, OneCallPath
    <1>7. CASE \E k \in Calls : GiveUp(k)
      <2> PICK k \in Calls : GiveUp(k)
        BY <1>7
      <2>1. Goes(k, {"done"}, call[k].op) /\ call[k].pc = "waiting"
        BY GiveUpCall
      <2>2. QED
        BY <2>1, GoesPath DEF Sent
    <1>8. CASE \E k \in Calls, a \in Asks : TakeAsk(k, a)
      <2> PICK k \in Calls, a \in Asks : TakeAsk(k, a)
        BY <1>8
      <2>1. /\ call[k].pc = "idle" /\ OneCall(k) /\ a \notin pending'
            /\ IF a \in pending THEN /\ call'[k].pc = "send" /\ call'[k].op = "answer"
                                     /\ call'[k].ask = {a}
               ELSE call'[k] = Done
        BY TakeAskCall DEF TakeAsk
      <2>2. Path(k)
        BY <2>1, PathSame DEF Path, Sent, OneCall
      <2>3. QED
        BY <2>1, <2>2, OneCallPath
    <1>9. CASE \E k \in Calls : RegisterOpened(k)
      <2> PICK k \in Calls : RegisterOpened(k)
        BY <1>9
      <2>1. To(k, "done") /\ call[k].pc = "opening"
        BY DEF RegisterOpened
      <2>2. OneCall(k) /\ Path(k)
        BY <2>1, ToFacts, PathSame DEF Steps, Path, Asked, Sent
      <2>3. QED
        BY <2>2, OneCallPath
    <1>10. CASE \E k \in Calls : SpawnFails(k)
      <2> PICK k \in Calls : SpawnFails(k)
        BY <1>10
      <2>1. To(k, "done") /\ call[k].pc \in {"opening", "spawn"}
        BY DEF SpawnFails
      <2>2. OneCall(k) /\ Path(k)
        BY <2>1, ToFacts, PathSame DEF Steps, Path, Asked, Sent
      <2>3. QED
        BY <2>2, OneCallPath
    <1>11. CASE \E k \in Calls : Forget(k)
      <2> PICK k \in Calls : Forget(k)
        BY <1>11
      <2>1. To(k, "done") /\ call[k].pc = "forget"
        BY DEF Forget
      <2>2. OneCall(k) /\ Path(k)
        BY <2>1, ToFacts, PathSame DEF Steps, Path, Asked, Sent
      <2>3. QED
        BY <2>2, OneCallPath
    <1>12. CASE \E k \in Calls : Joined(k)
      <2> PICK k \in Calls : Joined(k)
        BY <1>12
      <2>1. To(k, "forget") /\ call[k].pc = "joining"
        BY DEF Joined
      <2>2. OneCall(k) /\ Path(k)
        BY <2>1, ToFacts, PathSame DEF Steps, Path, Asked, Sent
      <2>3. QED
        BY <2>2, OneCallPath
    <1>13. CASE \E k \in Calls : SendStop(k)
      <2> PICK k \in Calls : SendStop(k)
        BY <1>13
      <2>1. To(k, "joining") /\ call[k].pc = "stopping"
        BY DEF SendStop
      <2>2. OneCall(k) /\ Path(k)
        BY <2>1, ToFacts, PathSame DEF Steps, Path, Asked, Sent
      <2>3. QED
        BY <2>2, OneCallPath
    <1>14. CASE \E k \in Calls : Enqueue(k)
      <2> PICK k \in Calls : Enqueue(k)
        BY <1>14
      <2>1. (To(k, "waiting") \/ To(k, "done")) /\ call[k].pc = "send"
        BY DEF Enqueue
      <2>2. OneCall(k) /\ Path(k)
        BY <2>1, ToFacts, PathSame DEF Steps, Path, Asked, Sent
      <2>3. QED
        BY <2>2, OneCallPath
    <1>15. CASE \E k \in Calls : StopTimeout(k)
      <2> PICK k \in Calls : StopTimeout(k)
        BY <1>15
      <2>1. call[k].ask = {} /\ call[k].pc \in {"stopping", "joining"} /\ call'[k].pc = "forget"
            /\ call'[k].ask = call[k].ask /\ call'[k].op = call[k].op
        BY StopTimeoutCall DEF Asked
      <2>2. Path(k)
        BY <2>1 DEF Path, Sent
      <2>3. \A l \in Calls \ {k} : call'[l] = call[l] \/ call'[l] = Done
        BY StopTimeoutCall
      <2>4. QED
        BY <2>2, <2>3, PathSame
    <1>16. CASE \E k \in Calls, op \in StopOps : StopThread(k, op)
      <2> PICK k \in Calls, op \in StopOps : StopThread(k, op)
        BY <1>16
      <2>1. Goes(k, {"stopping", "forget"}, op) /\ call[k].ask = {} /\ call[k].pc \notin Sent
            /\ (op # "answer" \/ op = call[k].op) /\ (call[k].pc # "idle" \/ op # "answer")
        BY StopThreadCall DEF Asked, Sent, StopOps
      <2>2. QED
        BY <2>1, GoesPath
    <1>17. CASE \E g \in Children : Refuse(g)
      <2> PICK g \in Children : Refuse(g)
        BY <1>17
      <2>1. call' = Replied({NextCommand(g)}) \/ call' = call
        BY DEF Refuse
      <2>2. QED
        BY <2>1, AnswersFacts, AnswersPath
    <1>18. CASE \E g \in Children : OnStop(g)
      <2> PICK g \in Children : OnStop(g)
        BY <1>18
      <2>1. call' = Replied({sup[g].setup}) \/ call' = call
        BY DEF OnStop
      <2>2. QED
        BY <2>1, AnswersFacts, AnswersPath
    <1>19. CASE \E g \in Children : BeginTurnSetup(g)
      <2> PICK g \in Children : BeginTurnSetup(g)
        BY <1>19
      <2>1. call' = Replied({NextCommand(g)}) \/ call' = call
        BY DEF BeginTurnSetup
      <2>2. QED
        BY <2>1, AnswersFacts, AnswersPath
    <1>20. CASE \E g \in Children, w \in Outcomes : Compact(g, w)
      <2> PICK g \in Children, w \in Outcomes : Compact(g, w)
        BY <1>20
      <2>1. call' = Replied({NextCommand(g)}) \/ call' = call
        BY DEF Compact, Begun, Written
      <2>2. QED
        BY <2>1, AnswersFacts, AnswersPath
    <1>21. CASE \E g \in Children, fits \in BOOLEAN, w \in Outcomes : Respond(g, fits, w)
      <2> PICK g \in Children, fits \in BOOLEAN, w \in Outcomes : Respond(g, fits, w)
        BY <1>21
      <2>1. call' = Replied({NextCommand(g)}) \/ call' = call
        BY DEF Respond, Written
      <2>2. QED
        BY <2>1, AnswersFacts, AnswersPath
    <1>22. CASE \E g \in Children, k \in Calls : ControlResponse(g, k)
      <2> PICK g \in Children, k \in Calls : ControlResponse(g, k)
        BY <1>22
      <2>1. call' = Replied({k}) \/ call' = call
        BY DEF ControlResponse
      <2>2. QED
        BY <2>1, AnswersFacts, AnswersPath
    <1>23. CASE \E g \in Children : FailTurnSetup(g)
      <2> PICK g \in Children : FailTurnSetup(g)
        BY <1>23
      <2>1. call' = Replied({sup[g].setup}) \/ call' = call
        BY DEF FailTurnSetup
      <2>2. QED
        BY <2>1, AnswersFacts, AnswersPath
    <1>24. CASE \E g \in Children, w \in Outcomes : FinishTurnSetup(g, w)
      <2> PICK g \in Children, w \in Outcomes : FinishTurnSetup(g, w)
        BY <1>24
      <2>1. call' = Replied({sup[g].setup}) \/ call' = call
        BY DEF FinishTurnSetup, Begun, Written
      <2>2. QED
        BY <2>1, AnswersFacts, AnswersPath
    <1>25. CASE \E g \in Children : ShutdownSignal(g)
      <2> PICK g \in Children : ShutdownSignal(g)
        BY <1>25
      <2>1. call' = Replied({sup[g].setup}) \/ call' = call
        BY DEF ShutdownSignal
      <2>2. QED
        BY <2>1, AnswersFacts, AnswersPath
    <1>26. CASE \E g \in Children : OnExit(g)
      <2> PICK g \in Children : OnExit(g)
        BY <1>26
      <2>1. call' = Replied(sup[g].waiters \cup {sup[g].setup}) \/ call' = call
        BY DEF OnExit
      <2>2. QED
        BY <2>1, AnswersFacts, AnswersPath
    <1>27. CASE \E g \in Children : Unregister(g)
      <2> PICK g \in Children : Unregister(g)
        BY <1>27
      <2>1. call' = Replied(Owed(g)) \/ call' = call
        BY DEF Unregister
      <2>2. QED
        BY <2>1, AnswersFacts, AnswersPath
    <1>28. CASE UNCHANGED vars
              \/ (\E g \in Children : SendControl(g))
              \/ (\E g \in Children : OwnTurn(g))
              \/ (\E g \in Children : TurnResult(g))
              \/ (\E g \in Children : StdoutEnds(g))
              \/ (\E g \in Children, a \in Asks : Ask(g, a))
              \/ (\E g \in Children, a \in Asks : CancelRequest(g, a))
              \/ (\E g \in Children : Reap(g))
              \/ (\E g \in Children : StopDeadline(g))
      <2>1. UNCHANGED <<call>>
        BY <1>28 DEF SendControl, OwnTurn, TurnResult, StdoutEnds, Ask,
           CancelRequest, Reap, StopDeadline, vars, To
      <2>2. QED
        BY <2>1, PathSame
    <1>29. QED
        BY <1>1, <1>2, <1>3, <1>4, <1>5, <1>6, <1>7, <1>8, <1>9, <1>10, <1>11,
           <1>12, <1>13, <1>14, <1>15, <1>16, <1>17, <1>18, <1>19, <1>20, <1>21,
           <1>22, <1>23, <1>24, <1>25, <1>26, <1>27, <1>28 DEF Next, Caller,
           StopCall, Commands, Lines, Timers, Exits

\* A command enters a queue.
Pushed(g, k) ==
    \/ call[k].pc = "send" /\ call'[k].pc = "waiting" /\ g = entry.child
    \/ call[k].pc = "stopping" /\ call'[k].pc = "joining" /\ g = call[k].child

\* What a step may do to the commands and the withdrawals of a child.
Moved(g) ==
    /\ \A k \in Calls : In(sup'[g].queue, k) => In(sup[g].queue, k) \/ Pushed(g, k)
    /\ \A k \in Calls : k \in sup'[g].waiters \/ k = sup'[g].setup =>
            \/ k \in sup[g].waiters \/ k = sup[g].setup
            \/ In(sup[g].queue, k) /\ call[k].op # "answer"
    /\ \A a \in sup'[g].withdrawn : a \in sup[g].withdrawn \/ cli'[a].state = "withdrawn"
    /\ \A a \in sup[g].withdrawn :
            \/ a \in sup'[g].withdrawn \/ cli'[a].state = "stale" \/ sup'[g].phase = "ended"
            \/ \E l \in Calls : In(sup[g].queue, l) /\ a \in call[l].ask /\ call'[l].ask = {}
    /\ sup'[g].phase = "serving" => sup[g].phase \in {"serving", "none"}

\* A child that does not change.
LEMMA MovedSame ==
    ASSUME NEW g \in Children, sup'[g] = sup[g] PROVE Moved(g)
    BY DEF Moved

\* One child that moves, and all others unchanged.
LEMMA OneMoved ==
    ASSUME NEW g \in Children, Others(g), Moved(g) PROVE \A h \in Children : Moved(h)
    BY MovedSame DEF Others

\* The rest of a queue.
LEMMA QueueTail ==
    ASSUME Structure, NEW g \in Children, sup[g].queue # <<>>
    PROVE  /\ NextCommand(g) \in Calls /\ In(sup[g].queue, NextCommand(g))
           /\ \A k \in Calls : In(Tail(sup[g].queue), k) => In(sup[g].queue, k)
           /\ \A k \in Calls : In(sup[g].queue, k) =>
                    In(Tail(sup[g].queue), k) \/ k = NextCommand(g)
    BY ChildFacts, InTail DEF Structure, NextCommand

\* A queue that is empty.
LEMMA InEmpty == \A k : ~In(<<>>, k)
    BY DEF In

\* Every step moves commands and withdrawals in these ways only.
LEMMA MovedStep == (Structure /\ Asked) /\ [Next]_vars => (\A c \in Children : Moved(c))
    <1> SUFFICES ASSUME (Structure /\ Asked), [Next]_vars PROVE (\A c \in Children : Moved(c))
        OBVIOUS
    <1>0. MaxCalls \in Nat \ {0} /\ MaxChildren \in Nat \ {0} /\ MaxLogs \in Nat \ {0}
          /\ QueueLimit \in Nat \ {0}
        BY ClaudeSessionAssumption
    <1>a. cli \in [Asks -> AskType] /\ call \in [Calls -> CallType]
          /\ \A g \in Children : sup[g].withdrawn \subseteq Asks
        BY ChildFacts DEF Structure, SessionType, AsksType
    <1>1. CASE \E k \in Calls : RegisterOpened(k)
      <2> PICK k \in Calls : RegisterOpened(k)
        BY <1>1
      <2>1. CASE UNCHANGED <<entry, logs, sup>>
        BY <2>1, MovedSame
      <2>2. CASE ~UNCHANGED <<entry, logs, sup>>
        <3>1. Others(NextChild) /\ NextChild \in Children
          BY <2>2, RegisterOpenedSup
        <3>2. Moved(NextChild)
          BY <1>0, <2>2, RegisterOpenedSup, InEmpty, Child0Facts DEF Child, Moved
        <3>3. QED
          BY <3>1, <3>2, OneMoved
      <2>3. QED
        BY <2>1, <2>2
    <1>2. CASE \E k \in Calls : Respawn(k)
      <2> PICK k \in Calls : Respawn(k)
        BY <1>2
      <2>1. CASE UNCHANGED <<entry, sup>>
        BY <2>1, MovedSame
      <2>2. CASE ~UNCHANGED <<entry, sup>>
        <3>1. Others(NextChild) /\ NextChild \in Children
          BY <2>2, RespawnSup
        <3>2. Moved(NextChild)
          BY <1>0, <2>2, RespawnSup, InEmpty, Child0Facts DEF Child, Moved
        <3>3. QED
          BY <3>1, <3>2, OneMoved
      <2>3. QED
        BY <2>1, <2>2
    <1>3. CASE \E k \in Calls : StopTimeout(k)
      <2> PICK k \in Calls : StopTimeout(k)
        BY <1>3
      <2> DEFINE g == call[k].child
      <2>1. Others(g) /\ g \in Children
            /\ Child(sup'[g], "ended", FALSE, sup[g].log, <<>>, 0, 0, {}, {})
        BY StopTimeoutSup
      <2> HIDE DEF g
      <2>2. Moved(g)
        BY <1>0, <2>1, InEmpty DEF Child, Moved
      <2>3. QED
        BY <2>1, <2>2, OneMoved
    <1>4. CASE \E g \in Children : Unregister(g)
      <2> PICK g \in Children : Unregister(g)
        BY <1>4
      <2>1. Others(g) /\ Child(sup'[g], "ended", FALSE, sup[g].log, <<>>, 0, 0, {}, {})
        BY UnregisterSup
      <2>2. Moved(g)
        BY <1>0, <2>1, InEmpty DEF Child, Moved
      <2>3. QED
        BY <2>1, <2>2, OneMoved
    <1>5. CASE \E g \in Children : Reap(g)
      <2> PICK g \in Children : Reap(g)
        BY <1>5
      <2>1. Others(g) /\ Moved(g)
        BY ReapSup, <1>0 DEF Child, Moved
      <2>2. QED
        BY <2>1, OneMoved
    <1>6. CASE \E k \in Calls : Enqueue(k)
      <2> PICK k \in Calls : Enqueue(k)
        BY <1>6
      <2>1. CASE sup' = sup
        BY <2>1, MovedSame
      <2>2. CASE sup' # sup
        <3> DEFINE g == entry.child
        <3>1. /\ g \in Children /\ Others(g) /\ sup'[g].queue = Append(sup[g].queue, k)
              /\ sup'[g].waiters = sup[g].waiters /\ sup'[g].setup = sup[g].setup
              /\ sup'[g].withdrawn = sup[g].withdrawn /\ sup'[g].phase = sup[g].phase
          BY <2>2, EnqueueSup DEF Child
        <3>2. call[k].pc = "send" /\ To(k, "waiting")
          BY <2>2 DEF Enqueue
        <3>3. call'[k].pc = "waiting"
          BY <3>2, ToFacts DEF Steps
        <3>4. sup[g].queue \in Seq(Calls)
          BY <3>1, ChildFacts DEF Structure
        <3>5. \A l : In(sup'[g].queue, l) => In(sup[g].queue, l) \/ l = k
          BY <3>1, <3>4, InAppend
        <3>6. Pushed(g, k)
          BY <3>2, <3>3 DEF Pushed
        <3> HIDE DEF g
        <3>7. Moved(g)
          BY <3>1, <3>5, <3>6 DEF Moved
        <3>8. QED
          BY <3>1, <3>7, OneMoved
      <2>3. QED
        BY <2>1, <2>2
    <1>7. CASE \E k \in Calls : SendStop(k)
      <2> PICK k \in Calls : SendStop(k)
        BY <1>7
      <2>1. CASE sup' = sup
        BY <2>1, MovedSame
      <2>2. CASE sup' # sup
        <3> DEFINE g == call[k].child
        <3>1. /\ g \in Children /\ Others(g) /\ sup'[g].queue = Append(sup[g].queue, k)
              /\ sup'[g].waiters = sup[g].waiters /\ sup'[g].setup = sup[g].setup
              /\ sup'[g].withdrawn = sup[g].withdrawn /\ sup'[g].phase = sup[g].phase
          BY <2>2, SendStopSup DEF Child
        <3>2. call[k].pc = "stopping" /\ To(k, "joining")
          BY <2>2 DEF SendStop
        <3>3. call'[k].pc = "joining"
          BY <3>2, ToFacts DEF Steps
        <3>4. sup[g].queue \in Seq(Calls)
          BY <3>1, ChildFacts DEF Structure
        <3>5. \A l : In(sup'[g].queue, l) => In(sup[g].queue, l) \/ l = k
          BY <3>1, <3>4, InAppend
        <3>6. Pushed(g, k)
          BY <3>2, <3>3 DEF Pushed
        <3> HIDE DEF g
        <3>7. Moved(g)
          BY <3>1, <3>5, <3>6 DEF Moved
        <3>8. QED
          BY <3>1, <3>7, OneMoved
      <2>3. QED
        BY <2>1, <2>2
    <1>8. CASE \E g \in Children : Refuse(g)
      <2> PICK g \in Children : Refuse(g)
        BY <1>8
      <2>1. Others(g) /\ sup[g].queue # <<>>
        BY RefuseSup
      <2>2. Moved(g)
        BY RefuseSup, QueueTail, <2>1 DEF Child, Moved
      <2>3. QED
        BY <2>1, <2>2, OneMoved
    <1>9. CASE \E g \in Children : OnStop(g)
      <2> PICK g \in Children : OnStop(g)
        BY <1>9
      <2>1. CASE sup[g].phase = "serving"
        <3>1. Others(g) /\ sup[g].queue # <<>>
          BY <2>1, OnStopSup
        <3>2. Moved(g)
          BY <2>1, OnStopSup, QueueTail, <3>1, <1>0 DEF Child, Moved
        <3>3. QED
          BY <3>1, <3>2, OneMoved
      <2>2. CASE ~(sup[g].phase = "serving")
        <3>1. Others(g) /\ sup[g].queue # <<>>
          BY <2>2, OnStopAgainSup
        <3>2. Moved(g)
          BY <2>2, OnStopAgainSup, QueueTail, <3>1 DEF Child, Moved
        <3>3. QED
          BY <3>1, <3>2, OneMoved
      <2>3. QED
        BY <2>1, <2>2
    <1>10. CASE \E g \in Children : BeginTurnSetup(g)
      <2> PICK g \in Children : BeginTurnSetup(g)
        BY <1>10
      <2>0. call[NextCommand(g)].op = "start"
        BY DEF BeginTurnSetup, Serves
      <2>1. CASE ~Listening(NextCommand(g)) \/ Busy(g)
        <3>1. Others(g) /\ sup[g].queue # <<>>
          BY <2>1, DropTurnSup
        <3>2. Moved(g)
          BY <2>1, DropTurnSup, QueueTail, <3>1 DEF Child, Moved
        <3>3. QED
          BY <3>1, <3>2, OneMoved
      <2>2. CASE ~(~Listening(NextCommand(g)) \/ Busy(g))
        <3>1. Others(g) /\ sup[g].queue # <<>>
          BY <2>2, SetupSup
        <3>2. Moved(g)
          BY <2>2, SetupSup, QueueTail, <3>1, <2>0 DEF Child, Moved
        <3>3. QED
          BY <3>1, <3>2, OneMoved
      <2>3. QED
        BY <2>1, <2>2
    <1>11. CASE \E g \in Children : SendControl(g)
      <2> PICK g \in Children : SendControl(g)
        BY <1>11
      <2>0. call[NextCommand(g)].op = "control"
        BY DEF SendControl, Serves
      <2>1. Others(g) /\ sup[g].queue # <<>>
        BY SendControlSup
      <2>2. Moved(g)
        BY SendControlSup, QueueTail, <2>1, <2>0 DEF Child, Moved
      <2>3. QED
        BY <2>1, <2>2, OneMoved
    <1>12. CASE \E g \in Children, w \in Outcomes : Compact(g, w)
      <2> PICK g \in Children, w \in Outcomes : Compact(g, w)
        BY <1>12
      <2>0. sup[g].phase = "serving"
        BY DEF Compact, Serves
      <2>4. ~(~Listening(NextCommand(g)) \/ Busy(g)) =>
                \A a \in sup[g].withdrawn : cli'[a].state = "stale"
        <3>1. ~(~Listening(NextCommand(g)) \/ Busy(g)) => cli' = Staled(g)
          BY DEF Compact, Begun
        <3>2. QED
          BY <1>a, <3>1 DEF Staled, AskType
      <2>1. CASE ~Listening(NextCommand(g)) \/ Busy(g)
        <3>1. Others(g) /\ sup[g].queue # <<>>
          BY <2>1, DropCompactSup
        <3>2. Moved(g)
          BY <2>1, DropCompactSup, QueueTail, <3>1 DEF Child, Moved
        <3>3. QED
          BY <3>1, <3>2, OneMoved
      <2>2. CASE ~(~Listening(NextCommand(g)) \/ Busy(g))
        <3>1. Others(g) /\ sup[g].queue # <<>>
          BY <2>2, CompactSup
        <3>2. Moved(g)
          BY <2>2, CompactSup, QueueTail, <3>1, <1>0, <2>0, <2>4 DEF Child, Moved
        <3>3. QED
          BY <3>1, <3>2, OneMoved
      <2>3. QED
        BY <2>1, <2>2
    <1>13. CASE \E g \in Children, fits \in BOOLEAN, w \in Outcomes : Respond(g, fits, w)
      <2> PICK g \in Children, fits \in BOOLEAN, w \in Outcomes : Respond(g, fits, w)
        BY <1>13
      <2>0. sup[g].phase = "serving"
        BY DEF Respond, Serves
      <2>5. sup[g].queue # <<>> /\ NextCommand(g) \in Calls /\ In(sup[g].queue, NextCommand(g))
        BY QueueTail DEF Respond, Serves
      <2>4. \/ call[NextCommand(g)].ask = {} \/ call'[NextCommand(g)].ask = {}
            \/ ~(call[NextCommand(g)].ask \cap sup[g].withdrawn # {}
                    \/ ~Listening(NextCommand(g)) \/ ~fits)
        <3>1. \/ call' = Replied({NextCommand(g)})
              \/ ~(call[NextCommand(g)].ask \cap sup[g].withdrawn # {}
                      \/ ~Listening(NextCommand(g)) \/ ~fits)
          BY DEF Respond
        <3>2. call[NextCommand(g)].ask # {} => call[NextCommand(g)].pc \in {"waiting", "done"}
          BY <2>5 DEF Asked, Sent
        <3>3. QED
          BY <1>a, <2>5, <3>1, <3>2, RepliedFacts
      <2>1. CASE call[NextCommand(g)].ask \cap sup[g].withdrawn # {}
              \/ ~Listening(NextCommand(g)) \/ ~fits
        <3>1. Others(g) /\ sup[g].queue # <<>>
          BY <2>1, RefuseAnswerSup
        <3>2. Moved(g)
          BY <2>1, RefuseAnswerSup, QueueTail, <3>1, <2>4, <2>5 DEF Child, Moved
        <3>3. QED
          BY <3>1, <3>2, OneMoved
      <2>2. CASE ~(call[NextCommand(g)].ask \cap sup[g].withdrawn # {}
              \/ ~Listening(NextCommand(g)) \/ ~fits)
        <3>1. Others(g) /\ sup[g].queue # <<>>
          BY <2>2, AnswerSup
        <3>2. Moved(g)
          BY <2>2, AnswerSup, QueueTail, <3>1, <2>0 DEF Child, Moved
        <3>3. QED
          BY <3>1, <3>2, OneMoved
      <2>3. QED
        BY <2>1, <2>2
    <1>14. CASE \E g \in Children : OwnTurn(g)
      <2> PICK g \in Children : OwnTurn(g)
        BY <1>14
      <2>1. Others(g) /\ Moved(g)
        BY OwnTurnSup DEF Child, Moved
      <2>2. QED
        BY <2>1, OneMoved
    <1>15. CASE \E g \in Children : TurnResult(g)
      <2> PICK g \in Children : TurnResult(g)
        BY <1>15
      <2>1. Others(g) /\ Moved(g)
        BY TurnResultSup DEF Child, Moved
      <2>2. QED
        BY <2>1, OneMoved
    <1>16. CASE \E g \in Children : StdoutEnds(g)
      <2> PICK g \in Children : StdoutEnds(g)
        BY <1>16
      <2>1. Others(g) /\ Moved(g)
        BY StdoutEndsSup DEF Child, Moved
      <2>2. QED
        BY <2>1, OneMoved
    <1>17. CASE \E g \in Children, a \in Asks : CancelRequest(g, a)
      <2> PICK g \in Children, a \in Asks : CancelRequest(g, a)
        BY <1>17
      <2>1. CASE a \in pending
        BY <2>1, MovedSame DEF CancelRequest
      <2>2. CASE a \notin pending
        <3>1. cli'[a].state = "withdrawn"
          BY <1>a DEF CancelRequest, AskType
        <3>2. Others(g) /\ Moved(g)
          BY <2>2, <3>1, CancelRequestSup DEF Child, Moved
        <3>3. QED
          BY <3>2, OneMoved
      <2>3. QED
        BY <2>1, <2>2
    <1>18. CASE \E g \in Children, k \in Calls : ControlResponse(g, k)
      <2> PICK g \in Children, k \in Calls : ControlResponse(g, k)
        BY <1>18
      <2>1. Others(g) /\ Moved(g)
        BY ControlResponseSup DEF Child, Moved
      <2>2. QED
        BY <2>1, OneMoved
    <1>19. CASE \E g \in Children : FailTurnSetup(g)
      <2> PICK g \in Children : FailTurnSetup(g)
        BY <1>19
      <2>1. Others(g) /\ Moved(g)
        BY FailTurnSetupSup, <1>0 DEF Child, Moved
      <2>2. QED
        BY <2>1, OneMoved
    <1>20. CASE \E g \in Children, w \in Outcomes : FinishTurnSetup(g, w)
      <2> PICK g \in Children, w \in Outcomes : FinishTurnSetup(g, w)
        BY <1>20
      <2>0. sup[g].phase = "serving"
        BY DEF FinishTurnSetup
      <2>4. ~(~Listening(sup[g].setup) \/ sup[g].turn # None) =>
                \A a \in sup[g].withdrawn : cli'[a].state = "stale"
        <3>1. ~(~Listening(sup[g].setup) \/ sup[g].turn # None) => cli' = Staled(g)
          BY DEF FinishTurnSetup, Begun
        <3>2. QED
          BY <1>a, <3>1 DEF Staled, AskType
      <2>1. CASE ~Listening(sup[g].setup) \/ sup[g].turn # None
        <3>1. Others(g) /\ Moved(g)
          BY <2>1, DropSetupSup, <1>0 DEF Child, Moved
        <3>2. QED
          BY <3>1, OneMoved
      <2>2. CASE ~(~Listening(sup[g].setup) \/ sup[g].turn # None)
        <3>1. Others(g) /\ Moved(g)
          BY <2>2, StartSup, <1>0, <2>0, <2>4 DEF Child, Moved
        <3>2. QED
          BY <3>1, OneMoved
      <2>3. QED
        BY <2>1, <2>2
    <1>21. CASE \E g \in Children : StopDeadline(g)
      <2> PICK g \in Children : StopDeadline(g)
        BY <1>21
      <2>1. Others(g) /\ Moved(g)
        BY StopDeadlineSup DEF Child, Moved
      <2>2. QED
        BY <2>1, OneMoved
    <1>22. CASE \E g \in Children : ShutdownSignal(g)
      <2> PICK g \in Children : ShutdownSignal(g)
        BY <1>22
      <2>1. Others(g) /\ Moved(g)
        BY ShutdownSignalSup, <1>0 DEF Child, Moved
      <2>2. QED
        BY <2>1, OneMoved
    <1>23. CASE \E g \in Children : OnExit(g)
      <2> PICK g \in Children : OnExit(g)
        BY <1>23
      <2>1. Others(g) /\ Moved(g)
        BY OnExitSup, <1>0 DEF Child, Moved
      <2>2. QED
        BY <2>1, OneMoved
    <1>24. CASE UNCHANGED vars
              \/ (\E k \in Calls : OpenThread(k))
              \/ (\E k \in Calls : SpawnFails(k))
              \/ (\E k \in Calls, op \in TurnOps : StartTurn(k, op))
              \/ (\E k \in Calls : TakeGate(k))
              \/ (\E k \in Calls : Control(k))
              \/ (\E k \in Calls, a \in Asks : TakeAsk(k, a))
              \/ (\E k \in Calls : EnqueueNowhere(k))
              \/ (\E k \in Calls : GiveUp(k))
              \/ (\E k \in Calls, op \in StopOps : StopThread(k, op))
              \/ (\E k \in Calls : Joined(k))
              \/ (\E k \in Calls : Forget(k))
              \/ (\E g \in Children, a \in Asks : Ask(g, a))
      <2>1. UNCHANGED <<sup>>
        BY <1>24 DEF OpenThread, SpawnFails, StartTurn, TakeGate, Control, TakeAsk,
           EnqueueNowhere, GiveUp, StopThread, Joined, Forget, Ask, vars, To
      <2>2. QED
        BY <2>1, MovedSame DEF Moved
    <1>25. QED
        BY <1>1, <1>2, <1>3, <1>4, <1>5, <1>6, <1>7, <1>8, <1>9, <1>10, <1>11,
           <1>12, <1>13, <1>14, <1>15, <1>16, <1>17, <1>18, <1>19, <1>20, <1>21,
           <1>22, <1>23, <1>24 DEF Next, Caller, StopCall, Commands, Lines, Timers,
           Exits

\* Calls keep to what they ask, and commands to one queue.
LEMMA AskedStep == (Structure /\ Asked) /\ [Next]_vars => Asked'
    <1> SUFFICES ASSUME Structure /\ Asked, [Next]_vars PROVE Asked'
        OBVIOUS
    <1>1. /\ \A k \in Calls : Path(k)
          /\ \A g \in Children : Moved(g)
          /\ pending \subseteq Asks
        BY PathStep, MovedStep DEF Structure, SessionType, AsksType
    <1>2. ASSUME NEW k \in Calls, call'[k].ask # {}
          PROVE  /\ call'[k].op = "answer" /\ call'[k].pc \in {"send", "waiting", "done"}
                 /\ \E a \in Asks : call'[k].ask = {a}
      <2>1. Path(k)
        BY <1>1
      <2>2. CASE call'[k].ask = call[k].ask /\ call'[k].op = call[k].op
                 /\ call'[k].pc \in {"send", "waiting", "done"}
        BY <1>2, <2>2 DEF Asked
      <2>3. QED
        BY <1>1, <1>2, <2>1, <2>2 DEF Path
    <1>3. ASSUME NEW k \in Calls, NEW g \in Children, In(sup'[g].queue, k)
          PROVE  call'[k].pc \in Sent
      <2>1. In(sup[g].queue, k) \/ Pushed(g, k)
        BY <1>1, <1>3 DEF Moved
      <2>2. QED
        BY <1>1, <2>1 DEF Asked, Path, Pushed, Sent
    <1>4. ASSUME NEW k \in Calls, NEW g \in Children, NEW h \in Children,
                 In(sup'[g].queue, k), In(sup'[h].queue, k)
          PROVE  g = h
      <2>1. (In(sup[g].queue, k) \/ Pushed(g, k)) /\ (In(sup[h].queue, k) \/ Pushed(h, k))
        BY <1>1, <1>4 DEF Moved
      <2>2. \A c \in Children : In(sup[c].queue, k) => call[k].pc \in Sent
        BY DEF Asked
      <2>3. CASE In(sup[g].queue, k) /\ In(sup[h].queue, k)
        BY <2>3 DEF Asked
      <2>4. CASE Pushed(g, k) \/ Pushed(h, k)
        BY <2>1, <2>2, <2>4 DEF Pushed, Sent
      <2>5. QED
        BY <2>1, <2>3, <2>4
    <1>5. ASSUME NEW g \in Children, NEW k \in Calls, k \in sup'[g].waiters \/ k = sup'[g].setup
          PROVE  call'[k].op # "answer" /\ call'[k].pc \in Sent
      <2>1. \/ k \in sup[g].waiters \/ k = sup[g].setup
            \/ In(sup[g].queue, k) /\ call[k].op # "answer"
        BY <1>1, <1>5 DEF Moved
      <2>2. call[k].op # "answer" /\ call[k].pc \in Sent
        BY <2>1 DEF Asked
      <2>3. QED
        BY <1>1, <2>2 DEF Path, Sent
    <1>6. QED
        BY <1>2, <1>3, <1>4, <1>5 DEF Asked

\* What a step may do to an ask.
AskPath(a) ==
    /\ cli'[a].state = "unused" => cli[a].state = "unused"
    /\ cli'[a].child = cli[a].child \/ cli[a].state = "unused"
    /\ cli'[a].state = "awaiting" =>
         \/ cli[a].state = "awaiting"
         \/ /\ cli[a].state = "unused"
            /\ a \in pending' \/ (sup[cli'[a].child].reaped /\ entry' = entry)
    /\ cli'[a].state = "withdrawn" =>
         \/ cli[a].state = "withdrawn"
         \/ /\ cli[a].state = "awaiting" /\ a \notin pending' /\ call' = call
            /\ a \in pending \/ a \in sup'[cli[a].child].withdrawn
    /\ cli'[a].state = "answered" =>
         \/ cli[a].state = "answered"
         \/ \E g \in Children, k \in Calls :
              /\ cli[a].child = g /\ sup[g].phase = "serving" /\ a \notin sup[g].withdrawn
              /\ In(sup[g].queue, k) /\ a \in call[k].ask
    /\ a \in pending' =>
         \/ a \in pending
         \/ cli[a].state = "unused" /\ cli'[a].state = "awaiting"
         \/ \E g \in Children, k \in Calls :
              /\ In(sup[g].queue, k) /\ a \in call[k].ask /\ call'[k].ask = {}
              /\ a \notin sup[g].withdrawn
    /\ a \in pending =>
         \/ a \in pending' \cup lost' \/ cli'[a].state # "awaiting"
         \/ \E k \in Calls : a \in call'[k].ask /\ call'[k].pc = "send"
    /\ a \in lost => a \in lost' \/ cli'[a].state # "awaiting"

\* An ask that does not change.
LEMMA AskPathSame ==
    ASSUME NEW a \in Asks, cli'[a] = cli[a], a \in pending <=> a \in pending', a \in lost
            => a \in lost'
    PROVE  AskPath(a)
    BY DEF AskPath

\* A command that is served, when it is an answer.
LEMMA AnswerServed ==
    ASSUME Structure, Asked, NEW g \in Children, Serves(g, "answer")
    PROVE  /\ NextCommand(g) \in Calls /\ In(sup[g].queue, NextCommand(g))
           /\ sup[g].phase = "serving" /\ sup[g].queue # <<>>
           /\ call[NextCommand(g)].ask # {} => call[NextCommand(g)].pc \in {"waiting", "done"}
    <1>1. sup[g].phase = "serving" /\ sup[g].queue # <<>>
        BY DEF Serves
    <1>2. NextCommand(g) \in Calls /\ In(sup[g].queue, NextCommand(g))
        BY <1>1, QueueTail
    <1>3. QED
        BY <1>1, <1>2 DEF Asked, Sent

\* Every step takes every ask along its path.
LEMMA AskPathStep == (Structure /\ Asked) /\ [Next]_vars => (\A x \in Asks : AskPath(x))
    <1> SUFFICES ASSUME (Structure /\ Asked), [Next]_vars PROVE (\A x \in Asks : AskPath(x))
        OBVIOUS
    <1>0. MaxCalls \in Nat \ {0} /\ MaxChildren \in Nat \ {0} /\ MaxLogs \in Nat \ {0}
          /\ QueueLimit \in Nat \ {0}
        BY ClaudeSessionAssumption
    <1>a. cli \in [Asks -> AskType] /\ call \in [Calls -> CallType]
          /\ \A g \in Children : sup[g].withdrawn \subseteq Asks
        BY ChildFacts DEF Structure, SessionType, AsksType
    <1>1. CASE \E k \in Calls, a \in Asks : TakeAsk(k, a)
      <2> PICK k \in Calls, a \in Asks : TakeAsk(k, a)
        BY <1>1
      <2>1. /\ IF a \in pending THEN call'[k].pc = "send" /\ call'[k].ask = {a} ELSE TRUE
            /\ pending' = pending \ {a} /\ UNCHANGED <<cli, lost>>
        BY TakeAskCall DEF TakeAsk
      <2>2. ASSUME NEW x \in Asks PROVE AskPath(x)
        BY <2>1 DEF AskPath
      <2>3. QED
        BY <2>2
    <1>2. CASE \E k \in Calls : Enqueue(k)
      <2> PICK k \in Calls : Enqueue(k)
        BY <1>2
      <2> QED
        BY AskPathSame DEF Enqueue
    <1>3. CASE \E k \in Calls : StopTimeout(k)
      <2> PICK k \in Calls : StopTimeout(k)
        BY <1>3
      <2> DEFINE g == call[k].child
      <2>1. cli' = Gone(g) /\ pending' = pending /\ lost' = Live(g, lost)
        BY DEF StopTimeout
      <2>2. \A x \in Asks : IF cli[x].child = g THEN cli'[x].child = g /\ cli'[x].state = "gone"
                            ELSE cli'[x] = cli[x]
        BY <1>a, <2>1 DEF Gone, AskType
      <2>3. \A x \in lost : cli[x].child # g => x \in lost'
        BY <2>1 DEF Live
      <2> HIDE DEF g
      <2>4. ASSUME NEW x \in Asks PROVE AskPath(x)
        BY <2>1, <2>2, <2>3 DEF AskPath
      <2>5. QED
        BY <2>4
    <1>4. CASE \E k \in Calls : Forget(k)
      <2> PICK k \in Calls : Forget(k)
        BY <1>4
      <2> QED
        BY DEF Forget, AskPath
    <1>5. CASE \E g \in Children, w \in Outcomes : Compact(g, w)
      <2> PICK g \in Children, w \in Outcomes : Compact(g, w)
        BY <1>5
      <2>1. (cli' = cli \/ cli' = Staled(g)) /\ UNCHANGED <<pending, lost>>
        BY DEF Compact, Begun
      <2>2. \A x \in Asks : cli'[x] = cli[x] \/ (cli'[x].child = cli[x].child
              /\ cli'[x].state = "stale")
        BY <1>a, <2>1 DEF Staled, AskType
      <2>3. QED
        BY <2>1, <2>2 DEF AskPath
    <1>6. CASE \E g \in Children, w \in Outcomes : FinishTurnSetup(g, w)
      <2> PICK g \in Children, w \in Outcomes : FinishTurnSetup(g, w)
        BY <1>6
      <2>1. (cli' = cli \/ cli' = Staled(g)) /\ UNCHANGED <<pending, lost>>
        BY DEF FinishTurnSetup, Begun
      <2>2. \A x \in Asks : cli'[x] = cli[x] \/ (cli'[x].child = cli[x].child
              /\ cli'[x].state = "stale")
        BY <1>a, <2>1 DEF Staled, AskType
      <2>3. QED
        BY <2>1, <2>2 DEF AskPath
    <1>7. CASE \E g \in Children, fits \in BOOLEAN, w \in Outcomes : Respond(g, fits, w)
      <2> PICK g \in Children, fits \in BOOLEAN, w \in Outcomes : Respond(g, fits, w)
        BY <1>7
      <2> DEFINE n == NextCommand(g)
                 A == call[n].ask
      <2>1. /\ n \in Calls /\ In(sup[g].queue, n) /\ sup[g].phase = "serving"
            /\ A # {} => call[n].pc \in {"waiting", "done"}
        BY AnswerServed DEF Respond
      <2>2. CASE A \cap sup[g].withdrawn # {}
        <3>1. UNCHANGED <<cli, pending, lost>>
          BY <2>2 DEF Respond
        <3>2. QED
          BY <3>1, AskPathSame
      <2>3. CASE A \cap sup[g].withdrawn = {} /\ (~Listening(n) \/ ~fits)
        <3>1. call' = Replied({n}) /\ pending' = pending \cup A /\ cli' = cli /\ lost' = lost
          BY <2>3 DEF Respond
        <3>2. A # {} => call'[n].ask = {}
          BY <1>a, <2>1, <3>1, RepliedFacts
        <3> HIDE DEF n
        <3>3. ASSUME NEW x \in Asks PROVE AskPath(x)
          <4>1. CASE x \in A
            BY <2>1, <2>3, <3>1, <3>2, <4>1 DEF AskPath
          <4>2. CASE x \notin A
            BY <3>1, <4>2, AskPathSame
          <4>3. QED
            BY <4>1, <4>2
        <3>4. QED
          BY <3>3
      <2>4. CASE ~(A \cap sup[g].withdrawn # {} \/ ~Listening(n) \/ ~fits)
        <3>1. cli' = Told(g, A) /\ UNCHANGED <<pending, lost>>
          BY <2>4 DEF Respond
        <3>2. \A x \in Asks : \/ cli'[x] = cli[x]
                              \/ /\ x \in A /\ cli[x].child = g
                                 /\ cli'[x].child = g /\ cli'[x].state = "answered"
          BY <1>a, <3>1 DEF Told, AskType
        <3> HIDE DEF n
        <3>3. ASSUME NEW x \in Asks PROVE AskPath(x)
          <4>1. CASE cli'[x] = cli[x]
            BY <3>1, <4>1, AskPathSame
          <4>2. CASE x \in A /\ cli[x].child = g /\ cli'[x].child = g
                  /\ cli'[x].state = "answered"
            BY <2>1, <2>4, <3>1, <4>2 DEF AskPath
          <4>3. QED
            BY <3>2, <4>1, <4>2
        <3>4. QED
          BY <3>3
      <2>5. QED
        BY <2>2, <2>3, <2>4
    <1>8. CASE \E g \in Children, a \in Asks : Ask(g, a)
      <2> PICK g \in Children, a \in Asks : Ask(g, a)
        BY <1>8
      <2>1. /\ cli'[a].child = g /\ cli'[a].state = "awaiting"
            /\ \A x \in Asks : x # a => cli'[x] = cli[x]
        BY <1>a DEF Ask
      <2>2. /\ cli[a].state = "unused" /\ lost' = lost /\ entry' = entry
            /\ pending' = IF sup[g].reaped THEN pending ELSE pending \cup {a}
        BY DEF Ask
      <2>3. ASSUME NEW x \in Asks PROVE AskPath(x)
        <3>1. CASE x = a
          BY <2>1, <2>2, <3>1 DEF AskPath
        <3>2. CASE x # a
          BY <2>1, <2>2, <3>2, AskPathSame
        <3>3. QED
          BY <3>1, <3>2
      <2>4. QED
        BY <2>3
    <1>9. CASE \E g \in Children, a \in Asks : CancelRequest(g, a)
      <2> PICK g \in Children, a \in Asks : CancelRequest(g, a)
        BY <1>9
      <2>1. /\ cli'[a].child = cli[a].child /\ cli'[a].state = "withdrawn"
            /\ \A x \in Asks : x # a => cli'[x] = cli[x]
        BY <1>a DEF CancelRequest, AskType
      <2>2. cli[a].child = g /\ cli[a].state = "awaiting" /\ lost' = lost
              /\ pending' = pending \ {a}
            /\ call' = call
        BY DEF CancelRequest, Awaits
      <2>3. a \in pending \/ a \in sup'[g].withdrawn
        BY CancelRequestSup DEF Child
      <2>4. ASSUME NEW x \in Asks PROVE AskPath(x)
        <3>1. CASE x = a
          BY <2>1, <2>2, <2>3, <3>1 DEF AskPath
        <3>2. CASE x # a
          BY <2>1, <2>2, <3>2, AskPathSame
        <3>3. QED
          BY <3>1, <3>2
      <2>5. QED
        BY <2>4
    <1>10. CASE \E g \in Children : OnExit(g)
      <2> PICK g \in Children : OnExit(g)
        BY <1>10
      <2>1. /\ cli' = Gone(g)
            /\ \/ pending' = pending /\ lost' = lost
               \/ pending' = {} /\ lost' = Live(g, lost \cup pending)
        <3>1. CASE sup[g].reaped
          BY <3>1 DEF OnExit
        <3>2. CASE ~sup[g].reaped
          BY <3>2 DEF OnExit
        <3>3. QED
          BY <3>1, <3>2
      <2>2. \A x \in Asks : IF cli[x].child = g THEN cli'[x].child = g /\ cli'[x].state = "gone"
                            ELSE cli'[x] = cli[x]
        BY <1>a, <2>1 DEF Gone, AskType
      <2>3. ASSUME NEW x \in Asks PROVE AskPath(x)
        BY <2>1, <2>2 DEF AskPath, Live
      <2>4. QED
        BY <2>3
    <1>11. CASE UNCHANGED vars
              \/ (\E k \in Calls : OpenThread(k))
              \/ (\E k \in Calls : RegisterOpened(k))
              \/ (\E k \in Calls : SpawnFails(k))
              \/ (\E k \in Calls, op \in TurnOps : StartTurn(k, op))
              \/ (\E k \in Calls : TakeGate(k))
              \/ (\E k \in Calls : Respawn(k))
              \/ (\E k \in Calls : Control(k))
              \/ (\E k \in Calls : EnqueueNowhere(k))
              \/ (\E k \in Calls : GiveUp(k))
              \/ (\E k \in Calls, op \in StopOps : StopThread(k, op))
              \/ (\E k \in Calls : SendStop(k))
              \/ (\E k \in Calls : Joined(k))
              \/ (\E g \in Children : Refuse(g))
              \/ (\E g \in Children : OnStop(g))
              \/ (\E g \in Children : BeginTurnSetup(g))
              \/ (\E g \in Children : SendControl(g))
              \/ (\E g \in Children : OwnTurn(g))
              \/ (\E g \in Children : TurnResult(g))
              \/ (\E g \in Children : StdoutEnds(g))
              \/ (\E g \in Children, k \in Calls : ControlResponse(g, k))
              \/ (\E g \in Children : FailTurnSetup(g))
              \/ (\E g \in Children : Reap(g))
              \/ (\E g \in Children : StopDeadline(g))
              \/ (\E g \in Children : ShutdownSignal(g))
              \/ (\E g \in Children : Unregister(g))
      <2>1. UNCHANGED <<pending, lost, cli>>
        BY <1>11 DEF OpenThread, RegisterOpened, SpawnFails, StartTurn, TakeGate,
           Respawn, Control, EnqueueNowhere, GiveUp, StopThread, SendStop, Joined,
           Refuse, OnStop, BeginTurnSetup, SendControl, OwnTurn, TurnResult,
           StdoutEnds, ControlResponse, FailTurnSetup, Reap, StopDeadline,
           ShutdownSignal, Unregister, vars, To
      <2>2. QED
        BY <2>1, AskPathSame DEF AskPath
    <1>12. QED
        BY <1>1, <1>2, <1>3, <1>4, <1>5, <1>6, <1>7, <1>8, <1>9, <1>10, <1>11 DEF
           Next, Caller, StopCall, Commands, Lines, Timers, Exits


\* The child of the entry stays, leaves, or is spawned.
EntryChildKept ==
    \/ entry'.child \in {0, entry.child}
    \/ entry'.child \in Children /\ sup[entry'.child].phase = "none"

\* So it does in every step.
LEMMA EntryChildStep == Structure /\ [Next]_vars => EntryChildKept
    <1> SUFFICES ASSUME Structure, [Next]_vars PROVE EntryChildKept
        OBVIOUS
    <1>0. MaxCalls \in Nat \ {0} /\ MaxChildren \in Nat \ {0} /\ MaxLogs \in Nat \ {0}
          /\ QueueLimit \in Nat \ {0}
        BY ClaudeSessionAssumption
    <1>1. CASE \E k \in Calls : RegisterOpened(k)
      <2> PICK k \in Calls : RegisterOpened(k)
        BY <1>1
      <2>1. CASE UNCHANGED <<entry, logs, sup>>
        BY <2>1 DEF EntryChildKept
      <2>2. CASE ~UNCHANGED <<entry, logs, sup>>
        <3>0. /\ NextChild \in Children /\ sup[NextChild] = Child0
              /\ entry' = [log |-> NextLog, child |-> NextChild]
          BY <2>2, RegisterOpenedSup
        <3>1. /\ NextChild \in Children /\ sup[NextChild] = Child0
              /\ entry'.child = NextChild
          BY <3>0
        <3>2. QED
          BY <3>1, Child0Facts DEF EntryChildKept
      <2>3. QED
        BY <2>1, <2>2
    <1>2. CASE \E k \in Calls : Respawn(k)
      <2> PICK k \in Calls : Respawn(k)
        BY <1>2
      <2>1. CASE UNCHANGED <<entry, sup>>
        BY <2>1 DEF EntryChildKept
      <2>2. CASE ~UNCHANGED <<entry, sup>>
        <3>0. /\ NextChild \in Children /\ sup[NextChild] = Child0
              /\ entry' = [log |-> entry.log, child |-> NextChild]
          BY <2>2, RespawnSup
        <3>1. /\ NextChild \in Children /\ sup[NextChild] = Child0
              /\ entry'.child = NextChild
          BY <3>0
        <3>2. QED
          BY <3>1, Child0Facts DEF EntryChildKept
      <2>3. QED
        BY <2>1, <2>2
    <1>3. CASE \E k \in Calls, op \in StopOps : StopThread(k, op)
      <2> PICK k \in Calls, op \in StopOps : StopThread(k, op)
        BY <1>3
      <2> QED
        BY DEF StopThread, NoEntry, EntryChildKept
    <1>4. CASE \E g \in Children : Reap(g)
      <2> PICK g \in Children : Reap(g)
        BY <1>4
      <2>1. entry' = entry \/ entry' = [entry EXCEPT !.child = 0]
        BY DEF Reap
      <2>2. QED
        BY <2>1 DEF Structure, SessionType, EntryType, EntryChildKept
    <1>5. CASE \E g \in Children : Unregister(g)
      <2> PICK g \in Children : Unregister(g)
        BY <1>5
      <2> QED
        BY DEF Unregister, NoEntry, EntryChildKept
    <1>6. CASE UNCHANGED vars
              \/ (\E k \in Calls : OpenThread(k))
              \/ (\E k \in Calls : SpawnFails(k))
              \/ (\E k \in Calls, op \in TurnOps : StartTurn(k, op))
              \/ (\E k \in Calls : TakeGate(k))
              \/ (\E k \in Calls : Control(k))
              \/ (\E k \in Calls, a \in Asks : TakeAsk(k, a))
              \/ (\E k \in Calls : EnqueueNowhere(k))
              \/ (\E k \in Calls : Enqueue(k))
              \/ (\E k \in Calls : GiveUp(k))
              \/ (\E k \in Calls : SendStop(k))
              \/ (\E k \in Calls : Joined(k))
              \/ (\E k \in Calls : StopTimeout(k))
              \/ (\E k \in Calls : Forget(k))
              \/ (\E g \in Children : Refuse(g))
              \/ (\E g \in Children : OnStop(g))
              \/ (\E g \in Children : BeginTurnSetup(g))
              \/ (\E g \in Children : SendControl(g))
              \/ (\E g \in Children, w \in Outcomes : Compact(g, w))
              \/ (\E g \in Children, fits \in BOOLEAN, w \in Outcomes : Respond(g, fits, w))
              \/ (\E g \in Children : OwnTurn(g))
              \/ (\E g \in Children : TurnResult(g))
              \/ (\E g \in Children : StdoutEnds(g))
              \/ (\E g \in Children, a \in Asks : Ask(g, a))
              \/ (\E g \in Children, a \in Asks : CancelRequest(g, a))
              \/ (\E g \in Children, k \in Calls : ControlResponse(g, k))
              \/ (\E g \in Children : FailTurnSetup(g))
              \/ (\E g \in Children, w \in Outcomes : FinishTurnSetup(g, w))
              \/ (\E g \in Children : StopDeadline(g))
              \/ (\E g \in Children : ShutdownSignal(g))
              \/ (\E g \in Children : OnExit(g))
      <2>1. UNCHANGED <<entry>>
        BY <1>6 DEF OpenThread, SpawnFails, StartTurn, TakeGate, Control, TakeAsk,
           EnqueueNowhere, Enqueue, GiveUp, SendStop, Joined, StopTimeout, Forget,
           Refuse, OnStop, BeginTurnSetup, SendControl, Compact, Respond, OwnTurn,
           TurnResult, StdoutEnds, Ask, CancelRequest, ControlResponse,
           FailTurnSetup, FinishTurnSetup, StopDeadline, ShutdownSignal, OnExit,
           vars, To
      <2>2. QED
        BY <2>1 DEF EntryChildKept
    <1>7. QED
        BY <1>1, <1>2, <1>3, <1>4, <1>5, <1>6 DEF Next, Caller, StopCall, Commands,
           Lines, Timers, Exits

\* No answer comes to be on its way but by taking a pending ask.
LEMMA CarriesFrom ==
    ASSUME Structure, Asked, Asked', \A j \in Calls : Path(j), \A c \in Children : Moved(c),
           NEW k \in Calls, NEW a \in Asks, a \in call'[k].ask
    PROVE  /\ \/ a \in call[k].ask /\ call[k].pc # "idle"
              \/ /\ call[k].pc = "idle" /\ a \in pending /\ a \notin pending'
                 /\ \A l \in Calls \ {k} : call'[l] = call[l]
           /\ call'[k].pc = "send" /\ call[k].pc # "idle" => call[k].pc = "send"
           /\ \A g \in Children : In(sup'[g].queue, k) =>
                 /\ call[k].pc # "idle"
                 /\ In(sup[g].queue, k) \/ (call[k].pc = "send" /\ g = entry.child)
    <1>1. Path(k) /\ call'[k].ask # {}
        OBVIOUS
    <1>2. ASSUME NEW g \in Children, In(sup'[g].queue, k)
          PROVE  /\ call[k].pc # "idle"
                 /\ In(sup[g].queue, k) \/ (call[k].pc = "send" /\ g = entry.child)
      <2>1. In(sup[g].queue, k) \/ Pushed(g, k)
        BY <1>2 DEF Moved
      <2>2. CASE In(sup[g].queue, k)
        BY <2>2 DEF Asked, Sent
      <2>3. CASE Pushed(g, k)
        BY <1>1, <2>3 DEF Pushed, Asked, Path
      <2>4. QED
        BY <2>1, <2>2, <2>3
    <1>3. QED
        BY <1>1, <1>2 DEF Path

\* An ask stays pending or on one way.
LEMMA CarriedStep ==
    (Structure /\ Asked /\ Carried) /\ [Next]_vars => Carried'
    <1> SUFFICES ASSUME Structure, Asked, Carried, [Next]_vars PROVE Carried'
        OBVIOUS
    <1>1. /\ \A k \in Calls : Path(k)
          /\ \A g \in Children : Moved(g)
          /\ \A a \in Asks : AskPath(a)
          /\ Structure' /\ Asked'
        BY PathStep, MovedStep, AskPathStep, StructureStep, AskedStep
    <1>2. ASSUME NEW k \in Calls, NEW a \in Asks, Carries(k, a)'
          PROVE  \/ Carries(k, a)
                 \/ /\ call[k].pc = "idle" /\ a \in pending /\ a \notin pending'
                    /\ \A l \in Calls \ {k} : call'[l] = call[l]
      <2>1. a \in call'[k].ask
            /\ (call'[k].pc = "send" \/ \E g \in Children : In(sup'[g].queue, k))
        BY <1>2 DEF Carries
      <2>2. QED
        BY <1>1, <2>1, CarriesFrom DEF Carries
    <1>3. \A k \in Calls, a \in Asks : Carries(k, a) => call[k].pc # "idle"
        BY DEF Carries, Asked
    <1>4. ASSUME NEW k \in Calls, NEW a \in Asks, NEW l \in Calls, Carries(k, a)', Carries(l,
            a)'
          PROVE  l = k
      <2>1. CASE Carries(k, a) /\ Carries(l, a)
        BY <2>1 DEF Carried
      <2>2. CASE ~Carries(k, a)
        <3>1. SUFFICES ASSUME l # k PROVE FALSE
          OBVIOUS
        <3>2. call[k].pc = "idle" /\ a \in pending /\ call'[l] = call[l]
          BY <1>2, <1>4, <2>2, <3>1
        <3>3. a \in call[l].ask
          BY <1>4, <3>2 DEF Carries
        <3>4. Carries(l, a)
          BY <1>2, <1>4, <3>3 DEF Asked
        <3>5. QED
          BY <3>2, <3>4 DEF Carried
      <2>3. CASE ~Carries(l, a)
        <3>1. SUFFICES ASSUME l # k PROVE FALSE
          OBVIOUS
        <3>2. call[l].pc = "idle" /\ a \in pending /\ call'[k] = call[k]
          BY <1>2, <1>4, <2>3, <3>1
        <3>3. a \in call[k].ask
          BY <1>4, <3>2 DEF Carries
        <3>4. Carries(k, a)
          BY <1>2, <1>4, <3>3 DEF Asked
        <3>5. QED
          BY <3>2, <3>4 DEF Carried
      <2>4. QED
        BY <2>1, <2>2, <2>3
    <1>5. ASSUME NEW k \in Calls, NEW a \in Asks, Carries(k, a)' PROVE a \notin pending'
      <2>1. CASE ~Carries(k, a)
        BY <1>2, <1>5, <2>1
      <2>2. CASE Carries(k, a)
        <3>1. SUFFICES ASSUME a \in pending' PROVE FALSE
          OBVIOUS
        <3>2. a \notin pending /\ cli[a].state # "unused"
          BY <2>2 DEF Carried, Carries
        <3>3. PICK g \in Children, l \in Calls :
                 In(sup[g].queue, l) /\ a \in call[l].ask /\ call'[l].ask = {}
          BY <1>1, <3>1, <3>2 DEF AskPath
        <3>4. l = k
          BY <2>2, <3>3 DEF Carried, Carries
        <3>5. QED
          BY <1>5, <3>3, <3>4 DEF Carries
      <2>3. QED
        BY <2>1, <2>2
    <1>6. ASSUME NEW a \in Asks, cli'[a].state = "unused"
          PROVE  a \notin pending' /\ \A k \in Calls : a \notin call'[k].ask
      <2>1. cli[a].state = "unused" /\ a \notin pending /\ \A k \in Calls : a \notin call[k].ask
        BY <1>1, <1>6 DEF AskPath, Carried
      <2>2. a \notin pending'
        BY <1>1, <1>6, <2>1 DEF AskPath
      <2>3. ASSUME NEW k \in Calls PROVE a \notin call'[k].ask
        BY <1>1, <2>1, CarriesFrom
      <2>4. QED
        BY <2>2, <2>3
    <1>7. ASSUME NEW a \in Asks, NEW k \in Calls, NEW g \in Children, a \in call'[k].ask,
                 In(sup'[g].queue, k), cli'[a].child = entry'.child, entry'.child # 0
          PROVE  g = entry'.child
      <2>1. a \in call[k].ask /\ (In(sup[g].queue, k) \/ (call[k].pc = "send"
              /\ g = entry.child))
        BY <1>1, <1>7, CarriesFrom
      <2>2. cli[a].child = entry'.child
        BY <1>1, <1>7, <2>1 DEF AskPath, Carried
      <2>3. sup[cli[a].child].phase # "none"
        BY <1>7, <2>2 DEF Structure, Registered
      <2>4. entry'.child = entry.child
        BY <1>7, <2>2, <2>3, EntryChildStep DEF EntryChildKept
      <2>5. QED
        BY <1>7, <2>1, <2>2, <2>4 DEF Carried
    <1>8. QED
        BY <1>4, <1>5, <1>6, <1>7 DEF Carried

\* The child of the entry that an ask names was its child before.
LEMMA SameChild ==
    ASSUME Structure, [Next]_vars, NEW a \in Asks, cli[a].child # 0,
           entry'.child = cli[a].child
    PROVE  entry'.child = entry.child
    <1>1. sup[cli[a].child].phase # "none"
        BY DEF Structure, Registered
    <1>2. QED
        BY <1>1, EntryChildStep DEF EntryChildKept

\* A child remembers what it withdrew.
LEMMA WithdrawnStep ==
    (Structure /\ Asked /\ Carried /\ Withdrawn) /\ [Next]_vars => Withdrawn'
    <1> SUFFICES ASSUME Structure, Asked, Carried, Withdrawn, [Next]_vars PROVE Withdrawn'
        OBVIOUS
    <1>0. MaxChildren \in Nat \ {0}
        BY ClaudeSessionAssumption
    <1>1. /\ \A k \in Calls : Path(k)
          /\ \A g \in Children : Moved(g)
          /\ \A a \in Asks : AskPath(a)
          /\ Structure' /\ Asked' /\ Carried'
        BY PathStep, MovedStep, AskPathStep, StructureStep, AskedStep, CarriedStep
    <1>2. ASSUME NEW g \in Children, NEW a \in Asks, a \in sup'[g].withdrawn
          PROVE  cli'[a].state \notin {"unused", "awaiting"}
      <2>1. CASE a \in sup[g].withdrawn
        BY <1>1, <2>1 DEF Withdrawn, AskPath
      <2>2. CASE cli'[a].state = "withdrawn"
        BY <2>2
      <2>3. QED
        BY <1>1, <1>2, <2>1, <2>2 DEF Moved
    <1>3. ASSUME NEW g \in Children, NEW a \in Asks, cli'[a].child = g,
                 cli'[a].state = "withdrawn", sup'[g].phase = "serving"
          PROVE  /\ g = entry'.child => a \notin pending'
                 /\ \A k \in Calls :
                      (/\ a \in call'[k].ask
                       /\ In(sup'[g].queue, k) \/ (g = entry'.child /\ call'[k].pc = "send"))
                        => a \in sup'[g].withdrawn
      <2>1. cli[a].child = g
        BY <1>1, <1>3 DEF AskPath
      <2>2. sup[g].phase = "serving"
        BY <1>0, <1>1, <1>3, <2>1 DEF Moved, Structure, Registered
      <2>3. g = entry'.child => g = entry.child
        BY <1>0, <2>1, SameChild
      <2>4. CASE cli[a].state = "withdrawn"
        <3>1. ASSUME g = entry'.child PROVE a \notin pending'
          <4>1. a \notin pending
            BY <2>1, <2>2, <2>3, <2>4, <3>1 DEF Withdrawn
          <4>2. SUFFICES ASSUME NEW c \in Children, NEW k \in Calls, In(sup[c].queue, k),
                                a \in call[k].ask, a \notin sup[c].withdrawn
                         PROVE  FALSE
            BY <1>1, <2>4, <4>1 DEF AskPath
          <4>3. c = g
            BY <1>0, <2>1, <2>3, <3>1, <4>2 DEF Carried
          <4>4. QED
            BY <2>1, <2>2, <2>4, <4>2, <4>3 DEF Withdrawn
        <3>2. ASSUME NEW k \in Calls, a \in call'[k].ask,
                     In(sup'[g].queue, k) \/ (g = entry'.child /\ call'[k].pc = "send")
              PROVE  a \in sup'[g].withdrawn
          <4>1. \/ a \in call[k].ask /\ call[k].pc # "idle"
                \/ call[k].pc = "idle" /\ a \in pending
            BY <1>1, <3>2, CarriesFrom
          <4>2. /\ call'[k].pc = "send" /\ call[k].pc # "idle" => call[k].pc = "send"
                /\ In(sup'[g].queue, k) =>
                     /\ call[k].pc # "idle"
                     /\ In(sup[g].queue, k) \/ (call[k].pc = "send" /\ g = entry.child)
            BY <1>1, <3>2, CarriesFrom
          <4>3. a \in call[k].ask
                /\ (In(sup[g].queue, k) \/ (g = entry.child /\ call[k].pc = "send"))
            <5>1. CASE call[k].pc = "idle"
              BY <2>1, <2>2, <2>3, <2>4, <3>2, <4>1, <4>2, <5>1 DEF Withdrawn
            <5>2. CASE call[k].pc # "idle"
              BY <2>3, <3>2, <4>1, <4>2, <5>2
            <5>3. QED
              BY <5>1, <5>2
          <4>4. a \in sup[g].withdrawn
            BY <2>1, <2>2, <2>4, <4>3 DEF Withdrawn
          <4>5. SUFFICES ASSUME NEW n \in Calls, In(sup[g].queue, n), a \in call[n].ask,
                                call'[n].ask = {}
                         PROVE  FALSE
            BY <1>1, <1>3, <4>4 DEF Moved
          <4>6. n = k
            BY <4>3, <4>5 DEF Carried, Carries
          <4>7. QED
            BY <3>2, <4>5, <4>6
        <3>3. QED
          BY <3>1, <3>2
      <2>5. CASE cli[a].state # "withdrawn"
        <3>1. a \notin pending' /\ (a \in pending \/ a \in sup'[g].withdrawn) /\ call' = call
          BY <1>1, <1>3, <2>1, <2>5 DEF AskPath
        <3>2. ASSUME a \in pending, NEW k \in Calls, a \in call'[k].ask,
                     In(sup'[g].queue, k) \/ (g = entry'.child /\ call'[k].pc = "send")
              PROVE  FALSE
          <4>1. \A n \in Calls : ~Carries(n, a)
            BY <3>2 DEF Carried
          <4>2. a \in call[k].ask /\ call[k].pc # "idle"
            BY <3>1, <3>2 DEF Asked
          <4>3. QED
            BY <1>1, <3>2, <4>1, <4>2, CarriesFrom DEF Carries
        <3>3. QED
          BY <3>1, <3>2
      <2>6. QED
        BY <2>4, <2>5
    <1>4. QED
        BY <1>2, <1>3 DEF Withdrawn

\* The answer to an ask the serving child waits on stays on its way, or the
\* ask is pending again or lost.
Stays(k, a) ==
    (/\ entry.child # 0 /\ cli[a].child = entry.child
     /\ cli[a].state = "awaiting" /\ cli'[a].state = "awaiting"
     /\ sup[entry.child].phase = "serving" /\ sup'[entry.child].phase = "serving"
     /\ a \in call[k].ask
     /\ call[k].pc = "send" \/ In(sup[entry.child].queue, k))
      => \/ a \in pending' \cup lost'
         \/ /\ a \in call'[k].ask
            /\ call'[k].pc = "send" \/ In(sup'[entry.child].queue, k)

\* A step of child g spares call k: it changes nothing of its answer, or
\* the child does not serve.
Spared(g, k) ==
    call[k].ask # {} =>
        \/ call'[k] = call[k] /\ (In(sup[g].queue, k) => In(sup'[g].queue, k))
        \/ /\ In(sup[g].queue, k)
           /\ sup[g].phase # "serving" \/ sup'[g].phase # "serving"

\* A step of one child that spares a call.
LEMMA SparedStays ==
    ASSUME Structure, Asked, NEW g \in Children, Others(g), NEW k \in Calls, Spared(g, k),
           NEW a \in Asks
    PROVE  Stays(k, a)
    <1>1. SUFFICES ASSUME entry.child # 0, sup[entry.child].phase = "serving",
                          sup'[entry.child].phase = "serving", a \in call[k].ask,
                          call[k].pc = "send" \/ In(sup[entry.child].queue, k)
                   PROVE  a \in call'[k].ask
                          /\ (call'[k].pc = "send" \/ In(sup'[entry.child].queue, k))
        BY DEF Stays
    <1>2. entry.child \in Children
        BY <1>1, ClaudeSessionAssumption DEF Structure, SessionType, EntryType
    <1>3. CASE call'[k] = call[k] /\ (In(sup[g].queue, k) => In(sup'[g].queue, k))
      <2>1. In(sup[entry.child].queue, k) => In(sup'[entry.child].queue, k)
        BY <1>2, <1>3 DEF Others
      <2>2. QED
        BY <1>1, <1>3, <2>1
    <1>4. CASE In(sup[g].queue, k) /\ (sup[g].phase # "serving" \/ sup'[g].phase # "serving")
      <2>1. call[k].pc # "send"
        BY <1>4 DEF Asked, Sent
      <2>2. g = entry.child
        BY <1>1, <1>2, <1>4, <2>1 DEF Asked
      <2>3. QED
        BY <1>1, <1>4, <2>2
    <1>5. QED
        BY <1>1, <1>3, <1>4 DEF Spared

\* A step of one call that has no ask.
LEMMA OneCallStays ==
    ASSUME NEW l \in Calls, OneCall(l), call[l].ask = {}, sup' = sup,
           NEW k \in Calls, NEW a \in Asks
    PROVE  Stays(k, a)
    BY DEF OneCall, Stays

\* Replying to what is not an answer.
LEMMA AnswersSpare ==
    ASSUME NEW S, Answers(S), NEW g \in Children,
           \A k \in S \cap Calls : call[k].ask = {},
           \A k \in Calls : call[k].ask # {} /\ In(sup[g].queue, k) => In(sup'[g].queue, k),
           NEW k \in Calls
    PROVE  Spared(g, k)
    BY DEF Answers, Spared

\* So it does in every step.
LEMMA StaysStep ==
    (Structure /\ Asked /\ Withdrawn) /\ [Next]_vars =>
        (\A m \in Calls, x \in Asks : Stays(m, x))
    <1> SUFFICES ASSUME (Structure /\ Asked /\ Withdrawn), [Next]_vars
             PROVE  (\A m \in Calls, x \in Asks : Stays(m, x))
        OBVIOUS
    <1>0. MaxCalls \in Nat \ {0} /\ MaxChildren \in Nat \ {0} /\ MaxLogs \in Nat \ {0}
          /\ QueueLimit \in Nat \ {0}
        BY ClaudeSessionAssumption
    <1>a. entry.child = 0 \/ entry.child \in Children
        BY <1>0 DEF Structure, SessionType, EntryType
    <1>b. \A c \in Children, m \in Calls : m \in sup[c].waiters \/ m = sup[c].setup =>
              call[m].ask = {}
        BY DEF Asked
    <1>c. cli \in [Asks -> AskType] /\ SupType
        BY DEF Structure, SessionType, AsksType
    <1>1. CASE \E k \in Calls : OpenThread(k)
      <2> PICK k \in Calls : OpenThread(k)
        BY <1>1
      <2>1. OneCall(k) /\ call[k].pc \in {"idle", "gate"}
        BY OpenThreadCall DEF Goes
      <2>2. sup' = sup
        BY DEF OpenThread
      <2>3. call[k].ask = {}
        BY <2>1 DEF Asked
      <2>4. QED
        BY <2>1, <2>2, <2>3, OneCallStays
    <1>2. CASE \E k \in Calls, op \in TurnOps : StartTurn(k, op)
      <2> PICK k \in Calls, op \in TurnOps : StartTurn(k, op)
        BY <1>2
      <2>1. OneCall(k) /\ call[k].pc \in {"idle", "gate"}
        BY StartTurnCall DEF Goes
      <2>2. sup' = sup
        BY DEF StartTurn
      <2>3. call[k].ask = {}
        BY <2>1 DEF Asked
      <2>4. QED
        BY <2>1, <2>2, <2>3, OneCallStays
    <1>3. CASE \E k \in Calls : TakeGate(k)
      <2> PICK k \in Calls : TakeGate(k)
        BY <1>3
      <2>1. OneCall(k) /\ call[k].pc \in {"idle", "gate"}
        BY TakeGateCall DEF Goes
      <2>2. sup' = sup
        BY DEF TakeGate
      <2>3. call[k].ask = {}
        BY <2>1 DEF Asked
      <2>4. QED
        BY <2>1, <2>2, <2>3, OneCallStays
    <1>4. CASE \E k \in Calls : Control(k)
      <2> PICK k \in Calls : Control(k)
        BY <1>4
      <2>1. OneCall(k) /\ call[k].pc \in {"idle", "gate"}
        BY ControlCall DEF Goes
      <2>2. sup' = sup
        BY DEF Control
      <2>3. call[k].ask = {}
        BY <2>1 DEF Asked
      <2>4. QED
        BY <2>1, <2>2, <2>3, OneCallStays
    <1>5. CASE \E k \in Calls, a \in Asks : TakeAsk(k, a)
      <2> PICK k \in Calls, a \in Asks : TakeAsk(k, a)
        BY <1>5
      <2>1. OneCall(k) /\ call[k].pc \in {"idle", "gate"}
        BY TakeAskCall DEF Goes
      <2>2. sup' = sup
        BY DEF TakeAsk
      <2>3. call[k].ask = {}
        BY <2>1 DEF Asked
      <2>4. QED
        BY <2>1, <2>2, <2>3, OneCallStays
    <1>6. CASE \E k \in Calls, op \in StopOps : StopThread(k, op)
      <2> PICK k \in Calls, op \in StopOps : StopThread(k, op)
        BY <1>6
      <2>1. OneCall(k) /\ call[k].pc \in {"idle", "gate"}
        BY StopThreadCall DEF Goes
      <2>2. sup' = sup
        BY DEF StopThread
      <2>3. call[k].ask = {}
        BY <2>1 DEF Asked
      <2>4. QED
        BY <2>1, <2>2, <2>3, OneCallStays
    <1>7. CASE \E k \in Calls : SpawnFails(k)
      <2> PICK k \in Calls : SpawnFails(k)
        BY <1>7
      <2>1. To(k, "done") /\ call[k].ask = {} /\ sup' = sup
        BY DEF SpawnFails, Asked
      <2>2. OneCall(k)
        BY <2>1, ToFacts DEF Steps
      <2>3. QED
        BY <2>1, <2>2, OneCallStays
    <1>8. CASE \E k \in Calls : Joined(k)
      <2> PICK k \in Calls : Joined(k)
        BY <1>8
      <2>1. To(k, "forget") /\ call[k].ask = {} /\ sup' = sup
        BY DEF Joined, Asked
      <2>2. OneCall(k)
        BY <2>1, ToFacts DEF Steps
      <2>3. QED
        BY <2>1, <2>2, OneCallStays
    <1>9. CASE \E k \in Calls : Forget(k)
      <2> PICK k \in Calls : Forget(k)
        BY <1>9
      <2>1. To(k, "done") /\ call[k].ask = {} /\ sup' = sup
        BY DEF Forget, Asked
      <2>2. OneCall(k)
        BY <2>1, ToFacts DEF Steps
      <2>3. QED
        BY <2>1, <2>2, OneCallStays
    <1>10. CASE \E k \in Calls : EnqueueNowhere(k)
      <2> PICK k \in Calls : EnqueueNowhere(k)
        BY <1>10
      <2> QED
        BY DEF EnqueueNowhere, Stays
    <1>11. CASE \E k \in Calls : RegisterOpened(k)
      <2> PICK k \in Calls : RegisterOpened(k)
        BY <1>11
      <2>1. CASE UNCHANGED <<entry, logs, sup>>
        <3>1. To(k, "done") /\ call[k].ask = {} /\ sup' = sup
          BY <2>1 DEF RegisterOpened, Asked
        <3>2. OneCall(k)
          BY <3>1, ToFacts DEF Steps
        <3>3. QED
          BY <3>1, <3>2, OneCallStays
      <2>2. CASE ~UNCHANGED <<entry, logs, sup>>
        <3>1. entry.child = 0
          BY <2>2, RegisterOpenedSup DEF Structure, OneWriter
        <3>2. QED
          BY <3>1 DEF Stays
      <2>3. QED
        BY <2>1, <2>2
    <1>12. CASE \E k \in Calls : Respawn(k)
      <2> PICK k \in Calls : Respawn(k)
        BY <1>12
      <2>1. CASE UNCHANGED <<entry, sup>>
        <3>1. OneCall(k) /\ call[k].ask = {} /\ sup' = sup
          BY <2>1, RespawnCall DEF Goes, Asked
        <3>2. QED
          BY <3>1, OneCallStays
      <2>2. CASE ~UNCHANGED <<entry, sup>>
        <3>1. entry.child = 0
          BY <2>2, RespawnSup
        <3>2. QED
          BY <3>1 DEF Stays
      <2>3. QED
        BY <2>1, <2>2
    <1>13. CASE \E k \in Calls : GiveUp(k)
      <2> PICK k \in Calls : GiveUp(k)
        BY <1>13
      <2>1. OneCall(k) /\ sup' = sup /\ (Queued(k) => call'[k].ask = call[k].ask)
              /\ call[k].pc = "waiting"
        BY GiveUpCall DEF GiveUp, Goes
      <2>2. ASSUME NEW x \in Asks PROVE Stays(k, x)
        <3>1. entry.child \in Children /\ In(sup[entry.child].queue, k) => Queued(k)
          BY DEF Queued, In
        <3>2. QED
          BY <1>a, <2>1, <3>1 DEF Stays
      <2>3. ASSUME NEW n \in Calls, NEW x \in Asks, n # k PROVE Stays(n, x)
        BY <2>1, <2>3 DEF OneCall, Stays
      <2>4. QED
        BY <2>2, <2>3
    <1>14. CASE \E k \in Calls : Enqueue(k)
      <2> PICK k \in Calls : Enqueue(k)
        BY <1>14
      <2> DEFINE g == entry.child
      <2>1. CASE sup' = sup
        <3>1. To(k, "done") /\ lost' = lost \cup call[k].ask
          <4>1. ~(sup[g].phase # "ended" /\ ~(Len(sup[g].queue) >= QueueLimit))
            <5>1. SUFFICES ASSUME sup[g].phase # "ended", ~(Len(sup[g].queue) >= QueueLimit)
                           PROVE  FALSE
              OBVIOUS
            <5>2. sup' = [sup EXCEPT ![g].queue = Append(@, k)] /\ g \in Children
              BY <1>a, <5>1 DEF Enqueue
            <5>3. sup'[g].queue = Append(sup[g].queue, k) /\ sup[g].queue \in Seq(Calls)
              BY <1>c, <5>2 DEF SupType, ChildType
            <5>4. Len(sup'[g].queue) = Len(sup[g].queue) + 1 /\ Len(sup[g].queue) \in Nat
              BY <5>3, InAppend
            <5>5. QED
              BY <2>1, <5>4
          <4>2. QED
            BY <4>1 DEF Enqueue
        <3>2. OneCall(k)
          BY <3>1, ToFacts DEF Steps
        <3>3. QED
          BY <2>1, <3>1, <3>2 DEF OneCall, Stays
      <2>2. CASE sup' # sup
        <3>1. /\ g \in Children /\ Others(g) /\ sup'[g].queue = Append(sup[g].queue, k)
          BY <2>2, EnqueueSup DEF Child
        <3>2. To(k, "waiting")
          BY <2>2 DEF Enqueue
        <3>3. call'[k].ask = call[k].ask /\ OneCall(k)
          BY <3>2, ToFacts DEF Steps
        <3>4. sup[g].queue \in Seq(Calls)
          BY <3>1, ChildFacts DEF Structure
        <3>5. \A n : In(sup'[g].queue, n) <=> In(sup[g].queue, n) \/ n = k
          BY <3>1, <3>4, InAppend
        <3>6. QED
          BY <3>1, <3>3, <3>5 DEF OneCall, Stays
      <2>3. QED
        BY <2>1, <2>2
    <1>15. CASE \E k \in Calls : SendStop(k)
      <2> PICK k \in Calls : SendStop(k)
        BY <1>15
      <2>1. To(k, "joining") /\ call[k].ask = {}
        BY DEF SendStop, Asked
      <2>2. OneCall(k)
        BY <2>1, ToFacts DEF Steps
      <2>3. CASE sup' = sup
        BY <2>1, <2>2, <2>3, OneCallStays
      <2>4. CASE sup' # sup
        <3> DEFINE g == call[k].child
        <3>1. /\ g \in Children /\ Others(g) /\ sup'[g].queue = Append(sup[g].queue, k)
          BY <2>4, SendStopSup DEF Child
        <3>2. sup[g].queue \in Seq(Calls)
          BY <3>1, ChildFacts DEF Structure
        <3>3. \A n : In(sup'[g].queue, n) <=> In(sup[g].queue, n) \/ n = k
          BY <3>1, <3>2, InAppend
        <3> HIDE DEF g
        <3>4. \A n \in Calls : Spared(g, n)
          BY <2>1, <2>2, <3>3 DEF OneCall, Spared
        <3>5. QED
          BY <3>1, <3>4, SparedStays
      <2>5. QED
        BY <2>3, <2>4
    <1>16. CASE \E k \in Calls : StopTimeout(k)
      <2> PICK k \in Calls : StopTimeout(k)
        BY <1>16
      <2> DEFINE g == call[k].child
      <2>1. Others(g) /\ g \in Children /\ sup'[g].phase = "ended"
        BY StopTimeoutSup DEF Child
      <2>2. call[k].ask = {}
        BY DEF StopTimeout, Asked
      <2>3. \A n \in Calls \ {k} : \/ call'[n] = call[n]
                                   \/ call'[n] = Done /\ n \in Owed(g)
        BY StopTimeoutCall
      <2>4. \A n \in Owed(g) \cap Calls : In(sup[g].queue, n) \/ call[n].ask = {}
        BY <1>b, <2>1 DEF Owed, In
      <2> HIDE DEF g
      <2>5. \A n \in Calls : Spared(g, n)
        BY <2>1, <2>2, <2>3, <2>4 DEF Spared
      <2>6. QED
        BY <2>1, <2>5, SparedStays
    <1>17. CASE \E g \in Children : Unregister(g)
      <2> PICK g \in Children : Unregister(g)
        BY <1>17
      <2>1. Others(g) /\ sup'[g].phase = "ended"
        BY UnregisterSup DEF Child
      <2>2. call' = Replied(Owed(g)) \/ call' = call
        BY DEF Unregister
      <2>3. Answers(Owed(g))
        BY <2>2, AnswersFacts
      <2>4. \A n \in Owed(g) \cap Calls : In(sup[g].queue, n) \/ call[n].ask = {}
        BY <1>b DEF Owed, In
      <2>5. \A n \in Calls : Spared(g, n)
        BY <2>1, <2>3, <2>4 DEF Spared, Answers
      <2>6. QED
        BY <2>1, <2>5, SparedStays
    <1>18. CASE \E g \in Children : Refuse(g)
      <2> PICK g \in Children : Refuse(g)
        BY <1>18
      <2>1. Others(g) /\ sup[g].queue # <<>> /\ sup'[g].queue = Tail(sup[g].queue)
        BY RefuseSup DEF Child
      <2>2. (call' = Replied({NextCommand(g)}) \/ call' = call) /\ sup[g].phase # "serving"
        BY DEF Refuse
      <2>3. Answers({NextCommand(g)})
        BY <2>2, AnswersFacts
      <2>4. \A n \in Calls : Spared(g, n)
        BY <2>1, <2>2, <2>3, QueueTail DEF Spared, Answers
      <2>5. QED
        BY <2>1, <2>4, SparedStays
    <1>19. CASE \E g \in Children : OnStop(g)
      <2> PICK g \in Children : OnStop(g)
        BY <1>19
      <2>1. CASE sup[g].phase = "serving"
        <3>1. Others(g) /\ sup[g].queue # <<>> /\ sup'[g].queue = Tail(sup[g].queue)
          BY <2>1, OnStopSup DEF Child
        <3>2. call' = Replied({sup[g].setup}) \/ call' = call
          BY <2>1 DEF OnStop
        <3>3. Answers({sup[g].setup})
          BY <3>2, AnswersFacts
        <3>4. call[NextCommand(g)].ask = {} /\ NextCommand(g) \in Calls
          <4>1. call[NextCommand(g)].op # "answer" /\ NextCommand(g) \in Calls
            BY <3>1, QueueTail DEF OnStop, Serves, StopOps
          <4>2. QED
            BY <4>1 DEF Asked
        <3>5. \A n \in Calls : call[n].ask # {} /\ In(sup[g].queue, n) => In(sup'[g].queue, n)
          BY <3>1, <3>4, QueueTail
        <3>6. \A n \in ({sup[g].setup}) \cap Calls : call[n].ask = {}
          BY <1>b, <3>4
        <3>7. \A n \in Calls : Spared(g, n)
          BY <3>3, <3>5, <3>6, AnswersSpare
        <3>8. QED
          BY <3>1, <3>7, SparedStays
      <2>2. CASE ~(sup[g].phase = "serving")
        <3>1. Others(g) /\ sup[g].queue # <<>> /\ sup'[g].queue = Tail(sup[g].queue)
          BY <2>2, OnStopAgainSup DEF Child
        <3>2. call' = Replied({sup[g].setup}) \/ call' = call
          BY <2>2 DEF OnStop
        <3>3. Answers({sup[g].setup})
          BY <3>2, AnswersFacts
        <3>4. call[NextCommand(g)].ask = {} /\ NextCommand(g) \in Calls
          <4>1. call[NextCommand(g)].op # "answer" /\ NextCommand(g) \in Calls
            BY <3>1, QueueTail DEF OnStop, Serves, StopOps
          <4>2. QED
            BY <4>1 DEF Asked
        <3>5. \A n \in Calls : call[n].ask # {} /\ In(sup[g].queue, n) => In(sup'[g].queue, n)
          BY <3>1, <3>4, QueueTail
        <3>6. \A n \in ({sup[g].setup}) \cap Calls : call[n].ask = {}
          BY <1>b, <3>4
        <3>7. \A n \in Calls : Spared(g, n)
          BY <3>3, <3>5, <3>6, AnswersSpare
        <3>8. QED
          BY <3>1, <3>7, SparedStays
      <2>3. QED
        BY <2>1, <2>2
    <1>20. CASE \E g \in Children : BeginTurnSetup(g)
      <2> PICK g \in Children : BeginTurnSetup(g)
        BY <1>20
      <2>1. CASE ~Listening(NextCommand(g)) \/ Busy(g)
        <3>1. Others(g) /\ sup[g].queue # <<>> /\ sup'[g].queue = Tail(sup[g].queue)
          BY <2>1, DropTurnSup DEF Child
        <3>2. call' = Replied({NextCommand(g)}) \/ call' = call
          BY <2>1 DEF BeginTurnSetup
        <3>3. Answers({NextCommand(g)})
          BY <3>2, AnswersFacts
        <3>4. call[NextCommand(g)].ask = {} /\ NextCommand(g) \in Calls
          <4>1. call[NextCommand(g)].op # "answer" /\ NextCommand(g) \in Calls
            BY <3>1, QueueTail DEF BeginTurnSetup, Serves, StopOps
          <4>2. QED
            BY <4>1 DEF Asked
        <3>5. \A n \in Calls : call[n].ask # {} /\ In(sup[g].queue, n) => In(sup'[g].queue, n)
          BY <3>1, <3>4, QueueTail
        <3>6. \A n \in ({NextCommand(g)}) \cap Calls : call[n].ask = {}
          BY <1>b, <3>4
        <3>7. \A n \in Calls : Spared(g, n)
          BY <3>3, <3>5, <3>6, AnswersSpare
        <3>8. QED
          BY <3>1, <3>7, SparedStays
      <2>2. CASE ~(~Listening(NextCommand(g)) \/ Busy(g))
        <3>1. Others(g) /\ sup[g].queue # <<>> /\ sup'[g].queue = Tail(sup[g].queue)
          BY <2>2, SetupSup DEF Child
        <3>2. call' = Replied({NextCommand(g)}) \/ call' = call
          BY <2>2 DEF BeginTurnSetup
        <3>3. Answers({NextCommand(g)})
          BY <3>2, AnswersFacts
        <3>4. call[NextCommand(g)].ask = {} /\ NextCommand(g) \in Calls
          <4>1. call[NextCommand(g)].op # "answer" /\ NextCommand(g) \in Calls
            BY <3>1, QueueTail DEF BeginTurnSetup, Serves, StopOps
          <4>2. QED
            BY <4>1 DEF Asked
        <3>5. \A n \in Calls : call[n].ask # {} /\ In(sup[g].queue, n) => In(sup'[g].queue, n)
          BY <3>1, <3>4, QueueTail
        <3>6. \A n \in ({NextCommand(g)}) \cap Calls : call[n].ask = {}
          BY <1>b, <3>4
        <3>7. \A n \in Calls : Spared(g, n)
          BY <3>3, <3>5, <3>6, AnswersSpare
        <3>8. QED
          BY <3>1, <3>7, SparedStays
      <2>3. QED
        BY <2>1, <2>2
    <1>21. CASE \E g \in Children : SendControl(g)
      <2> PICK g \in Children : SendControl(g)
        BY <1>21
      <2>1. Others(g) /\ sup[g].queue # <<>> /\ sup'[g].queue = Tail(sup[g].queue)
        BY SendControlSup DEF Child
      <2>2. call' = Replied({NextCommand(g)}) \/ call' = call
        BY DEF SendControl
      <2>3. Answers({NextCommand(g)})
        BY <2>2, AnswersFacts
      <2>4. call[NextCommand(g)].ask = {} /\ NextCommand(g) \in Calls
        <3>1. call[NextCommand(g)].op # "answer" /\ NextCommand(g) \in Calls
          BY <2>1, QueueTail DEF SendControl, Serves, StopOps
        <3>2. QED
          BY <3>1 DEF Asked
      <2>5. \A n \in Calls : call[n].ask # {} /\ In(sup[g].queue, n) => In(sup'[g].queue, n)
        BY <2>1, <2>4, QueueTail
      <2>6. \A n \in ({NextCommand(g)}) \cap Calls : call[n].ask = {}
        BY <1>b, <2>4
      <2>7. \A n \in Calls : Spared(g, n)
        BY <2>3, <2>5, <2>6, AnswersSpare
      <2>8. QED
        BY <2>1, <2>7, SparedStays
    <1>22. CASE \E g \in Children, w \in Outcomes : Compact(g, w)
      <2> PICK g \in Children, w \in Outcomes : Compact(g, w)
        BY <1>22
      <2>1. CASE ~Listening(NextCommand(g)) \/ Busy(g)
        <3>1. Others(g) /\ sup[g].queue # <<>> /\ sup'[g].queue = Tail(sup[g].queue)
          BY <2>1, DropCompactSup DEF Child
        <3>2. call' = Replied({NextCommand(g)}) \/ call' = call
          BY <2>1 DEF Compact, Begun, Written
        <3>3. Answers({NextCommand(g)})
          BY <3>2, AnswersFacts
        <3>4. call[NextCommand(g)].ask = {} /\ NextCommand(g) \in Calls
          <4>1. call[NextCommand(g)].op # "answer" /\ NextCommand(g) \in Calls
            BY <3>1, QueueTail DEF Compact, Serves, StopOps
          <4>2. QED
            BY <4>1 DEF Asked
        <3>5. \A n \in Calls : call[n].ask # {} /\ In(sup[g].queue, n) => In(sup'[g].queue, n)
          BY <3>1, <3>4, QueueTail
        <3>6. \A n \in ({NextCommand(g)}) \cap Calls : call[n].ask = {}
          BY <1>b, <3>4
        <3>7. \A n \in Calls : Spared(g, n)
          BY <3>3, <3>5, <3>6, AnswersSpare
        <3>8. QED
          BY <3>1, <3>7, SparedStays
      <2>2. CASE ~(~Listening(NextCommand(g)) \/ Busy(g))
        <3>1. Others(g) /\ sup[g].queue # <<>> /\ sup'[g].queue = Tail(sup[g].queue)
          BY <2>2, CompactSup DEF Child
        <3>2. call' = Replied({NextCommand(g)}) \/ call' = call
          BY <2>2 DEF Compact, Begun, Written
        <3>3. Answers({NextCommand(g)})
          BY <3>2, AnswersFacts
        <3>4. call[NextCommand(g)].ask = {} /\ NextCommand(g) \in Calls
          <4>1. call[NextCommand(g)].op # "answer" /\ NextCommand(g) \in Calls
            BY <3>1, QueueTail DEF Compact, Serves, StopOps
          <4>2. QED
            BY <4>1 DEF Asked
        <3>5. \A n \in Calls : call[n].ask # {} /\ In(sup[g].queue, n) => In(sup'[g].queue, n)
          BY <3>1, <3>4, QueueTail
        <3>6. \A n \in ({NextCommand(g)}) \cap Calls : call[n].ask = {}
          BY <1>b, <3>4
        <3>7. \A n \in Calls : Spared(g, n)
          BY <3>3, <3>5, <3>6, AnswersSpare
        <3>8. QED
          BY <3>1, <3>7, SparedStays
      <2>3. QED
        BY <2>1, <2>2
    <1>23. CASE \E g \in Children, w \in Outcomes : FinishTurnSetup(g, w)
      <2> PICK g \in Children, w \in Outcomes : FinishTurnSetup(g, w)
        BY <1>23
      <2>1. CASE ~Listening(sup[g].setup) \/ sup[g].turn # None
        <3>1. Others(g) /\ sup'[g].queue = sup[g].queue
          BY <2>1, DropSetupSup DEF Child
        <3>2. call' = Replied({sup[g].setup}) \/ call' = call
          BY DEF FinishTurnSetup, Begun, Written
        <3>3. Answers({sup[g].setup})
          BY <3>2, AnswersFacts
        <3>4. \A n \in ({sup[g].setup}) \cap Calls : call[n].ask = {}
          BY <1>b DEF FinishTurnSetup
        <3>5. \A n \in Calls : Spared(g, n)
          BY <3>1, <3>3, <3>4, AnswersSpare
        <3>6. QED
          BY <3>1, <3>5, SparedStays
      <2>2. CASE ~(~Listening(sup[g].setup) \/ sup[g].turn # None)
        <3>1. Others(g) /\ sup'[g].queue = sup[g].queue
          BY <2>2, StartSup DEF Child
        <3>2. call' = Replied({sup[g].setup}) \/ call' = call
          BY DEF FinishTurnSetup, Begun, Written
        <3>3. Answers({sup[g].setup})
          BY <3>2, AnswersFacts
        <3>4. \A n \in ({sup[g].setup}) \cap Calls : call[n].ask = {}
          BY <1>b DEF FinishTurnSetup
        <3>5. \A n \in Calls : Spared(g, n)
          BY <3>1, <3>3, <3>4, AnswersSpare
        <3>6. QED
          BY <3>1, <3>5, SparedStays
      <2>3. QED
        BY <2>1, <2>2
    <1>24. CASE \E g \in Children, k \in Calls : ControlResponse(g, k)
      <2> PICK g \in Children, k \in Calls : ControlResponse(g, k)
        BY <1>24
      <2>1. Others(g) /\ sup'[g].queue = sup[g].queue
        BY ControlResponseSup DEF Child
      <2>2. call' = Replied({k}) \/ call' = call
        BY DEF ControlResponse
      <2>3. Answers({k})
        BY <2>2, AnswersFacts
      <2>4. \A n \in ({k}) \cap Calls : call[n].ask = {}
        BY <1>b DEF ControlResponse
      <2>5. \A n \in Calls : Spared(g, n)
        BY <2>1, <2>3, <2>4, AnswersSpare
      <2>6. QED
        BY <2>1, <2>5, SparedStays
    <1>25. CASE \E g \in Children : FailTurnSetup(g)
      <2> PICK g \in Children : FailTurnSetup(g)
        BY <1>25
      <2>1. Others(g) /\ sup'[g].queue = sup[g].queue
        BY FailTurnSetupSup DEF Child
      <2>2. call' = Replied({sup[g].setup}) \/ call' = call
        BY DEF FailTurnSetup
      <2>3. Answers({sup[g].setup})
        BY <2>2, AnswersFacts
      <2>4. \A n \in ({sup[g].setup}) \cap Calls : call[n].ask = {}
        BY <1>b DEF FailTurnSetup
      <2>5. \A n \in Calls : Spared(g, n)
        BY <2>1, <2>3, <2>4, AnswersSpare
      <2>6. QED
        BY <2>1, <2>5, SparedStays
    <1>26. CASE \E g \in Children : ShutdownSignal(g)
      <2> PICK g \in Children : ShutdownSignal(g)
        BY <1>26
      <2>1. Others(g) /\ sup'[g].queue = sup[g].queue
        BY ShutdownSignalSup DEF Child
      <2>2. call' = Replied({sup[g].setup}) \/ call' = call
        BY DEF ShutdownSignal
      <2>3. Answers({sup[g].setup})
        BY <2>2, AnswersFacts
      <2>4. \A n \in ({sup[g].setup}) \cap Calls : call[n].ask = {}
        BY <1>b DEF ShutdownSignal
      <2>5. \A n \in Calls : Spared(g, n)
        BY <2>1, <2>3, <2>4, AnswersSpare
      <2>6. QED
        BY <2>1, <2>5, SparedStays
    <1>27. CASE \E g \in Children : OnExit(g)
      <2> PICK g \in Children : OnExit(g)
        BY <1>27
      <2>1. Others(g) /\ sup'[g].queue = sup[g].queue
        BY OnExitSup DEF Child
      <2>2. call' = Replied(sup[g].waiters \cup {sup[g].setup}) \/ call' = call
        BY DEF OnExit
      <2>3. Answers(sup[g].waiters \cup {sup[g].setup})
        BY <2>2, AnswersFacts
      <2>4. \A n \in (sup[g].waiters \cup {sup[g].setup}) \cap Calls : call[n].ask = {}
        BY <1>b DEF OnExit
      <2>5. \A n \in Calls : Spared(g, n)
        BY <2>1, <2>3, <2>4, AnswersSpare
      <2>6. QED
        BY <2>1, <2>5, SparedStays
    <1>28. CASE \E g \in Children : OwnTurn(g)
      <2> PICK g \in Children : OwnTurn(g)
        BY <1>28
      <2>1. Others(g) /\ sup'[g].queue = sup[g].queue /\ call' = call
        BY OwnTurnSup DEF OwnTurn, Child
      <2>2. QED
        BY <2>1, SparedStays DEF Spared
    <1>29. CASE \E g \in Children : TurnResult(g)
      <2> PICK g \in Children : TurnResult(g)
        BY <1>29
      <2>1. Others(g) /\ sup'[g].queue = sup[g].queue /\ call' = call
        BY TurnResultSup DEF TurnResult, Child
      <2>2. QED
        BY <2>1, SparedStays DEF Spared
    <1>30. CASE \E g \in Children : StdoutEnds(g)
      <2> PICK g \in Children : StdoutEnds(g)
        BY <1>30
      <2>1. Others(g) /\ sup'[g].queue = sup[g].queue /\ call' = call
        BY StdoutEndsSup DEF StdoutEnds, Child
      <2>2. QED
        BY <2>1, SparedStays DEF Spared
    <1>31. CASE \E g \in Children : StopDeadline(g)
      <2> PICK g \in Children : StopDeadline(g)
        BY <1>31
      <2>1. Others(g) /\ sup'[g].queue = sup[g].queue /\ call' = call
        BY StopDeadlineSup DEF StopDeadline, Child
      <2>2. QED
        BY <2>1, SparedStays DEF Spared
    <1>32. CASE \E g \in Children : Reap(g)
      <2> PICK g \in Children : Reap(g)
        BY <1>32
      <2>1. Others(g) /\ sup'[g].queue = sup[g].queue /\ call' = call
        BY ReapSup DEF Reap, Child
      <2>2. QED
        BY <2>1, SparedStays DEF Spared
    <1>33. CASE \E g \in Children, a \in Asks : CancelRequest(g, a)
      <2> PICK g \in Children, a \in Asks : CancelRequest(g, a)
        BY <1>33
      <2>1. call' = call /\ (a \in pending => sup' = sup)
        BY DEF CancelRequest
      <2>2. CASE a \in pending
        BY <2>1, <2>2 DEF Stays
      <2>3. CASE a \notin pending
        <3>1. Others(g) /\ sup'[g].queue = sup[g].queue
          BY <2>3, CancelRequestSup DEF Child
        <3>2. QED
          BY <2>1, <3>1, SparedStays DEF Spared
      <2>4. QED
        BY <2>2, <2>3
    <1>34. CASE \E g \in Children, fits \in BOOLEAN, w \in Outcomes : Respond(g, fits, w)
      <2> PICK g \in Children, fits \in BOOLEAN, w \in Outcomes : Respond(g, fits, w)
        BY <1>34
      <2> DEFINE n == NextCommand(g)
                 A == call[n].ask
      <2>0. /\ n \in Calls /\ In(sup[g].queue, n) /\ sup[g].phase = "serving"
              /\ sup[g].queue # <<>>
        BY AnswerServed DEF Respond
      <2>1. Others(g) /\ sup'[g].queue = Tail(sup[g].queue)
        BY RefuseAnswerSup, AnswerSup DEF Child
      <2>2. call' = Replied({n}) \/ call' = call
        BY DEF Respond, Written
      <2>3. Answers({n})
        BY <2>2, AnswersFacts
      <2>4. \A l \in Calls \ {n} : In(sup[g].queue, l) => In(sup'[g].queue, l)
        BY <2>0, <2>1, QueueTail
      <2>5. ASSUME NEW l \in Calls, NEW x \in Asks, l # n PROVE Stays(l, x)
        <3>1. call'[l] = call[l]
          BY <2>3, <2>5 DEF Answers
        <3>2. QED
          BY <2>1, <2>4, <2>5, <3>1, SparedStays DEF Spared
      <2>6. ASSUME NEW x \in Asks PROVE Stays(n, x)
        <3>1. SUFFICES ASSUME cli[x].state = "awaiting", cli'[x].state = "awaiting",
                              entry.child # 0, cli[x].child = entry.child, x \in A,
                              call[n].pc = "send" \/ In(sup[entry.child].queue, n)
                       PROVE  x \in pending'
          BY DEF Stays
        <3>2. call[n].pc # "send"
          BY <2>0 DEF Asked, Sent
        <3>3. entry.child = g
          BY <1>a, <2>0, <3>1, <3>2 DEF Asked
        <3>4. A = {x}
          <4>1. \E z \in Asks : A = {z}
            BY <2>0, <3>1 DEF Asked
          <4>2. QED
            BY <3>1, <4>1
        <3>5. A \cap sup[g].withdrawn = {}
          BY <3>1, <3>4 DEF Withdrawn
        <3>6. CASE ~Listening(n) \/ ~fits
          BY <3>1, <3>5, <3>6 DEF Respond
        <3>7. CASE ~(~Listening(n) \/ ~fits)
          <4>1. cli' = Told(g, A)
            BY <3>5, <3>7 DEF Respond
          <4>2. cli'[x].state = "answered"
            BY <1>c, <3>1, <3>3, <4>1 DEF Told, AskType
          <4>3. QED
            BY <3>1, <4>2
        <3>8. QED
          BY <3>6, <3>7
      <2>7. QED
        BY <2>5, <2>6
    <1>35. CASE UNCHANGED vars
              \/ (\E g \in Children, a \in Asks : Ask(g, a))
      <2>1. UNCHANGED <<call, sup>>
        BY <1>35 DEF Ask, vars, To
      <2>2. QED
        BY <2>1 DEF Stays
    <1>36. QED
        BY <1>1, <1>2, <1>3, <1>4, <1>5, <1>6, <1>7, <1>8, <1>9, <1>10, <1>11,
           <1>12, <1>13, <1>14, <1>15, <1>16, <1>17, <1>18, <1>19, <1>20, <1>21,
           <1>22, <1>23, <1>24, <1>25, <1>26, <1>27, <1>28, <1>29, <1>30, <1>31,
           <1>32, <1>33, <1>34, <1>35 DEF Next, Caller, StopCall, Commands, Lines,
           Timers, Exits

\* What the serving child waits for stays pending, lost, or on its way.
LEMMA AwaitedStep == AsksInv /\ [Next]_vars => Awaited'
    <1> SUFFICES ASSUME AsksInv, [Next]_vars, NEW a \in Asks,
                        entry'.child # 0, cli'[a].child = entry'.child,
                        cli'[a].state = "awaiting", sup'[entry'.child].phase = "serving",
                        a \notin pending', a \notin lost'
                 PROVE  \E k \in Calls : /\ a \in call'[k].ask
                                         /\ call'[k].pc = "send"
                                                 \/ In(sup'[entry'.child].queue, k)
        BY DEF Awaited
    <1>0. MaxChildren \in Nat \ {0}
        BY ClaudeSessionAssumption
    <1>1. /\ Structure /\ Asked /\ Withdrawn /\ AskPath(a) /\ EntryChildKept
          /\ \A k \in Calls : Stays(k, a)
          /\ \A g \in Children : Moved(g)
        BY AskPathStep, StaysStep, EntryChildStep, MovedStep DEF AsksInv
    <1>2. CASE cli[a].state = "unused"
      <2>1. sup[entry'.child].reaped /\ entry' = entry
        BY <1>1, <1>2 DEF AskPath
      <2>2. ~sup[entry.child].reaped
        BY <2>1 DEF AsksInv, Structure, OneWriter
      <2>3. QED
        BY <2>1, <2>2
    <1>3. CASE cli[a].state # "unused"
      <2>1. cli[a].state = "awaiting" /\ cli[a].child = entry'.child
        BY <1>1, <1>3 DEF AskPath
      <2>2. entry'.child = entry.child
        BY <1>1, <2>1, SameChild
      <2>3. entry.child \in Children
        BY <1>0, <2>2 DEF AsksInv, Structure, SessionType, EntryType
      <2>4. sup[entry.child].phase = "serving"
        BY <1>1, <2>1, <2>2, <2>3 DEF Moved, Structure, Registered
      <2>5. \/ a \in pending \cup lost
            \/ \E k \in Calls : /\ a \in call[k].ask
                                /\ call[k].pc = "send" \/ In(sup[entry.child].queue, k)
        BY <2>1, <2>2, <2>4 DEF AsksInv, Awaited
      <2>6. CASE a \in pending \cup lost
        BY <1>1, <2>6 DEF AskPath
      <2>7. CASE \E k \in Calls : /\ a \in call[k].ask
                                  /\ call[k].pc = "send" \/ In(sup[entry.child].queue, k)
        BY <1>1, <2>1, <2>2, <2>4, <2>7 DEF Stays
      <2>8. QED
        BY <2>5, <2>6, <2>7
    <1>4. QED
        BY <1>2, <1>3

\* The invariant of the asks is kept.
LEMMA AsksStep == AsksInv /\ [Next]_vars => AsksInv'
    BY StructureStep, AskedStep, CarriedStep, WithdrawnStep, AwaitedStep DEF AsksInv

-----------------------------------------------------------------------------
(* The theorems.                                                           *)

\* Nothing has happened yet.
LEMMA StructureInit == Init => Structure
    <1> SUFFICES ASSUME Init PROVE Structure
        OBVIOUS
    <1>0. MaxCalls \in Nat \ {0} /\ MaxChildren \in Nat \ {0} /\ MaxLogs \in Nat \ {0}
          /\ QueueLimit \in Nat \ {0}
        BY ClaudeSessionAssumption
    <1>1. entry.log = 0 /\ entry.child = 0 /\ entry \in EntryType
        BY <1>0 DEF Init, NoEntry, EntryType
    <1>2. \A g \in Children : sup[g] = Child0
        BY DEF Init
    <1>3. SupType /\ QueueFits
      <2>1. SupType
        BY Child0Facts DEF Init, SupType
      <2>2. Len(Child0.queue) = 0
        BY Child0Facts
      <2>3. QED
        BY <1>0, <1>2, <2>1, <2>2 DEF QueueFits
    <1>4. Idle0 \in CallType /\ Idle0.pc = "idle"
        BY <1>0 DEF Idle0, CallType, Ops, Steps
    <1>5. call \in [Calls -> CallType] /\ \A k \in Calls : call[k].pc = "idle"
        BY <1>4 DEF Init
    <1>6. logs \in [Logs -> LogType] /\ \A i \in Logs : logs[i].turn = 0
        BY Zeros DEF Init, LogType
    <1>7. gate \in [Logs -> 0..MaxCalls]
        BY Zeros DEF Init
    <1>8. AsksType /\ \A a \in Asks : cli[a].child = 0
        BY <1>0 DEF Init, AsksType, AskType, AskStates
    <1>9. SessionType
        BY <1>1, <1>3, <1>5, <1>6, <1>7, <1>8 DEF SessionType
    <1>10. Registered
        BY <1>1, <1>2, <1>6, <1>8, Child0Facts DEF Registered
    <1>11. OneWriter
        BY <1>1, <1>2, Child0Facts DEF OneWriter
    <1>12. Stopped
        BY <1>5 DEF Stopped
    <1>13. QED
        BY <1>9, <1>10, <1>11, <1>12 DEF Structure

\* No ask has been raised.
LEMMA AsksInit == Init => AsksInv
    <1> SUFFICES ASSUME Init PROVE AsksInv
        OBVIOUS
    <1>1. Structure
        BY StructureInit
    <1>2. entry.child = 0
        BY DEF Init, NoEntry
    <1>3. \A g \in Children : sup[g] = Child0
        BY DEF Init
    <1>4. Idle0.ask = {}
        BY DEF Idle0
    <1>5. \A k \in Calls : call[k].ask = {}
        BY <1>4 DEF Init
    <1>6. \A g \in Children, k \in Calls : ~In(sup[g].queue, k)
        BY <1>3, Child0Facts, InEmpty
    <1>7. Asked
        BY <1>3, <1>5, <1>6, Child0Facts, ClaudeSessionAssumption DEF Asked
    <1>8. \A a \in Asks : cli[a].state = "unused"
        BY DEF Init
    <1>9. pending = {}
        BY DEF Init
    <1>10. Carried
        BY <1>5, <1>9 DEF Carried, Carries
    <1>11. Withdrawn
        BY <1>3, <1>8, Child0Facts DEF Withdrawn
    <1>12. Awaited
        BY <1>2 DEF Awaited
    <1>13. QED
        BY <1>1, <1>7, <1>10, <1>11, <1>12 DEF AsksInv

\* The stream is not there.
LEMMA StreamInit == Init => Stream
    BY DEF Init, NoEntry, Stream, EntryLogIsOpen, ShownTurnRuns

\* What is awaited can be answered.
LEMMA AwaitedAnswerable == AsksInv => AskIsAnswerable
    <1> SUFFICES ASSUME AsksInv, NEW a \in Asks, entry.child # 0, Awaits(entry.child, a),
                        sup[entry.child].phase = "serving", a \notin pending \cup lost
                 PROVE  InFlight(a)
        BY DEF AskIsAnswerable
    <1>0. MaxChildren \in Nat \ {0} /\ QueueLimit \in Nat \ {0}
        BY ClaudeSessionAssumption
    <1>1. cli[a].child = entry.child /\ cli[a].state = "awaiting"
        BY DEF Awaits
    <1>2. PICK k \in Calls : /\ a \in call[k].ask
                             /\ call[k].pc = "send" \/ In(sup[entry.child].queue, k)
        BY <1>1 DEF AsksInv, Awaited
    <1>3. CASE call[k].pc = "send"
        BY <1>2, <1>3 DEF InFlight
    <1>4. CASE In(sup[entry.child].queue, k)
      <2>1. entry.child \in Children
        BY <1>0 DEF AsksInv, Structure, SessionType, EntryType
      <2>2. sup[entry.child].queue \in Seq(Calls) /\ Len(sup[entry.child].queue) <= QueueLimit
        BY <2>1, ChildFacts DEF AsksInv, Structure
      <2>3. PICK n \in DOMAIN sup[entry.child].queue : sup[entry.child].queue[n] = k
        BY <1>4 DEF In
      <2>4. n \in 1..QueueLimit
        BY <1>0, <2>2, <2>3
      <2>5. QED
        BY <1>2, <2>1, <2>3, <2>4 DEF InFlight
    <1>5. QED
        BY <1>2, <1>3, <1>4

\* The stream of a thread, the turn it shows and the asks it owes an answer agree with the
\* child that serves it, whatever is reaped, respawned, stopped or reopened meanwhile.
THEOREM SessionCorrect == Spec => []SessionIsSound
    <1>1. Init => AsksInv /\ Stream
        BY AsksInit, StreamInit
    <1>2. AsksInv /\ Stream /\ [Next]_vars => (AsksInv /\ Stream)'
        BY AsksStep, StreamStep DEF AsksInv
    <1>3. AsksInv /\ Stream => SessionIsSound
        BY SessionTypeOK, AwaitedAnswerable
           DEF AsksInv, Structure, Stream, SessionIsSound
    <1>4. QED
        BY <1>1, <1>2, <1>3, PTL DEF Spec

\* A turn that begins, begins for a caller that waits.
LEMMA TurnWanted ==
    ASSUME Structure, [Next]_vars, NEW g \in Children, NEW k \in Calls,
           sup'[g].turn = k, sup[g].turn # k
    PROVE  call[k].pc = "waiting"
    <1>0. MaxCalls \in Nat \ {0} /\ k # 0 /\ k # MaxCalls + 1
        BY ClaudeSessionAssumption
    <1>1. CASE \E n \in Calls : RegisterOpened(n)
      <2> PICK n \in Calls : RegisterOpened(n)
        BY <1>1
      <2>1. ~UNCHANGED <<entry, logs, sup>>
        OBVIOUS
      <2>2. Others(NextChild) /\ sup'[NextChild].turn = 0
        BY <2>1, RegisterOpenedSup DEF Child
      <2>3. QED
        BY <1>0, <2>2 DEF Others
    <1>2. CASE \E n \in Calls : Respawn(n)
      <2> PICK n \in Calls : Respawn(n)
        BY <1>2
      <2>1. ~UNCHANGED <<entry, sup>>
        OBVIOUS
      <2>2. Others(NextChild) /\ sup'[NextChild].turn = 0
        BY <2>1, RespawnSup DEF Child
      <2>3. QED
        BY <1>0, <2>2 DEF Others
    <1>3. CASE \E n \in Calls : StopTimeout(n)
      <2> PICK n \in Calls : StopTimeout(n)
        BY <1>3
      <2>1. Others(call[n].child) /\ sup'[call[n].child].turn = 0
        BY StopTimeoutSup DEF Child
      <2>2. QED
        BY <1>0, <2>1 DEF Others
    <1>4. ASSUME NEW c \in Children, Others(c), sup'[c].turn \in {sup[c].turn, 0, MaxCalls + 1}
          PROVE  FALSE
        BY <1>0, <1>4 DEF Others
    <1>5. CASE \E c \in Children : Reap(c)
        BY <1>4, <1>5, ReapSup DEF Child
    <1>6. CASE \E c \in Children : Unregister(c)
        BY <1>4, <1>6, UnregisterSup DEF Child
    <1>7. CASE \E c \in Children : OwnTurn(c)
        BY <1>4, <1>7, OwnTurnSup DEF Child
    <1>8. CASE \E c \in Children : TurnResult(c)
        BY <1>4, <1>8, TurnResultSup DEF Child
    <1>9. CASE \E c \in Children : OnExit(c)
        BY <1>4, <1>9, OnExitSup DEF Child
    <1>10. CASE \E c \in Children, w \in Outcomes : Compact(c, w)
      <2> PICK c \in Children, w \in Outcomes : Compact(c, w)
        BY <1>10
      <2>1. CASE ~Listening(NextCommand(c)) \/ Busy(c)
        BY <1>4, <2>1, DropCompactSup DEF Child
      <2>2. CASE ~(~Listening(NextCommand(c)) \/ Busy(c))
        <3>1. Others(c) /\ sup'[c].turn = NextCommand(c)
          BY <2>2, CompactSup DEF Child
        <3>2. NextCommand(c) = k
          BY <3>1 DEF Others
        <3>3. QED
          BY <2>2, <3>2 DEF Listening
      <2>3. QED
        BY <2>1, <2>2
    <1>11. CASE \E c \in Children, w \in Outcomes : FinishTurnSetup(c, w)
      <2> PICK c \in Children, w \in Outcomes : FinishTurnSetup(c, w)
        BY <1>11
      <2>1. CASE ~Listening(sup[c].setup) \/ sup[c].turn # None
        BY <1>4, <2>1, DropSetupSup DEF Child
      <2>2. CASE ~(~Listening(sup[c].setup) \/ sup[c].turn # None)
        <3>1. Others(c) /\ sup'[c].turn = sup[c].setup
          BY <2>2, StartSup DEF Child
        <3>2. sup[c].setup = k
          BY <3>1 DEF Others
        <3>3. QED
          BY <2>2, <3>2 DEF Listening
      <2>3. QED
        BY <2>1, <2>2
    <1>12. Turnover \/ Talk
        BY ShapeStep DEF TurnsKept
    <1>13. QED
        BY <1>1, <1>2, <1>3, <1>5, <1>6, <1>7, <1>8, <1>9, <1>10, <1>11, <1>12
           DEF Turnover, Talk

\* No answer is written to an ask that was withdrawn.
LEMMA AnswerWanted ==
    ASSUME AsksInv, [Next]_vars, NEW a \in Asks, cli'[a].state = "answered"
    PROVE  cli[a].state # "withdrawn"
    <1>1. AskPath(a)
        BY AskPathStep DEF AsksInv
    <1>2. SUFFICES ASSUME cli[a].state = "withdrawn" PROVE FALSE
        OBVIOUS
    <1>3. PICK g \in Children, k \in Calls :
             /\ cli[a].child = g /\ sup[g].phase = "serving" /\ a \notin sup[g].withdrawn
             /\ In(sup[g].queue, k) /\ a \in call[k].ask
        BY <1>1, <1>2 DEF AskPath
    <1>4. QED
        BY <1>2, <1>3 DEF AsksInv, Withdrawn

\* A user's turn starts only while its caller waits for it, and no answer is written to an
\* ask that its child withdrew in the running turn.
THEOREM WritesWanted == Spec => WritesAreWanted
    <1>1. AsksInv /\ [Next]_vars =>
            [/\ \A g \in Children, k \in Calls :
                  sup'[g].turn = k /\ sup[g].turn # k => call[k].pc = "waiting"
             /\ \A a \in Asks : cli'[a].state = "answered" => cli[a].state # "withdrawn"]_vars
        BY TurnWanted, AnswerWanted DEF AsksInv
    <1>2. QED
        BY <1>1, AsksInit, AsksStep, PTL DEF Spec, WritesAreWanted
=============================================================================
