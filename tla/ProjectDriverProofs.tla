------------------------- MODULE ProjectDriverProofs -------------------------
(***************************************************************************)
(* Proofs about ProjectDriver, for every set of threads, links and callers *)
(* and all bounds: the files form a forest, a link nobody waits for is not *)
(* lost, owners match the threads on disk, and no caller is forgotten.     *)
(***************************************************************************)
EXTENDS ProjectDriver, FiniteSetTheorems, SequenceTheorems, WellFoundedInduction,
        NaturalsInduction, TLAPS

-----------------------------------------------------------------------------
(* The inductive invariant *)

Kinds == {"primary", "subagent"}

\* The commands in the channel.
Attaches == [op : {"attach"}, thread : Threads, class : Kinds, by : Callers]
Detaches == [op : {"detach"}, thread : Threads, by : Clients]
LinkCommands == {l \in Admissions : l.op = "link"}
Controls == [op : {"quiesce", "resume"}, by : {Project}]
Commands == Attaches \cup Detaches \cup LinkCommands \cup Controls

ParkedAttaches == [op : {"attach"}, thread : Threads, class : Kinds \cup {"orphan"},
                   by : Callers \cup {None}]

\* A link names a thread as its parent; the provider reported it.
IsLink(a) == a.op = "link" => a.parent \in Threads /\ <<a.parent, a.thread>> \in Links

\* An admission in flight; from the read of the graph on, what becomes of its thread's
\* file is decided.
Files == {Absent, PrimaryFile, Orphan} \cup {ChildOf(p) : p \in Threads}
Decided == {"writing", "recorded", "refused"}
Flights == [work : Admissions, step : {"begun", "claimed"} \cup Decided, file : Files]

\* The types of the threads, and of what the driver holds.
ThreadsType ==
    /\ file \in [Threads -> {Absent, PrimaryFile, Orphan} \cup {ChildOf(p) : p \in Threads}]
    /\ owner \in [Threads -> {"none", "live", "detaching", "failed"}]
    /\ class \in [Threads -> {"none", "primary", "orphan", "subagent"}]
    /\ waiters \in [Threads -> SUBSET Clients]
    /\ \A t \in Threads : waiters[t] # {} => owner[t] = "detaching"
    /\ \A t \in Threads : owner[t] # "none" => class[t] # "none"
AdmissionType ==
    \/ admission = NoAdmission
    \/ /\ admission \in Flights
       /\ IsLink(admission.work)
       /\ admission.step \in Decided => admission.file.kind # "none"
DeferredType ==
    /\ deferred \in Seq(Admissions)
    /\ \A i \in DOMAIN deferred : deferred[i].by = None /\ IsLink(deferred[i])
    /\ \A i, j \in DOMAIN deferred : deferred[i].thread = deferred[j].thread => i = j
ChannelType ==
    /\ rx \in Seq(Commands)
    /\ \A i \in DOMAIN rx : IsLink(rx[i])
ParkedType ==
    /\ parked \subseteq ParkedAttaches
    /\ \A a \in parked : owner[a.thread] = "detaching"
RestType ==
    /\ quiesced \in BOOLEAN /\ closed \in BOOLEAN
    /\ teardown \in {"none", "quiescing", "quiesced", "resuming", "stopped", "gone"}
    /\ waiting \subseteq Clients /\ snapshot \subseteq Threads
    /\ owed \subseteq Links /\ removed \subseteq Threads
    /\ discovered \in Seq(Threads)

DriverType == ThreadsType /\ AdmissionType /\ DeferredType /\ ChannelType /\ ParkedType /\ RestType

\* The deletion of the project has one request outstanding at most, of the kind
\* its state asks for.
ProjectAsks ==
    /\ quiesced <=> teardown \in {"quiesced", "resuming", "stopped", "gone"}
    /\ \A i \in DOMAIN rx : rx[i].by = Project =>
        /\ Project \in waiting
        /\ \/ rx[i].op = "quiesce" /\ teardown = "quiescing"
           \/ rx[i].op = "resume" /\ teardown = "resuming"
           \/ rx[i].op = "detach" /\ teardown = "stopped"
        /\ \A j \in DOMAIN rx : rx[j].by = Project => i = j
        /\ \A t \in Threads : Project \notin waiters[t]
    /\ \A t \in Threads : Project \in waiters[t] =>
        /\ Project \in waiting /\ teardown = "stopped"
        /\ \A s \in Threads : Project \in waiters[s] => s = t

\* Once the harness has stopped, every owner left is still to be released, or its
\* release is under way.
Releases ==
    /\ teardown = "stopped" => \A t \in Threads : owner[t] # "none" =>
        \/ t \in snapshot
        \/ Project \in waiters[t]
        \/ \E i \in DOMAIN rx : rx[i].by = Project /\ rx[i].thread = t
    /\ GoneProjectIsUnowned
    /\ teardown = "gone" => owed = {}

\* What is known of a thread that was not deleted.
Stays(t) == t \notin removed /\ teardown # "gone"

\* Owners, and the attaches under way, carry the kind their thread's file records;
\* only a classified thread is detached while the project lives, and only an
\* unclassified thread is about to be given another file.
KindsAgree ==
    /\ \A t \in Threads : Stays(t) /\ owner[t] # "none" => class[t] = file[t].kind
    /\ \A i \in DOMAIN rx : rx[i].op = "attach" /\ Stays(rx[i].thread) =>
        rx[i].class = file[rx[i].thread].kind
    /\ \A a \in parked : Stays(a.thread) =>
        a.class = file[a.thread].kind /\ a.class \in Kinds
    /\ admission.step \in {"recorded", "refused"} /\ Stays(admission.work.thread) =>
        admission.file.kind = file[admission.work.thread].kind
    /\ admission.step = "writing" => file[admission.work.thread].kind \in {"none", "orphan"}
    /\ \A i \in DOMAIN rx : rx[i].op = "detach" /\ rx[i].by # Project /\ Stays(rx[i].thread) =>
        file[rx[i].thread].kind \in Kinds
    /\ \A t \in Threads : owner[t] = "detaching" /\ Stays(t) /\ teardown # "stopped" =>
        file[t].kind \in Kinds

\* The parent a link names has a file, unless it was deleted.
HasParent(a) == a.op = "link" /\ Stays(a.parent) => file[a.parent] # Absent
ParentsExist ==
    /\ \A i \in DOMAIN rx : HasParent(rx[i])
    /\ \A i \in DOMAIN deferred : HasParent(deferred[i])
    /\ admission # NoAdmission => HasParent(admission.work)

\* An owed link is held by a link that nobody waits for: one with a caller would
\* go with its answer.
OwnLink(a, t) == a.op = "link" /\ a.thread = t /\ a.by = None
KeepsLink(t) ==
    \/ \E i \in DOMAIN rx : OwnLink(rx[i], t)
    \/ admission # NoAdmission /\ OwnLink(admission.work, t)
    \/ \E i \in DOMAIN deferred : OwnLink(deferred[i], t)
Settled(t) ==
    \/ file[t].kind \in Kinds
    \/ \E s \in removed : s = t \/ <<s, t>> \in Links
OwedIsKept == \A l \in owed : KeepsLink(l[2]) \/ Settled(l[2])

DriverInv ==
    /\ DriverType /\ ProjectAsks /\ Releases /\ KindsAgree
    /\ ParentsExist /\ OwedIsKept /\ CallerIsHeld

-----------------------------------------------------------------------------
(* Numbers and recursive definitions *)

\* A nonempty set of numbers has a least one.
LEMMA LeastNumber ==
    ASSUME NEW S, S \subseteq Nat, S # {}
    PROVE  \E x \in S : \A y \in S : x <= y
    <1> DEFINE R == {p \in Nat \X Nat : p[1] < p[2]}
    <1>1. IsWellFoundedOn(R, Nat)
      <2>1. R = OpToRel(<, Nat)
        BY DEF OpToRel
      <2>2. QED
        BY <2>1, NatLessThanWellFounded
    <1>2. PICK x \in S : \A y \in S : ~(<<y, x>> \in R)
      <2> HIDE DEF R
      <2>1. QED
        BY <1>1, WFMin
    <1>3. ASSUME NEW y \in S PROVE x <= y
      <2>1. ~(<<y, x>> \in R) /\ y \in Nat /\ x \in Nat
        BY <1>2
      <2>2. QED
        BY <2>1
    <1>4. QED
        BY <1>3

\* Induction, over the set of numbers that have the property.
LEMMA NumberInduction ==
    ASSUME NEW S, 0 \in S, \A n \in Nat : n \in S => n + 1 \in S
    PROVE  Nat \subseteq S
    <1>1. SUFFICES ASSUME Nat \ S # {} PROVE FALSE
        OBVIOUS
    <1>2. PICK x \in Nat \ S : \A y \in Nat \ S : x <= y
        BY <1>1, LeastNumber
    <1>3. x # 0 /\ x - 1 \in Nat
        BY <1>2
    <1>4. x - 1 \in S
        BY <1>2, <1>3
    <1>5. x - 1 + 1 \in S
        BY <1>3, <1>4
    <1>6. QED
        BY <1>2, <1>5

\* The walk along the parents satisfies the equation that defines it.
NextUp(f, x) == IF x = None THEN None ELSE f[x].parent
LEMMA ChainEquation ==
    ASSUME NEW f, NEW start
    PROVE  LET N  == Cardinality(Threads)
               up == ParentChain(f, start)
           IN  up = [n \in 0..N |-> IF n = 0 THEN start ELSE NextUp(f, up[n - 1])]
    <1> DEFINE Walks(g, n) == g = [m \in 0..n |-> IF m = 0 THEN start ELSE NextUp(f, g[m - 1])]
               S == {n \in Nat : \E g : Walks(g, n)}
               N == Cardinality(Threads)
    <1>1. 0 \in S
      <2>1. Walks([m \in 0..0 |-> start], 0)
        OBVIOUS
      <2>2. QED
        BY <2>1
    <1>2. ASSUME NEW n \in Nat, n \in S PROVE n + 1 \in S
      <2>1. PICK g : Walks(g, n)
        BY <1>2
      <2> DEFINE h == [m \in 0..(n + 1) |-> IF m <= n THEN g[m] ELSE NextUp(f, g[n])]
      <2>2. ASSUME NEW m \in 0..(n + 1)
            PROVE  h[m] = IF m = 0 THEN start ELSE NextUp(f, h[m - 1])
        BY <2>1
      <2>3. Walks(h, n + 1)
        BY <2>2
      <2>4. n + 1 \in Nat
        OBVIOUS
      <2> HIDE DEF Walks, h
      <2>5. QED
        BY <2>3, <2>4
    <1>3. N \in Nat
        BY ProjectDriverAssumption, FS_CardinalityType
    <1>4. N \in S
      <2> HIDE DEF S
      <2>1. QED
        BY <1>1, <1>2, <1>3, NumberInduction
    <1>5. PICK g : Walks(g, N)
        BY <1>4
    <1>6. Walks(ParentChain(f, start), N)
        BY <1>5 DEF ParentChain, NextUp
    <1>7. QED
        BY <1>6

-----------------------------------------------------------------------------
(* The forest of threads *)

\* A file of a sub-agent names a thread as its parent, any other names none.
LEMMA FileFacts ==
    ASSUME NEW g \in Files
    PROVE  /\ g.kind = "subagent" => g.parent \in Threads /\ g = ChildOf(g.parent)
           /\ g.kind # "subagent" => g.parent = None
           /\ g.kind \in {"none", "primary", "orphan", "subagent"}
           /\ g.kind = "none" <=> g = Absent
           /\ g.kind = "orphan" <=> g = Orphan
    BY DEF Files, Absent, PrimaryFile, Orphan, ChildOf

\* A thread is rooted when no set of threads that contains it, and the parents of
\* its sub-agents, does without a primary thread.
ParentClosed(f, S) == \A x \in S : f[x].kind = "subagent" => f[x].parent \in S
Rooted(f, t) ==
    \A S \in SUBSET Threads : t \in S /\ ParentClosed(f, S) => \E x \in S : f[x].kind = "primary"

\* The walk of parent_chain_is_valid, which gives up after as many steps as there are
\* threads, decides just that: a longer walk would meet a thread twice.
LEMMA ChainIsRooted ==
    ASSUME NEW f \in [Threads -> Files], NEW t \in Threads
    PROVE  parent_chain_is_valid(f, t) <=> Rooted(f, t)
    <1> DEFINE N  == Cardinality(Threads)
               up == ParentChain(f, t)
               Sub(x) == x \in Threads /\ f[x].kind = "subagent"
    <1>1. N \in Nat /\ IsFiniteSet(Threads) /\ None \notin Threads
        BY ProjectDriverAssumption, FS_CardinalityType
    <1>2. up = [n \in 0..N |-> IF n = 0 THEN t ELSE NextUp(f, up[n - 1])]
        BY ChainEquation
    <1> HIDE DEF N, up
    <1>3. DOMAIN up = 0..N /\ up[0] = t
        BY <1>1, <1>2
    <1>4. ASSUME NEW n \in Nat, n + 1 \in 0..N, Sub(up[n])
          PROVE  up[n + 1] \in Threads /\ up[n + 1] = f[up[n]].parent
      <2>1. up[n + 1] = NextUp(f, up[n])
        <3>1. n + 1 # 0 /\ (n + 1) - 1 = n
          OBVIOUS
        <3>2. QED
          BY <1>2, <1>4, <3>1
      <2>2. f[up[n]].parent \in Threads
        BY <1>4, FileFacts
      <2>3. QED
        BY <1>1, <1>4, <2>1, <2>2 DEF NextUp
    <1>5. parent_chain_is_valid(f, t) <=>
            \E n \in 0..N : /\ up[n] # None /\ f[up[n]].kind = "primary"
                            /\ \A i \in 0..(n - 1) : f[up[i]].kind = "subagent"
        BY <1>3 DEF parent_chain_is_valid, up
    <1>6. ASSUME parent_chain_is_valid(f, t) PROVE Rooted(f, t)
      <2>1. PICK n \in 0..N : /\ up[n] # None /\ f[up[n]].kind = "primary"
                              /\ \A i \in 0..(n - 1) : f[up[i]].kind = "subagent"
        BY <1>5, <1>6
      <2>2. SUFFICES ASSUME NEW S \in SUBSET Threads, t \in S, ParentClosed(f, S)
                     PROVE  \E x \in S : f[x].kind = "primary"
        BY DEF Rooted
      <2> DEFINE T == {i \in Nat : i <= n => up[i] \in S}
      <2>3. 0 \in T
        BY <1>3, <2>2
      <2>4. ASSUME NEW i \in Nat, i \in T PROVE i + 1 \in T
        <3>1. SUFFICES ASSUME i + 1 <= n PROVE up[i + 1] \in S
          OBVIOUS
        <3>2. i \in 0..(n - 1) /\ i + 1 \in 0..N
          BY <1>1, <2>1, <3>1
        <3>3. up[i] \in S /\ f[up[i]].kind = "subagent"
          BY <2>1, <2>4, <3>1, <3>2
        <3>4. f[up[i]].parent \in S
          BY <2>2, <3>3 DEF ParentClosed
        <3>5. QED
          BY <1>4, <3>2, <3>3, <3>4
      <2> HIDE DEF T
      <2>5. n \in T
        BY <1>1, <2>1, <2>3, <2>4, NumberInduction
      <2>6. up[n] \in S
        BY <1>1, <2>1, <2>5 DEF T
      <2>7. QED
        BY <2>1, <2>6
    <1>7. ASSUME Rooted(f, t) PROVE parent_chain_is_valid(f, t)
      <2>1. CASE \A k \in 0..N : Sub(up[k])
        <3>1. up \in [0..N -> Threads]
          BY <1>2, <2>1
        <3>2. IsFiniteSet(0..N) /\ Cardinality(0..N) = N + 1
          BY <1>1, FS_Interval
        <3>3. PICK a, b \in 0..N : a # b /\ up[a] = up[b]
          BY <1>1, <3>1, <3>2, FS_PigeonHole DEF N
        <3>4. PICK i, j \in 0..N : i < j /\ up[i] = up[j]
          BY <1>1, <3>3
        <3> DEFINE S == {up[m] : m \in 0..(j - 1)}
        <3>5. S \in SUBSET Threads /\ t \in S
          BY <1>1, <1>3, <2>1, <3>4
        <3>6. ASSUME NEW m \in 0..(j - 1) PROVE f[up[m]].parent \in S
          <4>1. m \in Nat /\ m + 1 \in 0..N /\ Sub(up[m])
            BY <1>1, <2>1, <3>4
          <4>2. f[up[m]].parent = up[m + 1]
            BY <1>4, <4>1
          <4>3. CASE m + 1 = j
            BY <1>1, <3>4, <4>2, <4>3
          <4>4. CASE m + 1 # j
            BY <1>1, <3>4, <4>2, <4>4
          <4>5. QED
            BY <4>3, <4>4
        <3>7. ParentClosed(f, S)
          BY <3>6 DEF ParentClosed
        <3>8. \A x \in S : f[x].kind # "primary"
          BY <1>1, <2>1, <3>4
        <3> HIDE DEF S
        <3>9. QED
          BY <1>7, <3>5, <3>7, <3>8 DEF Rooted
      <2>2. CASE ~ \A k \in 0..N : Sub(up[k])
        <3> DEFINE B == {k \in 0..N : ~Sub(up[k])}
        <3>1. PICK k \in B : \A m \in B : k <= m
          <4>1. B \subseteq Nat /\ B # {}
            BY <1>1, <2>2
          <4> HIDE DEF B
          <4>2. QED
            BY <4>1, LeastNumber
        <3>2. \A m \in 0..(k - 1) : Sub(up[m])
          BY <1>1, <3>1
        <3>3. up[k] \in Threads
          <4>1. CASE k = 0
            BY <1>3, <4>1
          <4>2. CASE k # 0
            <5>1. k - 1 \in Nat /\ k - 1 \in 0..(k - 1) /\ (k - 1) + 1 \in 0..N /\ (k - 1) + 1 = k
              BY <1>1, <3>1, <4>2
            <5>2. Sub(up[k - 1])
              BY <3>2, <5>1
            <5> HIDE DEF Sub
            <5>3. QED
              BY <1>4, <5>1, <5>2
          <4>3. QED
            BY <4>1, <4>2
        <3> DEFINE S == {up[m] : m \in 0..k}
        <3>4. S \in SUBSET Threads /\ t \in S
          BY <1>1, <1>3, <3>1, <3>2, <3>3
        <3>5. ASSUME NEW m \in 0..k, f[up[m]].kind = "subagent" PROVE f[up[m]].parent \in S
          <4>1. m # k
            BY <3>1, <3>3, <3>5
          <4>2. m \in Nat /\ m + 1 \in 0..N /\ m + 1 \in 0..k /\ Sub(up[m])
            BY <1>1, <3>1, <3>2, <4>1
          <4>3. f[up[m]].parent = up[m + 1]
            BY <1>4, <4>2
          <4>4. QED
            BY <4>2, <4>3
        <3>6. ParentClosed(f, S)
          BY <3>5 DEF ParentClosed
        <3>7. PICK m \in 0..k : f[up[m]].kind = "primary"
          BY <1>7, <3>4, <3>6 DEF Rooted
        <3>8. m = k
          BY <1>1, <3>1, <3>2, <3>7
        <3>9. QED
          BY <1>1, <1>5, <3>1, <3>2, <3>3, <3>7, <3>8
      <2>3. QED
        BY <2>1, <2>2
    <1>8. QED
        BY <1>6, <1>7

\* What an admission makes of a thread's file: a thread without one becomes an
\* orphan or a sub-agent of a valid parent, so does an orphan, and a classified
\* thread keeps its file.
LEMMA AdmittedFacts ==
    ASSUME NEW f \in [Threads -> Files], NEW a \in Admissions, IsLink(a)
    PROVE  LET r == Admitted(f, a)
               c == a.thread
           IN  /\ r.file \in Files /\ r.file.kind # "none" /\ r.install \in BOOLEAN
               /\ \/ r.file = f[c]
                  \/ /\ f[c].kind \in {"none", "orphan"}
                     /\ \/ r.file = Orphan
                        \/ /\ a.parent \in Threads /\ r.file = ChildOf(a.parent)
                           /\ parent_chain_is_valid(f, a.parent)
    <1> DEFINE c == a.thread
               p == a.parent
               r == Admitted(f, a)
               Owned == IF MayOwn(f, p, c) THEN ChildOf(p) ELSE Orphan
               refused == [file |-> f[c], install |-> FALSE]
               as(g) == [file |-> g, install |-> TRUE]
    <1>1. c \in Threads /\ f[c] \in Files /\ (a.op = "link" \/ a.op = "discovery")
        BY DEF Admissions
    <1>2. a.op = "link" => p \in Threads
        BY DEF IsLink
    <1>3. \/ r = refused /\ f[c].kind # "none"
          \/ r = as(f[c]) /\ f[c].kind # "none"
          \/ r = as(Orphan) /\ f[c].kind \in {"none", "orphan"}
          \/ r = as(Owned) /\ f[c].kind \in {"none", "orphan"} /\ a.op = "link"
      <2>1. /\ f[c].kind \in {"none", "primary", "orphan", "subagent"}
            /\ f[c].kind = "none" <=> f[c] = Absent
        BY <1>1, FileFacts
      <2>2. CASE a.op = "discovery"
        <3>1. CASE f[c] = Absent
          BY <2>1, <2>2, <3>1 DEF Admitted
        <3>2. CASE f[c] # Absent
          BY <2>1, <2>2, <3>2 DEF Admitted
        <3>3. QED
          BY <3>1, <3>2
      <2>3. CASE a.op = "link"
        <3>1. CASE f[c] = Absent
          BY <2>1, <2>3, <3>1 DEF Admitted
        <3>2. CASE f[c].kind = "primary"
          BY <2>1, <2>3, <3>2 DEF Admitted
        <3>3. CASE f[c].kind = "subagent"
          BY <2>1, <2>3, <3>3 DEF Admitted
        <3>4. CASE f[c].kind = "orphan"
          BY <2>1, <2>3, <3>4 DEF Admitted
        <3>5. QED
          BY <2>1, <3>1, <3>2, <3>3, <3>4
      <2>4. QED
        BY <1>1, <2>2, <2>3
    <1> HIDE DEF r
    <1>4. Orphan \in Files /\ Orphan.kind # "none"
        BY DEF Files, Orphan
    <1>5. a.op = "link" => ChildOf(p) \in Files /\ ChildOf(p).kind # "none"
        BY <1>2 DEF Files, ChildOf
    <1>6. Owned = Orphan \/ (Owned = ChildOf(p) /\ parent_chain_is_valid(f, p))
        BY DEF MayOwn
    <1> HIDE DEF Owned
    <1>7. /\ r.file \in Files /\ r.file.kind # "none" /\ r.install \in BOOLEAN
          /\ r.file = f[c] \/ (f[c].kind \in {"none", "orphan"} /\ r.file \in {Orphan, Owned})
      <2>1. CASE r = refused /\ f[c].kind # "none"
        BY <1>1, <2>1
      <2>2. CASE r = as(f[c]) /\ f[c].kind # "none"
        BY <1>1, <2>2
      <2>3. CASE r = as(Orphan) /\ f[c].kind \in {"none", "orphan"}
        BY <1>4, <2>3
      <2>4. CASE r = as(Owned) /\ f[c].kind \in {"none", "orphan"} /\ a.op = "link"
        BY <1>4, <1>5, <1>6, <2>4
      <2>5. QED
        BY <1>3, <2>1, <2>2, <2>3, <2>4
    <1>8. f[c].kind \in {"none", "orphan"} /\ r.file = Owned /\ Owned # Orphan /\ r.file # f[c]
            => p \in Threads
      <2>1. CASE a.op = "link"
        BY <1>2, <2>1
      <2>2. CASE a.op # "link"
        BY <1>3, <2>2
      <2>3. QED
        BY <2>1, <2>2
    <1>9. QED
        BY <1>6, <1>7, <1>8 DEF r

\* A rooted thread stays rooted when no file is replaced but by one that is rooted
\* itself, or where there was neither a primary thread nor a sub-agent.
LEMMA RootedCarries ==
    ASSUME NEW f \in [Threads -> Files], NEW g \in [Threads -> Files], NEW t \in Threads,
           Rooted(f, t),
           \A x \in Threads : \/ g[x] = f[x]
                              \/ Rooted(g, x)
                              \/ f[x].kind \notin {"primary", "subagent"}
    PROVE  Rooted(g, t)
    <1>1. SUFFICES ASSUME NEW S \in SUBSET Threads, t \in S, ParentClosed(g, S)
                   PROVE  \E x \in S : g[x].kind = "primary"
        BY DEF Rooted
    <1>2. CASE \E x \in S : Rooted(g, x)
        BY <1>1, <1>2 DEF Rooted
    <1>3. CASE \A x \in S : ~Rooted(g, x)
      <2>1. ParentClosed(f, S)
        BY <1>1, <1>3 DEF ParentClosed
      <2>2. PICK x \in S : f[x].kind = "primary"
        BY <1>1, <2>1 DEF Rooted
      <2>3. QED
        BY <1>3, <2>2
    <1>4. QED
        BY <1>2, <1>3

\* A primary thread is rooted, and so is a sub-agent of a rooted thread.
LEMMA RootedSteps ==
    ASSUME NEW f \in [Threads -> Files], NEW t \in Threads
    PROVE  /\ f[t].kind = "primary" => Rooted(f, t)
           /\ f[t].kind = "subagent" /\ Rooted(f, f[t].parent) => Rooted(f, t)
    BY DEF Rooted, ParentClosed

-----------------------------------------------------------------------------
(* The deferred admissions *)

In(q, a) == \E i \in DOMAIN q : q[i] = a
OnePerThread(q) == \A i, j \in DOMAIN q : q[i].thread = q[j].thread => i = j

\* Kept filters a queue: it drops what may not start later and nothing else.
LEMMA KeptFacts ==
    ASSUME NEW own, NEW f, NEW q \in Seq(Admissions), OnePerThread(q)
    PROVE  LET k == Kept(own, f, q)
           IN  /\ k \in Seq(Admissions) /\ OnePerThread(k)
               /\ \A i \in DOMAIN k : In(q, k[i])
               /\ \A i \in DOMAIN q : Keep(own, f, q[i]) => In(k, q[i])
    <1> DEFINE L == Len(q)
               Filters(g, n) == g = [m \in 0..n |->
                    IF m = 0 THEN <<>>
                    ELSE IF Keep(own, f, q[m]) THEN Append(g[m - 1], q[m]) ELSE g[m - 1]]
               S == {n \in Nat : \E g : Filters(g, n)}
    <1>1. L \in Nat /\ DOMAIN q = 1..L
        OBVIOUS
    <1> HIDE DEF L
    <1>2. 0 \in S
      <2>1. Filters([m \in 0..0 |-> <<>>], 0)
        OBVIOUS
      <2> HIDE DEF Filters
      <2>2. QED
        BY <2>1
    <1>3. ASSUME NEW n \in Nat, n \in S PROVE n + 1 \in S
      <2>1. PICK g : Filters(g, n)
        BY <1>3
      <2> DEFINE new == IF Keep(own, f, q[n + 1]) THEN Append(g[n], q[n + 1]) ELSE g[n]
                 h == [m \in 0..(n + 1) |-> IF m <= n THEN g[m] ELSE new]
      <2>2. ASSUME NEW m \in 0..(n + 1)
            PROVE  h[m] = IF m = 0 THEN <<>>
                          ELSE IF Keep(own, f, q[m]) THEN Append(h[m - 1], q[m]) ELSE h[m - 1]
        <3>1. CASE m <= n
          <4>1. h[m] = g[m] /\ m \in 0..n /\ (m # 0 => m - 1 \in 0..n /\ h[m - 1] = g[m - 1])
            BY <3>1
          <4>2. g[m] = IF m = 0 THEN <<>>
                       ELSE IF Keep(own, f, q[m]) THEN Append(g[m - 1], q[m]) ELSE g[m - 1]
            BY <2>1, <4>1
          <4> HIDE DEF h
          <4>3. QED
            BY <4>1, <4>2
        <3>2. CASE ~(m <= n)
          <4>1. m = n + 1 /\ m # 0 /\ m - 1 = n
            BY <3>2
          <4>2. h[m] = new /\ h[m - 1] = g[n]
            BY <4>1
          <4>3. QED
            BY <4>1, <4>2
        <3>3. QED
          BY <3>1, <3>2
      <2>3. Filters(h, n + 1)
        BY <2>2
      <2>4. n + 1 \in Nat
        OBVIOUS
      <2> HIDE DEF Filters, h
      <2>5. QED
        BY <2>3, <2>4
    <1>4. L \in S
      <2> HIDE DEF S
      <2>1. QED
        BY <1>1, <1>2, <1>3, NumberInduction
    <1> DEFINE kept == CHOOSE g : Filters(g, L)
    <1>5. Filters(kept, L)
      <2>1. PICK g : Filters(g, L)
        BY <1>4
      <2> HIDE DEF Filters
      <2>2. QED
        BY <2>1
    <1>6. Kept(own, f, q) = kept[L]
        BY DEF Kept, L
    <1> HIDE DEF kept
    <1> DEFINE Good(n) == LET k == kept[n]
                          IN  /\ k \in Seq(Admissions) /\ OnePerThread(k)
                              /\ \A i \in DOMAIN k : \E j \in 1..n : k[i] = q[j]
                              /\ \A j \in 1..n : Keep(own, f, q[j]) => In(k, q[j])
               T == {n \in Nat : n <= L => Good(n)}
    <1>7. 0 \in T
      <2>1. kept[0] = <<>>
        BY <1>1, <1>5
      <2>2. kept[0] \in Seq(Admissions) /\ DOMAIN kept[0] = {} /\ 1..0 = {}
        BY <2>1
      <2>3. Good(0)
        BY <2>2 DEF OnePerThread
      <2> HIDE DEF Good
      <2>4. QED
        BY <2>3
    <1>8. ASSUME NEW n \in Nat, n \in T PROVE n + 1 \in T
      <2>1. SUFFICES ASSUME n + 1 <= L PROVE Good(n + 1)
        OBVIOUS
      <2> DEFINE k == kept[n]
                 a == q[n + 1]
      <2>2. Good(n) /\ n + 1 \in 1..L /\ a \in Admissions
        BY <1>1, <1>8, <2>1
      <2>3. kept[n + 1] = IF Keep(own, f, a) THEN Append(k, a) ELSE k
        <3>1. n + 1 # 0 /\ (n + 1) - 1 = n /\ n + 1 \in 0..L
          BY <1>1, <2>1
        <3>2. QED
          BY <1>5, <3>1
      <2>4. CASE ~Keep(own, f, a)
        <3>1. kept[n + 1] = k
          BY <2>3, <2>4
        <3>2. \A j \in 1..(n + 1) : j \in 1..n \/ j = n + 1
          OBVIOUS
        <3>3. \A j \in 1..n : j \in 1..(n + 1)
          OBVIOUS
        <3>4. QED
          BY <2>2, <2>4, <3>1, <3>2, <3>3
      <2>5. CASE Keep(own, f, a)
        <3>1. kept[n + 1] = Append(k, a)
          BY <2>3, <2>5
        <3>2. k \in Seq(Admissions)
          BY <2>2
        <3> DEFINE x == Append(k, a)
        <3>3. /\ x \in Seq(Admissions) /\ DOMAIN x = 1..(Len(k) + 1) /\ Len(k) \in Nat
              /\ DOMAIN k = 1..Len(k)
              /\ \A i \in DOMAIN k : x[i] = k[i]
              /\ x[Len(k) + 1] = a
          BY <2>2, <3>2
        <3> HIDE DEF x, k, a
        <3>4. ASSUME NEW i \in DOMAIN k PROVE k[i].thread # a.thread
          <4>1. PICK j \in 1..n : k[i] = q[j]
            BY <2>2 DEF k
          <4>2. j \in 1..L /\ n + 1 \in 1..L /\ j # n + 1
            BY <1>1, <2>1
          <4>3. q[j].thread # q[n + 1].thread
            BY <1>1, <4>2 DEF OnePerThread
          <4>4. QED
            BY <4>1, <4>3 DEF a
        <3>5. OnePerThread(k)
          BY <2>2 DEF k
        <3>6. OnePerThread(x)
          <4>1. ASSUME NEW i \in DOMAIN x, NEW j \in DOMAIN x, x[i].thread = x[j].thread PROVE i = j
            <5>1. CASE i \in DOMAIN k /\ j \in DOMAIN k
              BY <3>3, <3>5, <4>1, <5>1 DEF OnePerThread
            <5>2. CASE i \in DOMAIN k /\ j = Len(k) + 1
              BY <3>3, <3>4, <4>1, <5>2
            <5>3. CASE j \in DOMAIN k /\ i = Len(k) + 1
              BY <3>3, <3>4, <4>1, <5>3
            <5>4. QED
              BY <3>3, <5>1, <5>2, <5>3
          <4>2. QED
            BY <4>1 DEF OnePerThread
        <3>7. \A i \in DOMAIN x : \E j \in 1..(n + 1) : x[i] = q[j]
          <4>1. ASSUME NEW i \in DOMAIN x PROVE \E j \in 1..(n + 1) : x[i] = q[j]
            <5>1. CASE i \in DOMAIN k
              <6>1. PICK j \in 1..n : k[i] = q[j]
                BY <2>2, <5>1 DEF k
              <6>2. QED
                BY <3>3, <5>1, <6>1
            <5>2. CASE i = Len(k) + 1
              BY <3>3, <5>2 DEF a
            <5>3. QED
              BY <3>3, <5>1, <5>2
          <4>2. QED
            BY <4>1
        <3>8. \A j \in 1..(n + 1) : Keep(own, f, q[j]) => In(x, q[j])
          <4>1. ASSUME NEW j \in 1..(n + 1), Keep(own, f, q[j]) PROVE In(x, q[j])
            <5>1. CASE j = n + 1
              BY <3>3, <5>1 DEF In, a
            <5>2. CASE j \in 1..n
              <6>1. PICK i \in DOMAIN k : k[i] = q[j]
                BY <2>2, <4>1, <5>2 DEF In, k
              <6>2. QED
                BY <3>3, <6>1 DEF In
            <5>3. QED
              BY <5>1, <5>2
          <4>2. QED
            BY <4>1
        <3>9. QED
          BY <3>1, <3>3, <3>6, <3>7, <3>8 DEF x
      <2>6. QED
        BY <2>4, <2>5
    <1> HIDE DEF T
    <1>9. L \in T
        BY <1>1, <1>7, <1>8, NumberInduction
    <1>10. Good(L)
        BY <1>1, <1>9 DEF T
    <1>11. QED
        BY <1>1, <1>6, <1>10 DEF In

Deferrable(q) ==
    /\ q \in Seq(Admissions) /\ OnePerThread(q)
    /\ \A i \in DOMAIN q : q[i].by = None /\ IsLink(q[i])

\* start_deferred takes at most one entry, and loses none but those whose parent has no
\* file.
LEMMA StartFacts ==
    ASSUME NEW own, NEW f, NEW q, Deferrable(q), NEW adm, NEW quiet
    PROVE  LET s == start_deferred(own, f, q, adm, quiet)
           IN  /\ Deferrable(s.deferred)
               /\ \A i \in DOMAIN s.deferred : In(q, s.deferred[i])
               /\ \/ s.admission = adm
                  \/ adm = NoAdmission /\ \E i \in DOMAIN q : s.admission = Begin(q[i])
               /\ \A i \in DOMAIN q : \/ In(s.deferred, q[i])
                                      \/ s.admission = Begin(q[i])
                                      \/ ~Keep(own, f, q[i])
    <1> DEFINE ready == {i \in DOMAIN q : CanStart(own, q[i])}
               first == CHOOSE i \in ready : \A j \in ready : i <= j
               s == start_deferred(own, f, q, adm, quiet)
               Sound(d, b) ==
                 /\ d \in Seq(Admissions) /\ OnePerThread(d)
                 /\ \A i \in DOMAIN d : In(q, d[i])
                 /\ \A i \in DOMAIN q : In(d, q[i]) \/ b = Begin(q[i]) \/ ~Keep(own, f, q[i])
    <1>1. q \in Seq(Admissions) /\ OnePerThread(q) /\ DOMAIN q = 1..Len(q) /\ Len(q) \in Nat
        BY DEF Deferrable
    <1>2. /\ Sound(s.deferred, s.admission)
          /\ \/ s.admission = adm
             \/ adm = NoAdmission /\ \E i \in DOMAIN q : s.admission = Begin(q[i])
      <2>1. CASE quiet \/ adm # NoAdmission
        <3>1. s = [admission |-> adm, deferred |-> q]
          BY <2>1 DEF start_deferred
        <3>2. QED
          BY <1>1, <3>1 DEF In
      <2>2. CASE ~(quiet \/ adm # NoAdmission) /\ ready = {}
        <3>1. s = [admission |-> NoAdmission, deferred |-> Kept(own, f, q)]
          BY <2>2 DEF start_deferred
        <3>2. QED
          BY <1>1, <2>2, <3>1, KeptFacts
      <2>3. CASE ~(quiet \/ adm # NoAdmission) /\ ready # {}
        <3>1. ready \subseteq Nat
          BY <1>1
        <3>2. first \in ready
          <4>1. \E i \in ready : \A j \in ready : i <= j
            BY <2>3, <3>1, LeastNumber
          <4> HIDE DEF ready
          <4>2. QED
            BY <4>1
        <3> DEFINE n == first
                   u == SubSeq(q, n + 1, Len(q))
                   v == SubSeq(q, 1, n - 1)
                   k == Kept(own, f, v)
                   d == u \o k
        <3>3. s = [admission |-> Begin(q[n]), deferred |-> d]
          BY <2>3 DEF start_deferred
        <3>4. n \in 1..Len(q)
          BY <1>1, <3>2
        <3> HIDE DEF first, ready, n, s
        <3>5. /\ u \in Seq(Admissions) /\ DOMAIN u = 1..Len(u) /\ Len(u) = Len(q) - n
              /\ \A i \in 1..Len(u) : u[i] = q[n + i]
          <4>1. n \in Nat /\ n + 1 \in 1..(Len(q) + 1) /\ Len(q) - n \in Nat
            BY <1>1, <3>4
          <4>2. /\ u \in Seq(Admissions)
                /\ Len(u) = IF n + 1 <= Len(q) THEN Len(q) - (n + 1) + 1 ELSE 0
                /\ \A i \in 1..(Len(q) - (n + 1) + 1) : u[i] = q[(n + 1) + i - 1]
            BY <1>1, <4>1, SubSeqProperties
          <4> HIDE DEF u
          <4>3. Len(u) = Len(q) - n
            <5>1. \A L \in Nat : \A m \in 1..L :
                    (IF m + 1 <= L THEN L - (m + 1) + 1 ELSE 0) = L - m
              OBVIOUS
            <5> HIDE DEF Sound
            <5>2. QED
              BY <1>1, <3>4, <4>2, <5>1
          <4>4. ASSUME NEW i \in 1..Len(u) PROVE u[i] = q[n + i]
            <5>1. i \in 1..(Len(q) - (n + 1) + 1) /\ (n + 1) + i - 1 = n + i
              BY <1>1, <4>1, <4>3
            <5>2. QED
              BY <4>2, <5>1
          <4>5. QED
            BY <4>2, <4>3, <4>4
        <3>6. /\ v \in Seq(Admissions) /\ DOMAIN v = 1..(n - 1)
              /\ \A i \in 1..(n - 1) : v[i] = q[i]
          BY <1>1, <3>4
        <3>7. OnePerThread(v)
          BY <1>1, <3>4, <3>6 DEF OnePerThread
        <3>8. /\ k \in Seq(Admissions) /\ OnePerThread(k)
              /\ \A i \in DOMAIN k : In(v, k[i])
              /\ \A i \in DOMAIN v : Keep(own, f, v[i]) => In(k, v[i])
          BY <3>6, <3>7, KeptFacts
        <3> HIDE DEF u, v, k
        <3>9. /\ d \in Seq(Admissions) /\ DOMAIN d = 1..(Len(u) + Len(k))
              /\ DOMAIN k = 1..Len(k) /\ Len(k) \in Nat /\ Len(u) \in Nat
              /\ \A i \in 1..Len(u) : d[i] = u[i]
              /\ \A i \in 1..Len(k) : d[Len(u) + i] = k[i]
          <4>1. u \in Seq(Admissions) /\ k \in Seq(Admissions)
            BY <3>5, <3>8
          <4>2. DOMAIN k = 1..Len(k) /\ Len(k) \in Nat /\ Len(u) \in Nat
            BY <4>1
          <4>3. /\ d \in Seq(Admissions) /\ Len(d) = Len(u) + Len(k)
                /\ \A i \in 1..(Len(u) + Len(k)) :
                      d[i] = IF i <= Len(u) THEN u[i] ELSE k[i - Len(u)]
            BY <4>1, ConcatProperties
          <4> HIDE DEF d
          <4>4. DOMAIN d = 1..(Len(u) + Len(k))
            BY <4>3
          <4>5. \A i \in 1..Len(u) : d[i] = u[i]
            BY <4>2, <4>3
          <4>6. ASSUME NEW i \in 1..Len(k) PROVE d[Len(u) + i] = k[i]
            <5>1. /\ Len(u) + i \in 1..(Len(u) + Len(k)) /\ ~(Len(u) + i <= Len(u))
                  /\ (Len(u) + i) - Len(u) = i
              BY <4>2
            <5>2. QED
              BY <4>3, <5>1
          <4>7. QED
            BY <4>2, <4>3, <4>4, <4>5, <4>6
        <3> HIDE DEF d
        <3>10. ASSUME NEW i \in DOMAIN d
               PROVE  \/ i \in 1..Len(u) /\ n + i \in DOMAIN q /\ d[i] = q[n + i]
                      \/ /\ i - Len(u) \in DOMAIN k /\ d[i] = k[i - Len(u)]
                         /\ \E j \in 1..(n - 1) : j \in DOMAIN q /\ d[i] = q[j]
          <4>1. CASE i \in 1..Len(u)
            <5>1. n + i \in 1..Len(q)
              BY <1>1, <3>4, <3>5, <4>1
            <5>2. QED
              BY <1>1, <3>5, <3>9, <4>1, <5>1
          <4>2. CASE i \notin 1..Len(u)
            <5>1. i - Len(u) \in 1..Len(k) /\ Len(u) + (i - Len(u)) = i
              BY <3>9, <4>2
            <5>2. d[i] = k[i - Len(u)]
              BY <3>9, <5>1
            <5>3. PICK j \in DOMAIN v : v[j] = k[i - Len(u)]
              BY <3>8, <3>9, <5>1 DEF In
            <5>4. j \in 1..(n - 1) /\ j \in DOMAIN q /\ d[i] = q[j]
              BY <1>1, <3>4, <3>6, <5>2, <5>3
            <5>5. QED
              BY <3>9, <5>1, <5>2, <5>4
          <4>3. QED
            BY <4>1, <4>2
        <3>11. \A i \in DOMAIN d : In(q, d[i])
          BY <3>10 DEF In
        <3>12. OnePerThread(d)
          <4>1. ASSUME NEW i \in DOMAIN d, NEW j \in DOMAIN d, d[i].thread = d[j].thread
                PROVE  i = j
            <5>1. CASE i \in 1..Len(u) /\ j \in 1..Len(u)
              <6>1. d[i] = q[n + i] /\ d[j] = q[n + j] /\ n + i \in DOMAIN q /\ n + j \in DOMAIN q
                BY <1>1, <3>4, <3>5, <3>9, <5>1
              <6>2. n + i = n + j
                BY <1>1, <4>1, <6>1 DEF OnePerThread
              <6>3. QED
                BY <3>4, <3>9, <5>1, <6>2
            <5>2. CASE i \in 1..Len(u) /\ j \notin 1..Len(u)
              <6>1. PICK m \in 1..(n - 1) : m \in DOMAIN q /\ d[j] = q[m]
                BY <3>10, <5>2
              <6>2. d[i] = q[n + i] /\ n + i \in DOMAIN q
                BY <1>1, <3>4, <3>5, <3>9, <5>2
              <6>3. n + i = m
                BY <1>1, <4>1, <6>1, <6>2 DEF OnePerThread
              <6>4. QED
                BY <1>1, <3>4, <3>9, <5>2, <6>1, <6>3
            <5>3. CASE i \notin 1..Len(u) /\ j \in 1..Len(u)
              <6>1. PICK m \in 1..(n - 1) : m \in DOMAIN q /\ d[i] = q[m]
                BY <3>10, <5>3
              <6>2. d[j] = q[n + j] /\ n + j \in DOMAIN q
                BY <1>1, <3>4, <3>5, <3>9, <5>3
              <6>3. n + j = m
                BY <1>1, <4>1, <6>1, <6>2 DEF OnePerThread
              <6>4. QED
                BY <1>1, <3>4, <3>9, <5>3, <6>1, <6>3
            <5>4. CASE i \notin 1..Len(u) /\ j \notin 1..Len(u)
              <6>1. /\ i - Len(u) \in DOMAIN k /\ d[i] = k[i - Len(u)]
                    /\ j - Len(u) \in DOMAIN k /\ d[j] = k[j - Len(u)]
                BY <3>10, <5>4
              <6>2. i - Len(u) = j - Len(u)
                BY <3>8, <4>1, <6>1 DEF OnePerThread
              <6>3. QED
                BY <3>9, <6>2
            <5>5. QED
              BY <5>1, <5>2, <5>3, <5>4
          <4>2. QED
            BY <4>1 DEF OnePerThread
        <3>13. ASSUME NEW i \in DOMAIN q
               PROVE  In(d, q[i]) \/ Begin(q[n]) = Begin(q[i]) \/ ~Keep(own, f, q[i])
          <4>1. CASE i = n
            BY <4>1
          <4>2. CASE i > n
            <5>1. i \in Nat /\ n \in Nat /\ i <= Len(q) /\ Len(u) = Len(q) - n
              BY <1>1, <3>4, <3>5, <4>2
            <5> HIDE DEF Sound
            <5>4. i - n \in 1..Len(u) /\ n + (i - n) = i
              BY <1>1, <4>2, <5>1
            <5>5. i - n \in DOMAIN d
              BY <3>9, <5>4
            <5>2. d[i - n] = q[i]
              BY <3>5, <3>9, <5>4
            <5>3. QED
              BY <5>5, <5>2 DEF In
          <4>3. CASE i < n /\ Keep(own, f, q[i])
            <5>1. i \in DOMAIN v /\ v[i] = q[i]
              BY <1>1, <3>4, <3>6, <4>3
            <5>2. PICK j \in DOMAIN k : k[j] = q[i]
              BY <3>8, <4>3, <5>1 DEF In
            <5>3. Len(u) + j \in DOMAIN d /\ d[Len(u) + j] = q[i]
              BY <3>9, <5>2
            <5>4. QED
              BY <5>3 DEF In
          <4>4. QED
            BY <1>1, <3>4, <4>1, <4>2, <4>3
        <3>14. QED
          BY <1>1, <2>3, <3>3, <3>4, <3>9, <3>11, <3>12, <3>13
      <2>4. QED
        BY <2>1, <2>2, <2>3
    <1> HIDE DEF s
    <1>3. \A i \in DOMAIN s.deferred : s.deferred[i].by = None /\ IsLink(s.deferred[i])
      <2>1. ASSUME NEW i \in DOMAIN s.deferred
            PROVE  s.deferred[i].by = None /\ IsLink(s.deferred[i])
        <3>1. PICK j \in DOMAIN q : q[j] = s.deferred[i]
          BY <1>2 DEF In
        <3>2. QED
          BY <3>1 DEF Deferrable
      <2>2. QED
        BY <2>1
    <1>4. QED
        BY <1>2, <1>3 DEF Deferrable, s

\* queue_deferred keeps one entry per thread and never gives up a link.
LEMMA QueueFacts ==
    ASSUME NEW q, Deferrable(q), NEW a \in Admissions, a.by = None, IsLink(a)
    PROVE  LET d == queue_deferred(q, a)
           IN  /\ Deferrable(d)
               /\ \A i \in DOMAIN d : d[i] = a \/ In(q, d[i])
               /\ \A i \in DOMAIN q : q[i].op = "link" =>
                     \E j \in DOMAIN d : d[j].op = "link" /\ d[j].thread = q[i].thread
               /\ a.op = "link" => In(d, a)
    <1> DEFINE d == queue_deferred(q, a)
    <1>1. /\ q \in Seq(Admissions) /\ OnePerThread(q) /\ DOMAIN q = 1..Len(q) /\ Len(q) \in Nat
          /\ \A i \in DOMAIN q : q[i] \in Admissions /\ q[i].by = None /\ IsLink(q[i])
        BY DEF Deferrable
    <1>2. a.op = "link" \/ a.op = "discovery"
        BY DEF Admissions
    <1>3. CASE \E i \in DOMAIN q : q[i].thread = a.thread
      <2> DEFINE Stays1(i) == q[i].thread # a.thread \/ (q[i].op = "link" /\ a.op = "discovery")
      <2>1. /\ DOMAIN d = DOMAIN q
            /\ \A i \in DOMAIN q : d[i] = IF Stays1(i) THEN q[i] ELSE a
            /\ d = [i \in 1..Len(q) |-> IF Stays1(i) THEN q[i] ELSE a]
        BY <1>1, <1>3 DEF queue_deferred
      <2> HIDE DEF d
      <2>2. \A i \in DOMAIN q : d[i] \in Admissions /\ d[i].by = None /\ IsLink(d[i])
        BY <1>1, <2>1
      <2>3. d \in Seq(Admissions)
        BY <1>1, <2>1, <2>2
      <2>4. \A i \in DOMAIN q : d[i].thread = q[i].thread
        BY <2>1
      <2>5. OnePerThread(d)
        BY <1>1, <2>1, <2>4 DEF OnePerThread
      <2>6. \A i \in DOMAIN d : d[i] = a \/ In(q, d[i])
        BY <2>1 DEF In
      <2>7. \A i \in DOMAIN q : q[i].op = "link" => d[i].op = "link" /\ d[i].thread = q[i].thread
        BY <1>2, <2>1
      <2>8. a.op = "link" => In(d, a)
        BY <1>3, <2>1 DEF In
      <2>9. QED
        BY <2>1, <2>2, <2>3, <2>5, <2>6, <2>7, <2>8 DEF Deferrable, d
    <1>4. CASE ~ \E i \in DOMAIN q : q[i].thread = a.thread
      <2>1. d = Append(q, a)
        BY <1>4 DEF queue_deferred
      <2>2. /\ d \in Seq(Admissions) /\ DOMAIN d = 1..(Len(q) + 1)
            /\ \A i \in DOMAIN q : d[i] = q[i] /\ i \in DOMAIN d
            /\ d[Len(q) + 1] = a
        BY <1>1, <2>1
      <2> HIDE DEF d
      <2>3. \A i \in DOMAIN d : i \in DOMAIN q \/ i = Len(q) + 1
        BY <1>1, <2>2
      <2>4. OnePerThread(d)
        BY <1>1, <1>4, <2>2, <2>3 DEF OnePerThread
      <2>5. \A i \in DOMAIN d : d[i].by = None /\ IsLink(d[i])
        BY <1>1, <2>2, <2>3
      <2>6. \A i \in DOMAIN d : d[i] = a \/ In(q, d[i])
        BY <2>2, <2>3 DEF In
      <2>7. In(d, a)
        BY <1>1, <2>2 DEF In
      <2>8. QED
        BY <2>2, <2>4, <2>5, <2>6, <2>7 DEF Deferrable, d
    <1>5. QED
        BY <1>3, <1>4

-----------------------------------------------------------------------------
(* The channel *)

\* What is sent is the last command of the channel, and the others stay.
LEMMA AppendFacts ==
    ASSUME NEW q \in Seq(Commands), NEW c \in Commands
    PROVE  LET r == Append(q, c)
           IN  /\ r \in Seq(Commands)
               /\ \A i \in DOMAIN q : i \in DOMAIN r /\ r[i] = q[i]
               /\ \E n \in DOMAIN r : /\ n \notin DOMAIN q /\ r[n] = c
                                      /\ \A i \in DOMAIN r : i \in DOMAIN q \/ i = n
    <1> DEFINE r == Append(q, c)
    <1>1. Len(q) \in Nat /\ DOMAIN q = 1..Len(q)
        OBVIOUS
    <1>2. /\ r \in Seq(Commands) /\ DOMAIN r = 1..(Len(q) + 1)
          /\ \A i \in DOMAIN q : r[i] = q[i]
          /\ r[Len(q) + 1] = c
        OBVIOUS
    <1> HIDE DEF r
    <1>3. \A i \in DOMAIN q : i \in DOMAIN r
        BY <1>1, <1>2
    <1>4. /\ Len(q) + 1 \in DOMAIN r /\ Len(q) + 1 \notin DOMAIN q
          /\ \A i \in DOMAIN r : i \in DOMAIN q \/ i = Len(q) + 1
        BY <1>1, <1>2
    <1>5. QED
        BY <1>2, <1>3, <1>4 DEF r

\* What is received is the first command of the channel, and the others stay.
LEMMA TailFacts ==
    ASSUME NEW q \in Seq(Commands), q # <<>>
    PROVE  LET r == Tail(q)
           IN  /\ r \in Seq(Commands)
               /\ 1 \in DOMAIN q /\ Head(q) = q[1] /\ Head(q) \in Commands
               /\ \A i \in DOMAIN r : i + 1 \in DOMAIN q /\ i + 1 # 1 /\ r[i] = q[i + 1]
               /\ \A i \in DOMAIN q : i = 1 \/ (i - 1 \in DOMAIN r /\ r[i - 1] = q[i])
               /\ \A i, j \in DOMAIN r : i + 1 = j + 1 => i = j
    <1> DEFINE r == Tail(q)
    <1>1. Len(q) \in Nat /\ DOMAIN q = 1..Len(q) /\ Len(q) # 0 /\ Head(q) = q[1]
        OBVIOUS
    <1>2. /\ r \in Seq(Commands) /\ Len(r) = Len(q) - 1
          /\ \A i \in 1..Len(r) : r[i] = q[i + 1]
        BY HeadTailProperties
    <1> HIDE DEF r
    <1>3. DOMAIN r = 1..(Len(q) - 1)
        BY <1>2
    <1>4. 1 \in DOMAIN q /\ Head(q) \in Commands
        BY <1>1
    <1>5. ASSUME NEW i \in DOMAIN r PROVE i \in Nat /\ i + 1 \in DOMAIN q /\ i + 1 # 1 /\ r[i] = q[i + 1]
        BY <1>1, <1>2, <1>3
    <1>6. ASSUME NEW i \in DOMAIN q, i # 1 PROVE i - 1 \in DOMAIN r /\ r[i - 1] = q[i]
      <2>1. i - 1 \in 1..(Len(q) - 1) /\ (i - 1) + 1 = i
        BY <1>1, <1>6
      <2>2. QED
        BY <1>2, <1>3, <2>1
    <1>7. \A i, j \in DOMAIN r : i + 1 = j + 1 => i = j
        BY <1>5
    <1>8. QED
        BY <1>1, <1>2, <1>4, <1>5, <1>6, <1>7 DEF r

\* The kinds of commands.
LEMMA CommandFacts ==
    ASSUME NEW c \in Commands
    PROVE  /\ c.op \in {"attach", "detach", "link", "quiesce", "resume"}
           /\ c.op = "attach" => c \in Attaches
           /\ c.op = "detach" => c \in Detaches
           /\ c.op = "link" => c \in Admissions
           /\ c.op \in {"quiesce", "resume"} => c.by = Project
           /\ c.by = Project => c.op \in {"detach", "quiesce", "resume"}
    <1>1. Project \notin Callers \cup {None}
        BY ProjectDriverAssumption
    <1>2. CASE c \in Attaches
        BY <1>1, <1>2 DEF Attaches
    <1>3. CASE c \in Detaches
        BY <1>3 DEF Detaches
    <1>4. CASE c \in LinkCommands
        BY <1>1, <1>4 DEF LinkCommands, Admissions
    <1>5. CASE c \in Controls
        BY <1>5 DEF Controls
    <1>6. QED
        BY <1>2, <1>3, <1>4, <1>5 DEF Commands

\* A live or detaching owner of a thread that stays has a file of its kind.
LEMMA OwnedHasFile ==
    ASSUME DriverInv, NEW t \in Threads, owner[t] # "none", Stays(t)
    PROVE  class[t] = file[t].kind /\ file[t].kind # "none" /\ file[t] # Absent
    <1>1. class[t] = file[t].kind /\ class[t] # "none"
        BY DEF DriverInv, DriverType, ThreadsType, KindsAgree
    <1>2. file[t] # Absent
        BY <1>1 DEF Absent
    <1>3. QED
        BY <1>1, <1>2

\* What sending a command keeps, whoever sends it.
LEMMA SendKeeps ==
    ASSUME DriverInv, NEW c \in Commands, IsLink(c), HasParent(c), rx' = Append(rx, c),
           UNCHANGED <<parked, admission, deferred, file, owner, class, waiters, removed>>,
           teardown' = "gone" <=> teardown = "gone",
           teardown' = "stopped" <=> teardown = "stopped",
           c.op = "attach" /\ Stays(c.thread) => c.class = file[c.thread].kind,
           c.op = "detach" /\ c.by # Project /\ Stays(c.thread) => file[c.thread].kind \in Kinds,
           \A k \in waiting' : k \in waiting \/ k = c.by,
           \A l \in owed' : l \in owed \/ OwnLink(c, l[2])
    PROVE  /\ ThreadsType' /\ AdmissionType' /\ DeferredType' /\ ChannelType' /\ ParkedType'
           /\ KindsAgree' /\ ParentsExist' /\ OwedIsKept' /\ CallerIsHeld'
    <1>1. rx \in Seq(Commands) /\ \A i \in DOMAIN rx : IsLink(rx[i])
        BY DEF DriverInv, DriverType, ChannelType
    <1>2. /\ rx' \in Seq(Commands)
          /\ \A i \in DOMAIN rx : i \in DOMAIN rx' /\ rx'[i] = rx[i]
          /\ \E n \in DOMAIN rx' : /\ n \notin DOMAIN rx /\ rx'[n] = c
                                   /\ \A i \in DOMAIN rx' : i \in DOMAIN rx \/ i = n
        BY <1>1, AppendFacts
    <1>3. \A i \in DOMAIN rx' : rx'[i] = c \/ (i \in DOMAIN rx /\ rx'[i] = rx[i])
        BY <1>2
    <1>4. \E n \in DOMAIN rx' : rx'[n] = c
        BY <1>2
    <1>5. \A t : Stays(t)' <=> Stays(t)
        BY DEF Stays
    <1>6. ThreadsType' /\ AdmissionType' /\ DeferredType'
        BY DEF DriverInv, DriverType, ThreadsType, AdmissionType, DeferredType
    <1>7. ChannelType' /\ ParkedType'
        BY <1>1, <1>2, <1>3 DEF DriverInv, DriverType, ChannelType, ParkedType
    <1>9. KindsAgree'
        BY <1>3, <1>5 DEF DriverInv, KindsAgree
    <1>10. ParentsExist'
        BY <1>3, <1>5 DEF DriverInv, ParentsExist, HasParent
    <1>11. OwedIsKept'
        BY <1>2, <1>4 DEF DriverInv, OwedIsKept, KeepsLink, Settled
    <1>12. CallerIsHeld'
        BY <1>2, <1>4 DEF DriverInv, CallerIsHeld
    <1>13. QED
        BY <1>6, <1>7, <1>9, <1>10, <1>11, <1>12

-----------------------------------------------------------------------------
(* The requests keep the invariant *)

\* A request of a caller: the deletion's own requests stay as they are.
LEMMA CallKeeps ==
    ASSUME DriverInv, NEW k \in Callers, NEW c \in Commands, c.by = k, Call(k, c),
           IsLink(c), HasParent(c),
           c.op = "attach" /\ Stays(c.thread) => c.class = file[c.thread].kind,
           c.op = "detach" /\ Stays(c.thread) => file[c.thread].kind \in Kinds
    PROVE  DriverInv'
    <1>1. /\ rx' = Append(rx, c) /\ waiting' = waiting \cup {k}
          /\ UNCHANGED <<parked, admission, deferred, quiesced, closed, discovered, file, owner,
                         class, waiters, removed, teardown, snapshot, owed>>
        BY DEF Call, Send, harness, threads
    <1>2. k # Project /\ k \in Clients
        BY ProjectDriverAssumption DEF Clients
    <1>3. /\ ThreadsType' /\ AdmissionType' /\ DeferredType' /\ ChannelType' /\ ParkedType'
          /\ KindsAgree' /\ ParentsExist' /\ OwedIsKept' /\ CallerIsHeld'
        BY <1>1, SendKeeps
    <1>4. RestType'
        BY <1>1, <1>2 DEF DriverInv, DriverType, RestType
    <1>5. rx \in Seq(Commands)
        BY DEF DriverInv, DriverType, ChannelType
    <1>6. /\ \A i \in DOMAIN rx : i \in DOMAIN rx' /\ rx'[i] = rx[i]
          /\ \A i \in DOMAIN rx' : rx'[i] = c \/ (i \in DOMAIN rx /\ rx'[i] = rx[i])
        BY <1>1, <1>5, AppendFacts
    <1>7. ProjectAsks'
        BY <1>1, <1>2, <1>6 DEF DriverInv, ProjectAsks
    <1>8. Releases'
        BY <1>1, <1>6 DEF DriverInv, Releases, GoneProjectIsUnowned
    <1>9. QED
        BY <1>3, <1>4, <1>7, <1>8 DEF DriverInv, DriverType

LEMMA RequestAttachKeeps ==
    ASSUME DriverInv, NEW k \in Callers, NEW t \in Threads, RequestAttach(k, t)
    PROVE  DriverInv'
    <1> DEFINE c == Attach(t, file[t].kind, k)
    <1>1. Call(k, c) /\ file[t].kind \in Kinds
        BY DEF RequestAttach, Kinds
    <1>2. c.op = "attach" /\ c.thread = t /\ c.class = file[t].kind /\ c.by = k
        BY DEF Attach
    <1>3. c \in Commands
        BY <1>1 DEF Commands, Attaches, Attach
    <1> HIDE DEF c
    <1>4. QED
        BY <1>1, <1>2, <1>3, CallKeeps DEF IsLink, HasParent

LEMMA RequestDetachKeeps ==
    ASSUME DriverInv, NEW k \in Callers, NEW t \in Threads, RequestDetach(k, t)
    PROVE  DriverInv'
    <1> DEFINE c == Detach(t, k)
    <1>1. Call(k, c) /\ owner[t] # "none" /\ class[t] # "orphan"
        BY DEF RequestDetach
    <1>2. c.op = "detach" /\ c.thread = t /\ c.by = k
        BY DEF Detach
    <1>3. c \in Commands
        BY DEF Commands, Detaches, Detach, Clients
    <1> HIDE DEF c
    <1>4. Stays(t) => file[t].kind \in Kinds
      <2>1. class[t] \in {"none", "primary", "orphan", "subagent"}
        BY DEF DriverInv, DriverType, ThreadsType
      <2>2. QED
        BY <1>1, <2>1, OwnedHasFile DEF Kinds
    <1>5. QED
        BY <1>1, <1>2, <1>3, <1>4, CallKeeps DEF IsLink, HasParent

\* A link that a thread with an owner reports.
LEMMA NewLink ==
    ASSUME DriverInv, NEW p, NEW c, NEW by \in Callers \cup {None}, <<p, c>> \in Links,
           owner[p] # "none"
    PROVE  LET a == Link(p, c, by)
           IN  /\ a \in Commands /\ a.op = "link" /\ a.by = by /\ a.thread = c
               /\ IsLink(a) /\ HasParent(a)
    <1> DEFINE a == Link(p, c, by)
    <1>1. p \in Threads /\ c \in Threads
        BY ProjectDriverAssumption
    <1>2. a.op = "link" /\ a.parent = p /\ a.thread = c /\ a.by = by
        BY DEF Link
    <1>3. a \in Commands
        BY <1>1 DEF Link, Commands, LinkCommands, Admissions
    <1> HIDE DEF a
    <1>4. HasParent(a)
        BY <1>1, <1>2, OwnedHasFile DEF HasParent
    <1>5. QED
        BY <1>1, <1>2, <1>3, <1>4 DEF IsLink, a

LEMMA RequestLinkKeeps ==
    ASSUME DriverInv, NEW k \in Callers, NEW p, NEW c, RequestLink(k, p, c)
    PROVE  DriverInv'
    <1> DEFINE a == Link(p, c, k)
    <1>1. Call(k, a) /\ <<p, c>> \in Links /\ owner[p] # "none"
        BY DEF RequestLink
    <1>2. a \in Commands /\ a.op = "link" /\ a.by = k /\ IsLink(a) /\ HasParent(a)
        BY <1>1, NewLink
    <1> HIDE DEF a
    <1>3. QED
        BY <1>1, <1>2, CallKeeps

LEMMA OwnerLinkKeeps ==
    ASSUME DriverInv, NEW p, NEW c, OwnerLink(p, c)
    PROVE  DriverInv'
    <1> DEFINE a == Link(p, c, None)
    <1>1. /\ rx' = Append(rx, a) /\ owed' = owed \cup {<<p, c>>}
          /\ <<p, c>> \in Links /\ owner[p] # "none"
          /\ UNCHANGED <<parked, admission, deferred, quiesced, closed, discovered, file, owner,
                         class, waiters, removed, teardown, snapshot, waiting>>
        BY DEF OwnerLink, harness, threads
    <1>2. /\ a \in Commands /\ a.op = "link" /\ a.by = None /\ a.thread = c
          /\ IsLink(a) /\ HasParent(a)
        BY <1>1, NewLink
    <1> HIDE DEF a
    <1>3. \A l \in owed' : l \in owed \/ OwnLink(a, l[2])
        BY <1>1, <1>2 DEF OwnLink
    <1>4. /\ ThreadsType' /\ AdmissionType' /\ DeferredType' /\ ChannelType' /\ ParkedType'
          /\ KindsAgree' /\ ParentsExist' /\ OwedIsKept' /\ CallerIsHeld'
        BY <1>1, <1>2, <1>3, SendKeeps
    <1>5. RestType'
        BY <1>1 DEF DriverInv, DriverType, RestType
    <1>6. rx \in Seq(Commands)
        BY DEF DriverInv, DriverType, ChannelType
    <1>7. /\ \A i \in DOMAIN rx : i \in DOMAIN rx' /\ rx'[i] = rx[i]
          /\ \A i \in DOMAIN rx' : rx'[i] = a \/ (i \in DOMAIN rx /\ rx'[i] = rx[i])
        BY <1>1, <1>2, <1>6, AppendFacts
    <1>8. a.by # Project
        BY <1>2, ProjectDriverAssumption
    <1>9. ProjectAsks'
        BY <1>1, <1>7, <1>8 DEF DriverInv, ProjectAsks
    <1>10. Releases'
      <2>1. teardown # "gone"
        BY <1>1, ProjectDriverAssumption DEF DriverInv, Releases, GoneProjectIsUnowned
      <2>2. QED
        BY <1>1, <1>7, <2>1 DEF DriverInv, Releases, GoneProjectIsUnowned
    <1>11. QED
        BY <1>4, <1>5, <1>9, <1>10 DEF DriverInv, DriverType

\* The deletion asks when none of its requests is outstanding.
LEMMA NoneOutstanding ==
    ASSUME DriverInv, Project \notin waiting
    PROVE  /\ \A i \in DOMAIN rx : rx[i].by # Project
           /\ \A t \in Threads : Project \notin waiters[t]
    BY DEF DriverInv, ProjectAsks

LEMMA DeletionSendsKeeps ==
    ASSUME DriverInv, NEW c \in Commands, c.by = Project, DeletionSends(c),
           snapshot' \subseteq Threads,
           teardown' \in {"none", "quiescing", "quiesced", "resuming", "stopped"},
           quiesced <=> teardown' \in {"quiesced", "resuming", "stopped", "gone"},
           teardown # "gone",
           teardown' = "stopped" <=> teardown = "stopped",
           \/ c.op = "quiesce" /\ teardown' = "quiescing"
           \/ c.op = "resume" /\ teardown' = "resuming"
           \/ c.op = "detach" /\ teardown' = "stopped",
           teardown = "stopped" => \A t \in snapshot : t \in snapshot' \/ c.thread = t
    PROVE  DriverInv'
    <1>1. /\ rx' = Append(rx, c) /\ waiting' = waiting \cup {Project} /\ Project \notin waiting
          /\ UNCHANGED <<parked, admission, deferred, quiesced, closed, discovered, file, owner,
                         class, waiters, removed, owed>>
        BY DEF DeletionSends, Send, Busy, harness, threads
    <1>2. IsLink(c) /\ HasParent(c) /\ c.op # "attach"
        BY DEF IsLink, HasParent
    <1>3. /\ ThreadsType' /\ AdmissionType' /\ DeferredType' /\ ChannelType' /\ ParkedType'
          /\ KindsAgree' /\ ParentsExist' /\ OwedIsKept' /\ CallerIsHeld'
        BY <1>1, <1>2, SendKeeps
    <1>4. RestType'
        BY <1>1 DEF DriverInv, DriverType, RestType, Clients
    <1>5. rx \in Seq(Commands)
        BY DEF DriverInv, DriverType, ChannelType
    <1>6. /\ \A i \in DOMAIN rx : i \in DOMAIN rx' /\ rx'[i] = rx[i]
          /\ \E n \in DOMAIN rx' : /\ n \notin DOMAIN rx /\ rx'[n] = c
                                   /\ \A i \in DOMAIN rx' : i \in DOMAIN rx \/ i = n
        BY <1>1, <1>5, AppendFacts
    <1>7. ProjectAsks'
        BY <1>1, <1>6, NoneOutstanding DEF DriverInv, ProjectAsks
    <1>8. Releases'
        BY <1>1, <1>6, NoneOutstanding DEF DriverInv, Releases, GoneProjectIsUnowned
    <1>9. QED
        BY <1>3, <1>4, <1>7, <1>8 DEF DriverInv, DriverType

LEMMA DeleteProjectKeeps ==
    ASSUME DriverInv, DeleteProject PROVE DriverInv'
    <1> DEFINE c == [op |-> "quiesce", by |-> Project]
    <1>1. c \in Commands /\ c.op = "quiesce" /\ c.by = Project
        BY DEF Commands, Controls
    <1>2. /\ DeletionSends(c) /\ teardown = "none" /\ teardown' = "quiescing" /\ UNCHANGED snapshot
        BY DEF DeleteProject
    <1>3. snapshot \subseteq Threads /\ ~quiesced
        BY <1>2 DEF DriverInv, DriverType, RestType, ProjectAsks
    <1> HIDE DEF c
    <1>4. QED
        BY <1>1, <1>2, <1>3, DeletionSendsKeeps

LEMMA ShutdownFailsKeeps ==
    ASSUME DriverInv, ShutdownFails PROVE DriverInv'
    <1> DEFINE c == [op |-> "resume", by |-> Project]
    <1>1. c \in Commands /\ c.op = "resume" /\ c.by = Project
        BY DEF Commands, Controls
    <1>2. /\ DeletionSends(c) /\ teardown = "quiesced" /\ teardown' = "resuming" /\ UNCHANGED snapshot
        BY DEF ShutdownFails
    <1>3. snapshot \subseteq Threads /\ quiesced
        BY <1>2 DEF DriverInv, DriverType, RestType, ProjectAsks
    <1> HIDE DEF c
    <1>4. QED
        BY <1>1, <1>2, <1>3, DeletionSendsKeeps

LEMMA ReleaseKeeps ==
    ASSUME DriverInv, NEW t \in Threads, Release(t) PROVE DriverInv'
    <1> DEFINE c == Detach(t, Project)
    <1>1. c \in Commands /\ c.op = "detach" /\ c.by = Project /\ c.thread = t
        BY DEF Commands, Detaches, Detach, Clients
    <1>2. /\ DeletionSends(c) /\ teardown = "stopped" /\ teardown' = "stopped"
          /\ snapshot' = snapshot \ {t}
        BY DEF Release
    <1>3. snapshot' \subseteq Threads /\ quiesced
        BY <1>2 DEF DriverInv, DriverType, RestType, ProjectAsks
    <1> HIDE DEF c
    <1>4. QED
        BY <1>1, <1>2, <1>3, DeletionSendsKeeps

-----------------------------------------------------------------------------
(* The files, the harness and the deletion keep the invariant *)

LEMMA FilesType == ASSUME DriverInv PROVE file \in [Threads -> Files]
    BY DEF DriverInv, DriverType, ThreadsType, Files

LEMMA AnnounceKeeps ==
    ASSUME DriverInv, NEW t \in Threads, Announce(t) PROVE DriverInv'
    <1>1. /\ discovered' = Append(discovered, t)
          /\ UNCHANGED <<rx, parked, admission, deferred, quiesced, closed, file, owner, class,
                         waiters, removed, teardown, snapshot, waiting, owed>>
        BY DEF Announce, driver, threads, bounds
    <1>2. DriverType'
        BY <1>1 DEF DriverInv, DriverType, ThreadsType, AdmissionType, DeferredType, ChannelType,
                    ParkedType, RestType
    <1>3. ProjectAsks' /\ Releases'
        BY <1>1 DEF DriverInv, ProjectAsks, Releases, GoneProjectIsUnowned
    <1>4. KindsAgree' /\ ParentsExist'
        BY <1>1 DEF DriverInv, KindsAgree, ParentsExist, HasParent, Stays
    <1>5. OwedIsKept' /\ CallerIsHeld'
        BY <1>1 DEF DriverInv, OwedIsKept, KeepsLink, Settled, CallerIsHeld
    <1>6. QED
        BY <1>2, <1>3, <1>4, <1>5 DEF DriverInv

\* Everything the driver holds is about the project's threads.
LEMMA HeldThreads ==
    ASSUME DriverInv
    PROVE  /\ \A i \in DOMAIN rx : rx[i].op \in {"attach", "detach"} => rx[i].thread \in Threads
           /\ \A i \in DOMAIN rx : rx[i].op = "link" => rx[i].parent \in Threads
           /\ \A i \in DOMAIN deferred : deferred[i].op = "link" => deferred[i].parent \in Threads
           /\ \A a \in parked : a.thread \in Threads
           /\ admission # NoAdmission => admission.work.thread \in Threads
           /\ admission # NoAdmission /\ admission.work.op = "link" => admission.work.parent \in Threads
    <1>1. \A i \in DOMAIN rx : rx[i].op \in {"attach", "detach"} => rx[i].thread \in Threads
      <2>1. SUFFICES ASSUME NEW i \in DOMAIN rx, rx[i].op \in {"attach", "detach"}
                     PROVE  rx[i].thread \in Threads
        OBVIOUS
      <2>2. rx[i] \in Commands
        BY DEF DriverInv, DriverType, ChannelType
      <2>3. QED
        BY <2>1, <2>2, CommandFacts DEF Attaches, Detaches
    <1>2. \A i \in DOMAIN rx : rx[i].op = "link" => rx[i].parent \in Threads
        BY DEF DriverInv, DriverType, ChannelType, IsLink
    <1>3. \A i \in DOMAIN deferred : deferred[i].op = "link" => deferred[i].parent \in Threads
        BY DEF DriverInv, DriverType, DeferredType, IsLink
    <1>4. \A a \in parked : a.thread \in Threads
        BY DEF DriverInv, DriverType, ParkedType, ParkedAttaches
    <1>5. /\ admission # NoAdmission => admission.work.thread \in Threads
          /\ admission # NoAdmission /\ admission.work.op = "link" => admission.work.parent \in Threads
        BY DEF DriverInv, DriverType, AdmissionType, IsLink, Admissions, Flights
    <1>6. QED
        BY <1>1, <1>2, <1>3, <1>4, <1>5

LEMMA RemoveKeeps ==
    ASSUME DriverInv, NEW t \in Threads, Remove(t) PROVE DriverInv'
    <1>1. /\ removed' = removed \cup {t} /\ owner[t] = "none" /\ teardown = "none"
          /\ file' = [file EXCEPT ![t] = Absent] /\ file[t].kind \in Kinds
          /\ UNCHANGED <<rx, parked, admission, deferred, quiesced, closed, discovered, owner,
                         class, waiters, teardown, snapshot, waiting, owed>>
        BY DEF Remove, driver, harness, Kinds
    <1>2. file \in [Threads -> Files] /\ file' \in [Threads -> Files]
        BY <1>1, FilesType DEF Files
    <1>3. \A s \in Threads : s # t => file'[s] = file[s]
        BY <1>1, <1>2
    <1>4. \A s : Stays(s)' => Stays(s) /\ s # t
        BY <1>1 DEF Stays
    <1>5. ThreadsType'
        BY <1>1, <1>2 DEF DriverInv, DriverType, ThreadsType, Files
    <1>6. AdmissionType' /\ DeferredType' /\ ChannelType' /\ ParkedType' /\ RestType'
        BY <1>1 DEF DriverInv, DriverType, AdmissionType, DeferredType, ChannelType,
                    ParkedType, RestType
    <1>8. ProjectAsks' /\ Releases'
        BY <1>1 DEF DriverInv, ProjectAsks, Releases, GoneProjectIsUnowned
    <1>9. /\ \A i \in DOMAIN rx : rx[i].op \in {"attach", "detach"} => rx[i].thread \in Threads
          /\ \A i \in DOMAIN rx : rx[i].op = "link" => rx[i].parent \in Threads
          /\ \A i \in DOMAIN deferred : deferred[i].op = "link" => deferred[i].parent \in Threads
          /\ \A a \in parked : a.thread \in Threads
          /\ admission # NoAdmission => admission.work.thread \in Threads
          /\ admission # NoAdmission /\ admission.work.op = "link" => admission.work.parent \in Threads
        BY HeldThreads
    <1>10. admission = NoAdmission => admission.step = "idle"
        BY DEF NoAdmission
    <1>11. KindsAgree'
      <2>1. admission.step = "writing" => file'[admission.work.thread].kind \in {"none", "orphan"}
        BY <1>1, <1>3, <1>9, <1>10 DEF DriverInv, KindsAgree, Kinds
      <2>2. QED
        BY <1>1, <1>3, <1>4, <1>9, <1>10, <2>1 DEF DriverInv, KindsAgree
    <1>12. ParentsExist'
        BY <1>1, <1>3, <1>4, <1>9 DEF DriverInv, ParentsExist, HasParent
    <1>13. OwedIsKept'
      <2>1. ASSUME NEW l \in owed' PROVE (KeepsLink(l[2]) \/ Settled(l[2]))'
        <3>1. l[2] \in Threads
          BY <1>1, ProjectDriverAssumption DEF DriverInv, DriverType, RestType
        <3>2. CASE KeepsLink(l[2])
          BY <1>1, <3>2 DEF KeepsLink
        <3>3. CASE Settled(l[2])
          BY <1>1, <1>3, <3>1, <3>3 DEF Settled
        <3>4. QED
          BY <1>1, <3>2, <3>3 DEF DriverInv, OwedIsKept
      <2>2. QED
        BY <2>1 DEF OwedIsKept
    <1>14. CallerIsHeld'
        BY <1>1 DEF DriverInv, CallerIsHeld
    <1>15. QED
        BY <1>5, <1>6, <1>8, <1>11, <1>12, <1>13, <1>14 DEF DriverInv, DriverType

LEMMA StopHarnessKeeps ==
    ASSUME DriverInv, StopHarness PROVE DriverInv'
    <1>1. /\ teardown = "quiesced" /\ teardown' = "stopped" /\ Project \notin waiting
          /\ snapshot' = {t \in Threads : owner[t] # "none"}
          /\ UNCHANGED <<rx, parked, admission, deferred, quiesced, closed, discovered, file,
                         owner, class, waiters, removed, waiting, owed>>
        BY DEF StopHarness, Busy, driver, harness, threads, bounds
    <1>2. DriverType'
        BY <1>1 DEF DriverInv, DriverType, ThreadsType, AdmissionType, DeferredType, ChannelType,
                    ParkedType, RestType
    <1>4. ProjectAsks' /\ Releases'
        BY <1>1, NoneOutstanding DEF DriverInv, ProjectAsks, Releases, GoneProjectIsUnowned
    <1>5. KindsAgree' /\ ParentsExist'
        BY <1>1 DEF DriverInv, KindsAgree, ParentsExist, HasParent, Stays
    <1>6. OwedIsKept' /\ CallerIsHeld'
        BY <1>1 DEF DriverInv, OwedIsKept, KeepsLink, Settled, CallerIsHeld
    <1>7. QED
        BY <1>2, <1>4, <1>5, <1>6 DEF DriverInv

LEMMA FilesGoneKeeps ==
    ASSUME DriverInv, FilesGone PROVE DriverInv'
    <1>1. /\ teardown = "stopped" /\ snapshot = {} /\ Project \notin waiting /\ teardown' = "gone"
          /\ file' = [t \in Threads |-> Absent] /\ owed' = {}
          /\ UNCHANGED <<rx, parked, admission, deferred, quiesced, closed, discovered,
                         owner, class, waiters, removed, waiting, snapshot>>
        BY DEF FilesGone, Busy, driver, harness, bounds
    <1>2. DriverType'
        BY <1>1 DEF DriverInv, DriverType, ThreadsType, AdmissionType, DeferredType, ChannelType,
                    ParkedType, RestType
    <1>4. ProjectAsks' /\ Releases'
        BY <1>1, NoneOutstanding DEF DriverInv, ProjectAsks, Releases, GoneProjectIsUnowned
    <1>5. KindsAgree' /\ ParentsExist'
      <2>1. admission.step = "writing" => file'[admission.work.thread].kind = "none"
        BY <1>1, HeldThreads DEF NoAdmission, Absent
      <2>2. QED
        BY <1>1, <2>1 DEF DriverInv, KindsAgree, ParentsExist, HasParent, Stays
    <1>6. OwedIsKept' /\ CallerIsHeld'
        BY <1>1 DEF DriverInv, OwedIsKept, CallerIsHeld
    <1>7. QED
        BY <1>2, <1>4, <1>5, <1>6 DEF DriverInv

LEMMA ExitKeeps ==
    ASSUME DriverInv, Exit PROVE DriverInv'
    <1>1. /\ teardown = "gone" /\ waiting = {} /\ closed' = TRUE /\ parked' = {} /\ deferred' = <<>>
          /\ UNCHANGED <<rx, admission, quiesced, discovered, file, owner, class, waiters, removed,
                         teardown, snapshot, waiting, owed>>
        BY DEF Exit, harness, threads, bounds
    <1>2. deferred' \in Seq(Admissions) /\ DOMAIN deferred' = {}
        BY <1>1
    <1>3. DriverType'
        BY <1>1, <1>2 DEF DriverInv, DriverType, ThreadsType, AdmissionType, DeferredType,
                          ChannelType, ParkedType, RestType
    <1>4. ProjectAsks' /\ Releases'
        BY <1>1 DEF DriverInv, ProjectAsks, Releases, GoneProjectIsUnowned
    <1>5. KindsAgree' /\ ParentsExist'
        BY <1>1, <1>2 DEF DriverInv, KindsAgree, ParentsExist, HasParent, Stays
    <1>6. OwedIsKept' /\ CallerIsHeld'
        BY <1>1, <1>2 DEF DriverInv, Releases, OwedIsKept, CallerIsHeld
    <1>7. QED
        BY <1>3, <1>4, <1>5, <1>6 DEF DriverInv

-----------------------------------------------------------------------------
(* The admission in flight keeps the invariant *)

LEMMA TakeDiscoveryKeeps ==
    ASSUME DriverInv, TakeDiscovery PROVE DriverInv'
    <1> DEFINE a == Discovery(Head(discovered))
    <1>1. /\ admission = NoAdmission /\ discovered # <<>>
          /\ admission' = Begin(a) /\ discovered' = Tail(discovered)
          /\ UNCHANGED <<rx, parked, deferred, quiesced, closed, file, owner, class, waiters,
                         removed, teardown, snapshot, waiting, owed>>
        BY DEF TakeDiscovery, threads, bounds
    <1>2. discovered \in Seq(Threads)
        BY DEF DriverInv, DriverType, RestType
    <1>3. Head(discovered) \in Threads /\ discovered' \in Seq(Threads)
        BY <1>1, <1>2, HeadTailProperties
    <1>4. a \in Admissions /\ a.op = "discovery" /\ a.by = None
        BY <1>3 DEF Discovery, Admissions
    <1> HIDE DEF a
    <1>5. admission'.work = a /\ admission'.step = "begun" /\ AdmissionType'
        BY <1>1, <1>4 DEF Begin, AdmissionType, IsLink, Flights, Decided, Files
    <1>6. DriverType'
        BY <1>1, <1>3, <1>5 DEF DriverInv, DriverType, ThreadsType, DeferredType, ChannelType,
                    ParkedType, RestType
    <1>7. ProjectAsks' /\ Releases'
        BY <1>1 DEF DriverInv, ProjectAsks, Releases, GoneProjectIsUnowned
    <1>8. KindsAgree'
        BY <1>1, <1>5 DEF DriverInv, KindsAgree, Stays
    <1>9. ParentsExist'
        BY <1>1, <1>4, <1>5 DEF DriverInv, ParentsExist, HasParent, Stays
    <1>10. OwedIsKept' /\ CallerIsHeld'
        BY <1>1, <1>5 DEF DriverInv, OwedIsKept, KeepsLink, Settled, CallerIsHeld
    <1>11. QED
        BY <1>6, <1>7, <1>8, <1>9, <1>10 DEF DriverInv

\* An admission that takes a step is one.
LEMMA InFlight ==
    ASSUME DriverInv, admission.step \in {"begun", "claimed"} \cup Decided
    PROVE  /\ admission # NoAdmission
           /\ admission \in Flights
           /\ IsLink(admission.work)
           /\ admission.work \in Admissions /\ admission.work.thread \in Threads
           /\ admission.step \in Decided => admission.file.kind # "none"
           /\ admission.file \in Files
    <1>1. admission # NoAdmission
        BY DEF NoAdmission, Decided
    <1>2. QED
        BY <1>1 DEF DriverInv, DriverType, AdmissionType, Admissions, Flights

LEMMA AdmitClaimKeeps ==
    ASSUME DriverInv, AdmitClaim PROVE DriverInv'
    <1>1. /\ admission.step = "begun" /\ admission' = [admission EXCEPT !.step = "claimed"]
          /\ UNCHANGED <<rx, parked, deferred, quiesced, closed, discovered, file, owner, class,
                         waiters, removed, teardown, snapshot, waiting, owed>>
        BY DEF AdmitClaim, threads, bounds
    <1>2. /\ admission # NoAdmission /\ IsLink(admission.work)
          /\ admission \in Flights
        BY <1>1, InFlight
    <1>3. /\ admission' \in Flights
          /\ admission'.work = admission.work /\ admission'.step = "claimed"
        BY <1>1, <1>2 DEF Flights
    <1>4. admission' # NoAdmission
        BY <1>3 DEF NoAdmission
    <1>5. AdmissionType'
        BY <1>2, <1>3 DEF AdmissionType, Decided
    <1>6. DriverType'
        BY <1>1, <1>5 DEF DriverInv, DriverType, ThreadsType, DeferredType, ChannelType,
                    ParkedType, RestType
    <1>7. ProjectAsks' /\ Releases'
        BY <1>1 DEF DriverInv, ProjectAsks, Releases, GoneProjectIsUnowned
    <1>8. KindsAgree'
        BY <1>1, <1>3 DEF DriverInv, KindsAgree, Stays
    <1>9. ParentsExist'
        BY <1>1, <1>2, <1>3 DEF DriverInv, ParentsExist, HasParent, Stays
    <1>10. OwedIsKept' /\ CallerIsHeld'
        BY <1>1, <1>2, <1>3, <1>4 DEF DriverInv, OwedIsKept, KeepsLink, Settled, CallerIsHeld
    <1>11. QED
        BY <1>6, <1>7, <1>8, <1>9, <1>10 DEF DriverInv

\* The read of the graph decides for an unclassified thread, or leaves its file alone.
LEMMA AdmitReadKeeps ==
    ASSUME DriverInv, AdmitRead PROVE DriverInv'
    <1> DEFINE a == admission.work
               t == a.thread
               r == Admitted(file, a)
               g == r.file
    <1>1. /\ admission.step = "claimed"
          /\ \/ g # file[t] /\ admission' = [work |-> a, file |-> g, step |-> "writing"]
             \/ g = file[t] /\ \E s \in {"recorded", "refused"} :
                    admission' = [work |-> a, file |-> g, step |-> s]
          /\ UNCHANGED <<rx, parked, deferred, quiesced, closed, discovered, file, owner, class,
                         waiters, removed, teardown, snapshot, waiting, owed>>
        BY DEF AdmitRead, harness, bounds, threads
    <1>2. admission # NoAdmission /\ IsLink(a) /\ a \in Admissions /\ t \in Threads
        BY <1>1, InFlight
    <1>3. file \in [Threads -> Files]
        BY FilesType
    <1>4. /\ g \in Files /\ g.kind # "none"
          /\ g = file[t] \/ file[t].kind \in {"none", "orphan"}
        BY <1>2, <1>3, AdmittedFacts
    <1> HIDE DEF g, r
    <1>5. /\ admission'.work = a /\ admission'.file = g /\ admission' \in Flights
          /\ \/ g # file[t] /\ admission'.step = "writing"
             \/ g = file[t] /\ admission'.step \in {"recorded", "refused"}
        BY <1>1, <1>2, <1>4 DEF Flights, Decided
    <1>6. admission' # NoAdmission
        BY <1>5 DEF NoAdmission
    <1>7. AdmissionType'
        BY <1>2, <1>4, <1>5 DEF AdmissionType
    <1>8. DriverType'
        BY <1>1, <1>7 DEF DriverInv, DriverType, ThreadsType, DeferredType, ChannelType,
                    ParkedType, RestType
    <1>9. ProjectAsks' /\ Releases'
        BY <1>1 DEF DriverInv, ProjectAsks, Releases, GoneProjectIsUnowned
    <1>10. KindsAgree'
        BY <1>1, <1>4, <1>5 DEF DriverInv, KindsAgree, Stays
    <1>11. ParentsExist'
        BY <1>1, <1>2, <1>5 DEF DriverInv, ParentsExist, HasParent, Stays
    <1>12. OwedIsKept' /\ CallerIsHeld'
        BY <1>1, <1>2, <1>5, <1>6 DEF DriverInv, OwedIsKept, KeepsLink, Settled, CallerIsHeld
    <1>13. QED
        BY <1>8, <1>9, <1>10, <1>11, <1>12 DEF DriverInv

\* A classified thread keeps its file, so what others know of its kind stays true; an
\* orphan's owner learns what the orphan becomes.
LEMMA AdmitWriteKeeps ==
    ASSUME DriverInv, AdmitWrite PROVE DriverInv'
    <1> DEFINE a == admission.work
               t == a.thread
               g == admission.file
    <1>1. /\ admission.step = "writing"
          /\ file' = [file EXCEPT ![t] = g]
          /\ class' = [class EXCEPT ![t] = Reclassified(g, t)]
          /\ admission' = [admission EXCEPT !.step = "recorded"]
          /\ UNCHANGED <<rx, parked, deferred, quiesced, closed, discovered, owner, waiters,
                         removed, teardown, snapshot, waiting, owed>>
        BY DEF AdmitWrite, harness, bounds
    <1>2. /\ admission # NoAdmission /\ IsLink(a) /\ a \in Admissions /\ t \in Threads
          /\ admission \in Flights
        BY <1>1, InFlight DEF Decided
    <1>3. file \in [Threads -> Files]
        BY FilesType
    <1>4. g \in Files /\ g.kind # "none" /\ file[t].kind \in {"none", "orphan"}
        BY <1>1, InFlight DEF Decided, DriverInv, KindsAgree
    <1>5. file' \in [Threads -> Files]
        BY <1>1, <1>2, <1>3, <1>4
    <1> HIDE DEF g, t
    <1>6. /\ file'[t] = g /\ \A s \in Threads : s # t => file'[s] = file[s]
        BY <1>1, <1>2, <1>3
    <1>7. g.kind \in {"primary", "orphan", "subagent"} /\ g # Absent
        BY <1>4, FileFacts
    <1>8. \A s \in Threads : file[s].kind \in Kinds => file'[s] = file[s]
        BY <1>2, <1>4, <1>6 DEF Kinds
    <1>9. \A s \in Threads : file[s] # Absent => file'[s] # Absent
        BY <1>6, <1>7
    <1>10. /\ class \in [Threads -> {"none", "primary", "orphan", "subagent"}]
           /\ \A s \in Threads : owner[s] # "none" => class[s] # "none"
        BY DEF DriverInv, DriverType, ThreadsType
    <1>11. /\ class' \in [Threads -> {"none", "primary", "orphan", "subagent"}]
           /\ \A s \in Threads : s # t => class'[s] = class[s]
           /\ owner[t] # "none" => class'[t] = IF class[t] = "orphan" THEN g.kind ELSE class[t]
        BY <1>1, <1>2, <1>7, <1>10 DEF Reclassified
    <1>12. ThreadsType'
      <2>1. \A s \in Threads : owner'[s] # "none" => class'[s] # "none"
        BY <1>1, <1>7, <1>10, <1>11
      <2>2. QED
        BY <1>1, <1>5, <1>11, <2>1 DEF DriverInv, DriverType, ThreadsType, Files
    <1>13. /\ admission'.work = a /\ admission'.file = g /\ admission' # NoAdmission
           /\ admission'.step = "recorded"
           /\ AdmissionType'
      <2>1. /\ admission'.work = a /\ admission'.file = g /\ admission'.step = "recorded"
            /\ admission' \in Flights
        BY <1>1, <1>2 DEF Flights, Decided, g
      <2>2. admission' # NoAdmission
        BY <2>1 DEF NoAdmission
      <2>3. QED
        BY <1>2, <1>4, <2>1, <2>2 DEF AdmissionType
    <1>14. DriverType'
        BY <1>1, <1>12, <1>13 DEF DriverInv, DriverType, DeferredType, ChannelType,
                    ParkedType, RestType
    <1>15. ProjectAsks' /\ Releases'
        BY <1>1 DEF DriverInv, ProjectAsks, Releases, GoneProjectIsUnowned
    <1>16. \A s : Stays(s)' <=> Stays(s)
        BY <1>1 DEF Stays
    <1>17. KindsAgree'
      <2>1. ASSUME NEW s \in Threads, Stays(s), owner[s] # "none" PROVE class'[s] = file'[s].kind
        <3>1. class[s] = file[s].kind /\ class[s] # "none"
          BY <1>10, <2>1 DEF DriverInv, KindsAgree
        <3>2. QED
          BY <1>2, <1>4, <1>6, <1>11, <2>1, <3>1
      <2>2. ASSUME NEW i \in DOMAIN rx, rx[i].op = "attach", Stays(rx[i].thread)
            PROVE  rx[i].class = file'[rx[i].thread].kind
        <3>1. rx[i] \in Attaches
          BY <2>2, CommandFacts DEF DriverInv, DriverType, ChannelType
        <3>2. rx[i].thread \in Threads /\ rx[i].class \in Kinds
          BY <3>1 DEF Attaches
        <3>3. rx[i].class = file[rx[i].thread].kind
          BY <2>2 DEF DriverInv, KindsAgree
        <3>4. QED
          BY <1>8, <3>2, <3>3
      <2>3. ASSUME NEW b \in parked, Stays(b.thread)
            PROVE  b.class = file'[b.thread].kind /\ b.class \in Kinds
        BY <1>8, <2>3, HeldThreads DEF DriverInv, KindsAgree
      <2>4. ASSUME NEW i \in DOMAIN rx, rx[i].op = "detach", rx[i].by # Project, Stays(rx[i].thread)
            PROVE  file'[rx[i].thread].kind \in Kinds
        BY <1>8, <2>4, HeldThreads DEF DriverInv, KindsAgree
      <2>5. ASSUME NEW s \in Threads, owner[s] = "detaching", Stays(s), teardown # "stopped"
            PROVE  file'[s].kind \in Kinds
        BY <1>8, <2>5 DEF DriverInv, KindsAgree
      <2>6. admission'.file.kind = file'[admission'.work.thread].kind
        BY <1>6, <1>13 DEF t
      <2>7. QED
        BY <1>1, <1>13, <1>16, <2>1, <2>2, <2>3, <2>4, <2>5, <2>6 DEF KindsAgree
    <1>18. ParentsExist'
        BY <1>1, <1>2, <1>9, <1>13, <1>16, HeldThreads DEF DriverInv, ParentsExist, HasParent
    <1>19. OwedIsKept'
      <2>1. ASSUME NEW l \in owed PROVE (KeepsLink(l[2]) \/ Settled(l[2]))'
        <3>1. l[2] \in Threads
          BY ProjectDriverAssumption DEF DriverInv, DriverType, RestType
        <3>2. CASE KeepsLink(l[2])
          BY <1>1, <1>13, <3>2 DEF KeepsLink
        <3>3. CASE Settled(l[2])
          BY <1>1, <1>8, <3>1, <3>3 DEF Settled
        <3>4. QED
          BY <3>2, <3>3 DEF DriverInv, OwedIsKept
      <2>2. QED
        BY <1>1, <2>1 DEF OwedIsKept
    <1>20. CallerIsHeld'
        BY <1>1, <1>2, <1>13 DEF DriverInv, CallerIsHeld
    <1>21. QED
        BY <1>14, <1>15, <1>17, <1>18, <1>19, <1>20 DEF DriverInv

\* The driver goes on with the deferred admissions: what it drops names a deleted parent,
\* so an owed link stays held as long as the step gave up none in the channel or in flight.
LEMMA WakeKeeps ==
    ASSUME DriverInv, NEW own, NEW adm, NEW quiet, adm \in {admission, NoAdmission},
           Wake(own, file, deferred, adm, quiet), UNCHANGED <<file, removed>>,
           teardown' = "gone" <=> teardown = "gone",
           \A i \in DOMAIN rx' : In(rx, rx'[i]),
           owed' \subseteq owed,
           \A l \in owed' : \A i \in DOMAIN rx :
                OwnLink(rx[i], l[2]) => \E j \in DOMAIN rx' : OwnLink(rx'[j], l[2]),
           \A l \in owed' : admission # NoAdmission /\ OwnLink(admission.work, l[2]) => adm = admission
    PROVE  /\ AdmissionType' /\ DeferredType' /\ ParentsExist' /\ OwedIsKept'
           /\ adm # NoAdmission => admission' = adm
           /\ admission'.step \in Decided => admission' = admission
    <1>1. Deferrable(deferred)
        BY DEF DriverInv, DriverType, DeferredType, Deferrable, OnePerThread
    <1> DEFINE s == start_deferred(own, file, deferred, adm, quiet)
    <1>2. admission' = s.admission /\ deferred' = s.deferred
        BY DEF Wake
    <1>3. /\ Deferrable(s.deferred)
          /\ \A i \in DOMAIN s.deferred : In(deferred, s.deferred[i])
          /\ \/ s.admission = adm
             \/ adm = NoAdmission /\ \E i \in DOMAIN deferred : s.admission = Begin(deferred[i])
          /\ \A i \in DOMAIN deferred : \/ In(s.deferred, deferred[i])
                                        \/ s.admission = Begin(deferred[i])
                                        \/ ~Keep(own, file, deferred[i])
        BY <1>1, StartFacts
    <1> HIDE DEF s
    <1>4. /\ Deferrable(deferred')
          /\ \A i \in DOMAIN deferred' : In(deferred, deferred'[i])
          /\ \/ admission' = adm
             \/ adm = NoAdmission /\ \E i \in DOMAIN deferred : admission' = Begin(deferred[i])
          /\ \A i \in DOMAIN deferred : \/ In(deferred', deferred[i])
                                        \/ admission' = Begin(deferred[i])
                                        \/ ~Keep(own, file, deferred[i])
        BY <1>2, <1>3
    <1>5. DeferredType'
        BY <1>4 DEF DeferredType, Deferrable, OnePerThread
    <1>6. ASSUME NEW x
          PROVE  Begin(x).work = x /\ Begin(x).step = "begun" /\ Begin(x) # NoAdmission
      <2>1. Begin(x).work = x /\ Begin(x).step = "begun"
        BY DEF Begin
      <2>2. NoAdmission.step = "idle"
        BY DEF NoAdmission
      <2>3. QED
        BY <2>1, <2>2
    <1>7. \A i \in DOMAIN deferred :
            deferred[i] \in Admissions /\ IsLink(deferred[i]) /\ deferred[i].by = None
        BY DEF DriverInv, DriverType, DeferredType
    <1>8. AdmissionType'
      <2>1. CASE admission' = adm
        BY <2>1 DEF DriverInv, DriverType, AdmissionType
      <2>2. CASE \E i \in DOMAIN deferred : admission' = Begin(deferred[i])
        <3>1. PICK i \in DOMAIN deferred : admission' = Begin(deferred[i])
          BY <2>2
        <3>2. admission' \in Flights
          BY <1>7, <3>1 DEF Begin, Flights, Files
        <3>3. admission'.work = deferred[i] /\ admission'.step = "begun"
          BY <1>6, <3>1
        <3>4. QED
          BY <1>7, <3>2, <3>3 DEF AdmissionType, Decided
      <2>3. QED
        BY <1>4, <2>1, <2>2
    <1>9. /\ adm # NoAdmission => admission' = adm
          /\ admission'.step \in Decided => admission' = admission
      <2>1. NoAdmission.step = "idle"
        BY DEF NoAdmission
      <2>2. QED
        BY <1>4, <1>6, <2>1 DEF Decided
    <1>10. \A x : HasParent(x)' <=> HasParent(x)
        BY DEF HasParent, Stays
    <1>11. ParentsExist'
      <2>1. \A i \in DOMAIN rx' : HasParent(rx[i])'
        BY <1>10 DEF DriverInv, ParentsExist, In, HasParent, Stays
      <2>2. \A i \in DOMAIN deferred' : HasParent(deferred[i])'
        BY <1>4 DEF DriverInv, ParentsExist, In, HasParent, Stays
      <2>3. admission' # NoAdmission => HasParent(admission.work)'
        BY <1>4, <1>6 DEF DriverInv, ParentsExist, HasParent, Stays
      <2>4. QED
        BY <2>1, <2>2, <2>3 DEF ParentsExist
    <1>12. OwedIsKept'
      <2>1. ASSUME NEW l \in owed' PROVE (KeepsLink(l[2]) \/ Settled(l[2]))'
        <3>1. Settled(l[2]) => Settled(l[2])'
          BY DEF Settled
        <3>2. CASE \E i \in DOMAIN rx : OwnLink(rx[i], l[2])
          BY <2>1, <3>2 DEF KeepsLink, OwnLink
        <3>3. CASE admission # NoAdmission /\ OwnLink(admission.work, l[2])
          <4>1. admission' = admission
            BY <1>9, <2>1, <3>3
          <4>2. QED
            BY <3>3, <4>1 DEF KeepsLink, OwnLink
        <3>4. CASE \E i \in DOMAIN deferred : OwnLink(deferred[i], l[2])
          <4>1. PICK i \in DOMAIN deferred : OwnLink(deferred[i], l[2])
            BY <3>4
          <4>2. CASE In(deferred', deferred[i])
            BY <4>1, <4>2 DEF In, KeepsLink, OwnLink
          <4>3. CASE admission' = Begin(deferred[i])
            BY <1>6, <4>1, <4>3 DEF KeepsLink, OwnLink
          <4>4. CASE ~Keep(own, file, deferred[i])
            <5> DEFINE p == deferred[i].parent
            <5>1. deferred[i].op = "link" /\ file[p] = Absent /\ deferred[i].thread = l[2]
              BY <4>1, <4>4 DEF Keep, OwnLink
            <5>2. teardown # "gone"
              BY <2>1 DEF DriverInv, Releases
            <5>3. p \in removed
              BY <5>1, <5>2 DEF DriverInv, ParentsExist, HasParent, Stays
            <5>4. <<p, l[2]>> \in Links
              BY <1>7, <5>1 DEF IsLink
            <5>5. QED
              BY <3>1, <5>3, <5>4 DEF Settled
          <4>5. QED
            BY <1>4, <4>2, <4>3, <4>4
        <3>5. QED
          BY <3>1, <3>2, <3>3, <3>4 DEF DriverInv, OwedIsKept, KeepsLink
      <2>2. QED
        BY <2>1 DEF OwedIsKept
    <1>13. QED
        BY <1>5, <1>8, <1>9, <1>11, <1>12

\* An admission put back into the queue is held there, with every link already held.
LEMMA QueueKeeps ==
    ASSUME DriverInv, NEW a \in Admissions, a.by = None, IsLink(a), HasParent(a),
           deferred' = queue_deferred(deferred, a), UNCHANGED <<file, removed, teardown>>
    PROVE  /\ DeferredType' /\ (\A i \in DOMAIN deferred : HasParent(deferred[i]))'
           /\ \A t : \/ OwnLink(a, t)
                     \/ \E i \in DOMAIN deferred : OwnLink(deferred[i], t)
                     => \E i \in DOMAIN deferred' : OwnLink(deferred'[i], t)
    <1>1. Deferrable(deferred)
        BY DEF DriverInv, DriverType, DeferredType, Deferrable, OnePerThread
    <1>2. /\ Deferrable(deferred')
          /\ \A i \in DOMAIN deferred' : deferred'[i] = a \/ In(deferred, deferred'[i])
          /\ \A i \in DOMAIN deferred : deferred[i].op = "link" =>
                \E j \in DOMAIN deferred' :
                    deferred'[j].op = "link" /\ deferred'[j].thread = deferred[i].thread
          /\ a.op = "link" => In(deferred', a)
        BY <1>1, QueueFacts
    <1>3. DeferredType'
        BY <1>2 DEF DeferredType, Deferrable, OnePerThread
    <1>4. (\A i \in DOMAIN deferred : HasParent(deferred[i]))'
        BY <1>2 DEF DriverInv, ParentsExist, In, HasParent, Stays
    <1>5. \A t : OwnLink(a, t) => \E i \in DOMAIN deferred' : OwnLink(deferred'[i], t)
        BY <1>2 DEF In, OwnLink
    <1>6. \A t : (\E i \in DOMAIN deferred : OwnLink(deferred[i], t))
                    => \E i \in DOMAIN deferred' : OwnLink(deferred'[i], t)
        BY <1>2 DEF OwnLink, Deferrable
    <1>7. QED
        BY <1>3, <1>4, <1>5, <1>6

LEMMA FailedKeeps ==
    ASSUME DriverInv, admission # NoAdmission, AdmissionFailed,
           UNCHANGED <<rx, file, removed, teardown>>
    PROVE  /\ AdmissionType' /\ DeferredType' /\ ParentsExist' /\ OwedIsKept'
           /\ admission' = NoAdmission /\ waiting' = waiting \ {admission.work.by} /\ UNCHANGED owed
    <1> DEFINE a == admission.work
    <1>1. /\ admission' = NoAdmission /\ waiting' = waiting \ {a.by} /\ UNCHANGED owed
          /\ deferred' = IF a.by = None THEN queue_deferred(deferred, a) ELSE deferred
        BY DEF AdmissionFailed, Answer
    <1>2. a \in Admissions /\ IsLink(a) /\ HasParent(a)
        BY DEF DriverInv, DriverType, AdmissionType, ParentsExist, Flights
    <1>3. /\ DeferredType' /\ (\A i \in DOMAIN deferred : HasParent(deferred[i]))'
          /\ \A t : \/ OwnLink(a, t)
                    \/ \E i \in DOMAIN deferred : OwnLink(deferred[i], t)
                    => \E i \in DOMAIN deferred' : OwnLink(deferred'[i], t)
      <2>1. CASE a.by = None
        BY <1>1, <1>2, <2>1, QueueKeeps
      <2>2. CASE a.by # None
        <3>1. UNCHANGED deferred
          BY <1>1, <2>2
        <3>2. DeferredType'
          BY <3>1 DEF DriverInv, DriverType, DeferredType
        <3>3. (\A i \in DOMAIN deferred : HasParent(deferred[i]))'
          BY <3>1 DEF DriverInv, ParentsExist, HasParent, Stays
        <3>4. \A t : ~OwnLink(a, t)
          BY <2>2 DEF OwnLink
        <3>5. QED
          BY <3>1, <3>2, <3>3, <3>4
      <2>3. QED
        BY <2>1, <2>2
    <1>4. AdmissionType'
        BY <1>1 DEF AdmissionType
    <1>5. ParentsExist'
      <2>1. \A i \in DOMAIN rx' : HasParent(rx[i])'
        BY DEF DriverInv, ParentsExist, HasParent, Stays
      <2>2. QED
        BY <1>1, <1>3, <2>1 DEF ParentsExist
    <1>6. OwedIsKept'
      <2>1. ASSUME NEW l \in owed PROVE (KeepsLink(l[2]) \/ Settled(l[2]))'
        <3>1. CASE Settled(l[2])
          BY <3>1 DEF Settled
        <3>2. CASE \E i \in DOMAIN rx : OwnLink(rx[i], l[2])
          BY <3>2 DEF KeepsLink, OwnLink
        <3>3. CASE OwnLink(a, l[2]) \/ \E i \in DOMAIN deferred : OwnLink(deferred[i], l[2])
          BY <1>3, <3>3 DEF KeepsLink, OwnLink
        <3>4. QED
          BY <3>1, <3>2, <3>3 DEF DriverInv, OwedIsKept, KeepsLink
      <2>2. QED
        BY <1>1, <2>1 DEF OwedIsKept
    <1>7. QED
        BY <1>1, <1>3, <1>4, <1>5, <1>6

LEMMA AdmitFaultKeeps ==
    ASSUME DriverInv, AdmitFault \/ AdmitRefused PROVE DriverInv'
    <1>1. /\ admission.step \in {"begun", "claimed"} \cup Decided /\ AdmissionFailed
          /\ UNCHANGED <<rx, parked, quiesced, closed, discovered, file, owner, class, waiters,
                         removed, teardown, snapshot>>
        BY DEF AdmitFault, AdmitRefused, harness, threads, bounds, Decided
    <1>2. admission # NoAdmission /\ admission.work \in Admissions
        BY <1>1, InFlight
    <1>3. /\ AdmissionType' /\ DeferredType' /\ ParentsExist' /\ OwedIsKept'
          /\ admission' = NoAdmission /\ waiting' = waiting \ {admission.work.by} /\ UNCHANGED owed
        BY <1>1, <1>2, FailedKeeps
    <1>4. admission.work.by # Project
        BY <1>2, ProjectDriverAssumption DEF Admissions
    <1>5. DriverType'
        BY <1>1, <1>3 DEF DriverInv, DriverType, ThreadsType, ChannelType, ParkedType, RestType
    <1>7. ProjectAsks' /\ Releases'
        BY <1>1, <1>3, <1>4 DEF DriverInv, ProjectAsks, Releases, GoneProjectIsUnowned
    <1>8. KindsAgree'
      <2>1. admission'.step = "idle"
        BY <1>3 DEF NoAdmission
      <2>2. QED
        BY <1>1, <2>1 DEF DriverInv, KindsAgree, Stays
    <1>9. CallerIsHeld'
        BY <1>1, <1>3 DEF DriverInv, CallerIsHeld
    <1>10. QED
        BY <1>3, <1>5, <1>7, <1>8, <1>9 DEF DriverInv

-----------------------------------------------------------------------------
(* The owners *)

\* What an attach comes to.
LEMMA AttachFacts ==
    ASSUME DriverInv, NEW t \in Threads, NEW k
    PROVE  LET r == AttachResult(owner, class, t, k)
           IN  /\ r \in {"refused", "parked", "reused", "installed"}
               /\ r = "parked" => ~quiesced /\ owner[t] = "detaching"
               /\ r = "installed" => ~quiesced /\ owner[t] = "none"
    <1>1. owner[t] \in {"none", "live", "detaching", "failed"} /\ quiesced \in BOOLEAN
        BY DEF DriverInv, DriverType, ThreadsType, RestType
    <1>2. CASE quiesced
        BY <1>2 DEF AttachResult
    <1>3. CASE ~quiesced /\ owner[t] = "detaching"
        BY <1>3 DEF AttachResult
    <1>4. CASE ~quiesced /\ owner[t] = "live"
        BY <1>4 DEF AttachResult
    <1>5. CASE ~quiesced /\ owner[t] = "failed"
        BY <1>5 DEF AttachResult
    <1>6. CASE ~quiesced /\ owner[t] = "none"
        BY <1>6 DEF AttachResult
    <1>7. QED
        BY <1>1, <1>2, <1>3, <1>4, <1>5, <1>6

\* A quiesced driver installs nothing; another installs an owner of the kind the file
\* records, or parks the attach of a classified thread behind its detach.
LEMMA InstallKeeps ==
    ASSUME DriverInv, NEW t \in Threads, NEW k \in Kinds \cup {"orphan"}, NEW r,
           NEW a \in ParkedAttaches, a.thread = t, a.class = k,
           Stays(t) => k = file[t].kind,
           r = "parked" => ~quiesced /\ owner[t] = "detaching",
           r = "installed" => ~quiesced /\ owner[t] = "none",
           owner' = Installed(owner, t, r), class' = Classed(class, t, k, r),
           parked' = IF r = "parked" THEN parked \cup {a} ELSE parked,
           UNCHANGED <<file, waiters, removed, teardown>>
    PROVE  /\ ThreadsType' /\ ParkedType'
           /\ quiesced => UNCHANGED owner
           /\ \A s \in Threads : owner'[s] = "detaching" <=> owner[s] = "detaching"
           /\ \A s \in Threads : Stays(s) /\ owner'[s] # "none" => class'[s] = file[s].kind
           /\ \A b \in parked' : Stays(b.thread) => b.class = file[b.thread].kind /\ b.class \in Kinds
    <1>1. ThreadsType /\ ParkedType /\ KindsAgree
        BY DEF DriverInv, DriverType
    <1>2. owner \in [Threads -> {"none", "live", "detaching", "failed"}]
        BY <1>1 DEF ThreadsType
    <1>3. /\ owner' \in [Threads -> {"none", "live", "detaching", "failed"}]
          /\ \A s \in Threads :
                \/ owner'[s] = owner[s]
                \/ s = t /\ owner'[s] = "live" /\ owner[s] = "none" /\ r = "installed"
        BY <1>2 DEF Installed
    <1>4. class \in [Threads -> {"none", "primary", "orphan", "subagent"}]
        BY <1>1 DEF ThreadsType
    <1>5. /\ class' \in [Threads -> {"none", "primary", "orphan", "subagent"}]
          /\ \A s \in Threads : IF s = t /\ r = "installed" THEN class'[s] = k ELSE class'[s] = class[s]
        BY <1>4 DEF Classed, Kinds
    <1>6. \A s \in Threads : owner'[s] = "detaching" <=> owner[s] = "detaching"
        BY <1>3
    <1>7. quiesced => UNCHANGED owner
        BY DEF Installed
    <1>8. k # "none"
        BY DEF Kinds
    <1>9. ThreadsType'
      <2>1. \A s \in Threads : owner'[s] # "none" => class'[s] # "none"
        BY <1>1, <1>3, <1>5, <1>8 DEF ThreadsType
      <2>2. QED
        BY <1>1, <1>3, <1>5, <1>6, <2>1 DEF ThreadsType
    <1>10. parked' \subseteq ParkedAttaches /\ \A b \in parked' : b \in parked \/ (b = a /\ r = "parked")
        BY <1>1 DEF ParkedType
    <1>11. ParkedType'
      <2>1. \A b \in parked' : b.thread \in Threads /\ owner[b.thread] = "detaching"
        BY <1>1, <1>10 DEF ParkedType, ParkedAttaches
      <2>2. QED
        BY <1>6, <1>10, <2>1 DEF ParkedType
    <1>12. \A s \in Threads : Stays(s) /\ owner'[s] # "none" => class'[s] = file[s].kind
        BY <1>1, <1>3, <1>5 DEF KindsAgree
    <1>13. ASSUME NEW b \in parked', Stays(b.thread)
           PROVE  b.class = file[b.thread].kind /\ b.class \in Kinds
      <2>1. CASE b \in parked
        BY <1>1, <1>13, <2>1 DEF KindsAgree
      <2>2. CASE b = a /\ r = "parked"
        <3>1. teardown # "stopped"
          BY <2>2 DEF DriverInv, ProjectAsks
        <3>2. file[t].kind \in Kinds
          BY <1>1, <1>13, <2>2, <3>1 DEF KindsAgree
        <3>3. QED
          BY <1>13, <2>2, <3>2
      <2>3. QED
        BY <1>10, <2>1, <2>2
    <1>14. QED
        BY <1>6, <1>7, <1>9, <1>11, <1>12, <1>13

\* The kinds agree after a step that neither writes files nor sends commands, if they do
\* for the owners and the parked attaches.
LEMMA KindsKeep ==
    ASSUME DriverInv, \A i \in DOMAIN rx' : In(rx, rx'[i]), UNCHANGED <<file, removed>>,
           teardown' = "gone" <=> teardown = "gone",
           admission'.step \in Decided => admission' = admission,
           \A s \in Threads : Stays(s) /\ owner'[s] # "none" => class'[s] = file[s].kind,
           \A b \in parked' : Stays(b.thread) => b.class = file[b.thread].kind /\ b.class \in Kinds,
           \A s \in Threads : owner'[s] = "detaching" /\ Stays(s) /\ teardown' # "stopped" =>
                file[s].kind \in Kinds
    PROVE  KindsAgree'
    <1>1. \A s : Stays(s)' <=> Stays(s)
        BY DEF Stays
    <1>2. KindsAgree
        BY DEF DriverInv
    <1>3. ASSUME NEW i \in DOMAIN rx'
          PROVE  /\ rx'[i].op = "attach" /\ Stays(rx'[i].thread) =>
                        rx'[i].class = file[rx'[i].thread].kind
                 /\ rx'[i].op = "detach" /\ rx'[i].by # Project /\ Stays(rx'[i].thread) =>
                        file[rx'[i].thread].kind \in Kinds
      <2>1. PICK j \in DOMAIN rx : rx[j] = rx'[i]
        BY DEF In
      <2>2. QED
        BY <1>2, <2>1 DEF KindsAgree
    <1>4. /\ admission'.step \in {"recorded", "refused"} /\ Stays(admission'.work.thread) =>
                admission'.file.kind = file[admission'.work.thread].kind
          /\ admission'.step = "writing" => file[admission'.work.thread].kind \in {"none", "orphan"}
        BY <1>2 DEF KindsAgree, Decided
    <1>5. QED
        BY <1>1, <1>3, <1>4 DEF KindsAgree

LEMMA AdmitFinishKeeps ==
    ASSUME DriverInv, AdmitFinish PROVE DriverInv'
    <1> DEFINE a == admission.work
               t == a.thread
               k == admission.file.kind
               r == IF admission.step = "refused" THEN "nothing"
                    ELSE AttachResult(owner, class, t, k)
               b == Attach(t, k, None)
    <1>1. /\ admission.step \in {"recorded", "refused"}
          /\ owner' = Installed(owner, t, r) /\ class' = Classed(class, t, k, r)
          /\ parked' = IF r = "parked" THEN parked \cup {b} ELSE parked
          /\ \/ AdmissionFailed
             \/ /\ waiting' = waiting \ {a.by}
                /\ owed' = IF a.op = "link" THEN {l \in owed : l[2] # t} ELSE owed
                /\ Wake(owner', file, deferred, NoAdmission, quiesced)
          /\ UNCHANGED <<rx, quiesced, closed, discovered, file, waiters, removed, teardown, snapshot>>
        BY DEF AdmitFinish, Answer, harness, bounds
    <1>2. /\ admission # NoAdmission /\ a \in Admissions /\ t \in Threads
          /\ k \in Kinds \cup {"orphan"}
      <2>1. k \in {"none", "primary", "orphan", "subagent"} /\ k # "none"
        BY <1>1, InFlight, FileFacts DEF Decided
      <2>2. QED
        BY <1>1, <2>1, InFlight DEF Kinds, Decided
    <1>3. /\ r = "parked" => ~quiesced /\ owner[t] = "detaching"
          /\ r = "installed" => ~quiesced /\ owner[t] = "none"
        BY <1>2, AttachFacts
    <1>4. Stays(t) => k = file[t].kind
        BY <1>1 DEF DriverInv, KindsAgree
    <1>5. b \in ParkedAttaches /\ b.thread = t /\ b.class = k
        BY <1>2 DEF Attach, ParkedAttaches
    <1> HIDE DEF r, b, k, t
    <1>6. /\ ThreadsType' /\ ParkedType'
          /\ quiesced => UNCHANGED owner
          /\ \A s \in Threads : owner'[s] = "detaching" <=> owner[s] = "detaching"
          /\ \A s \in Threads : Stays(s) /\ owner'[s] # "none" => class'[s] = file[s].kind
          /\ \A c \in parked' : Stays(c.thread) => c.class = file[c.thread].kind /\ c.class \in Kinds
        BY <1>1, <1>2, <1>3, <1>4, <1>5, InstallKeeps
    <1>7. /\ AdmissionType' /\ DeferredType' /\ ParentsExist' /\ OwedIsKept'
          /\ admission'.step \in Decided => admission' = admission
          /\ waiting' = waiting \ {a.by} /\ owed' \subseteq owed
      <2>1. CASE AdmissionFailed
        <3>1. /\ AdmissionType' /\ DeferredType' /\ ParentsExist' /\ OwedIsKept'
              /\ admission' = NoAdmission /\ waiting' = waiting \ {a.by} /\ UNCHANGED owed
          BY <1>1, <1>2, <2>1, FailedKeeps
        <3>2. QED
          BY <3>1 DEF NoAdmission, Decided
      <2>2. CASE /\ waiting' = waiting \ {a.by}
                 /\ owed' = IF a.op = "link" THEN {l \in owed : l[2] # t} ELSE owed
                 /\ Wake(owner', file, deferred, NoAdmission, quiesced)
        <3>1. owed' \subseteq owed
          BY <2>2
        <3>2. \A l \in owed' : ~OwnLink(a, l[2])
          BY <2>2 DEF OwnLink, t
        <3>3. \A i \in DOMAIN rx' : In(rx, rx'[i])
          BY <1>1 DEF In
        <3>4. \A l \in owed' : \A i \in DOMAIN rx :
                OwnLink(rx[i], l[2]) => \E j \in DOMAIN rx' : OwnLink(rx'[j], l[2])
          BY <1>1
        <3>5. QED
          BY <1>1, <2>2, <3>1, <3>2, <3>3, <3>4, WakeKeeps
      <2>3. QED
        BY <1>1, <2>1, <2>2
    <1>8. a.by # Project
        BY <1>2, ProjectDriverAssumption DEF Admissions
    <1>9. DriverType'
        BY <1>1, <1>6, <1>7 DEF DriverInv, DriverType, ChannelType, RestType
    <1>11. ProjectAsks'
        BY <1>1, <1>7, <1>8 DEF DriverInv, ProjectAsks
    <1>12. Releases'
      <2>1. teardown \in {"stopped", "gone"} => UNCHANGED owner
        BY <1>6 DEF DriverInv, ProjectAsks
      <2>2. QED
        BY <1>1, <1>7, <2>1 DEF DriverInv, Releases, GoneProjectIsUnowned
    <1>13. KindsAgree'
      <2>1. \A i \in DOMAIN rx' : In(rx, rx'[i])
        BY <1>1 DEF In
      <2>2. \A s \in Threads : owner'[s] = "detaching" /\ Stays(s) /\ teardown' # "stopped" =>
                file[s].kind \in Kinds
        BY <1>1, <1>6 DEF DriverInv, KindsAgree
      <2>3. QED
        BY <1>1, <1>6, <1>7, <2>1, <2>2, KindsKeep
    <1>14. CallerIsHeld'
      <2>1. parked \subseteq parked'
        BY <1>1
      <2>2. QED
        BY <1>1, <1>6, <1>7, <2>1 DEF DriverInv, CallerIsHeld
    <1>15. QED
        BY <1>7, <1>9, <1>11, <1>12, <1>13, <1>14 DEF DriverInv

LEMMA OwnerDetachedKeeps ==
    ASSUME DriverInv, NEW t \in Threads, OwnerDetached(t) PROVE DriverInv'
    <1> DEFINE again == {a \in parked : a.thread = t}
    <1>1. /\ owner[t] = "detaching" /\ parked' = parked \ again
          /\ waiters' = [waiters EXCEPT ![t] = {}]
          /\ waiting' = (waiting \ waiters[t]) \ {a.by : a \in again}
          /\ \/ /\ quiesced \/ again = {}
                /\ owner' = [owner EXCEPT ![t] = "none"] /\ class' = [class EXCEPT ![t] = "none"]
             \/ /\ ~quiesced
                /\ \E a \in again : /\ owner' = [owner EXCEPT ![t] = "live"]
                                    /\ class' = [class EXCEPT ![t] = a.class]
          /\ Wake(owner', file, deferred, admission, quiesced)
          /\ UNCHANGED <<rx, quiesced, closed, discovered, file, removed, teardown, snapshot, owed>>
        BY DEF OwnerDetached, AnsweredBy, harness, bounds
    <1>2. ThreadsType /\ ParkedType /\ KindsAgree /\ RestType
        BY DEF DriverInv, DriverType
    <1>3. \A i \in DOMAIN rx' : In(rx, rx'[i])
        BY <1>1 DEF In
    <1>4. \A l \in owed' : \A i \in DOMAIN rx :
            OwnLink(rx[i], l[2]) => \E j \in DOMAIN rx' : OwnLink(rx'[j], l[2])
        BY <1>1
    <1>5. /\ AdmissionType' /\ DeferredType' /\ ParentsExist' /\ OwedIsKept'
          /\ admission # NoAdmission => admission' = admission
          /\ admission'.step \in Decided => admission' = admission
        BY <1>1, <1>3, <1>4, WakeKeeps
    <1>6. /\ again \subseteq parked /\ again \subseteq ParkedAttaches
          /\ \A a \in again : a.thread = t /\ a.class \in {"primary", "orphan", "subagent"}
        BY <1>2 DEF ParkedType, ParkedAttaches, Kinds
    <1>7. \A a \in parked' : a \in parked /\ a.thread # t
        BY <1>1
    <1> HIDE DEF again
    <1>8. /\ owner' \in [Threads -> {"none", "live", "detaching", "failed"}]
          /\ class' \in [Threads -> {"none", "primary", "orphan", "subagent"}]
          /\ waiters' \in [Threads -> SUBSET Clients] /\ waiters'[t] = {}
          /\ \A s \in Threads : s # t => /\ owner'[s] = owner[s] /\ class'[s] = class[s]
                                         /\ waiters'[s] = waiters[s]
          /\ \/ owner'[t] = "none"
             \/ /\ ~quiesced /\ owner'[t] = "live"
                /\ \E a \in again : class'[t] = a.class
        BY <1>1, <1>2, <1>6 DEF ThreadsType
    <1>9. owner'[t] # "none" => class'[t] # "none" /\ ~quiesced
        BY <1>6, <1>8
    <1>10. ThreadsType'
        BY <1>1, <1>2, <1>8, <1>9 DEF ThreadsType
    <1>11. ParkedType'
        BY <1>1, <1>2, <1>7, <1>8 DEF ParkedType, ParkedAttaches
    <1>12. RestType'
        BY <1>1, <1>2 DEF RestType
    <1>14. Project \notin {a.by : a \in again}
        BY <1>6, ProjectDriverAssumption DEF ParkedAttaches
    <1>15. ProjectAsks'
      <2>1. ASSUME NEW i \in DOMAIN rx, rx[i].by = Project PROVE Project \in waiting'
        BY <1>1, <1>14, <2>1 DEF DriverInv, ProjectAsks
      <2>2. ASSUME NEW s \in Threads, Project \in waiters'[s]
            PROVE  s # t /\ Project \in waiters[s] /\ Project \in waiting'
        BY <1>1, <1>8, <1>14, <2>2 DEF DriverInv, ProjectAsks
      <2>3. QED
        BY <1>1, <2>1, <2>2 DEF DriverInv, ProjectAsks
    <1>16. Releases'
      <2>1. teardown \in {"stopped", "gone"} => quiesced
        BY DEF DriverInv, ProjectAsks
      <2>2. QED
        BY <1>1, <1>8, <1>9, <2>1 DEF DriverInv, Releases, GoneProjectIsUnowned
    <1>17. KindsAgree'
      <2>1. ASSUME NEW s \in Threads, Stays(s), owner'[s] # "none" PROVE class'[s] = file[s].kind
        <3>1. CASE s # t
          BY <1>2, <1>8, <2>1, <3>1 DEF KindsAgree
        <3>2. CASE s = t
          BY <1>2, <1>6, <1>8, <2>1, <3>2 DEF KindsAgree
        <3>3. QED
          BY <3>1, <3>2
      <2>2. \A c \in parked' : Stays(c.thread) => c.class = file[c.thread].kind /\ c.class \in Kinds
        BY <1>2, <1>7 DEF KindsAgree
      <2>3. \A s \in Threads : owner'[s] = "detaching" /\ Stays(s) /\ teardown' # "stopped" =>
                file[s].kind \in Kinds
        BY <1>1, <1>2, <1>8 DEF KindsAgree
      <2>4. QED
        BY <1>1, <1>3, <1>5, <2>1, <2>2, <2>3, KindsKeep
    <1>18. CallerIsHeld'
      <2>1. SUFFICES ASSUME NEW k \in waiting'
                     PROVE  \/ \E i \in DOMAIN rx' : rx'[i].by = k
                            \/ admission' # NoAdmission /\ admission'.work.by = k
                            \/ \E a \in parked' : a.by = k
                            \/ \E s \in Threads : owner'[s] = "detaching" /\ k \in waiters'[s]
        BY DEF CallerIsHeld
      <2>2. k \in waiting /\ k \notin waiters[t] /\ \A a \in again : a.by # k
        BY <1>1
      <2>3. CASE \E i \in DOMAIN rx : rx[i].by = k
        BY <1>1, <2>3
      <2>4. CASE admission # NoAdmission /\ admission.work.by = k
        BY <1>5, <2>4
      <2>5. CASE \E a \in parked : a.by = k
        BY <1>1, <2>2, <2>5
      <2>6. CASE \E s \in Threads : owner[s] = "detaching" /\ k \in waiters[s]
        BY <1>8, <2>2, <2>6
      <2>7. QED
        BY <2>2, <2>3, <2>4, <2>5, <2>6 DEF DriverInv, CallerIsHeld
    <1>19. QED
        BY <1>1, <1>5, <1>10, <1>11, <1>12, <1>15, <1>16, <1>17, <1>18
           DEF DriverInv, DriverType, ChannelType

LEMMA OwnerFailsKeeps ==
    ASSUME DriverInv, NEW t \in Threads, OwnerFails(t) PROVE DriverInv'
    <1>1. /\ owner[t] = "live"
          /\ \E phase \in {"none", "failed"} : owner' = [owner EXCEPT ![t] = phase]
          /\ class' = [class EXCEPT ![t] = IF owner'[t] = "none" THEN "none" ELSE @]
          /\ Wake(owner', file, deferred, admission, quiesced)
          /\ UNCHANGED <<rx, parked, quiesced, closed, discovered, file, waiters, removed,
                         teardown, snapshot, waiting, owed>>
        BY DEF OwnerFails, harness
    <1>2. ThreadsType /\ ParkedType /\ KindsAgree
        BY DEF DriverInv, DriverType
    <1>3. \A i \in DOMAIN rx' : In(rx, rx'[i])
        BY <1>1 DEF In
    <1>4. \A l \in owed' : \A i \in DOMAIN rx :
            OwnLink(rx[i], l[2]) => \E j \in DOMAIN rx' : OwnLink(rx'[j], l[2])
        BY <1>1
    <1>5. /\ AdmissionType' /\ DeferredType' /\ ParentsExist' /\ OwedIsKept'
          /\ admission # NoAdmission => admission' = admission
          /\ admission'.step \in Decided => admission' = admission
        BY <1>1, <1>3, <1>4, WakeKeeps
    <1>6. /\ owner' \in [Threads -> {"none", "live", "detaching", "failed"}]
          /\ owner'[t] \in {"none", "failed"}
          /\ \A s \in Threads : s # t => owner'[s] = owner[s]
        BY <1>1, <1>2 DEF ThreadsType
    <1>7. /\ class' \in [Threads -> {"none", "primary", "orphan", "subagent"}]
          /\ owner'[t] # "none" => class'[t] = class[t]
          /\ \A s \in Threads : s # t => class'[s] = class[s]
        BY <1>1, <1>2 DEF ThreadsType
    <1>8. \A s \in Threads : owner'[s] = "detaching" <=> owner[s] = "detaching"
        BY <1>1, <1>6
    <1>9. \A s \in Threads : owner'[s] # "none" => owner[s] # "none" /\ class'[s] = class[s]
        BY <1>1, <1>6, <1>7
    <1>10. ThreadsType'
        BY <1>1, <1>2, <1>6, <1>7, <1>8, <1>9 DEF ThreadsType
    <1>11. ParkedType'
        BY <1>1, <1>2, <1>8 DEF ParkedType, ParkedAttaches
    <1>12. DriverType'
        BY <1>1, <1>5, <1>10, <1>11 DEF DriverInv, DriverType, ChannelType, RestType
    <1>13. ProjectAsks'
        BY <1>1 DEF DriverInv, ProjectAsks
    <1>14. Releases'
        BY <1>1, <1>9 DEF DriverInv, Releases, GoneProjectIsUnowned
    <1>15. KindsAgree'
      <2>1. \A s \in Threads : Stays(s) /\ owner'[s] # "none" => class'[s] = file[s].kind
        BY <1>2, <1>9 DEF KindsAgree
      <2>2. \A c \in parked' : Stays(c.thread) => c.class = file[c.thread].kind /\ c.class \in Kinds
        BY <1>1, <1>2 DEF KindsAgree
      <2>3. \A s \in Threads : owner'[s] = "detaching" /\ Stays(s) /\ teardown' # "stopped" =>
                file[s].kind \in Kinds
        BY <1>1, <1>2, <1>8 DEF KindsAgree
      <2>4. QED
        BY <1>1, <1>3, <1>5, <2>1, <2>2, <2>3, KindsKeep
    <1>16. CallerIsHeld'
        BY <1>1, <1>5, <1>8 DEF DriverInv, CallerIsHeld
    <1>17. QED
        BY <1>5, <1>12, <1>13, <1>14, <1>15, <1>16 DEF DriverInv

-----------------------------------------------------------------------------
(* The driver's commands keep the invariant *)

\* What receiving the first command does to the channel, the others being what is left.
Rest(h) ==
    /\ ChannelType'
    /\ h \in Commands /\ IsLink(h) /\ HasParent(h)
    /\ \A i \in DOMAIN rx' : In(rx, rx'[i])
    /\ \A i \in DOMAIN rx : rx[i] = h \/ In(rx', rx[i])
    /\ h.by = Project => Project \in waiting /\ \A i \in DOMAIN rx' : rx'[i].by # Project
    /\ h.by = Project => \A t \in Threads : Project \notin waiters[t]
    /\ \A i, j \in DOMAIN rx' : rx'[i].by = Project /\ rx'[j].by = Project => i = j
    /\ h.op = "quiesce" => h.by = Project /\ teardown = "quiescing"
    /\ h.op = "resume" => h.by = Project /\ teardown = "resuming"
    /\ h.op = "detach" /\ h.by = Project => teardown = "stopped"
LEMMA Received ==
    ASSUME DriverInv, rx # <<>>, rx' = Tail(rx) PROVE Rest(Head(rx))
    <1> DEFINE h == Head(rx)
    <1>1. rx \in Seq(Commands) /\ \A i \in DOMAIN rx : IsLink(rx[i]) /\ HasParent(rx[i])
        BY DEF DriverInv, DriverType, ChannelType, ParentsExist
    <1>2. /\ rx' \in Seq(Commands)
          /\ 1 \in DOMAIN rx /\ h = rx[1] /\ h \in Commands
          /\ \A i \in DOMAIN rx' : i + 1 \in DOMAIN rx /\ i + 1 # 1 /\ rx'[i] = rx[i + 1]
          /\ \A i \in DOMAIN rx : i = 1 \/ (i - 1 \in DOMAIN rx' /\ rx'[i - 1] = rx[i])
          /\ \A i, j \in DOMAIN rx' : i + 1 = j + 1 => i = j
        BY <1>1, TailFacts
    <1> HIDE DEF h
    <1>3. \A i \in DOMAIN rx' : In(rx, rx'[i])
        BY <1>2 DEF In
    <1>4. \A i \in DOMAIN rx : rx[i] = h \/ In(rx', rx[i])
        BY <1>2 DEF In
    <1>5. ChannelType'
        BY <1>1, <1>2, <1>3 DEF ChannelType, In
    <1>6. h.by = Project =>
            /\ Project \in waiting
            /\ \/ h.op = "quiesce" /\ teardown = "quiescing"
               \/ h.op = "resume" /\ teardown = "resuming"
               \/ h.op = "detach" /\ teardown = "stopped"
            /\ \A j \in DOMAIN rx : rx[j].by = Project => j = 1
            /\ \A t \in Threads : Project \notin waiters[t]
        BY <1>2 DEF DriverInv, ProjectAsks
    <1>7. h.by = Project => \A i \in DOMAIN rx' : rx'[i].by # Project
        BY <1>2, <1>6
    <1>8. ASSUME NEW i \in DOMAIN rx', NEW j \in DOMAIN rx', rx'[i].by = Project, rx'[j].by = Project
          PROVE  i = j
      <2>1. i + 1 = j + 1
        BY <1>2, <1>8 DEF DriverInv, ProjectAsks
      <2>2. QED
        BY <1>2, <2>1
    <1>9. h.op \in {"quiesce", "resume"} => h.by = Project
        BY <1>2, CommandFacts
    <1>10. QED
        BY <1>1, <1>2, <1>3, <1>4, <1>5, <1>6, <1>7, <1>8, <1>9 DEF Rest, h

\* The deletion's requests after a command was answered.
LEMMA AsksAfterAnswer ==
    ASSUME DriverInv, NEW h, Rest(h), waiting' = waiting \ {h.by},
           UNCHANGED <<waiters, quiesced, teardown>>
    PROVE  ProjectAsks'
    <1>1. ASSUME NEW i \in DOMAIN rx', rx'[i].by = Project
          PROVE  /\ Project \in waiting'
                 /\ \/ rx'[i].op = "quiesce" /\ teardown = "quiescing"
                    \/ rx'[i].op = "resume" /\ teardown = "resuming"
                    \/ rx'[i].op = "detach" /\ teardown = "stopped"
                 /\ \A t \in Threads : Project \notin waiters[t]
      <2>1. PICK j \in DOMAIN rx : rx[j] = rx'[i]
        BY DEF Rest, In
      <2>2. h.by # Project
        BY <1>1 DEF Rest
      <2>3. QED
        BY <1>1, <2>1, <2>2 DEF DriverInv, ProjectAsks
    <1>2. ASSUME NEW t \in Threads, Project \in waiters[t] PROVE Project \in waiting'
        BY <1>2 DEF Rest, DriverInv, ProjectAsks
    <1>3. QED
        BY <1>1, <1>2 DEF Rest, DriverInv, ProjectAsks

\* The callers held after a command was answered.
LEMMA HeldAfterAnswer ==
    ASSUME DriverInv, NEW h, Rest(h), waiting' = waiting \ {h.by}, admission = NoAdmission,
           parked \subseteq parked', UNCHANGED waiters,
           \A t \in Threads : owner[t] = "detaching" => owner'[t] = "detaching"
    PROVE  CallerIsHeld'
    <1>1. SUFFICES ASSUME NEW k \in waiting'
                   PROVE  \/ \E i \in DOMAIN rx' : rx'[i].by = k
                          \/ \E a \in parked' : a.by = k
                          \/ \E t \in Threads : owner'[t] = "detaching" /\ k \in waiters'[t]
        BY DEF CallerIsHeld
    <1>2. k \in waiting /\ k # h.by
        BY <1>1
    <1>3. ASSUME NEW i \in DOMAIN rx, rx[i].by = k PROVE \E j \in DOMAIN rx' : rx'[j].by = k
        BY <1>2, <1>3 DEF Rest, In
    <1>4. QED
        BY <1>2, <1>3 DEF DriverInv, CallerIsHeld

\* A command that is not a link nobody waits for leaves every such link in the channel.
LEMMA LinksAfter ==
    ASSUME NEW h, Rest(h), h.op # "link" \/ h.by # None
    PROVE  \A x : \A i \in DOMAIN rx :
              OwnLink(rx[i], x) => \E j \in DOMAIN rx' : OwnLink(rx'[j], x)
    BY DEF Rest, In, OwnLink

LEMMA TakeAttachKeeps ==
    ASSUME DriverInv, admission = NoAdmission, TakeAttach, rx' = Tail(rx),
           UNCHANGED <<file, closed, discovered, removed>>
    PROVE  DriverInv'
    <1> DEFINE a == Head(rx)
               t == a.thread
               k == a.class
               r == AttachResult(owner, class, t, k)
    <1>1. /\ rx # <<>> /\ a.op = "attach"
          /\ owner' = Installed(owner, t, r) /\ class' = Classed(class, t, k, r)
          /\ parked' = IF r = "parked" THEN parked \cup {a} ELSE parked
          /\ IF r = "parked" THEN UNCHANGED waiting ELSE waiting' = waiting \ {a.by}
          /\ Wake(owner', file, deferred, NoAdmission, quiesced)
          /\ UNCHANGED <<waiters, quiesced, teardown, snapshot, owed>>
        BY DEF TakeAttach, Answer
    <1>2. Rest(a)
        BY <1>1, Received
    <1>3. a \in Attaches
        BY <1>1, <1>2, CommandFacts DEF Rest
    <1>4. /\ t \in Threads /\ k \in Kinds \cup {"orphan"} /\ a \in ParkedAttaches
          /\ a.by \in Callers /\ a.by # Project
        BY <1>3, ProjectDriverAssumption DEF Attaches, ParkedAttaches
    <1>5. /\ r = "parked" => ~quiesced /\ owner[t] = "detaching"
          /\ r = "installed" => ~quiesced /\ owner[t] = "none"
        BY <1>4, AttachFacts
    <1>6. Stays(t) => k = file[t].kind
      <2>1. 1 \in DOMAIN rx /\ a = rx[1]
        BY <1>1, TailFacts DEF DriverInv, DriverType, ChannelType
      <2>2. QED
        BY <1>1, <2>1 DEF DriverInv, KindsAgree
    <1> HIDE DEF r, a
    <1>7. /\ ThreadsType' /\ ParkedType'
          /\ quiesced => UNCHANGED owner
          /\ \A s \in Threads : owner'[s] = "detaching" <=> owner[s] = "detaching"
          /\ \A s \in Threads : Stays(s) /\ owner'[s] # "none" => class'[s] = file[s].kind
          /\ \A c \in parked' : Stays(c.thread) => c.class = file[c.thread].kind /\ c.class \in Kinds
        BY <1>1, <1>4, <1>5, <1>6, InstallKeeps
    <1>8. \A i \in DOMAIN rx' : In(rx, rx'[i])
        BY <1>2 DEF Rest
    <1>9. \A l \in owed' : \A i \in DOMAIN rx :
            OwnLink(rx[i], l[2]) => \E j \in DOMAIN rx' : OwnLink(rx'[j], l[2])
        BY <1>1, <1>2, LinksAfter
    <1>10. /\ AdmissionType' /\ DeferredType' /\ ParentsExist' /\ OwedIsKept'
           /\ admission'.step \in Decided => admission' = admission
        BY <1>1, <1>8, <1>9, WakeKeeps
    <1>11. waiting' \subseteq waiting
        BY <1>1
    <1>12. DriverType'
        BY <1>1, <1>2, <1>7, <1>10, <1>11 DEF DriverInv, DriverType, RestType, Rest
    <1>14. ProjectAsks'
      <2>1. \A i \in DOMAIN rx' : \E j \in DOMAIN rx : rx'[i] = rx[j]
        BY <1>8 DEF In
      <2>2. Project \in waiting => Project \in waiting'
        BY <1>1, <1>4
      <2>3. \A i, j \in DOMAIN rx' : rx'[i].by = Project /\ rx'[j].by = Project => i = j
        BY <1>2 DEF Rest
      <2>4. QED
        BY <1>1, <2>1, <2>2, <2>3 DEF DriverInv, ProjectAsks
    <1>15. Releases'
      <2>1. teardown \in {"stopped", "gone"} => UNCHANGED owner
        BY <1>7 DEF DriverInv, ProjectAsks
      <2>2. \A i \in DOMAIN rx : rx[i].by = Project => \E j \in DOMAIN rx' : rx'[j] = rx[i]
        BY <1>2, <1>4 DEF Rest, In
      <2>3. QED
        BY <1>1, <2>1, <2>2 DEF DriverInv, Releases, GoneProjectIsUnowned
    <1>16. KindsAgree'
      <2>1. \A s \in Threads : owner'[s] = "detaching" /\ Stays(s) /\ teardown' # "stopped" =>
                file[s].kind \in Kinds
        BY <1>1, <1>7 DEF DriverInv, KindsAgree
      <2>2. QED
        BY <1>1, <1>7, <1>8, <1>10, <2>1, KindsKeep
    <1>17. CallerIsHeld'
      <2>1. CASE r = "parked"
        <3>1. a \in parked' /\ waiting' = waiting /\ parked \subseteq parked'
          BY <1>1, <2>1
        <3>2. \A i \in DOMAIN rx : rx[i] = a \/ \E j \in DOMAIN rx' : rx'[j] = rx[i]
          BY <1>2 DEF Rest, In
        <3>3. QED
          BY <1>1, <1>7, <3>1, <3>2 DEF DriverInv, CallerIsHeld
      <2>2. CASE r # "parked"
        <3>1. waiting' = waiting \ {a.by} /\ parked' = parked
          BY <1>1, <2>2
        <3>2. QED
          BY <1>1, <1>2, <1>7, <3>1, HeldAfterAnswer
      <2>3. QED
        BY <2>1, <2>2
    <1>18. QED
        BY <1>10, <1>12, <1>14, <1>15, <1>16, <1>17 DEF DriverInv

LEMMA TakeDetachKeeps ==
    ASSUME DriverInv, admission = NoAdmission, TakeDetach, rx' = Tail(rx),
           UNCHANGED <<file, closed, discovered, removed>>
    PROVE  DriverInv'
    <1> DEFINE d == Head(rx)
               t == d.thread
    <1>1. /\ rx # <<>> /\ d.op = "detach"
          /\ UNCHANGED <<parked, quiesced, teardown, snapshot, owed>>
          /\ \/ /\ owner[t] \in {"live", "detaching"}
                /\ owner' = [owner EXCEPT ![t] = "detaching"]
                /\ waiters' = [waiters EXCEPT ![t] = @ \cup {d.by}]
                /\ UNCHANGED <<waiting, admission, deferred, class>>
             \/ /\ owner[t] \in {"none", "failed"}
                /\ owner' = [owner EXCEPT ![t] = "none"]
                /\ class' = [class EXCEPT ![t] = "none"]
                /\ waiting' = waiting \ {d.by}
                /\ Wake(owner', file, deferred, NoAdmission, quiesced)
                /\ UNCHANGED waiters
        BY DEF TakeDetach, Answer
    <1>2. Rest(d)
        BY <1>1, Received
    <1>3. t \in Threads /\ d.by \in Clients
        BY <1>1, <1>2, CommandFacts DEF Rest, Detaches
    <1>4. /\ d.by # Project /\ Stays(t) => file[t].kind \in Kinds
          /\ d.by = Project => teardown = "stopped"
      <2>1. 1 \in DOMAIN rx /\ d = rx[1]
        BY <1>1, TailFacts DEF DriverInv, DriverType, ChannelType
      <2>2. QED
        BY <1>1, <1>2, <2>1 DEF DriverInv, KindsAgree, Rest
    <1>5. ThreadsType /\ ParkedType /\ KindsAgree
        BY DEF DriverInv, DriverType
    <1> HIDE DEF d
    <1>6. \A i \in DOMAIN rx' : In(rx, rx'[i])
        BY <1>2 DEF Rest
    <1>7. \A l \in owed' : \A i \in DOMAIN rx :
            OwnLink(rx[i], l[2]) => \E j \in DOMAIN rx' : OwnLink(rx'[j], l[2])
        BY <1>1, <1>2, LinksAfter
    <1>8. \A i \in DOMAIN rx : rx[i] = d \/ \E j \in DOMAIN rx' : rx'[j] = rx[i]
        BY <1>2 DEF Rest, In
    <1>10. CASE /\ owner[t] \in {"live", "detaching"}
                /\ owner' = [owner EXCEPT ![t] = "detaching"]
                /\ waiters' = [waiters EXCEPT ![t] = @ \cup {d.by}]
                /\ UNCHANGED <<waiting, admission, deferred, class>>
      <2>1. /\ owner' \in [Threads -> {"none", "live", "detaching", "failed"}]
            /\ owner'[t] = "detaching" /\ \A s \in Threads : s # t => owner'[s] = owner[s]
        BY <1>3, <1>5, <1>10 DEF ThreadsType
      <2>2. /\ waiters' \in [Threads -> SUBSET Clients] /\ waiters'[t] = waiters[t] \cup {d.by}
            /\ \A s \in Threads : s # t => waiters'[s] = waiters[s]
        BY <1>3, <1>5, <1>10 DEF ThreadsType
      <2>3. ThreadsType'
        BY <1>5, <1>10, <2>1, <2>2 DEF ThreadsType
      <2>4. ParkedType'
        BY <1>1, <1>5, <2>1 DEF ParkedType, ParkedAttaches
      <2>5. DriverType'
        BY <1>1, <1>2, <1>10, <2>3, <2>4
           DEF DriverInv, DriverType, AdmissionType, DeferredType, RestType, Rest
      <2>6. ProjectAsks'
        <3>1. ASSUME NEW i \in DOMAIN rx', rx'[i].by = Project
              PROVE  /\ Project \in waiting'
                     /\ \/ rx'[i].op = "quiesce" /\ teardown = "quiescing"
                        \/ rx'[i].op = "resume" /\ teardown = "resuming"
                        \/ rx'[i].op = "detach" /\ teardown = "stopped"
                     /\ \A s \in Threads : Project \notin waiters'[s]
          <4>1. PICK j \in DOMAIN rx : rx[j] = rx'[i]
            BY <1>6 DEF In
          <4>2. d.by # Project
            BY <1>2, <3>1 DEF Rest
          <4>3. QED
            BY <1>10, <2>2, <3>1, <4>1, <4>2 DEF DriverInv, ProjectAsks
        <3>2. ASSUME NEW s \in Threads, Project \in waiters'[s]
              PROVE  /\ Project \in waiting' /\ teardown = "stopped"
                     /\ \A u \in Threads : Project \in waiters'[u] => u = s
          <4>1. CASE d.by = Project
            BY <1>2, <1>4, <1>10, <2>2, <3>2, <4>1 DEF Rest
          <4>2. CASE d.by # Project
            BY <1>10, <2>2, <3>2, <4>2 DEF DriverInv, ProjectAsks
          <4>3. QED
            BY <4>1, <4>2
        <3>3. \A i, j \in DOMAIN rx' : rx'[i].by = Project /\ rx'[j].by = Project => i = j
          BY <1>2 DEF Rest
        <3>4. QED
          BY <1>1, <3>1, <3>2, <3>3 DEF DriverInv, ProjectAsks
      <2>7. Releases'
        <3>1. ASSUME teardown = "stopped", NEW s \in Threads, owner'[s] # "none"
              PROVE  \/ s \in snapshot
                     \/ Project \in waiters'[s]
                     \/ \E i \in DOMAIN rx' : rx'[i].by = Project /\ rx'[i].thread = s
          <4>1. owner[s] # "none"
            BY <1>10, <2>1, <3>1
          <4>2. CASE \E i \in DOMAIN rx : rx[i].by = Project /\ rx[i].thread = s
            BY <1>8, <2>2, <4>2
          <4>3. QED
            BY <2>2, <3>1, <4>1, <4>2 DEF DriverInv, Releases
        <3>2. teardown # "gone"
          BY <1>3, <1>10 DEF DriverInv, Releases, GoneProjectIsUnowned
        <3>3. QED
          BY <1>1, <3>1, <3>2 DEF Releases, GoneProjectIsUnowned
      <2>8. KindsAgree'
        <3>1. \A s \in Threads : Stays(s) /\ owner'[s] # "none" => class'[s] = file[s].kind
          BY <1>5, <1>10, <2>1 DEF KindsAgree
        <3>2. \A c \in parked' : Stays(c.thread) => c.class = file[c.thread].kind /\ c.class \in Kinds
          BY <1>1, <1>5 DEF KindsAgree
        <3>3. \A s \in Threads : owner'[s] = "detaching" /\ Stays(s) /\ teardown' # "stopped" =>
                file[s].kind \in Kinds
          BY <1>1, <1>4, <1>5, <2>1 DEF KindsAgree
        <3>4. QED
          BY <1>1, <1>6, <1>10, <3>1, <3>2, <3>3, KindsKeep
      <2>9. ParentsExist'
        BY <1>1, <1>6, <1>10 DEF DriverInv, ParentsExist, HasParent, Stays, In
      <2>10. OwedIsKept'
        <3>1. ASSUME NEW l \in owed' PROVE (KeepsLink(l[2]) \/ Settled(l[2]))'
          <4>1. l \in owed
            BY <1>1
          <4>2. CASE Settled(l[2])
            BY <4>2 DEF Settled
          <4>3. CASE KeepsLink(l[2])
            BY <1>7, <1>10, <4>3 DEF KeepsLink, OwnLink
          <4>4. QED
            BY <4>1, <4>2, <4>3 DEF DriverInv, OwedIsKept
        <3>2. QED
          BY <3>1 DEF OwedIsKept
      <2>11. CallerIsHeld'
        BY <1>1, <1>3, <1>8, <1>10, <2>1, <2>2 DEF DriverInv, CallerIsHeld
      <2>12. QED
        BY <2>5, <2>6, <2>7, <2>8, <2>9, <2>10, <2>11 DEF DriverInv
    <1>11. CASE /\ owner[t] \in {"none", "failed"}
                /\ owner' = [owner EXCEPT ![t] = "none"]
                /\ class' = [class EXCEPT ![t] = "none"]
                /\ waiting' = waiting \ {d.by}
                /\ Wake(owner', file, deferred, NoAdmission, quiesced)
                /\ UNCHANGED waiters
      <2>1. /\ owner' \in [Threads -> {"none", "live", "detaching", "failed"}]
            /\ owner'[t] = "none" /\ \A s \in Threads : s # t => owner'[s] = owner[s]
            /\ class' \in [Threads -> {"none", "primary", "orphan", "subagent"}]
            /\ \A s \in Threads : s # t => class'[s] = class[s]
        BY <1>3, <1>5, <1>11 DEF ThreadsType
      <2>2. \A s \in Threads : owner'[s] = "detaching" <=> owner[s] = "detaching"
        BY <1>11, <2>1
      <2>3. ThreadsType'
        BY <1>5, <1>11, <2>1, <2>2 DEF ThreadsType
      <2>4. ParkedType'
        BY <1>1, <1>5, <2>2 DEF ParkedType, ParkedAttaches
      <2>5. /\ AdmissionType' /\ DeferredType' /\ ParentsExist' /\ OwedIsKept'
            /\ admission'.step \in Decided => admission' = admission
        BY <1>1, <1>6, <1>7, <1>11, WakeKeeps
      <2>6. DriverType'
        BY <1>1, <1>2, <1>11, <2>3, <2>4, <2>5 DEF DriverInv, DriverType, RestType, Rest
      <2>7. ProjectAsks'
        BY <1>1, <1>2, <1>11, AsksAfterAnswer
      <2>8. Releases'
        <3>1. ASSUME teardown = "stopped", NEW s \in Threads, owner'[s] # "none"
              PROVE  \/ s \in snapshot
                     \/ Project \in waiters'[s]
                     \/ \E i \in DOMAIN rx' : rx'[i].by = Project /\ rx'[i].thread = s
          <4>1. owner[s] # "none" /\ s # t
            BY <2>1, <3>1
          <4>2. CASE \E i \in DOMAIN rx : rx[i].by = Project /\ rx[i].thread = s
            BY <1>8, <4>1, <4>2
          <4>3. QED
            BY <1>11, <3>1, <4>1, <4>2 DEF DriverInv, Releases
        <3>2. QED
          BY <1>1, <2>1, <3>1 DEF DriverInv, Releases, GoneProjectIsUnowned
      <2>9. KindsAgree'
        <3>1. \A s \in Threads : Stays(s) /\ owner'[s] # "none" => class'[s] = file[s].kind
          BY <1>5, <2>1 DEF KindsAgree
        <3>2. \A c \in parked' : Stays(c.thread) => c.class = file[c.thread].kind /\ c.class \in Kinds
          BY <1>1, <1>5 DEF KindsAgree
        <3>3. \A s \in Threads : owner'[s] = "detaching" /\ Stays(s) /\ teardown' # "stopped" =>
                file[s].kind \in Kinds
          BY <1>1, <1>5, <2>2 DEF KindsAgree
        <3>4. QED
          BY <1>1, <1>6, <2>5, <3>1, <3>2, <3>3, KindsKeep
      <2>10. CallerIsHeld'
        BY <1>1, <1>2, <1>11, <2>2, HeldAfterAnswer
      <2>11. QED
        BY <2>5, <2>6, <2>7, <2>8, <2>9, <2>10 DEF DriverInv
    <1>12. QED
        BY <1>1, <1>10, <1>11

\* The threads, the parked attaches and the deletion stay as they are while a link is taken.
LEMMA TakeLinkKeeps ==
    ASSUME DriverInv, admission = NoAdmission, TakeLink, rx' = Tail(rx),
           UNCHANGED <<file, closed, discovered, removed>>
    PROVE  DriverInv'
    <1> DEFINE a == Head(rx)
    <1>1. /\ rx # <<>> /\ a.op = "link"
          /\ UNCHANGED <<owner, class, waiters, parked, quiesced, teardown, snapshot, owed>>
          /\ \/ admission' = Begin(a) /\ UNCHANGED <<deferred, waiting>>
             \/ a.by # None /\ waiting' = waiting \ {a.by} /\ UNCHANGED <<admission, deferred>>
             \/ /\ a.by = None
                /\ deferred' = IF quiesced \/ Keep(owner, file, a)
                               THEN queue_deferred(deferred, a) ELSE deferred
                /\ UNCHANGED <<admission, waiting>>
        BY DEF TakeLink, Answer
    <1>2. Rest(a)
        BY <1>1, Received
    <1>3. a \in Admissions /\ IsLink(a) /\ HasParent(a) /\ a.by # Project
        BY <1>1, <1>2, CommandFacts DEF Rest
    <1> HIDE DEF a
    <1>4. \A i \in DOMAIN rx' : In(rx, rx'[i])
        BY <1>2 DEF Rest
    <1>5. \A i \in DOMAIN rx : rx[i] = a \/ \E j \in DOMAIN rx' : rx'[j] = rx[i]
        BY <1>2 DEF Rest, In
    <1>6. Begin(a).work = a /\ Begin(a).step = "begun" /\ Begin(a) # NoAdmission
      <2>1. Begin(a).work = a /\ Begin(a).step = "begun"
        BY DEF Begin
      <2>2. NoAdmission.step = "idle"
        BY DEF NoAdmission
      <2>3. QED
        BY <2>1, <2>2
    <1>7. /\ waiting' \subseteq waiting /\ (Project \in waiting => Project \in waiting')
          /\ admission'.step \in {"idle", "begun"}
      <2>1. NoAdmission.step = "idle"
        BY DEF NoAdmission
      <2>2. QED
        BY <1>1, <1>3, <1>6, <2>1
    <1>8. AdmissionType'
        BY <1>1, <1>3 DEF AdmissionType, Begin, NoAdmission, Flights, Decided, Files
    <1>9. /\ DeferredType' /\ (\A i \in DOMAIN deferred : HasParent(deferred[i]))'
          /\ \A x : (\E i \in DOMAIN deferred : OwnLink(deferred[i], x))
                      => \E i \in DOMAIN deferred' : OwnLink(deferred'[i], x)
      <2>1. CASE UNCHANGED deferred
        <3>1. DeferredType'
          BY <2>1 DEF DriverInv, DriverType, DeferredType
        <3>2. (\A i \in DOMAIN deferred : HasParent(deferred[i]))'
          BY <1>1, <2>1 DEF DriverInv, ParentsExist, HasParent, Stays
        <3>3. QED
          BY <2>1, <3>1, <3>2
      <2>2. CASE a.by = None /\ deferred' = queue_deferred(deferred, a)
        BY <1>1, <1>3, <2>2, QueueKeeps
      <2>3. QED
        BY <1>1, <2>1, <2>2
    <1>10. DriverType'
      <2>1. ThreadsType' /\ ParkedType' /\ RestType'
        BY <1>1, <1>7 DEF DriverInv, DriverType, ThreadsType, ParkedType, RestType
      <2>2. QED
        BY <1>2, <1>8, <1>9, <2>1 DEF DriverType, Rest
    <1>12. ProjectAsks'
      <2>1. \A i \in DOMAIN rx' : \E j \in DOMAIN rx : rx'[i] = rx[j]
        BY <1>4 DEF In
      <2>2. \A i, j \in DOMAIN rx' : rx'[i].by = Project /\ rx'[j].by = Project => i = j
        BY <1>2 DEF Rest
      <2>3. QED
        BY <1>1, <1>7, <2>1, <2>2 DEF DriverInv, ProjectAsks
    <1>13. Releases'
        BY <1>1, <1>3, <1>5 DEF DriverInv, Releases, GoneProjectIsUnowned
    <1>14. KindsAgree'
      <2>1. \A s \in Threads : Stays(s) /\ owner'[s] # "none" => class'[s] = file[s].kind
        BY <1>1 DEF DriverInv, KindsAgree
      <2>2. \A c \in parked' : Stays(c.thread) => c.class = file[c.thread].kind /\ c.class \in Kinds
        BY <1>1 DEF DriverInv, KindsAgree
      <2>3. \A s \in Threads : owner'[s] = "detaching" /\ Stays(s) /\ teardown' # "stopped" =>
                file[s].kind \in Kinds
        BY <1>1 DEF DriverInv, KindsAgree
      <2>4. QED
        BY <1>1, <1>4, <1>7, <2>1, <2>2, <2>3, KindsKeep DEF Decided
    <1>15. ParentsExist'
      <2>1. \A i \in DOMAIN rx' : HasParent(rx[i])'
        BY <1>1, <1>4 DEF DriverInv, ParentsExist, HasParent, Stays, In
      <2>2. admission' # NoAdmission => HasParent(admission.work)'
        BY <1>1, <1>3, <1>6 DEF HasParent, Stays
      <2>3. QED
        BY <1>9, <2>1, <2>2 DEF ParentsExist
    <1>16. OwedIsKept'
      <2>1. ASSUME NEW l \in owed' PROVE (KeepsLink(l[2]) \/ Settled(l[2]))'
        <3>1. l \in owed /\ (Settled(l[2]) => Settled(l[2])')
          BY <1>1 DEF Settled
        <3>2. CASE \E i \in DOMAIN deferred : OwnLink(deferred[i], l[2])
          BY <1>9, <3>2 DEF KeepsLink, OwnLink
        <3>3. CASE \E i \in DOMAIN rx : OwnLink(rx[i], l[2])
          <4>1. PICK i \in DOMAIN rx : OwnLink(rx[i], l[2])
            BY <3>3
          <4>2. CASE \E j \in DOMAIN rx' : rx'[j] = rx[i]
            BY <4>1, <4>2 DEF KeepsLink, OwnLink
          <4>3. CASE rx[i] = a
            <5>1. OwnLink(a, l[2])
              BY <4>1, <4>3
            <5>2. CASE admission' = Begin(a)
              BY <1>6, <5>1, <5>2 DEF KeepsLink, OwnLink
            <5>3. CASE deferred' = queue_deferred(deferred, a)
              <6>1. a.by = None
                BY <5>1 DEF OwnLink
              <6>2. \E j \in DOMAIN deferred' : OwnLink(deferred'[j], l[2])
                BY <1>1, <1>3, <5>1, <5>3, <6>1, QueueKeeps
              <6>3. QED
                BY <6>2 DEF KeepsLink, OwnLink
            <5>4. CASE ~Keep(owner, file, a)
              <6>1. file[a.parent] = Absent /\ a.thread = l[2]
                BY <5>1, <5>4 DEF Keep, OwnLink
              <6>2. teardown # "gone"
                BY <3>1 DEF DriverInv, Releases
              <6>3. a.parent \in removed /\ <<a.parent, l[2]>> \in Links
                BY <1>1, <1>3, <6>1, <6>2 DEF HasParent, Stays, IsLink
              <6>4. QED
                BY <3>1, <6>3 DEF Settled
            <5>5. QED
              BY <1>1, <5>1, <5>2, <5>3, <5>4 DEF OwnLink
          <4>4. QED
            BY <1>5, <4>2, <4>3
        <3>4. QED
          BY <3>1, <3>2, <3>3 DEF DriverInv, OwedIsKept, KeepsLink
      <2>2. QED
        BY <2>1 DEF OwedIsKept
    <1>17. CallerIsHeld'
      <2>1. CASE admission' = Begin(a) /\ UNCHANGED waiting
        BY <1>1, <1>5, <1>6, <2>1 DEF DriverInv, CallerIsHeld
      <2>2. CASE waiting' = waiting \ {a.by}
        BY <1>1, <1>2, <2>2, HeldAfterAnswer
      <2>3. CASE a.by = None /\ UNCHANGED waiting
        <3>1. a.by \notin waiting
          BY <2>3, ProjectDriverAssumption DEF DriverInv, DriverType, RestType, Clients
        <3>2. waiting' = waiting \ {a.by}
          BY <2>3, <3>1
        <3>3. QED
          BY <1>1, <1>2, <3>2, HeldAfterAnswer
      <2>4. QED
        BY <1>1, <2>1, <2>2, <2>3
    <1>18. QED
        BY <1>10, <1>12, <1>13, <1>14, <1>15, <1>16, <1>17 DEF DriverInv

\* The deletion's own commands find the driver in the state it asked from.
LEMMA TakeControlKeeps ==
    ASSUME DriverInv, admission = NoAdmission, TakeQuiesce \/ TakeResume, rx' = Tail(rx),
           UNCHANGED <<file, closed, discovered, removed>>
    PROVE  DriverInv'
    <1> DEFINE h == Head(rx)
    <1>1. /\ rx # <<>> /\ waiting' = waiting \ {Project}
          /\ UNCHANGED <<owner, class, waiters, parked, snapshot, owed>>
          /\ \/ /\ h.op = "quiesce" /\ quiesced' = TRUE /\ teardown' = "quiesced"
                /\ UNCHANGED <<admission, deferred>>
             \/ /\ h.op = "resume" /\ quiesced' = FALSE /\ teardown' = "none"
                /\ Wake(owner, file, deferred, NoAdmission, FALSE)
        BY DEF TakeQuiesce, TakeResume, Answer
    <1>2. Rest(h)
        BY <1>1, Received
    <1>3. h.by = Project /\ teardown \in {"quiescing", "resuming"}
        BY <1>1, <1>2 DEF Rest
    <1> HIDE DEF h
    <1>4. /\ teardown # "gone" /\ teardown' # "gone" /\ teardown # "stopped" /\ teardown' # "stopped"
          /\ waiting' = waiting \ {h.by}
        BY <1>1, <1>3
    <1>5. \A i \in DOMAIN rx' : In(rx, rx'[i])
        BY <1>2 DEF Rest
    <1>6. \A l \in owed' : \A i \in DOMAIN rx :
            OwnLink(rx[i], l[2]) => \E j \in DOMAIN rx' : OwnLink(rx'[j], l[2])
        BY <1>1, <1>2, LinksAfter
    <1>7. /\ AdmissionType' /\ DeferredType' /\ ParentsExist' /\ OwedIsKept'
          /\ admission'.step \in Decided => admission' = admission
      <2>1. CASE UNCHANGED <<admission, deferred>>
        <3>1. AdmissionType' /\ DeferredType'
          BY <2>1 DEF DriverInv, DriverType, AdmissionType, DeferredType
        <3>2. ParentsExist'
          BY <1>4, <1>5, <2>1 DEF DriverInv, ParentsExist, HasParent, Stays, In
        <3>3. OwedIsKept'
          <4>1. ASSUME NEW l \in owed' PROVE (KeepsLink(l[2]) \/ Settled(l[2]))'
            <5>1. l \in owed
              BY <1>1
            <5>2. CASE Settled(l[2])
              BY <5>2 DEF Settled
            <5>3. CASE KeepsLink(l[2])
              BY <1>6, <2>1, <5>3 DEF KeepsLink, OwnLink
            <5>4. QED
              BY <5>1, <5>2, <5>3 DEF DriverInv, OwedIsKept
          <4>2. QED
            BY <4>1 DEF OwedIsKept
        <3>4. QED
          BY <2>1, <3>1, <3>2, <3>3
      <2>2. CASE Wake(owner, file, deferred, NoAdmission, FALSE)
        <3>1. PICK quiet : Wake(owner, file, deferred, NoAdmission, quiet)
          BY <2>2
        <3>2. QED
          BY <1>1, <1>4, <1>5, <1>6, <3>1, WakeKeeps
      <2>3. QED
        BY <1>1, <2>1, <2>2
    <1>8. DriverType'
      <2>1. ThreadsType' /\ ParkedType' /\ RestType'
        BY <1>1 DEF DriverInv, DriverType, ThreadsType, ParkedType, RestType
      <2>2. QED
        BY <1>2, <1>7, <2>1 DEF DriverType, Rest
    <1>10. ProjectAsks'
        BY <1>1, <1>2, <1>3 DEF DriverInv, ProjectAsks, Rest
    <1>11. Releases'
        BY <1>4 DEF Releases, GoneProjectIsUnowned
    <1>12. KindsAgree'
      <2>1. \A s \in Threads : Stays(s) /\ owner'[s] # "none" => class'[s] = file[s].kind
        BY <1>1 DEF DriverInv, KindsAgree
      <2>2. \A c \in parked' : Stays(c.thread) => c.class = file[c.thread].kind /\ c.class \in Kinds
        BY <1>1 DEF DriverInv, KindsAgree
      <2>3. \A s \in Threads : owner'[s] = "detaching" /\ Stays(s) /\ teardown' # "stopped" =>
                file[s].kind \in Kinds
        BY <1>1, <1>4 DEF DriverInv, KindsAgree
      <2>4. QED
        BY <1>1, <1>4, <1>5, <1>7, <2>1, <2>2, <2>3, KindsKeep
    <1>13. CallerIsHeld'
        BY <1>1, <1>2, <1>4, HeldAfterAnswer
    <1>14. QED
        BY <1>7, <1>8, <1>10, <1>11, <1>12, <1>13 DEF DriverInv

-----------------------------------------------------------------------------
(* The invariant *)

LEMMA InitDriver == Init => DriverInv
    <1> SUFFICES ASSUME Init PROVE DriverInv
        OBVIOUS
    <1>1. /\ file = [t \in Threads |-> IF t \in Primaries THEN PrimaryFile ELSE Absent]
          /\ owner = [t \in Threads |-> IF t \in Primaries THEN "live" ELSE "none"]
          /\ class = [t \in Threads |-> IF t \in Primaries THEN "primary" ELSE "none"]
          /\ waiters = [t \in Threads |-> {}]
        BY DEF Init
    <1>2. /\ rx = <<>> /\ parked = {} /\ admission = NoAdmission /\ deferred = <<>> /\ discovered = <<>>
          /\ quiesced = FALSE /\ closed = FALSE /\ teardown = "none" /\ snapshot = {}
          /\ waiting = {} /\ owed = {} /\ removed = {}
        BY DEF Init
    <1>3. /\ DOMAIN rx = {} /\ DOMAIN deferred = {} /\ rx \in Seq(Commands)
          /\ deferred \in Seq(Admissions) /\ discovered \in Seq(Threads)
        BY <1>2
    <1>4. \A t \in Threads : \/ file[t] = PrimaryFile /\ owner[t] = "live" /\ class[t] = "primary"
                             \/ file[t] = Absent /\ owner[t] = "none" /\ class[t] = "none"
        BY <1>1
    <1>5. ThreadsType
        BY <1>1 DEF ThreadsType
    <1>6. DriverType
        BY <1>2, <1>3, <1>5
           DEF DriverType, AdmissionType, DeferredType, ChannelType, ParkedType, RestType
    <1>8. ProjectAsks /\ Releases
        BY <1>1, <1>2, <1>3 DEF ProjectAsks, Releases, GoneProjectIsUnowned
    <1>9. KindsAgree
      <2>1. admission.step = "idle"
        BY <1>2 DEF NoAdmission
      <2>2. QED
        BY <1>2, <1>3, <1>4, <2>1 DEF KindsAgree, PrimaryFile
    <1>10. ParentsExist /\ OwedIsKept /\ CallerIsHeld
        BY <1>2, <1>3 DEF ParentsExist, OwedIsKept, CallerIsHeld
    <1>11. QED
        BY <1>6, <1>8, <1>9, <1>10 DEF DriverInv

LEMMA StutterKeeps == ASSUME DriverInv, UNCHANGED vars PROVE DriverInv'
    <1>1. UNCHANGED <<rx, parked, admission, deferred, quiesced, closed, discovered, file, owner,
                      class, waiters, removed, teardown, snapshot, waiting, owed>>
        BY DEF vars, driver, harness, threads, bounds
    <1>2. DriverType'
        BY <1>1 DEF DriverInv, DriverType, ThreadsType, AdmissionType, DeferredType, ChannelType,
                    ParkedType, RestType
    <1>3. ProjectAsks' /\ Releases'
        BY <1>1 DEF DriverInv, ProjectAsks, Releases, GoneProjectIsUnowned
    <1>4. KindsAgree' /\ ParentsExist'
        BY <1>1 DEF DriverInv, KindsAgree, ParentsExist, HasParent, Stays
    <1>5. OwedIsKept' /\ CallerIsHeld'
        BY <1>1 DEF DriverInv, OwedIsKept, KeepsLink, Settled, CallerIsHeld
    <1>6. QED
        BY <1>2, <1>3, <1>4, <1>5 DEF DriverInv

LEMMA TakeCommandKeeps == ASSUME DriverInv, TakeCommand PROVE DriverInv'
    <1>1. /\ admission = NoAdmission /\ rx' = Tail(rx) /\ UNCHANGED <<file, closed, discovered, removed>>
          /\ TakeAttach \/ TakeDetach \/ TakeLink \/ TakeQuiesce \/ TakeResume
        BY DEF TakeCommand, Receives, harness, bounds
    <1>2. CASE TakeAttach
        BY <1>1, <1>2, TakeAttachKeeps
    <1>3. CASE TakeDetach
        BY <1>1, <1>3, TakeDetachKeeps
    <1>4. CASE TakeLink
        BY <1>1, <1>4, TakeLinkKeeps
    <1>5. CASE TakeQuiesce \/ TakeResume
        BY <1>1, <1>5, TakeControlKeeps
    <1>6. QED
        BY <1>1, <1>2, <1>3, <1>4, <1>5

LEMMA NextDriver == DriverInv /\ [Next]_vars => DriverInv'
    <1> SUFFICES ASSUME DriverInv, [Next]_vars PROVE DriverInv'
        OBVIOUS
    <1>1. CASE Requests
        BY <1>1, RequestAttachKeeps, RequestDetachKeeps, RequestLinkKeeps, DeleteProjectKeeps
           DEF Requests
    <1>2. CASE \E l \in Links : OwnerLink(l[1], l[2])
        BY <1>2, OwnerLinkKeeps
    <1>3. CASE \E t \in Threads : Announce(t) \/ Remove(t)
        BY <1>3, AnnounceKeeps, RemoveKeeps
    <1>4. CASE TakeCommand
        BY <1>4, TakeCommandKeeps
    <1>5. CASE TakeDiscovery
        BY <1>5, TakeDiscoveryKeeps
    <1>6. CASE Admit
        BY <1>6, AdmitClaimKeeps, AdmitReadKeeps, AdmitWriteKeeps, AdmitFaultKeeps, AdmitFinishKeeps
           DEF Admit
    <1>7. CASE AdmitFault
        BY <1>7, AdmitFaultKeeps
    <1>8. CASE \E t \in Threads : OwnerDetached(t) \/ OwnerFails(t)
        BY <1>8, OwnerDetachedKeeps, OwnerFailsKeeps
    <1>9. CASE ShutdownFails \/ StopHarness \/ FilesGone \/ Exit
        BY <1>9, ShutdownFailsKeeps, StopHarnessKeeps, FilesGoneKeeps, ExitKeeps
    <1>10. CASE \E t \in Threads : Release(t)
        BY <1>10, ReleaseKeeps
    <1>11. CASE UNCHANGED vars
        BY <1>11, StutterKeeps
    <1>12. QED
        BY <1>1, <1>2, <1>3, <1>4, <1>5, <1>6, <1>7, <1>8, <1>9, <1>10, <1>11 DEF Next

LEMMA DriverInvariant == Spec => []DriverInv
    <1>1. Init => DriverInv
        BY InitDriver
    <1>2. DriverInv /\ [Next]_vars => DriverInv'
        BY NextDriver
    <1>3. QED
        BY <1>1, <1>2, PTL DEF Spec

-----------------------------------------------------------------------------
(* The forest *)

NonSubs(f) == {x \in Threads : f[x].kind # "subagent"}

\* The chain of parents of a thread reaches a primary or a deleted thread.
Known(t) == Rooted(WithRoots(file, removed), t)

\* The chains of the sub-agents, as ForestIsSound has them.
Forest ==
    \A t \in Threads : file[t].kind = "subagent" =>
        Known(t) /\ Rooted(WithRoots(file, NonSubs(file)), t)

\* The parent a sub-agent is about to be recorded under was found valid: its chain is
\* known still, and ends without passing the sub-agent's own thread.
Hanging ==
    admission.step = "writing" /\ admission.file.kind = "subagent" =>
        /\ Known(admission.file.parent)
        /\ Rooted(WithRoots(file, NonSubs(file) \ {admission.work.thread}), admission.file.parent)

ForestInv == Forest /\ Hanging /\ (quiesced => admission = NoAdmission)

LEMMA WithRootsFacts ==
    ASSUME NEW f \in [Threads -> Files], NEW S
    PROVE  /\ WithRoots(f, S) \in [Threads -> Files]
           /\ \A x \in Threads : x \in S => WithRoots(f, S)[x].kind = "primary"
           /\ \A x \in Threads : x \notin S => WithRoots(f, S)[x] = f[x]
    BY DEF WithRoots, Files, PrimaryFile

\* ForestIsSound is about the walks the driver makes, Forest about what they decide.
LEMMA ForestIs == ASSUME DriverInv PROVE ForestIsSound <=> Forest
    <1>1. file \in [Threads -> Files]
        BY FilesType
    <1>2. ASSUME NEW S, NEW t \in Threads
          PROVE  parent_chain_is_valid(WithRoots(file, S), t) <=> Rooted(WithRoots(file, S), t)
        BY <1>1, WithRootsFacts, ChainIsRooted
    <1>3. QED
        BY <1>2 DEF ForestIsSound, Forest, Known, NonSubs

\* What starting deferred admissions can make of the admission in flight.
LEMMA WakeAdmits ==
    ASSUME NEW own, NEW f, NEW q, NEW adm, NEW quiet, Wake(own, f, q, adm, quiet)
    PROVE  /\ quiet => admission' = adm
           /\ admission' = adm \/ admission'.step \in {"idle", "begun"}
    BY DEF Wake, start_deferred, Begin, NoAdmission

\* Steps that leave the files alone and decide nothing about one.
LEMMA ForestUnmoved ==
    ASSUME ForestInv, UNCHANGED <<file, removed>>,
           admission' = admission \/ admission'.step \in {"idle", "begun", "claimed", "recorded", "refused"},
           quiesced' => admission' = NoAdmission
    PROVE  ForestInv'
    <1>1. Forest'
        BY DEF ForestInv, Forest, Known
    <1>2. Hanging'
      <2>1. CASE admission' = admission
        BY <2>1 DEF ForestInv, Hanging, Known
      <2>2. CASE admission'.step \in {"idle", "begun", "claimed", "recorded", "refused"}
        BY <2>2 DEF Hanging
      <2>3. QED
        BY <2>1, <2>2
    <1>3. QED
        BY <1>1, <1>2 DEF ForestInv

\* A deleted thread counts as a root from then on, whatever hangs from it.
LEMMA RemoveForest ==
    ASSUME DriverInv, ForestInv, NEW c \in Threads, Remove(c) PROVE ForestInv'
    <1>1. /\ removed' = removed \cup {c} /\ file' = [file EXCEPT ![c] = Absent]
          /\ file[c].kind \in Kinds /\ UNCHANGED <<admission, quiesced>>
        BY DEF Remove, driver, Kinds
    <1>2. file \in [Threads -> Files] /\ file' \in [Threads -> Files]
        BY <1>1, FilesType DEF Files
    <1>3. ASSUME NEW S, NEW R, NEW t \in Threads, c \in R, S \subseteq R,
                 Rooted(WithRoots(file, S), t)
          PROVE  Rooted(WithRoots(file', R), t)
      <2> DEFINE f == WithRoots(file, S)
                 g == WithRoots(file', R)
      <2>1. f \in [Threads -> Files] /\ g \in [Threads -> Files]
        BY <1>2, WithRootsFacts
      <2>2. ASSUME NEW x \in Threads PROVE g[x] = f[x] \/ g[x].kind = "primary"
        <3>1. CASE x \in R
          BY <1>2, <3>1, WithRootsFacts
        <3>2. CASE x \notin R
          <4>1. file'[x] = file[x] /\ x \notin S
            BY <1>1, <1>2, <1>3, <3>2
          <4>2. QED
            BY <1>2, <3>2, <4>1, WithRootsFacts
        <3>3. QED
          BY <3>1, <3>2
      <2>3. \A x \in Threads : g[x] = f[x] \/ Rooted(g, x)
        BY <2>1, <2>2, RootedSteps
      <2> HIDE DEF f, g
      <2>4. Rooted(f, t)
        BY <1>3 DEF f
      <2>5. Rooted(g, t)
        BY <2>1, <2>3, <2>4, RootedCarries
      <2>6. QED
        BY <2>5 DEF g
    <1>4. NonSubs(file) \subseteq NonSubs(file') /\ c \in NonSubs(file')
        BY <1>1, <1>2 DEF NonSubs, Absent
    <1>5. \A t \in Threads : file'[t].kind = "subagent" => file[t].kind = "subagent"
        BY <1>1, <1>2 DEF Absent
    <1>6. Forest'
      <2>1. ASSUME NEW t \in Threads, file'[t].kind = "subagent"
            PROVE  Rooted(WithRoots(file', removed'), t) /\ Rooted(WithRoots(file', NonSubs(file')), t)
        <3>1. Rooted(WithRoots(file, removed), t) /\ Rooted(WithRoots(file, NonSubs(file)), t)
          BY <1>5, <2>1 DEF ForestInv, Forest, Known
        <3>2. Rooted(WithRoots(file', removed'), t)
          BY <1>1, <1>3, <3>1
        <3>3. Rooted(WithRoots(file', NonSubs(file')), t)
          BY <1>3, <1>4, <3>1
        <3>4. QED
          BY <3>2, <3>3
      <2>2. QED
        BY <2>1 DEF Forest, Known, NonSubs
    <1>7. Hanging'
      <2> DEFINE a == admission.work.thread
                 p == admission.file.parent
      <2>1. SUFFICES ASSUME admission.step = "writing", admission.file.kind = "subagent"
                     PROVE  /\ Rooted(WithRoots(file', removed'), p)
                            /\ Rooted(WithRoots(file', NonSubs(file') \ {a}), p)
        BY <1>1 DEF Hanging, Known, NonSubs
      <2>2. p \in Threads
        BY <2>1, InFlight, FileFacts DEF Decided
      <2>3. a # c
        BY <1>1, <2>1 DEF DriverInv, KindsAgree, Kinds
      <2>4. Rooted(WithRoots(file, removed), p) /\ Rooted(WithRoots(file, NonSubs(file) \ {a}), p)
        BY <2>1 DEF ForestInv, Hanging, Known
      <2>5. Rooted(WithRoots(file', removed'), p)
        BY <1>1, <1>3, <2>2, <2>4
      <2>6. NonSubs(file) \ {a} \subseteq NonSubs(file') \ {a} /\ c \in NonSubs(file') \ {a}
        BY <1>4, <2>3
      <2> HIDE DEF a, p
      <2>7. Rooted(WithRoots(file', NonSubs(file') \ {a}), p)
        BY <1>3, <2>2, <2>4, <2>6
      <2>8. QED
        BY <2>5, <2>7 DEF a, p
    <1>8. QED
        BY <1>1, <1>6, <1>7 DEF ForestInv

\* What the graph shows of a valid parent holds when the read decides for it.
LEMMA ReadForest ==
    ASSUME DriverInv, ForestInv, AdmitRead PROVE ForestInv'
    <1> DEFINE a == admission.work
               r == Admitted(file, a)
               c == a.thread
               p == r.file.parent
    <1>1. /\ admission.step = "claimed" /\ admission'.work = a /\ admission'.file = r.file
          /\ admission'.step = "writing" => r.file # file[c]
          /\ UNCHANGED <<file, removed, quiesced>>
        BY DEF AdmitRead, bounds, threads
    <1>2. admission # NoAdmission /\ IsLink(a) /\ a \in Admissions /\ c \in Threads
        BY <1>1, InFlight
    <1>3. file \in [Threads -> Files]
        BY FilesType
    <1>4. Forest'
        BY <1>1 DEF ForestInv, Forest, Known
    <1>5. Hanging'
      <2>1. SUFFICES ASSUME admission'.step = "writing", r.file.kind = "subagent"
                     PROVE  /\ Rooted(WithRoots(file, removed), p)
                            /\ Rooted(WithRoots(file, NonSubs(file) \ {c}), p)
        BY <1>1 DEF Hanging, Known, NonSubs
      <2>2. r.file = ChildOf(a.parent) /\ a.parent \in Threads /\ parent_chain_is_valid(file, a.parent)
        BY <1>1, <1>2, <1>3, <2>1, AdmittedFacts DEF Orphan
      <2>3. p \in Threads /\ Rooted(file, p)
        BY <1>3, <2>2, ChainIsRooted DEF ChildOf
      <2> HIDE DEF p
      <2>4. ASSUME NEW S PROVE Rooted(WithRoots(file, S), p)
        <3> DEFINE g == WithRoots(file, S)
        <3>1. /\ g \in [Threads -> Files]
              /\ \A x \in Threads : g[x] = file[x] \/ g[x].kind = "primary"
          BY <1>3, WithRootsFacts
        <3> HIDE DEF g
        <3>2. \A x \in Threads : g[x] = file[x] \/ Rooted(g, x)
          BY <3>1, RootedSteps
        <3>3. Rooted(g, p)
          BY <1>3, <2>3, <3>1, <3>2, RootedCarries
        <3>4. QED
          BY <3>3 DEF g
      <2>5. QED
        BY <2>4
    <1>6. QED
        BY <1>1, <1>2, <1>4, <1>5 DEF ForestInv

\* The file written hangs its thread from a parent whose chain does not pass it.
LEMMA WriteForest ==
    ASSUME DriverInv, ForestInv, AdmitWrite PROVE ForestInv'
    <1> DEFINE c == admission.work.thread
               w == admission.file
    <1>1. /\ admission.step = "writing" /\ file' = [file EXCEPT ![c] = w]
          /\ admission'.step = "recorded" /\ UNCHANGED <<removed, quiesced>>
        BY InFlight DEF AdmitWrite, bounds, Decided, Flights
    <1>2. /\ admission # NoAdmission /\ c \in Threads /\ w \in Files /\ w.kind # "none"
          /\ file[c].kind \in {"none", "orphan"}
        BY <1>1, InFlight DEF Decided, DriverInv, KindsAgree
    <1>3. file \in [Threads -> Files] /\ file' \in [Threads -> Files]
        BY <1>1, <1>2, FilesType
    <1>4. Hanging'
        BY <1>1 DEF Hanging
    <1> HIDE DEF c, w
    <1>5. file'[c] = w /\ \A x \in Threads : x # c => file'[x] = file[x]
        BY <1>1, <1>2, <1>3
    <1> DEFINE f1 == WithRoots(file, removed)
               g1 == WithRoots(file', removed)
               f2 == WithRoots(file, NonSubs(file))
               g2 == WithRoots(file', NonSubs(file'))
    <1>6. {f1, g1, f2, g2} \subseteq [Threads -> Files]
        BY <1>3, WithRootsFacts
    <1>7. \A x \in Threads : file[x].kind = "subagent" => Rooted(f1, x) /\ Rooted(f2, x)
        BY DEF ForestInv, Forest, Known
    <1>8. \A x \in Threads : g1[x] = f1[x] \/ f1[x].kind \notin {"primary", "subagent"}
      <2>1. ASSUME NEW x \in Threads PROVE g1[x] = f1[x] \/ f1[x].kind \notin {"primary", "subagent"}
        <3>1. CASE x \in removed
          BY <3>1 DEF WithRoots
        <3>2. CASE x \notin removed
          <4>1. f1[x] = file[x] /\ g1[x] = file'[x]
            BY <1>3, <3>2, WithRootsFacts
          <4> HIDE DEF f1, g1
          <4>2. QED
            BY <1>2, <1>5, <4>1
        <3>3. QED
          BY <3>1, <3>2
      <2>2. QED
        BY <2>1
    <1>9. ASSUME NEW x \in Threads, x # c PROVE g2[x] = f2[x]
      <2>1. file'[x] = file[x]
        BY <1>5, <1>9
      <2>2. x \in NonSubs(file') <=> x \in NonSubs(file)
        BY <2>1 DEF NonSubs
      <2>3. QED
        BY <2>1, <2>2 DEF WithRoots
    <1>10. w.kind = "subagent" => Rooted(g1, c) /\ Rooted(g2, c)
      <2>1. SUFFICES ASSUME w.kind = "subagent" PROVE Rooted(g1, c) /\ Rooted(g2, c)
        OBVIOUS
      <2> DEFINE p == w.parent
                 h == WithRoots(file, NonSubs(file) \ {c})
      <2>2. p \in Threads
        BY <1>2, <2>1, FileFacts
      <2>3. Rooted(f1, p) /\ Rooted(h, p)
        BY <1>1, <2>1 DEF ForestInv, Hanging, Known, c, w
      <2>4. Rooted(g1, c)
        <3>1. Rooted(g1, p)
          <4> HIDE DEF f1, g1
          <4>1. QED
            BY <1>6, <1>8, <2>2, <2>3, RootedCarries
        <3>2. CASE c \in removed
          BY <1>2, <1>3, <1>6, <3>2, WithRootsFacts, RootedSteps
        <3>3. CASE c \notin removed
          <4>1. g1[c] = w
            BY <1>2, <1>3, <1>5, <3>3, WithRootsFacts
          <4> HIDE DEF g1, f1, g2, f2
          <4>2. QED
            BY <1>2, <1>6, <2>1, <3>1, <4>1, RootedSteps
        <3>4. QED
          BY <3>2, <3>3
      <2>5. Rooted(g2, c)
        <3>1. c \notin NonSubs(file') /\ NonSubs(file') = NonSubs(file) \ {c}
          BY <1>2, <1>5, <2>1 DEF NonSubs
        <3>2. g2[c] = w /\ h[c] = file[c] /\ h \in [Threads -> Files]
          BY <1>2, <1>3, <1>5, <3>1, WithRootsFacts
        <3>3. ASSUME NEW x \in Threads PROVE g2[x] = h[x] \/ h[x].kind \notin {"primary", "subagent"}
          <4>1. CASE x = c
            BY <1>2, <3>2, <4>1
          <4>2. CASE x # c
            BY <1>5, <3>1, <4>2 DEF WithRoots
          <4>3. QED
            BY <4>1, <4>2
        <3> HIDE DEF g1, f1, g2, f2, h
        <3>4. Rooted(g2, p)
          BY <1>6, <2>2, <2>3, <3>2, <3>3, RootedCarries
        <3>5. QED
          BY <1>2, <1>6, <2>1, <3>2, <3>4, RootedSteps
      <2>6. QED
        BY <2>4, <2>5
    <1>11. g2[c] = f2[c] \/ Rooted(g2, c)
      <2>1. CASE w.kind = "subagent"
        BY <1>10, <2>1
      <2>2. CASE w.kind # "subagent"
        <3>1. c \in NonSubs(file') /\ c \in NonSubs(file)
          BY <1>2, <1>5, <2>2 DEF NonSubs
        <3>2. QED
          BY <3>1 DEF WithRoots, NonSubs
      <2>3. QED
        BY <2>1, <2>2
    <1> HIDE DEF f1, g1, f2, g2
    <1>12. ASSUME NEW t \in Threads, file'[t].kind = "subagent" PROVE Rooted(g1, t) /\ Rooted(g2, t)
      <2>1. CASE t = c
        BY <1>5, <1>10, <1>12, <2>1
      <2>2. CASE t # c
        <3>1. Rooted(f1, t) /\ Rooted(f2, t)
          BY <1>5, <1>7, <1>12, <2>2
        <3>2. Rooted(g1, t)
          BY <1>6, <1>8, <3>1, RootedCarries
        <3>3. \A x \in Threads : g2[x] = f2[x] \/ Rooted(g2, x)
          BY <1>9, <1>11
        <3>4. Rooted(g2, t)
          BY <1>6, <3>1, <3>3, RootedCarries
        <3>5. QED
          BY <3>2, <3>4
      <2>3. QED
        BY <2>1, <2>2
    <1>13. Forest'
        BY <1>1, <1>12 DEF Forest, Known, NonSubs, g1, g2
    <1>14. QED
        BY <1>1, <1>2, <1>4, <1>13 DEF ForestInv

\* The commands leave the files alone, and a quiesced driver begins nothing.
LEMMA TakeCommandForest ==
    ASSUME DriverInv, ForestInv, TakeCommand PROVE ForestInv'
    <1>1. /\ admission = NoAdmission /\ UNCHANGED <<file, removed>>
          /\ TakeAttach \/ TakeDetach \/ TakeLink \/ TakeQuiesce \/ TakeResume
        BY DEF TakeCommand, Receives, bounds
    <1>2. /\ admission' = admission \/ admission'.step \in {"idle", "begun"}
          /\ quiesced' => admission' = NoAdmission
      <2>1. CASE TakeAttach
        BY <1>1, <2>1, WakeAdmits DEF TakeAttach
      <2>2. CASE TakeDetach
        BY <1>1, <2>2, WakeAdmits DEF TakeDetach
      <2>3. CASE TakeLink
        BY <1>1, <2>3 DEF TakeLink, Begin
      <2>4. CASE TakeQuiesce
        BY <1>1, <2>4 DEF TakeQuiesce
      <2>5. CASE TakeResume
        BY <1>1, <2>5, WakeAdmits DEF TakeResume
      <2>6. QED
        BY <1>1, <2>1, <2>2, <2>3, <2>4, <2>5
    <1>3. QED
        BY <1>1, <1>2, ForestUnmoved

LEMMA NextForest == DriverInv /\ ForestInv /\ [Next]_vars => ForestInv'
    <1> SUFFICES ASSUME DriverInv, ForestInv, [Next]_vars PROVE ForestInv'
        OBVIOUS
    <1>1. quiesced => admission = NoAdmission
        BY DEF ForestInv
    <1>2. CASE Requests
      <2>1. UNCHANGED <<file, removed, admission, quiesced>>
        BY <1>2 DEF Requests, RequestAttach, RequestDetach, RequestLink, DeleteProject, Call,
                    DeletionSends, threads
      <2>2. QED
        BY <1>1, <2>1, ForestUnmoved
    <1>3. CASE \E l \in Links : OwnerLink(l[1], l[2])
      <2>1. UNCHANGED <<file, removed, admission, quiesced>>
        BY <1>3 DEF OwnerLink, threads
      <2>2. QED
        BY <1>1, <2>1, ForestUnmoved
    <1>4. CASE \E t \in Threads : Announce(t)
      <2>1. UNCHANGED <<file, removed, admission, quiesced>>
        BY <1>4 DEF Announce, threads, driver, bounds
      <2>2. QED
        BY <1>1, <2>1, ForestUnmoved
    <1>5. CASE \E t \in Threads : Remove(t)
        BY <1>5, RemoveForest
    <1>6. CASE TakeCommand
        BY <1>6, TakeCommandForest
    <1>7. CASE TakeDiscovery
      <2>1. UNCHANGED <<file, removed, quiesced>> /\ ~quiesced /\ admission'.step = "begun"
        BY <1>7 DEF TakeDiscovery, threads, bounds, Begin
      <2>2. QED
        BY <2>1, ForestUnmoved
    <1>8. CASE AdmitClaim
      <2>1. admission.step = "begun"
        BY <1>8 DEF AdmitClaim
      <2>2. admission # NoAdmission /\ admission \in Flights
        BY <2>1, InFlight
      <2>3. UNCHANGED <<file, removed, quiesced>> /\ admission'.step = "claimed"
        BY <1>8, <2>2 DEF AdmitClaim, threads, bounds, Flights
      <2>4. QED
        BY <1>1, <2>2, <2>3, ForestUnmoved
    <1>9. CASE AdmitRead
        BY <1>9, ReadForest
    <1>10. CASE AdmitWrite
        BY <1>10, WriteForest
    <1>11. CASE AdmitRefused \/ AdmitFault
      <2>1. UNCHANGED <<file, removed, quiesced>> /\ admission' = NoAdmission
        BY <1>11 DEF AdmitRefused, AdmitFault, AdmissionFailed, threads, bounds
      <2>2. QED
        BY <2>1, ForestUnmoved DEF NoAdmission
    <1>12. CASE AdmitFinish
      <2>1. /\ UNCHANGED <<file, removed, quiesced>>
            /\ \/ AdmissionFailed
               \/ Wake(owner', file, deferred, NoAdmission, quiesced)
        BY <1>12 DEF AdmitFinish, bounds
      <2>2. NoAdmission.step = "idle"
        BY DEF NoAdmission
      <2>3. admission'.step \in {"idle", "begun"} /\ (quiesced => admission' = NoAdmission)
        BY <2>1, <2>2, WakeAdmits DEF AdmissionFailed
      <2>4. QED
        BY <2>1, <2>3, ForestUnmoved
    <1>13. CASE \E t \in Threads : OwnerDetached(t) \/ OwnerFails(t)
      <2>1. UNCHANGED <<file, removed, quiesced>> /\ Wake(owner', file, deferred, admission, quiesced)
        BY <1>13 DEF OwnerDetached, OwnerFails, bounds
      <2>2. /\ admission' = admission \/ admission'.step \in {"idle", "begun"}
            /\ quiesced => admission' = NoAdmission
        BY <1>1, <2>1, WakeAdmits
      <2>3. QED
        BY <2>1, <2>2, ForestUnmoved
    <1>14. CASE ShutdownFails \/ StopHarness \/ Exit \/ \E t \in Threads : Release(t)
      <2>1. UNCHANGED <<file, removed, admission, quiesced>>
        BY <1>14 DEF ShutdownFails, StopHarness, Exit, Release, DeletionSends, threads, driver, bounds
      <2>2. QED
        BY <1>1, <2>1, ForestUnmoved
    <1>15. CASE FilesGone
      <2>1. /\ teardown = "stopped" /\ file' = [t \in Threads |-> Absent]
            /\ UNCHANGED <<admission, quiesced>>
        BY <1>15 DEF FilesGone, driver
      <2>2. admission = NoAdmission
        BY <1>1, <2>1 DEF DriverInv, ProjectAsks
      <2>3. QED
        BY <2>1, <2>2 DEF ForestInv, Forest, Hanging, NoAdmission, Absent
    <1>16. CASE UNCHANGED vars
      <2>1. UNCHANGED <<file, removed, admission, quiesced>>
        BY <1>16 DEF vars, threads, driver, bounds
      <2>2. QED
        BY <1>1, <2>1, ForestUnmoved
    <1>17. QED
        BY <1>2, <1>3, <1>4, <1>5, <1>6, <1>7, <1>8, <1>9, <1>10, <1>11, <1>12, <1>13, <1>14,
           <1>15, <1>16 DEF Next, Admit

LEMMA ForestInvariant == Spec => []ForestInv
    <1>1. Init => ForestInv
      <2> SUFFICES ASSUME Init PROVE ForestInv
        OBVIOUS
      <2>1. admission = NoAdmission /\ \A t \in Threads : file[t] \in {PrimaryFile, Absent}
        BY DEF Init
      <2>2. QED
        BY <2>1 DEF ForestInv, Forest, Hanging, NoAdmission, PrimaryFile, Absent
    <1>2. DriverInv /\ ForestInv /\ [Next]_vars => ForestInv'
        BY NextForest
    <1>3. QED
        BY <1>1, <1>2, DriverInvariant, PTL DEF Spec

-----------------------------------------------------------------------------
(* What follows *)

\* Whatever discoveries, links, retries, owner exits and deletions race, the driver keeps
\* one deferred admission per native thread, parks and waits only behind an owner that is
\* detaching, and every sub-agent's chain of parents ends, at a thread the user started or
\* at a deleted one.
THEOREM DriverCorrect == Spec => []DriverIsSound
    <1>1. DriverInv /\ ForestInv => DriverIsSound
      <2> SUFFICES ASSUME DriverInv, ForestInv PROVE DriverIsSound
        OBVIOUS
      <2>1. \A a \in parked : a.thread \in Threads
        BY HeldThreads
      <2>2. admission = NoAdmission \/ admission.work \in Admissions
        BY DEF DriverInv, DriverType, AdmissionType, Flights
      <2>3. /\ \A i \in DOMAIN deferred : deferred[i] \in Admissions /\ deferred[i].by = None
            /\ \A i, j \in DOMAIN deferred : deferred[i].thread = deferred[j].thread => i = j
        BY DEF DriverInv, DriverType, DeferredType
      <2>4. TypeOK
        BY <2>1, <2>2, <2>3 DEF TypeOK, DriverInv, DriverType, ThreadsType, ParkedType, RestType
      <2>5. QED
        BY <2>4, ForestIs DEF DriverIsSound, ForestInv
    <1>2. QED
        BY <1>1, DriverInvariant, ForestInvariant, PTL

\* A sub-agent activity that nobody waits for is not lost: start_deferred drops it only
\* with its parent's file, and a failed admission puts it back.
THEOREM LinksCorrect == Spec => []OwedLinkIsHeld
    <1>1. DriverInv => OwedLinkIsHeld
      <2>1. ASSUME NEW t, KeepsLink(t) PROVE Holds(t)
        BY <2>1 DEF KeepsLink, OwnLink, Holds
      <2>2. QED
        BY <2>1 DEF DriverInv, OwedIsKept, OwedLinkIsHeld, Settled, Kinds
    <1>2. QED
        BY <1>1, DriverInvariant, PTL

\* Between admissions a live owner runs as the kind its thread's file records, and a
\* deleted project leaves no owner behind.
THEOREM OwnersCorrect == Spec => []OwnersMatchThreads
    <1>1. DriverInv => OwnersMatchThreads
      <2> SUFFICES ASSUME DriverInv PROVE OwnersMatchThreads
        OBVIOUS
      <2>1. GoneProjectIsUnowned
        BY DEF DriverInv, Releases
      <2>2. ASSUME NEW t \in Threads, owner[t] = "live", t \notin removed PROVE class[t] = file[t].kind
        BY <2>1, <2>2 DEF DriverInv, KindsAgree, Stays, GoneProjectIsUnowned
      <2>3. QED
        BY <2>1, <2>2 DEF OwnersMatchThreads, OwnerKnowsItsKind
    <1>2. QED
        BY <1>1, DriverInvariant, PTL

\* No caller of the driver is forgotten: one without an answer is in the channel, in
\* flight, parked behind a detach, or among those an owner that is detaching will answer.
THEOREM CallersCorrect == Spec => []CallerIsHeld
    <1>1. DriverInv => CallerIsHeld
        BY DEF DriverInv
    <1>2. QED
        BY <1>1, DriverInvariant, PTL

=============================================================================
