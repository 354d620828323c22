------------------------- MODULE ThreadDeletionProofs -------------------------
(***************************************************************************)
(* For every forest of threads, every number of requests and of faults: a   *)
(* fence stands exactly while a cascade works behind it (DeletionIsSound),  *)
(* files are removed leaf first (LeafFirst), and a cascade that reports no  *)
(* failure has deleted its plan (DoneMeansDeleted).                         *)
(***************************************************************************)
EXTENDS ThreadDeletion, FiniteSetTheorems, WellFoundedInduction, TLAPS

Req == [pc : Pcs, root : Threads \cup {None}, plan : Seq(Threads),
        retired : Nat, deleted : Nat]

Rec == [state : {"none", "running", "failed", "cancelled"},
        deleted : 0 .. Cardinality(Threads), cancel : BOOLEAN]

Removal == [state : {"none", "waiting", "working", "ok", "err"},
            thread : Threads \cup {None}]

Working == Reserving \cup Guarded
Holding == {"locked", "checked", "ending", "projectLocked", "projectStopped", "projectGone"}
           \cup Working

\* The types of all the variables, TypeOK's included.
Types == TypeOK /\ req \in [Requests -> Req]

\* The lifecycle lock is held by the request that is past it.
LockIsExclusive ==
    \A h \in Requests : lock = h <=> req[h].pc \in Holding

\* A request of a thread names it, and its record runs while it works on it.
RecordFollowsRequest ==
    \A h \in Requests :
       /\ req[h].pc \in Handling \cup Cascading => req[h].root \in Threads
       /\ req[h].pc \in Working => /\ record[req[h].root].state = "running"
                                   /\ record[req[h].root].deleted = req[h].deleted

\* The two counters of a request, and the bound of its plan.
Counted ==
    \A h \in Requests :
       /\ req[h].retired # 0 => req[h].pc \in Reserving
       /\ req[h].deleted # 0 => req[h].pc \in Cascading \cup {"ending"}
       /\ req[h].pc \in {"native", "removing"} => req[h].deleted < Len(req[h].plan)
       /\ Len(req[h].plan) =< Cardinality(Threads)

OpenerNamesThread == opener.pc # "idle" => opener.thread \in Threads

\* A removal works on a thread that was listed, and has taken it out of the listing
\* once it has begun.
RemovalUnlists ==
    \A h \in Requests : removal[h].state # "none" =>
       /\ removal[h].thread \in Threads /\ file[removal[h].thread] # "none"
       /\ removal[h].state \in {"working", "ok"} => file[removal[h].thread] # "listed"

\* What the cascade of h knows of its plan.
PlanOf(h) ==
    /\ LeafFirstOrder(req[h].plan)
    /\ req[h].plan # <<>> /\ req[h].plan[Len(req[h].plan)] = req[h].root
    /\ \A t \in Range(req[h].plan) : file[t] # "none"
    /\ \A i \in 1 .. req[h].deleted :
          \/ file[req[h].plan[i]] # "listed"
          \/ i = Len(req[h].plan) /\ removal[h].thread = req[h].plan[i]
    /\ req[h].pc = "removing" =>
          removal[h].state # "none" /\ removal[h].thread = req[h].plan[req[h].deleted + 1]

\* The plan is leaf first and ends with its root, and what counts as deleted is not
\* listed, but for a root whose removal is still running.
PlanIsWorkedOff == \A h \in Requests : req[h].pc \in Guarded => PlanOf(h)

\* The inductive invariant of the service: lock, requests, records and fences.
ServiceInv ==
    Types /\ LockIsExclusive /\ RecordFollowsRequest /\ Counted /\ OpenerNamesThread
    /\ FenceIsHeld

\* The inductive invariant of the files.
FileInv == RemovalUnlists /\ PlanIsWorkedOff

----------------------------------------------------------------------------
(* Plans.                                                                  *)

\* A parent is older than its children, so every finite set of threads can be put in
\* leaf-first order: the smallest set that cannot would have a member whose parent is
\* outside it, and that member can go last.
LEMMA LeafFirstExists ==
    ASSUME NEW S \in SUBSET Threads
    PROVE  \E s \in SetToSeqs(S) : LeafFirstOrder(s)
    <1> DEFINE Ordered(U) == \E s \in SetToSeqs(U) : LeafFirstOrder(s)
               Bad == {U \in SUBSET Threads : ~Ordered(U)}
    <1>1. SUFFICES ASSUME Bad # {} PROVE FALSE
        BY <1>1
    <1>2. IsWellFoundedOn(StrictSubsetOrdering(Threads), FiniteSubsetsOf(Threads))
        BY FS_StrictSubsetOrderingWellFounded
    <1>3. FiniteSubsetsOf(Threads) = SUBSET Threads
        BY FS_FiniteSubsetsOfFinite, ThreadDeletionAssumption
    <1>4. PICK U \in Bad : \A V \in Bad : ~(<<V, U>> \in StrictSubsetOrdering(Threads))
      <2>1. IsWellFoundedOn(StrictSubsetOrdering(Threads), SUBSET Threads)
        BY <1>2, <1>3
      <2>2. Bad \subseteq SUBSET Threads
        OBVIOUS
      <2> HIDE DEF Bad
      <2>3. QED
        BY <1>1, <2>1, <2>2, WFMin
    <1>5. IsFiniteSet(U) /\ Cardinality(U) \in Nat
        BY FS_Subset, FS_CardinalityType, ThreadDeletionAssumption
    <1>6. CASE U = {}
      <2>1. Cardinality(U) = 0
        BY <1>6, FS_EmptySet
      <2>2. <<>> \in SetToSeqs(U)
        BY <1>6, <2>1 DEF SetToSeqs
      <2>3. LeafFirstOrder(<<>>)
        BY DEF LeafFirstOrder
      <2>4. QED
        BY <2>2, <2>3
    <1>7. CASE U # {}
      <2>1. PICK t \in U : Parent[t] \notin U
        BY <1>7, ThreadDeletionAssumption
      <2> DEFINE V == U \ {t}
      <2>2. V \notin Bad
        BY <1>4, <2>1 DEF StrictSubsetOrdering
      <2>3. PICK s \in SetToSeqs(V) : LeafFirstOrder(s)
        BY <2>2
      <2>4. PICK n \in Nat : n = Cardinality(V) /\ Cardinality(U) = n + 1
        <3>1. Cardinality(V) = Cardinality(U) - 1 /\ IsFiniteSet(V)
          BY <1>5, <2>1, FS_RemoveElement
        <3>2. Cardinality(V) \in Nat
          BY <3>1, FS_CardinalityType
        <3>3. QED
          BY <1>5, <3>1, <3>2
      <2>5. s \in [1 .. n -> V] /\ \A i, j \in 1 .. n : i # j => s[i] # s[j]
        BY <2>3, <2>4 DEF SetToSeqs
      <2> DEFINE z == [i \in 1 .. n + 1 |-> IF i = n + 1 THEN t ELSE s[i]]
      <2>6. z \in SetToSeqs(U)
        <3>0. \A i \in 1 .. n + 1 : i # n + 1 => i \in 1 .. n
          BY <2>4
        <3>1. z \in [1 .. n + 1 -> U]
          BY <2>4, <2>5, <3>0
        <3>2. \A i, j \in 1 .. n + 1 : i # j => z[i] # z[j]
          BY <2>4, <2>5, <3>0
        <3>3. QED
          BY <2>4, <3>1, <3>2 DEF SetToSeqs
      <2>7. LeafFirstOrder(z)
        <3> SUFFICES ASSUME NEW i \in 1 .. n + 1, NEW j \in 1 .. n + 1, Parent[z[i]] = z[j]
                     PROVE  i < j
          BY DEF LeafFirstOrder
        <3>0. \A k \in 1 .. n + 1 : k # n + 1 => k \in 1 .. n
          BY <2>4
        <3>1. CASE i = n + 1
          BY <2>1, <2>4, <2>5, <3>0, <3>1
        <3>2. CASE i # n + 1 /\ j = n + 1
          BY <2>4, <3>2
        <3>3. CASE i # n + 1 /\ j # n + 1
          <4>1. i \in DOMAIN s /\ j \in DOMAIN s /\ Parent[s[i]] = s[j]
            BY <2>4, <2>5, <3>0, <3>3
          <4>2. QED
            BY <2>3, <4>1 DEF LeafFirstOrder
        <3>4. QED
          BY <3>1, <3>2, <3>3
      <2>8. QED
        BY <2>6, <2>7
    <1>8. QED
        BY <1>6, <1>7

\* The subtree of a root is made of listed threads, and of the root and the children
\* of its own members only.
LEMMA SubtreeFacts ==
    ASSUME Types, NEW root \in Threads
    PROVE  /\ Subtree(root) \subseteq Threads
           /\ \A t \in Subtree(root) : file[t] = "listed"
           /\ Subtree(root) # {} => root \in Subtree(root)
           /\ \A t \in Subtree(root) : t # root => Parent[t] \in Subtree(root)
    <1>1. Subtree(root) \subseteq Threads
        BY DEF Subtree
    <1>2. \A t \in Subtree(root) : file[t] = "listed"
      <2> DEFINE S == {t \in Threads : file[t] = "listed"}
      <2>1. HoldsSubtree(root, S)
        BY DEF HoldsSubtree, Listed
      <2>2. QED
        BY <2>1 DEF Subtree
    <1>3. Subtree(root) # {} => root \in Subtree(root)
      <2>1. CASE Listed(root)
        BY <2>1 DEF Subtree, HoldsSubtree
      <2>2. CASE ~Listed(root)
        <3>1. HoldsSubtree(root, {})
          BY <2>2 DEF HoldsSubtree
        <3>2. QED
          BY <3>1 DEF Subtree
      <2>3. QED
        BY <2>1, <2>2
    <1>4. HoldsSubtree(root, Subtree(root))
      <2>1. ASSUME NEW t \in Threads, Listed(t), Parent[t] \in Subtree(root)
            PROVE  t \in Subtree(root)
        <3> SUFFICES ASSUME NEW S \in SUBSET Threads, HoldsSubtree(root, S)
                     PROVE  t \in S
          BY DEF Subtree
        <3>1. Parent[t] \in S
          BY <2>1 DEF Subtree
        <3>2. QED
          BY <2>1, <3>1 DEF HoldsSubtree
      <2>2. Listed(root) => root \in Subtree(root)
        BY DEF Subtree, HoldsSubtree
      <2>3. QED
        BY <2>1, <2>2 DEF HoldsSubtree
    <1>5. ASSUME NEW t \in Subtree(root), t # root, Parent[t] \notin Subtree(root)
          PROVE  FALSE
      <2> DEFINE S == Subtree(root) \ {t}
      <2>1. HoldsSubtree(root, S)
        BY <1>4, <1>5 DEF HoldsSubtree
      <2>2. S \in SUBSET Threads
        BY <1>1
      <2>3. t \in S
        BY <2>1, <2>2, <1>5 DEF Subtree
      <2>4. QED
        BY <2>3
    <1>6. QED
        BY <1>1, <1>2, <1>3, <1>5

\* The deletion order of a root: a leaf-first plan of listed threads that ends with
\* the root.
LEMMA OrderFacts ==
    ASSUME Types, NEW root \in Threads
    PROVE  LET s == descendant_deletion_order(root)
           IN  /\ s \in Seq(Threads) /\ IsInjective(s) /\ LeafFirstOrder(s)
               /\ Len(s) =< Cardinality(Threads)
               /\ \A t \in Range(s) : file[t] = "listed"
               /\ s # <<>> => s[Len(s)] = root
    <1> DEFINE S == Subtree(root)
               s == descendant_deletion_order(root)
    <1>1. S \in SUBSET Threads
        BY SubtreeFacts
    <1>2. s \in SetToSeqs(S) /\ LeafFirstOrder(s)
      <2>1. \E x \in SetToSeqs(S) : LeafFirstOrder(x)
        BY <1>1, LeafFirstExists
      <2>2. QED
        BY <2>1 DEF descendant_deletion_order
    <1> HIDE DEF s
    <1>3. PICK n \in Nat : n = Cardinality(S) /\ n =< Cardinality(Threads) /\ IsFiniteSet(S)
        BY <1>1, FS_Subset, FS_CardinalityType, ThreadDeletionAssumption
    <1>4. s \in [1 .. n -> S] /\ \A i, j \in 1 .. n : i # j => s[i] # s[j]
        BY <1>2, <1>3 DEF SetToSeqs
    <1>5. s \in Seq(Threads) /\ Len(s) = n /\ DOMAIN s = 1 .. n
        BY <1>1, <1>4
    <1>6. IsInjective(s)
        BY <1>4, <1>5 DEF IsInjective
    <1>7. \A t \in Range(s) : t \in S
        BY <1>4, <1>5 DEF Range
    <1>8. \A t \in Range(s) : file[t] = "listed"
        BY <1>7, SubtreeFacts
    <1>9. ASSUME s # <<>> PROVE s[Len(s)] = root
      <2>1. n # 0 /\ s[n] \in S
        BY <1>4, <1>5, <1>9
      <2>2. s \in Injection(1 .. n, S)
        BY <1>4 DEF Injection, IsInjective
      <2>3. Cardinality(1 .. n) = n
        BY FS_Interval
      <2>4. s \in Surjection(1 .. n, S)
        BY <1>3, <2>2, <2>3, FS_Injection
      <2>5. ASSUME s[n] # root PROVE FALSE
        <3>1. Parent[s[n]] \in S
          BY <2>1, <2>5, SubtreeFacts
        <3>2. PICK j \in 1 .. n : s[j] = Parent[s[n]]
          BY <2>4, <3>1 DEF Surjection
        <3>3. n < j
          BY <1>2, <1>5, <2>1, <3>2 DEF LeafFirstOrder
        <3>4. QED
          BY <3>2, <3>3
      <2>6. QED
        BY <1>5, <2>5
    <1>10. QED
        BY <1>2, <1>3, <1>5, <1>6, <1>8, <1>9 DEF s

----------------------------------------------------------------------------
(* What the updates of the model do.                                       *)

\* The request h moves to a state, and no other request moves.
Placed(h, pc, root, plan, retired, deleted) ==
    /\ req' \in [Requests -> Req]
    /\ \A k \in Requests : k # h => req'[k] = req[k]
    /\ req'[h].pc = pc /\ req'[h].root = root /\ req'[h].plan = plan
    /\ req'[h].retired = retired /\ req'[h].deleted = deleted

\* The record of a root changes, and no other does.
Recorded(r, new) ==
    /\ record' \in [Threads -> Rec] /\ record'[r] = new
    /\ \A x \in Threads : x # r => record'[x] = record[x]

\* Goto changes where a request is and nothing else.
LEMMA GotoEffect ==
    ASSUME Types, NEW h \in Requests, NEW pc \in Pcs, Goto(h, pc)
    PROVE  Placed(h, pc, req[h].root, req[h].plan, req[h].retired, req[h].deleted)
    <1> DEFINE new == [req[h] EXCEPT !.pc = pc]
    <1>1. req[h] \in Req /\ req \in [Requests -> Req]
        BY DEF Types
    <1>2. /\ new \in Req /\ new.pc = pc /\ new.root = req[h].root /\ new.plan = req[h].plan
          /\ new.retired = req[h].retired /\ new.deleted = req[h].deleted
        BY <1>1 DEF Req
    <1>3. req' = [req EXCEPT ![h] = new]
        BY <1>1 DEF Goto
    <1> HIDE DEF new
    <1>4. QED
        BY <1>1, <1>2, <1>3 DEF Placed

\* A request that is over has let go of everything it knew.
LEMMA OverEffect ==
    ASSUME Types, NEW h \in Requests, Over(h)
    PROVE  Placed(h, "over", None, <<>>, 0, 0)
    <1> DEFINE new == [New EXCEPT !.pc = "over"]
    <1>0. <<>> \in Seq(Threads)
        OBVIOUS
    <1>1. /\ new \in Req /\ new.pc = "over" /\ new.root = None /\ new.plan = <<>>
          /\ new.retired = 0 /\ new.deleted = 0
        BY <1>0 DEF New, Req, Pcs
    <1>2. req' = [req EXCEPT ![h] = new] /\ req \in [Requests -> Req]
        BY DEF Over, Types
    <1> HIDE DEF new
    <1>3. QED
        BY <1>1, <1>2 DEF Placed

\* A record that is replaced as a whole.
LEMMA RecordEffect ==
    ASSUME Types, NEW r \in Threads, NEW new \in Rec, record' = [record EXCEPT ![r] = new]
    PROVE  Recorded(r, new)
    BY DEF Types, TypeOK, Rec, Recorded

\* The empty record and the record of a fresh reservation.
LEMMA RecordTypes ==
    /\ NoRecord \in Rec /\ NoRecord.state = "none" /\ NoRecord.deleted = 0
    /\ [NoRecord EXCEPT !.state = "running"] \in Rec
    /\ [NoRecord EXCEPT !.state = "running"].state = "running"
    /\ [NoRecord EXCEPT !.state = "running"].deleted = 0
    <1>1. Cardinality(Threads) \in Nat
        BY FS_CardinalityType, ThreadDeletionAssumption
    <1>2. NoRecord \in Rec /\ NoRecord.state = "none" /\ NoRecord.deleted = 0
        BY <1>1 DEF NoRecord, Rec
    <1>3. QED
        BY <1>2 DEF Rec

\* The record and the fence after a RunGuard is dropped.
LEMMA DropRunGuardEffect ==
    ASSUME Types, NEW h \in Requests, req[h].root \in Threads, DropRunGuard(h)
    PROVE  \E new \in Rec : Recorded(req[h].root, new) /\ new.state # "running"
    <1> DEFINE r == req[h].root
               st == IF record[r].state = "none" THEN "none" ELSE "failed"
               new == [record[r] EXCEPT !.state = st]
    <1>1. record[r] \in Rec /\ record \in [Threads -> Rec]
        BY DEF Types, TypeOK, Rec
    <1>2. new \in Rec /\ new.state # "running"
        BY <1>1 DEF Rec
    <1>3. record' = [record EXCEPT ![r] = new]
        BY <1>1 DEF DropRunGuard
    <1> HIDE DEF new
    <1>4. QED
        BY <1>2, <1>3, RecordEffect

\* The record, the fence and the request after finish.
LEMMA FinishEffect ==
    ASSUME Types, NEW h \in Requests, req[h].root \in Threads,
           NEW state \in {"done", "failed", "cancelled"},
           NEW deleted \in 0 .. Cardinality(Threads), finish(h, state, deleted)
    PROVE  /\ Placed(h, "ending", req[h].root, req[h].plan, req[h].retired, deleted)
           /\ members' = Released(req[h].root)
           /\ \E new \in Rec :
                /\ Recorded(req[h].root, new) /\ new.state # "running"
                /\ record[req[h].root].state # "none" /\ state # "done" =>
                      new.state = state
    <1>0. Cardinality(Threads) \in Nat
        BY FS_CardinalityType, ThreadDeletionAssumption
    <1>1. Placed(h, "ending", req[h].root, req[h].plan, req[h].retired, deleted)
      <2> DEFINE mid == [req[h] EXCEPT !.pc = "ending"]
                 new == [mid EXCEPT !.deleted = deleted]
      <2>1. req[h] \in Req /\ req \in [Requests -> Req]
        BY DEF Types
      <2>2. /\ mid \in Req /\ mid.pc = "ending" /\ mid.root = req[h].root
            /\ mid.plan = req[h].plan /\ mid.retired = req[h].retired
        BY <2>1 DEF Req, Pcs
      <2>3. req' = [req EXCEPT ![h] = new]
        BY <2>1 DEF finish
      <2> HIDE DEF mid
      <2>4. /\ new \in Req /\ new.pc = "ending" /\ new.root = req[h].root
            /\ new.plan = req[h].plan /\ new.retired = req[h].retired /\ new.deleted = deleted
        BY <1>0, <2>2 DEF Req
      <2> HIDE DEF new
      <2>5. QED
        BY <2>1, <2>3, <2>4 DEF Placed
    <1>2. \E new \in Rec :
             /\ Recorded(req[h].root, new) /\ new.state # "running"
             /\ record[req[h].root].state # "none" /\ state # "done" => new.state = state
      <2> DEFINE r == req[h].root
                 mid == [record[r] EXCEPT !.state = state]
                 fin == [mid EXCEPT !.deleted = deleted]
                 new == IF record[r].state = "none" \/ state = "done" THEN NoRecord ELSE fin
      <2>1. record[r] \in Rec /\ record \in [Threads -> Rec]
        BY DEF Types, TypeOK, Rec
      <2>2. record' = [record EXCEPT ![r] = new]
        BY <2>1 DEF finish
      <2>3. CASE record[r].state = "none" \/ state = "done"
        <3>1. new = NoRecord
          BY <2>3
        <3> HIDE DEF new
        <3>2. QED
          BY <2>2, <2>3, <3>1, RecordTypes, RecordEffect
      <2>4. CASE ~(record[r].state = "none" \/ state = "done")
        <3>1. new = fin
          BY <2>4
        <3>2. mid \in Rec /\ mid.state = state
          BY <2>1, <2>4 DEF Rec
        <3> HIDE DEF mid
        <3>3. fin \in Rec /\ fin.state = state
          BY <3>2 DEF Rec
        <3> HIDE DEF new, fin
        <3>4. QED
          BY <2>2, <2>4, <3>1, <3>3, RecordEffect
      <2>5. QED
        BY <2>3, <2>4
    <1>3. QED
        BY <1>1, <1>2 DEF finish

\* Releasing a root gives back the threads it has fenced, and claiming adds some.
LEMMA FenceEffect ==
    ASSUME Types, NEW root \in Threads
    PROVE  /\ Released(root) \in [Threads -> Threads \cup {None}]
           /\ \A t \in Threads : Released(root)[t] = None
                                 \/ (Released(root)[t] = members[t] /\ members[t] # root)
           /\ \A s : /\ Claimed(root, s) \in [Threads -> Threads \cup {None}]
                     /\ \A t \in Threads : /\ t \in Range(s) => Claimed(root, s)[t] = root
                                           /\ t \notin Range(s) => Claimed(root, s)[t] = members[t]
    BY DEF Types, TypeOK, Released, Claimed

----------------------------------------------------------------------------
(* The service: lock, requests, records and fences.                        *)

\* While a request holds the lock no other does, only its root has a running record,
\* and only its root fences threads.
LEMMA HolderAlone ==
    ASSUME ServiceInv, NEW h \in Requests, req[h].pc \in Holding
    PROVE  /\ lock = h
           /\ \A k \in Requests : k # h => req[k].pc \notin Holding
           /\ \A r \in Threads : record[r].state = "running" =>
                 r = req[h].root /\ req[h].pc \in Working
           /\ \A t \in Threads : members[t] # None =>
                 members[t] = req[h].root /\ req[h].pc \in Working
    <1>1. lock = h
        BY DEF ServiceInv, LockIsExclusive
    <1>2. \A k \in Requests : k # h => req[k].pc \notin Holding
        BY <1>1 DEF ServiceInv, LockIsExclusive
    <1>3. \A r \in Threads : record[r].state = "running" =>
             r = req[h].root /\ req[h].pc \in Working
        BY <1>1 DEF ServiceInv, FenceIsHeld, Working
    <1>4. \A t \in Threads : members[t] # None =>
             members[t] = req[h].root /\ req[h].pc \in Working
        BY <1>3 DEF ServiceInv, FenceIsHeld, Types, TypeOK
    <1>5. QED
        BY <1>1, <1>2, <1>3, <1>4

\* A step of the holder of the lock keeps the service's invariant when it keeps its
\* own part of it.
LEMMA HolderStep ==
    ASSUME ServiceInv, NEW h \in Requests, req[h].pc \in Holding, Types', OpenerNamesThread',
           \A k \in Requests : k # h => req'[k] = req[k],
           lock' = (IF req'[h].pc \in Holding THEN h ELSE None),
           req'[h].pc \in Handling \cup Cascading => req'[h].root \in Threads,
           /\ req'[h].retired # 0 => req'[h].pc \in Reserving
           /\ req'[h].deleted # 0 => req'[h].pc \in Cascading \cup {"ending"}
           /\ req'[h].pc \in {"native", "removing"} => req'[h].deleted < Len(req'[h].plan)
           /\ Len(req'[h].plan) =< Cardinality(Threads),
           \A r \in Threads : record'[r].state = "running" =>
              r = req'[h].root /\ req'[h].pc \in Working,
           \A t \in Threads : members'[t] # None =>
              members'[t] = req'[h].root /\ req'[h].pc \in Working,
           req'[h].pc \in Working =>
              /\ record'[req'[h].root].state = "running"
              /\ record'[req'[h].root].deleted = req'[h].deleted,
           req'[h].pc \in Guarded =>
              \A t \in Range(req'[h].plan) : members'[t] = req'[h].root
    PROVE  ServiceInv'
    <1>1. lock = h /\ \A k \in Requests : k # h => req[k].pc \notin Holding
        BY HolderAlone
    <1>2. LockIsExclusive'
        BY <1>1, ThreadDeletionAssumption DEF LockIsExclusive
    <1>3. \A x : x \in Working => x \in Holding
        BY DEF Holding
    <1>4. RecordFollowsRequest'
        BY <1>1, <1>3 DEF RecordFollowsRequest, ServiceInv
    <1>5. Counted'
        BY DEF Counted, ServiceInv
    <1>6. FenceIsHeld'
      <2>1. \A r \in Threads : record'[r].state = "running" =>
               \E k \in Requests : /\ lock' = k /\ req'[k].root = r
                                   /\ req'[k].pc \in Reserving \cup Guarded
        BY <1>3 DEF Working
      <2>2. \A t \in Threads : members'[t] # None => record'[members'[t]].state = "running"
        OBVIOUS
      <2>3. \A k \in Requests : req'[k].pc \in Guarded =>
               \A t \in Range(req'[k].plan) : members'[t] = req'[k].root
        BY <1>1, <1>3 DEF Working
      <2>4. QED
        BY <2>1, <2>2, <2>3 DEF FenceIsHeld
    <1>7. QED
        BY <1>2, <1>4, <1>5, <1>6 DEF ServiceInv

\* A step of a request outside the lock, which touches neither lock nor service.
LEMMA OutsideStep ==
    ASSUME ServiceInv, NEW h \in Requests, req[h].pc \notin Holding, Types',
           OpenerNamesThread', UNCHANGED <<lock, record, members>>,
           \A k \in Requests : k # h => req'[k] = req[k],
           req'[h].pc \notin Holding,
           req'[h].pc \in Handling \cup Cascading => req'[h].root \in Threads,
           /\ req'[h].retired = 0 /\ req'[h].deleted = 0
           /\ Len(req'[h].plan) =< Cardinality(Threads)
    PROVE  ServiceInv'
    <1>1. lock # h
        BY DEF ServiceInv, LockIsExclusive
    <1>2. LockIsExclusive'
        BY <1>1 DEF LockIsExclusive, ServiceInv
    <1>3. \A x : x \in Working \cup {"native", "removing"} => x \in Holding
        BY DEF Holding, Working, Guarded, Cascading
    <1>4. RecordFollowsRequest'
        BY <1>3 DEF RecordFollowsRequest, ServiceInv
    <1>5. Counted'
        BY <1>3 DEF Counted, ServiceInv
    <1>6. FenceIsHeld'
      <2>1. \A r \in Threads : record'[r].state = "running" =>
               \E k \in Requests : /\ lock' = k /\ req'[k].root = r
                                   /\ req'[k].pc \in Reserving \cup Guarded
        BY <1>1 DEF ServiceInv, FenceIsHeld
      <2>2. \A t \in Threads : members'[t] # None => record'[members'[t]].state = "running"
        BY DEF ServiceInv, FenceIsHeld
      <2>3. \A k \in Requests : req'[k].pc \in Guarded =>
               \A t \in Range(req'[k].plan) : members'[t] = req'[k].root
        BY <1>3 DEF Working, ServiceInv, FenceIsHeld
      <2>4. QED
        BY <2>1, <2>2, <2>3 DEF FenceIsHeld
    <1>7. QED
        BY <1>2, <1>4, <1>5, <1>6 DEF ServiceInv

\* A step that moves no request, record or fence.
LEMMA ServiceQuiet ==
    ASSUME ServiceInv, Types', OpenerNamesThread', UNCHANGED <<lock, req, record, members>>
    PROVE  ServiceInv'
    BY DEF ServiceInv, LockIsExclusive, RecordFollowsRequest, Counted, FenceIsHeld

\* TypeOK of what the requests know.
ReqTyped ==
    /\ req \in [Requests -> Req]
    /\ \A k \in Requests :
         /\ req[k].pc \in Pcs
         /\ req[k].root \in Threads \cup {None}
         /\ req[k].plan \in Seq(Threads) /\ IsInjective(req[k].plan)
         /\ {req[k].retired, req[k].deleted} \subseteq 0 .. Len(req[k].plan)

\* A request that moves to a well-formed state leaves the requests well-formed.
LEMMA RequestTypes ==
    ASSUME Types, NEW h \in Requests,
           NEW pc, NEW root, NEW plan, NEW retired, NEW deleted,
           Placed(h, pc, root, plan, retired, deleted), pc \in Pcs,
           plan \in Seq(Threads), IsInjective(plan),
           retired \in 0 .. Len(plan), deleted \in 0 .. Len(plan)
    PROVE  ReqTyped'
    <1>1. req' \in [Requests -> Req] /\ \A k \in Requests : req'[k] \in Req
        BY DEF Placed
    <1>2. ASSUME NEW k \in Requests
          PROVE  IsInjective(req'[k].plan)
                 /\ {req'[k].retired, req'[k].deleted} \subseteq 0 .. Len(req'[k].plan)
      <2>1. CASE k = h
        BY <2>1 DEF Placed
      <2>2. CASE k # h
        <3>1. req'[k] = req[k]
          BY <2>2 DEF Placed
        <3>2. QED
          BY <3>1 DEF Types, TypeOK
      <2>3. QED
        BY <2>1, <2>2
    <1>3. \A k \in Requests : /\ req'[k].pc \in Pcs
                              /\ req'[k].root \in Threads \cup {None}
                              /\ req'[k].plan \in Seq(Threads)
        BY <1>1 DEF Req
    <1>4. QED
        BY <1>1, <1>2, <1>3 DEF ReqTyped

\* The types after a step of the service.
LEMMA ServiceTypes ==
    ASSUME ServiceInv, ReqTyped', record' \in [Threads -> Rec],
           members' \in [Threads -> Threads \cup {None}], lock' \in Requests \cup {None},
           UNCHANGED <<file, sessions, removal, stopping>>
    PROVE  Types' /\ OpenerNamesThread'
    BY DEF ServiceInv, Types, TypeOK, ReqTyped, sessions, OpenerNamesThread, Rec

\* The empty plan.
LEMMA EmptyPlan == <<>> \in Seq(Threads) /\ IsInjective(<<>>) /\ Len(<<>>) = 0
                   /\ Len(<<>>) =< Cardinality(Threads) /\ 0 \in 0 .. Len(<<>>)
    <1>1. Cardinality(Threads) \in Nat
        BY FS_CardinalityType, ThreadDeletionAssumption
    <1>2. <<>> \in Seq(Threads)
        OBVIOUS
    <1>3. QED
        BY <1>1, <1>2 DEF IsInjective

\* Goto moves a holder within the lock, without touching the service.
LEMMA GotoStep ==
    ASSUME ServiceInv, NEW h \in Requests, NEW pc \in Pcs, Goto(h, pc),
           req[h].pc \in Holding, pc \in Holding,
           pc \in Working <=> req[h].pc \in Working,
           pc \in Handling \cup Cascading => req[h].root \in Threads,
           req[h].retired # 0 => pc \in Reserving,
           req[h].deleted # 0 => pc \in Cascading \cup {"ending"},
           pc \in {"native", "removing"} => req[h].deleted < Len(req[h].plan),
           pc \in Guarded => req[h].pc \in Guarded,
           Types', OpenerNamesThread', UNCHANGED <<record, members, lock>>
    PROVE  ServiceInv'
    <1>1. Placed(h, pc, req[h].root, req[h].plan, req[h].retired, req[h].deleted)
        BY GotoEffect DEF ServiceInv
    <1>2. /\ lock = h
          /\ \A r \in Threads : record[r].state = "running" =>
                r = req[h].root /\ req[h].pc \in Working
          /\ \A t \in Threads : members[t] # None =>
                members[t] = req[h].root /\ req[h].pc \in Working
        BY HolderAlone
    <1>3. Len(req[h].plan) =< Cardinality(Threads)
        BY DEF ServiceInv, Counted
    <1>4. req[h].pc \in Working =>
             /\ record[req[h].root].state = "running"
             /\ record[req[h].root].deleted = req[h].deleted
        BY DEF ServiceInv, RecordFollowsRequest
    <1>5. req[h].pc \in Guarded => \A t \in Range(req[h].plan) : members[t] = req[h].root
        BY DEF ServiceInv, FenceIsHeld
    <1>6. QED
        BY <1>1, <1>2, <1>3, <1>4, <1>5, HolderStep DEF Placed

\* The types after a move that only changes where a request is.
LEMMA GotoTypes ==
    ASSUME ServiceInv, NEW h \in Requests, NEW pc \in Pcs, Goto(h, pc)
    PROVE  ReqTyped'
    <1>1. Placed(h, pc, req[h].root, req[h].plan, req[h].retired, req[h].deleted)
        BY GotoEffect DEF ServiceInv
    <1>2. /\ req[h].plan \in Seq(Threads) /\ IsInjective(req[h].plan)
          /\ req[h].retired \in 0 .. Len(req[h].plan)
          /\ req[h].deleted \in 0 .. Len(req[h].plan)
        BY DEF ServiceInv, Types, TypeOK
    <1>3. QED
        BY <1>1, <1>2, RequestTypes DEF ServiceInv

\* The types after a request that is over.
LEMMA OverTypes ==
    ASSUME ServiceInv, NEW h \in Requests, Over(h)
    PROVE  ReqTyped' /\ Placed(h, "over", None, <<>>, 0, 0)
    <1>1. Placed(h, "over", None, <<>>, 0, 0)
        BY OverEffect DEF ServiceInv
    <1>2. "over" \in Pcs /\ 0 \in 0 .. Len(<<>>)
        BY DEF Pcs
    <1>3. Types /\ <<>> \in Seq(Threads) /\ IsInjective(<<>>)
        BY EmptyPlan DEF ServiceInv
    <1>4. QED
        BY <1>1, <1>2, <1>3, RequestTypes

\* The handler lets go: the lock, if it holds it, its reservation or its guard.
LEMMA DropHandlerStep ==
    ASSUME ServiceInv, NEW h \in Requests, req[h].pc \in Handling \cup Removing,
           DropHandler(h)
    PROVE  ServiceInv'
    <1>1. Placed(h, "over", None, <<>>, 0, 0)
        BY OverTypes DEF DropHandler
    <1>2. ReqTyped'
        BY OverTypes DEF DropHandler
    <1>3. "over" \notin Holding \cup Handling \cup Cascading \cup Working \cup Guarded
          /\ "over" \notin {"native", "removing"}
        BY DEF Holding, Working, Guarded, Reserving, Handling, Cascading
    <1>4. Types /\ record \in [Threads -> Rec] /\ members \in [Threads -> Threads \cup {None}]
          /\ lock \in Requests \cup {None}
        BY DEF ServiceInv, Types, TypeOK, Rec
    <1>5. lock' = (IF lock = h THEN None ELSE lock) /\ lock' \in Requests \cup {None}
          /\ UNCHANGED <<file, sessions, removal, stopping>>
        BY <1>4 DEF DropHandler
    <1>6. CASE req[h].pc \notin Holding
      <2>1. ~At(h, "starting") /\ req[h].pc \notin Reserving
        BY <1>6 DEF At, Holding, Working, Guarded
      <2>2. UNCHANGED <<record, members>>
        BY <2>1 DEF DropHandler, service
      <2>3. lock # h
        BY <1>6 DEF ServiceInv, LockIsExclusive
      <2>4. Types' /\ OpenerNamesThread'
        BY <1>2, <1>4, <1>5, <2>2, ServiceTypes
      <2>5. QED
        BY <1>1, <1>3, <1>5, <1>6, <2>2, <2>3, <2>4, EmptyPlan, OutsideStep DEF Placed
    <1>7. CASE req[h].pc \in Holding
      <2>1. /\ lock = h
            /\ \A r \in Threads : record[r].state = "running" =>
                 r = req[h].root /\ req[h].pc \in Working
            /\ \A t \in Threads : members[t] # None =>
                 members[t] = req[h].root /\ req[h].pc \in Working
        BY <1>7, HolderAlone
      <2>2. /\ record' \in [Threads -> Rec] /\ members' \in [Threads -> Threads \cup {None}]
            /\ \A r \in Threads : record'[r].state # "running"
            /\ \A t \in Threads : members'[t] = None
        <3>1. CASE At(h, "starting")
          <4>1. req[h].root \in Threads
            BY <3>1 DEF ServiceInv, RecordFollowsRequest, At, Handling
          <4>2. DropRunGuard(h) /\ members' = Released(req[h].root)
            BY <3>1 DEF DropHandler, DropRunGuard
          <4>3. PICK new \in Rec : Recorded(req[h].root, new) /\ new.state # "running"
            BY <1>4, <4>1, <4>2, DropRunGuardEffect
          <4>4. QED
            BY <1>4, <2>1, <4>1, <4>2, <4>3, FenceEffect DEF Recorded
        <3>2. CASE ~At(h, "starting") /\ req[h].pc \in Reserving
          <4>1. req[h].root \in Threads
            BY <3>2 DEF ServiceInv, RecordFollowsRequest, Handling
          <4>2. members' = Released(req[h].root)
                /\ record' = [record EXCEPT ![req[h].root] = NoRecord]
            BY <3>2 DEF DropHandler
          <4>3. Recorded(req[h].root, NoRecord)
            BY <1>4, <4>1, <4>2, RecordTypes, RecordEffect
          <4>4. QED
            BY <1>4, <2>1, <4>1, <4>2, <4>3, FenceEffect, RecordTypes DEF Recorded
        <3>3. CASE ~At(h, "starting") /\ req[h].pc \notin Reserving
          <4>1. req[h].pc \notin Working
            BY <3>3 DEF Working, Guarded, At, Cascading, Handling, Reserving, Removing
          <4>2. UNCHANGED <<record, members>>
            BY <3>3 DEF DropHandler, service
          <4>3. QED
            BY <1>4, <2>1, <4>1, <4>2
        <3>4. QED
          BY <3>1, <3>2, <3>3
      <2>3. Types' /\ OpenerNamesThread'
        BY <1>2, <1>5, <2>2, ServiceTypes
      <2>4. QED
        BY <1>1, <1>3, <1>5, <1>7, <2>1, <2>2, <2>3, EmptyPlan, HolderStep DEF Placed
    <1>8. QED
        BY <1>6, <1>7

\* A DELETE of a thread passes the first look at the service.
LEMMA RequestStep ==
    ASSUME ServiceInv, NEW h \in Requests, NEW r \in Primaries, Request(h, r)
    PROVE  ServiceInv'
    <1> DEFINE mid == [req[h] EXCEPT !.pc = "waiting"]
               new == [mid EXCEPT !.root = r]
    <1>0. r \in Threads
        BY DEF Primaries
    <1>1. req[h] \in Req /\ req \in [Requests -> Req] /\ Types
          /\ record \in [Threads -> Rec] /\ members \in [Threads -> Threads \cup {None}]
          /\ lock \in Requests \cup {None}
        BY DEF ServiceInv, Types, TypeOK, Rec
    <1>2. req' = [req EXCEPT ![h] = new]
        BY <1>1 DEF Request
    <1>3. /\ mid \in Req /\ mid.pc = "waiting" /\ mid.plan = req[h].plan
          /\ mid.retired = req[h].retired /\ mid.deleted = req[h].deleted
        BY <1>1 DEF Req, Pcs, Handling
    <1> HIDE DEF mid
    <1>4. /\ new \in Req /\ new.pc = "waiting" /\ new.root = r /\ new.plan = req[h].plan
          /\ new.retired = req[h].retired /\ new.deleted = req[h].deleted
        BY <1>0, <1>3 DEF Req
    <1> HIDE DEF new
    <1>5. Placed(h, "waiting", r, req[h].plan, req[h].retired, req[h].deleted)
        BY <1>1, <1>2, <1>4 DEF Placed
    <1>6. req[h].pc = "new" /\ UNCHANGED <<file, sessions, record, members, lock, removal, stopping>>
        BY DEF Request, At, service
    <1>7. /\ "new" \notin Holding \cup Reserving \cup Cascading \cup {"ending"}
          /\ "waiting" \notin Holding /\ "waiting" \in Pcs
        BY DEF Holding, Working, Guarded, Reserving, Cascading, Pcs, Handling
    <1>8. req[h].retired = 0 /\ req[h].deleted = 0 /\ Len(req[h].plan) =< Cardinality(Threads)
        BY <1>6, <1>7 DEF ServiceInv, Counted
    <1>9. /\ req[h].plan \in Seq(Threads) /\ IsInjective(req[h].plan)
          /\ req[h].retired \in 0 .. Len(req[h].plan)
          /\ req[h].deleted \in 0 .. Len(req[h].plan)
        BY DEF ServiceInv, Types, TypeOK
    <1>10. ReqTyped'
        BY <1>1, <1>5, <1>7, <1>9, RequestTypes
    <1>11. Types' /\ OpenerNamesThread'
        BY <1>1, <1>6, <1>10, ServiceTypes
    <1>12. QED
        BY <1>0, <1>5, <1>6, <1>7, <1>8, <1>11, OutsideStep DEF Placed

\* A handler, of a thread or of the project, takes the free lock.
LEMMA AcquireStep ==
    ASSUME ServiceInv, NEW h \in Requests, NEW pc, Goto(h, pc), lock = None, lock' = h,
           \/ req[h].pc = "waiting" /\ pc = "locked"
           \/ req[h].pc = "projectWaiting" /\ pc = "projectLocked",
           UNCHANGED <<file, sessions, record, members, removal, stopping>>
    PROVE  ServiceInv'
    <1>0. /\ pc \in Pcs /\ pc \in Holding \ Working /\ req[h].pc \notin Holding
          /\ pc \notin {"native", "removing", "ending"} \cup Cascading \cup Reserving \cup Guarded
          /\ req[h].pc \notin Cascading \cup {"ending"} \cup Reserving
          /\ pc \in Handling \cup Cascading => req[h].pc \in Handling
        BY DEF Pcs, Holding, Working, Guarded, Reserving, Cascading, Handling, Removing
    <1>1. Placed(h, pc, req[h].root, req[h].plan, req[h].retired, req[h].deleted)
        BY <1>0, GotoEffect DEF ServiceInv
    <1>2. record \in [Threads -> Rec] /\ members \in [Threads -> Threads \cup {None}]
        BY DEF ServiceInv, Types, TypeOK, Rec
    <1>3. Types' /\ OpenerNamesThread'
        BY <1>0, <1>2, GotoTypes, ServiceTypes
    <1>4. \A k \in Requests : req[k].pc \notin Holding
        BY ThreadDeletionAssumption DEF ServiceInv, LockIsExclusive
    <1>5. LockIsExclusive'
        BY <1>0, <1>1, <1>4 DEF LockIsExclusive, Placed
    <1>6. \A r \in Threads : record[r].state # "running"
        BY ThreadDeletionAssumption DEF ServiceInv, FenceIsHeld
    <1>7. \A t \in Threads : members[t] = None
        BY <1>2, <1>6 DEF ServiceInv, FenceIsHeld
    <1>8. \A x \in Working \cup Guarded : x \in Holding
        BY DEF Holding, Working
    <1>9. FenceIsHeld'
        BY <1>0, <1>1, <1>4, <1>6, <1>7, <1>8 DEF FenceIsHeld, Placed
    <1>10. RecordFollowsRequest'
        BY <1>0, <1>1, <1>4, <1>8 DEF RecordFollowsRequest, Placed, ServiceInv
    <1>11. Counted'
        BY <1>0, <1>1 DEF Counted, Placed, ServiceInv
    <1>12. QED
        BY <1>3, <1>5, <1>9, <1>10, <1>11 DEF ServiceInv

\* The preflight cuts a first plan, or gives up.
LEMMA PreflightStep ==
    ASSUME ServiceInv, NEW h \in Requests, Preflight(h)
    PROVE  ServiceInv'
    <1>1. req[h].pc = "locked"
        BY DEF Preflight, At
    <1>2. "locked" \in Handling \ (Working \cup {"ending"} \cup Cascading) /\ "locked" \in Holding
          /\ "checked" \in Holding \ (Working \cup Cascading \cup {"ending"})
          /\ "checked" \in Pcs
        BY DEF Handling, Pcs, Holding, Working, Guarded, Reserving, Cascading
    <1>3. CASE DropHandler(h)
        BY <1>1, <1>2, <1>3, DropHandlerStep
    <1>4. CASE ~DropHandler(h)
      <2> DEFINE order == descendant_deletion_order(req[h].root)
                 mid == [req[h] EXCEPT !.pc = "checked"]
                 new == [mid EXCEPT !.plan = order]
      <2>1. req[h].root \in Threads /\ Types
        BY <1>1, <1>2 DEF ServiceInv, RecordFollowsRequest
      <2>2. /\ order \in Seq(Threads) /\ IsInjective(order)
            /\ Len(order) =< Cardinality(Threads)
        BY <2>1, OrderFacts
      <2>3. req' = [req EXCEPT ![h].pc = "checked", ![h].plan = order]
            /\ UNCHANGED <<file, sessions, record, members, lock, removal, stopping>>
        BY <1>4 DEF Preflight, service
      <2> HIDE DEF order
      <2>4. req[h] \in Req /\ req \in [Requests -> Req]
            /\ record \in [Threads -> Rec] /\ members \in [Threads -> Threads \cup {None}]
            /\ lock \in Requests \cup {None}
        BY DEF ServiceInv, Types, TypeOK, Rec
      <2>5. req' = [req EXCEPT ![h] = new]
        BY <2>3, <2>4
      <2>6. /\ mid \in Req /\ mid.pc = "checked" /\ mid.root = req[h].root
            /\ mid.retired = req[h].retired /\ mid.deleted = req[h].deleted
        BY <1>2, <2>4 DEF Req
      <2> HIDE DEF mid
      <2>7. /\ new \in Req /\ new.pc = "checked" /\ new.root = req[h].root /\ new.plan = order
            /\ new.retired = req[h].retired /\ new.deleted = req[h].deleted
        BY <2>2, <2>6 DEF Req
      <2> HIDE DEF new
      <2>8. req[h].retired = 0 /\ req[h].deleted = 0
        BY <1>1, <1>2 DEF ServiceInv, Counted, Working
      <2>9. Placed(h, "checked", req[h].root, order, 0, 0)
        BY <2>4, <2>5, <2>7, <2>8 DEF Placed
      <2>10. 0 \in 0 .. Len(order)
        BY <2>2
      <2>11. Types' /\ OpenerNamesThread'
        BY <1>2, <2>1, <2>2, <2>3, <2>4, <2>9, <2>10, RequestTypes, ServiceTypes
      <2>12. /\ lock = h
             /\ \A r \in Threads : record[r].state # "running"
             /\ \A t \in Threads : members[t] = None
        BY <1>1, <1>2, HolderAlone
      <2>13. "checked" \notin Guarded \cup {"native", "removing"} \cup Reserving
        BY <1>2 DEF Working, Cascading
      <2>14. QED
        BY <1>1, <1>2, <2>1, <2>2, <2>3, <2>9, <2>11, <2>12, <2>13, HolderStep DEF Placed
    <1>5. QED
        BY <1>3, <1>4

\* The reservation: the record runs and the plan is fenced.
LEMMA ReserveStep ==
    ASSUME ServiceInv, NEW h \in Requests, reserve(h)
    PROVE  ServiceInv'
    <1>1. req[h].pc = "checked"
        BY DEF reserve, At
    <1>2. "checked" \in Handling \ (Working \cup {"ending"} \cup Cascading)
          /\ "checked" \in Holding /\ "retiring" \in Holding /\ "retiring" \in Working
          /\ "retiring" \in Pcs /\ "retiring" \in Reserving \ Guarded
          /\ "retiring" \notin {"native", "removing"} \cup Cascading
        BY DEF Handling, Pcs, Holding, Working, Guarded, Reserving, Cascading
    <1>3. CASE DropHandler(h)
        BY <1>1, <1>2, <1>3, DropHandlerStep
    <1>4. CASE ~DropHandler(h)
      <2> DEFINE root == req[h].root
                 new == [NoRecord EXCEPT !.state = "running"]
      <2>1. root \in Threads /\ Types /\ lock \in Requests \cup {None}
        BY <1>1, <1>2 DEF ServiceInv, RecordFollowsRequest, Types, TypeOK
      <2>2. /\ record' = [record EXCEPT ![root] = new]
            /\ members' = Claimed(root, req[h].plan) /\ Goto(h, "retiring")
            /\ UNCHANGED <<file, sessions, lock, removal, stopping>>
        BY <1>4 DEF reserve
      <2>3. new \in Rec /\ new.state = "running" /\ new.deleted = 0
        BY RecordTypes
      <2> HIDE DEF new
      <2>4. Recorded(root, new)
        BY <2>1, <2>2, <2>3, RecordEffect
      <2>5. Placed(h, "retiring", root, req[h].plan, req[h].retired, req[h].deleted)
        BY <1>2, <2>1, <2>2, GotoEffect
      <2>6. /\ lock = h
            /\ \A r \in Threads : record[r].state # "running"
            /\ \A t \in Threads : members[t] = None
        BY <1>1, <1>2, HolderAlone
      <2>7. members' \in [Threads -> Threads \cup {None}]
            /\ \A t \in Threads : members'[t] # None => members'[t] = root
        BY <2>1, <2>2, <2>6, FenceEffect
      <2>8. ReqTyped'
        BY <1>2, <2>2, GotoTypes
      <2>9. Types' /\ OpenerNamesThread'
        BY <2>1, <2>2, <2>4, <2>7, <2>8, ServiceTypes DEF Recorded
      <2>10. req[h].deleted = 0 /\ Len(req[h].plan) =< Cardinality(Threads)
        BY <1>1, <1>2 DEF ServiceInv, Counted
      <2>11. \A r \in Threads : record'[r].state = "running" => r = root
        BY <2>4, <2>6 DEF Recorded
      <2>12. record'[root].state = "running" /\ record'[root].deleted = 0
        BY <2>3, <2>4 DEF Recorded
      <2>13. QED
        BY <1>1, <1>2, <2>1, <2>2, <2>5, <2>6, <2>7, <2>9, <2>10, <2>11, <2>12, HolderStep
           DEF Placed
    <1>5. QED
        BY <1>3, <1>4

\* An owner of the plan is detached, or all of them are.
LEMMA RetireStep ==
    ASSUME ServiceInv, NEW h \in Requests, retire_threads(h)
    PROVE  ServiceInv'
    <1>1. req[h].pc = "retiring" /\ UNCHANGED <<record, members, lock>>
        BY DEF retire_threads, At, service
    <1>2. "retiring" \in Holding /\ "retiring" \in Working /\ "retiring" \in Pcs
          /\ "retired" \in Holding /\ "retired" \in Working /\ "retired" \in Pcs
          /\ "retiring" \in Reserving /\ "retired" \in Reserving
          /\ "retired" \notin Guarded \cup {"native", "removing"}
          /\ "retiring" \notin Guarded \cup {"native", "removing", "ending"} \cup Cascading
          /\ "retiring" \in Handling /\ "retired" \in Handling
        BY DEF Handling, Pcs, Holding, Working, Guarded, Reserving, Cascading
    <1>3. req[h].root \in Threads /\ req[h].deleted = 0
        BY <1>1, <1>2 DEF ServiceInv, RecordFollowsRequest, Counted
    <1>4. ASSUME ReqTyped' PROVE Types' /\ OpenerNamesThread'
      <2>1. busy' \subseteq owner' /\ owner' \subseteq Threads
        BY DEF retire_threads, ServiceInv, Types, TypeOK
      <2>2. QED
        BY <1>1, <1>4, <2>1
           DEF retire_threads, ServiceInv, Types, TypeOK, ReqTyped, OpenerNamesThread
    <1>5. CASE req[h].retired = Len(req[h].plan)
      <2>1. Goto(h, "retired")
        BY <1>5 DEF retire_threads
      <2>2. Types' /\ OpenerNamesThread'
        BY <1>2, <1>4, <2>1, GotoTypes
      <2>3. QED
        BY <1>1, <1>2, <1>3, <2>1, <2>2, GotoStep
    <1>6. CASE req[h].retired # Len(req[h].plan)
      <2> DEFINE n == req[h].retired + 1
                 new == [req[h] EXCEPT !.retired = n]
      <2>1. req[h] \in Req /\ req \in [Requests -> Req] /\ Types
            /\ req[h].plan \in Seq(Threads) /\ IsInjective(req[h].plan)
            /\ req[h].retired \in 0 .. Len(req[h].plan)
            /\ req[h].deleted \in 0 .. Len(req[h].plan)
        BY DEF ServiceInv, Types, TypeOK
      <2>2. req' = [req EXCEPT ![h] = new]
        BY <1>6, <2>1 DEF retire_threads
      <2>2a. n \in Nat
        BY <2>1
      <2> HIDE DEF n
      <2>3. /\ new \in Req /\ new.pc = "retiring" /\ new.root = req[h].root
            /\ new.plan = req[h].plan /\ new.retired = n
            /\ new.deleted = req[h].deleted
        BY <1>1, <2>1, <2>2a DEF Req
      <2> HIDE DEF new
      <2>4. Placed(h, "retiring", req[h].root, req[h].plan, req[h].retired + 1, req[h].deleted)
        BY <2>1, <2>2, <2>3 DEF Placed, n
      <2>5. req[h].retired + 1 \in 0 .. Len(req[h].plan)
        BY <1>6, <2>1
      <2>6. Types' /\ OpenerNamesThread'
        BY <1>2, <1>4, <2>1, <2>4, <2>5, RequestTypes
      <2>7. /\ lock = h /\ req[h].pc \in Working
            /\ \A r \in Threads : record[r].state = "running" => r = req[h].root
            /\ \A t \in Threads : members[t] # None => members[t] = req[h].root
        BY <1>1, <1>2, HolderAlone
      <2>8. record[req[h].root].state = "running" /\ record[req[h].root].deleted = 0
            /\ Len(req[h].plan) =< Cardinality(Threads)
        BY <1>1, <1>2, <1>3 DEF ServiceInv, RecordFollowsRequest, Counted
      <2>9. /\ req'[h].pc = "retiring" /\ req'[h].root = req[h].root
            /\ req'[h].plan = req[h].plan /\ req'[h].deleted = 0
            /\ \A k \in Requests : k # h => req'[k] = req[k]
        BY <1>3, <2>4 DEF Placed
      <2>10. QED
        BY <1>1, <1>2, <1>3, <2>6, <2>7, <2>8, <2>9, HolderStep
    <1>7. QED
        BY <1>5, <1>6

\* The plan is cut again and every thread of it fenced.
LEMMA StartStep ==
    ASSUME ServiceInv, NEW h \in Requests, start(h)
    PROVE  /\ ServiceInv'
           /\ \/ DropHandler(h)
              \/ /\ req[h].root \in Threads
                 /\ descendant_deletion_order(req[h].root) # <<>>
                 /\ Placed(h, "starting", req[h].root, descendant_deletion_order(req[h].root), 0, 0)
    <1>1. req[h].pc = "retired"
        BY DEF start, At
    <1>2. "retired" \in Handling /\ "retired" \in Holding /\ "retired" \in Working
          /\ "starting" \in Holding /\ "starting" \in Working
          /\ "starting" \in Pcs /\ "starting" \in Guarded \ Reserving
          /\ "starting" \notin {"native", "removing", "ending"} \cup Cascading
          /\ "retired" \notin Cascading \cup {"ending"}
        BY DEF Handling, Pcs, Holding, Working, Guarded, Reserving, Cascading
    <1>3. CASE DropHandler(h)
        BY <1>1, <1>2, <1>3, DropHandlerStep
    <1>4. CASE ~DropHandler(h)
      <2> DEFINE root == req[h].root
                 order == descendant_deletion_order(root)
                 mid == [req[h] EXCEPT !.pc = "starting"]
                 mid2 == [mid EXCEPT !.plan = order]
                 new == [mid2 EXCEPT !.retired = 0]
      <2>1. root \in Threads /\ Types
        BY <1>1, <1>2 DEF ServiceInv, RecordFollowsRequest
      <2>2. /\ order \in Seq(Threads) /\ IsInjective(order)
            /\ Len(order) =< Cardinality(Threads)
        BY <2>1, OrderFacts
      <2>3. /\ req' = [req EXCEPT ![h].pc = "starting", ![h].plan = order, ![h].retired = 0]
            /\ members' = Claimed(root, order) /\ order # <<>>
            /\ UNCHANGED <<file, sessions, record, lock, removal, stopping>>
        BY <1>4 DEF start, TopUp
      <2>4. req[h] \in Req /\ req \in [Requests -> Req]
            /\ record \in [Threads -> Rec] /\ members \in [Threads -> Threads \cup {None}]
            /\ lock \in Requests \cup {None}
        BY DEF ServiceInv, Types, TypeOK, Rec
      <2>5. req' = [req EXCEPT ![h] = new]
        BY <2>3, <2>4
      <2> HIDE DEF order
      <2>6. /\ mid \in Req /\ mid.pc = "starting" /\ mid.root = root
            /\ mid.deleted = req[h].deleted
        BY <1>2, <2>4 DEF Req
      <2> HIDE DEF mid
      <2>7. /\ mid2 \in Req /\ mid2.pc = "starting" /\ mid2.root = root /\ mid2.plan = order
            /\ mid2.deleted = req[h].deleted
        BY <2>2, <2>6 DEF Req
      <2> HIDE DEF mid2
      <2>8. /\ new \in Req /\ new.pc = "starting" /\ new.root = root /\ new.plan = order
            /\ new.retired = 0 /\ new.deleted = req[h].deleted
        BY <2>7 DEF Req
      <2> HIDE DEF new
      <2>9. req[h].deleted = 0
        BY <1>1, <1>2 DEF ServiceInv, Counted
      <2>10. Placed(h, "starting", root, order, 0, 0)
        BY <2>4, <2>5, <2>8, <2>9 DEF Placed
      <2>11. 0 \in 0 .. Len(order)
        BY <2>2
      <2>12. /\ lock = h
             /\ \A r \in Threads : record[r].state = "running" => r = root
             /\ \A t \in Threads : members[t] # None => members[t] = root
        BY <1>1, <1>2, HolderAlone
      <2>13. /\ members' \in [Threads -> Threads \cup {None}]
             /\ \A t \in Threads : members'[t] # None => members'[t] = root
             /\ \A t \in Range(order) : t \in Threads /\ members'[t] = root
        <3>1. Range(order) \subseteq Threads
          BY <2>2 DEF Range
        <3>2. QED
          BY <2>1, <2>3, <2>12, <3>1, FenceEffect
      <2>14. Types' /\ OpenerNamesThread'
        BY <1>2, <2>1, <2>2, <2>3, <2>4, <2>10, <2>11, <2>13, RequestTypes, ServiceTypes
      <2>15. record[root].state = "running" /\ record[root].deleted = 0
        BY <1>1, <1>2, <2>9 DEF ServiceInv, RecordFollowsRequest
      <2>16. ServiceInv'
        BY <1>1, <1>2, <2>1, <2>2, <2>3, <2>10, <2>12, <2>13, <2>14, <2>15, HolderStep DEF Placed
      <2>17. QED
        BY <2>1, <2>3, <2>10, <2>16 DEF order
    <1>5. QED
        BY <1>3, <1>4

\* The types of what is not the service's.
OtherTyped ==
    /\ file \in [Threads -> {"none", "listed", "renamed", "gone"}]
    /\ busy \subseteq owner /\ owner \subseteq Threads /\ native \subseteq Threads
    /\ admitting \subseteq Late
    /\ opener \in [pc : {"idle", "checked", "opened"}, thread : Threads \cup {None}]
    /\ removal \in [Requests -> Removal]
    /\ stopping \in BOOLEAN
    /\ OpenerNamesThread

\* Types is the types of the requests, of the service and of the rest.
LEMMA TypesSplit ==
    /\ Types /\ OpenerNamesThread <=>
          /\ ReqTyped /\ OtherTyped /\ record \in [Threads -> Rec]
          /\ members \in [Threads -> Threads \cup {None}] /\ lock \in Requests \cup {None}
    /\ (Types /\ OpenerNamesThread)' <=>
          /\ ReqTyped' /\ OtherTyped' /\ record' \in [Threads -> Rec]
          /\ members' \in [Threads -> Threads \cup {None}] /\ lock' \in Requests \cup {None}
    BY DEF Types, TypeOK, ReqTyped, OtherTyped, Rec, Removal

\* A cascade ends, whatever its end: the record is terminal and the fence is down.
LEMMA FinishStep ==
    ASSUME ServiceInv, OtherTyped', NEW h \in Requests, req[h].pc \in Guarded,
           NEW state \in {"done", "failed", "cancelled"},
           NEW deleted \in 0 .. Len(req[h].plan), finish(h, state, deleted),
           UNCHANGED lock
    PROVE  /\ ServiceInv'
           /\ Placed(h, "ending", req[h].root, req[h].plan, req[h].retired, deleted)
           /\ state # "done" => record'[req[h].root].state = state
    <1>1. /\ req[h].pc \in Holding /\ req[h].pc \in Working
          /\ req[h].pc \in Handling \cup Cascading /\ req[h].pc \notin Reserving
        BY DEF Holding, Working, Guarded, Handling, Cascading, Reserving
    <1>2. /\ "ending" \in Holding /\ "ending" \in Pcs
          /\ "ending" \notin Working \cup Guarded \cup Handling \cup Cascading \cup {"native", "removing"}
        BY DEF Holding, Working, Guarded, Handling, Cascading, Reserving, Pcs
    <1>3. req[h].root \in Threads /\ record[req[h].root].state = "running"
        BY <1>1 DEF ServiceInv, RecordFollowsRequest
    <1>4. /\ Types /\ req[h].plan \in Seq(Threads) /\ IsInjective(req[h].plan)
          /\ req[h].retired \in 0 .. Len(req[h].plan) /\ lock \in Requests \cup {None}
        BY DEF ServiceInv, Types, TypeOK
    <1>5. Len(req[h].plan) =< Cardinality(Threads) /\ Cardinality(Threads) \in Nat
          /\ Len(req[h].plan) \in Nat
        BY <1>4, FS_CardinalityType, ThreadDeletionAssumption DEF ServiceInv, Counted
    <1>6. deleted \in 0 .. Cardinality(Threads)
        BY <1>5
    <1>7. /\ Placed(h, "ending", req[h].root, req[h].plan, req[h].retired, deleted)
          /\ members' = Released(req[h].root)
        BY <1>3, <1>4, <1>6, FinishEffect
    <1>8. PICK new \in Rec :
             /\ Recorded(req[h].root, new) /\ new.state # "running"
             /\ state # "done" => new.state = state
        BY <1>3, <1>4, <1>6, FinishEffect
    <1>9. /\ lock = h
          /\ \A r \in Threads : record[r].state = "running" => r = req[h].root
          /\ \A t \in Threads : members[t] # None => members[t] = req[h].root
        BY <1>1, HolderAlone
    <1>10. /\ members' \in [Threads -> Threads \cup {None}]
           /\ \A t \in Threads : members'[t] = None
        BY <1>3, <1>4, <1>7, <1>9, FenceEffect
    <1>11. /\ record' \in [Threads -> Rec]
           /\ \A r \in Threads : record'[r].state # "running"
           /\ record'[req[h].root] = new
        BY <1>8, <1>9 DEF Recorded
    <1>12. ReqTyped'
        BY <1>2, <1>4, <1>7, RequestTypes
    <1>13. Types' /\ OpenerNamesThread'
        BY <1>4, <1>10, <1>11, <1>12, TypesSplit
    <1>14. req[h].retired = 0
        BY <1>1 DEF ServiceInv, Counted
    <1>15. ServiceInv'
        BY <1>1, <1>2, <1>3, <1>5, <1>7, <1>9, <1>10, <1>11, <1>13, <1>14, HolderStep DEF Placed
    <1>16. QED
        BY <1>7, <1>8, <1>11, <1>15

\* The cascade counts a thread and goes on.
LEMMA DeletedStep ==
    ASSUME ServiceInv, OtherTyped', NEW h \in Requests, req[h].pc = "removing",
           Deleted(h), UNCHANGED lock
    PROVE  /\ ServiceInv'
           /\ Placed(h, "next", req[h].root, req[h].plan, req[h].retired, req[h].deleted + 1)
    <1> DEFINE r == req[h].root
               n == req[h].deleted + 1
               mid == [req[h] EXCEPT !.pc = "next"]
               new == [mid EXCEPT !.deleted = n]
               rec == [record[r] EXCEPT !.deleted = n]
    <1>1. /\ "removing" \in Holding /\ "removing" \in Guarded /\ "removing" \in Working
          /\ "removing" \in Cascading \ Reserving
          /\ "next" \in Holding /\ "next" \in Guarded /\ "next" \in Working /\ "next" \in Pcs
          /\ "next" \in Cascading \ {"native", "removing"}
        BY DEF Holding, Working, Guarded, Cascading, Reserving, Pcs
    <1>2. /\ r \in Threads /\ record[r].state = "running" /\ record[r].deleted = req[h].deleted
          /\ req[h].retired = 0 /\ req[h].deleted < Len(req[h].plan)
          /\ Len(req[h].plan) =< Cardinality(Threads)
        BY <1>1 DEF ServiceInv, RecordFollowsRequest, Counted
    <1>3. /\ Types /\ req \in [Requests -> Req] /\ req[h] \in Req
          /\ req[h].plan \in Seq(Threads) /\ IsInjective(req[h].plan)
          /\ req[h].retired \in 0 .. Len(req[h].plan) /\ lock \in Requests \cup {None}
          /\ req[h].deleted \in 0 .. Len(req[h].plan)
          /\ record \in [Threads -> Rec] /\ members \in [Threads -> Threads \cup {None}]
        BY DEF ServiceInv, Types, TypeOK, Rec
    <1>4. Cardinality(Threads) \in Nat /\ Len(req[h].plan) \in Nat
        BY <1>3, FS_CardinalityType, ThreadDeletionAssumption
    <1>5. n \in 0 .. Len(req[h].plan) /\ n \in 0 .. Cardinality(Threads) /\ n \in Nat
        BY <1>2, <1>3, <1>4
    <1>6. req' = [req EXCEPT ![h] = new]
        BY <1>3 DEF Deleted
    <1>7. record' = [record EXCEPT ![r] = rec] /\ members' = members
        BY <1>2, <1>3 DEF Deleted
    <1> HIDE DEF n
    <1>8. rec \in Rec /\ rec.state = "running" /\ rec.deleted = n
        BY <1>2, <1>3, <1>5 DEF Rec
    <1> HIDE DEF rec
    <1>9. Recorded(r, rec)
        BY <1>2, <1>3, <1>7, <1>8, RecordEffect
    <1>10. /\ mid \in Req /\ mid.pc = "next" /\ mid.root = r
           /\ mid.plan = req[h].plan /\ mid.retired = req[h].retired
        BY <1>1, <1>3 DEF Req
    <1> HIDE DEF mid
    <1>11. /\ new \in Req /\ new.pc = "next" /\ new.root = r
           /\ new.plan = req[h].plan /\ new.retired = req[h].retired /\ new.deleted = n
        BY <1>5, <1>10 DEF Req
    <1> HIDE DEF new
    <1>12. Placed(h, "next", r, req[h].plan, req[h].retired, n)
        BY <1>3, <1>6, <1>11 DEF Placed
    <1>13. ReqTyped'
        BY <1>1, <1>3, <1>5, <1>12, RequestTypes
    <1>14. Types' /\ OpenerNamesThread'
        BY <1>3, <1>7, <1>9, <1>13, TypesSplit DEF Recorded
    <1>15. /\ lock = h
           /\ \A x \in Threads : record[x].state = "running" => x = r
           /\ \A t \in Threads : members[t] # None => members[t] = r
        BY <1>1, HolderAlone
    <1>16. \A t \in Range(req[h].plan) : members[t] = r
        BY <1>1 DEF ServiceInv, FenceIsHeld
    <1>17. \A x \in Threads : record'[x].state = "running" => x = r
        BY <1>9, <1>15 DEF Recorded
    <1>18. record'[r].state = "running" /\ record'[r].deleted = n
        BY <1>8, <1>9 DEF Recorded
    <1>19. ServiceInv'
        BY <1>1, <1>2, <1>7, <1>12, <1>14, <1>15, <1>16, <1>17, <1>18, HolderStep DEF Placed
    <1>20. QED
        BY <1>12, <1>19 DEF n

\* The rest is typed after a step that leaves it alone.
LEMMA OtherUnchanged ==
    ASSUME ServiceInv, UNCHANGED <<file, sessions, removal, stopping>>
    PROVE  OtherTyped'
    <1>1. OtherTyped
        BY TypesSplit DEF ServiceInv
    <1>2. QED
        BY <1>1 DEF OtherTyped, sessions, OpenerNamesThread

\* A cascade that is stopped, ended or timed out, or that counts a thread: its part
\* of the next-state relation.
Ended(h, state, deleted) ==
    /\ req[h].pc \in Guarded /\ state \in {"done", "failed", "cancelled"}
    /\ deleted \in 0 .. Len(req[h].plan)
    /\ Placed(h, "ending", req[h].root, req[h].plan, req[h].retired, deleted)
    /\ state # "done" => record'[req[h].root].state = state

\* Stopped is a terminal state of a record.
LEMMA StoppedState == Stopped \in {"failed", "cancelled"}
    BY DEF Stopped

\* The task is spawned, or the registry has begun to stop.
LEMMA SpawnStep ==
    ASSUME ServiceInv, NEW h \in Requests, spawn(h)
    PROVE  /\ ServiceInv'
           /\ \/ Ended(h, "cancelled", 0)
              \/ Placed(h, "next", req[h].root, req[h].plan, req[h].retired, req[h].deleted)
    <1>1. /\ req[h].pc = "starting" /\ UNCHANGED <<file, sessions, lock, removal, stopping>>
          /\ Types /\ req[h].plan \in Seq(Threads)
        BY DEF spawn, At, ServiceInv, Types, TypeOK
    <1>2. /\ "starting" \in Guarded /\ "starting" \in Holding /\ "starting" \in Working
          /\ "next" \in Holding /\ "next" \in Guarded /\ "next" \in Working /\ "next" \in Pcs
          /\ "next" \in Cascading /\ "next" \notin {"native", "removing"}
          /\ "starting" \in Handling /\ "starting" \notin Reserving
        BY DEF Guarded, Holding, Working, Cascading, Pcs, Handling, Reserving
    <1>3. OtherTyped'
        BY <1>1, OtherUnchanged
    <1>4. CASE stopping
      <2>1. finish(h, "cancelled", 0)
        BY <1>4 DEF spawn
      <2>2. 0 \in 0 .. Len(req[h].plan)
        BY <1>1
      <2>3. QED
        BY <1>1, <1>2, <1>3, <2>1, <2>2, FinishStep DEF Ended
    <1>5. CASE ~stopping
      <2>1. Goto(h, "next") /\ UNCHANGED <<record, members>>
        BY <1>5 DEF spawn, service
      <2>2. ReqTyped'
        BY <1>2, <2>1, GotoTypes
      <2>3. Types' /\ OpenerNamesThread'
        BY <1>1, <1>3, <2>1, <2>2, TypesSplit DEF ServiceInv
      <2>4. req[h].root \in Threads /\ req[h].retired = 0
        BY <1>1, <1>2 DEF ServiceInv, RecordFollowsRequest, Counted
      <2>5. QED
        BY <1>1, <1>2, <2>1, <2>3, <2>4, GotoStep, GotoEffect
    <1>6. QED
        BY <1>4, <1>5

\* The steps at which a cascade ends.
LEMMA EndStep ==
    ASSUME ServiceInv, NEW h \in Requests,
           CascadeStops(h) \/ CascadeDone(h) \/ StepFails(h) \/ NativeTimesOut(h)
    PROVE  /\ ServiceInv'
           /\ CascadeDone(h) => Ended(h, "done", req[h].deleted)
           /\ ~CascadeDone(h) => \E state \in {"failed", "cancelled"} :
                                    Ended(h, state, req[h].deleted)
    <1>1. /\ req[h].pc \in {"next", "native"} /\ UNCHANGED <<lock, file, removal, stopping>>
          /\ Types /\ req[h].deleted \in 0 .. Len(req[h].plan)
        BY DEF CascadeStops, CascadeDone, StepFails, NativeTimesOut, CascadeOnly, At,
               ServiceInv, Types, TypeOK
    <1>2. req[h].pc \in Guarded
        BY <1>1 DEF Guarded, Cascading
    <1>3. OtherTyped'
      <2>1. OtherTyped
        BY TypesSplit DEF ServiceInv
      <2>2. native' \subseteq Threads /\ UNCHANGED <<owner, busy, admitting, opener>>
        BY <2>1 DEF CascadeStops, CascadeDone, StepFails, NativeTimesOut, CascadeOnly,
                    sessions, OtherTyped
      <2>3. QED
        BY <1>1, <2>1, <2>2 DEF OtherTyped, OpenerNamesThread
    <1>4. CASE CascadeDone(h)
        BY <1>1, <1>2, <1>3, <1>4, FinishStep DEF CascadeDone, Ended
    <1>5. CASE ~CascadeDone(h)
      <2>1. PICK state \in {"failed", "cancelled"} : finish(h, state, req[h].deleted)
        BY <1>5, StoppedState DEF CascadeStops, StepFails, NativeTimesOut
      <2>2. QED
        BY <1>1, <1>2, <1>3, <1>5, <2>1, FinishStep DEF Ended
    <1>6. QED
        BY <1>4, <1>5

\* The cascade goes on to the next thread of its plan.
LEMMA ContinueStep ==
    ASSUME ServiceInv, NEW h \in Requests, CascadeContinues(h)
    PROVE  /\ ServiceInv'
           /\ Placed(h, "native", req[h].root, req[h].plan, req[h].retired, req[h].deleted)
    <1>1. /\ req[h].pc = "next" /\ Goto(h, "native") /\ req[h].deleted < Len(req[h].plan)
          /\ UNCHANGED <<file, sessions, record, members, lock, removal, stopping>>
        BY DEF CascadeContinues, At, CascadeOnly, service, More
    <1>2. /\ "next" \in Holding /\ "next" \in Guarded /\ "next" \in Working
          /\ "next" \in Cascading \ Reserving
          /\ "native" \in Holding /\ "native" \in Guarded /\ "native" \in Working
          /\ "native" \in Cascading /\ "native" \in Pcs
        BY DEF Guarded, Holding, Working, Cascading, Pcs, Reserving
    <1>3. OtherTyped' /\ ReqTyped'
        BY <1>1, <1>2, OtherUnchanged, GotoTypes
    <1>4. Types' /\ OpenerNamesThread'
        BY <1>1, <1>3, TypesSplit DEF ServiceInv
    <1>5. req[h].root \in Threads /\ req[h].retired = 0
        BY <1>1, <1>2 DEF ServiceInv, RecordFollowsRequest, Counted
    <1>6. QED
        BY <1>1, <1>2, <1>4, <1>5, GotoStep, GotoEffect DEF ServiceInv

\* The native thread is deleted and its removal is under way.
LEMMA NativeDeletedStep ==
    ASSUME ServiceInv, NEW h \in Requests, NativeDeleted(h)
    PROVE  /\ ServiceInv' /\ Current(h) \in Threads
           /\ Placed(h, "removing", req[h].root, req[h].plan, req[h].retired, req[h].deleted)
           /\ removal' = [removal EXCEPT ![h] = [state |-> "waiting", thread |-> Current(h)]]
    <1>1. /\ req[h].pc = "native" /\ Goto(h, "removing") /\ UNCHANGED <<record, members, lock>>
          /\ UNCHANGED <<file, admitting, opener, stopping>>
          /\ owner' = owner \ {Current(h)} /\ busy' = busy \ {Current(h)}
          /\ native' = native \ {Current(h)}
          /\ removal' = [removal EXCEPT ![h] = [state |-> "waiting", thread |-> Current(h)]]
        BY DEF NativeDeleted, At, service
    <1>2. /\ "native" \in Holding /\ "native" \in Guarded /\ "native" \in Working
          /\ "native" \in Cascading \ Reserving
          /\ "removing" \in Holding /\ "removing" \in Guarded /\ "removing" \in Working
          /\ "removing" \in Cascading /\ "removing" \in Pcs
        BY DEF Guarded, Holding, Working, Cascading, Pcs, Reserving
    <1>3. req[h].root \in Threads /\ req[h].retired = 0 /\ req[h].deleted < Len(req[h].plan)
        BY <1>1, <1>2 DEF ServiceInv, RecordFollowsRequest, Counted
    <1>4. Current(h) \in Threads
      <2>1. req[h].plan \in Seq(Threads) /\ req[h].deleted \in 0 .. Len(req[h].plan)
        BY DEF ServiceInv, Types, TypeOK
      <2>2. req[h].deleted + 1 \in 1 .. Len(req[h].plan)
        BY <1>3, <2>1
      <2>3. QED
        BY <2>1, <2>2 DEF Current
    <1>5. OtherTyped'
      <2>1. OtherTyped
        BY TypesSplit DEF ServiceInv
      <2>2. removal' \in [Requests -> Removal]
        <3>1. [state |-> "waiting", thread |-> Current(h)] \in Removal
          BY <1>4 DEF Removal
        <3>2. QED
          BY <1>1, <2>1, <3>1 DEF OtherTyped
      <2>3. QED
        BY <1>1, <2>1, <2>2 DEF OtherTyped, OpenerNamesThread
    <1>6. Types' /\ OpenerNamesThread'
        BY <1>1, <1>2, <1>5, GotoTypes, TypesSplit DEF ServiceInv
    <1>7. QED
        BY <1>1, <1>2, <1>3, <1>4, <1>6, GotoStep, GotoEffect DEF ServiceInv

\* The cascade learns what became of the removal, or stops waiting for it.
LEMMA RemovalOutcomeStep ==
    ASSUME ServiceInv, NEW h \in Requests, RemovalSeen(h) \/ RemovalTimesOut(h)
    PROVE  /\ ServiceInv' /\ req[h].pc = "removing"
           /\ \/ /\ Placed(h, "next", req[h].root, req[h].plan, req[h].retired, req[h].deleted + 1)
                 /\ \/ removal[h].state = "ok"
                    \/ UNCHANGED removal /\ req[h].deleted + 1 = Len(req[h].plan)
              \/ \E state \in {"failed", "cancelled"}, d \in 0 .. Len(req[h].plan) : Ended(h, state, d)
    <1>1. /\ req[h].pc = "removing" /\ UNCHANGED <<file, sessions, lock, stopping>>
          /\ Types /\ req[h].deleted \in 0 .. Len(req[h].plan) /\ req[h].plan \in Seq(Threads)
        BY DEF RemovalSeen, RemovalTimesOut, CascadeOnly, At, ServiceInv, Types, TypeOK
    <1>2. req[h].pc \in Guarded /\ req[h].deleted < Len(req[h].plan)
        BY <1>1 DEF Guarded, Cascading, ServiceInv, Counted
    <1>3. req[h].deleted + 1 \in 0 .. Len(req[h].plan)
        BY <1>1, <1>2
    <1>4. OtherTyped'
      <2>1. OtherTyped
        BY TypesSplit DEF ServiceInv
      <2>2. NoRemoval \in Removal
        BY DEF NoRemoval, Removal
      <2>3. removal' \in [Requests -> Removal]
        BY <2>1, <2>2 DEF RemovalSeen, RemovalTimesOut, CascadeOnly, OtherTyped
      <2>4. QED
        BY <1>1, <2>1, <2>3 DEF OtherTyped, sessions, OpenerNamesThread
    <1>5. \/ Deleted(h) /\ removal[h].state = "ok"
          \/ Deleted(h) /\ UNCHANGED removal /\ req[h].deleted + 1 = Len(req[h].plan)
          \/ \E d \in {req[h].deleted, req[h].deleted + 1} : finish(h, Stopped, d)
        BY DEF RemovalSeen, RemovalTimesOut, RemovalStillRunning, CascadeOnly
    <1>6. CASE Deleted(h) /\ (\/ removal[h].state = "ok"
                              \/ UNCHANGED removal /\ req[h].deleted + 1 = Len(req[h].plan))
        BY <1>1, <1>4, <1>6, DeletedStep
    <1>7. CASE \E d \in {req[h].deleted, req[h].deleted + 1} : finish(h, Stopped, d)
      <2>1. PICK d \in 0 .. Len(req[h].plan) : finish(h, Stopped, d)
        BY <1>1, <1>3, <1>7
      <2>2. Stopped \in {"done", "failed", "cancelled"} /\ Stopped # "done"
        BY StoppedState
      <2>3. ServiceInv' /\ Ended(h, Stopped, d)
        BY <1>1, <1>2, <1>4, <2>1, <2>2, FinishStep DEF Ended
      <2>4. QED
        BY <1>1, <2>3, StoppedState
    <1>8. QED
        BY <1>5, <1>6, <1>7

\* The lock is let go.
LEMMA DropLockStep ==
    ASSUME ServiceInv, NEW h \in Requests, DropLock(h)
    PROVE  ServiceInv'
    <1>1. /\ req[h].pc = "ending" /\ Over(h) /\ lock' = None
          /\ UNCHANGED <<file, sessions, record, members, removal, stopping>>
        BY DEF DropLock, At, service
    <1>2. /\ "ending" \in Holding \ Working
          /\ "over" \notin Holding \cup Working \cup Guarded \cup Handling \cup Cascading
          /\ "over" \notin {"native", "removing"}
        BY DEF Guarded, Holding, Working, Cascading, Handling, Reserving
    <1>3. Placed(h, "over", None, <<>>, 0, 0) /\ ReqTyped'
        BY <1>1, OverTypes
    <1>4. Types' /\ OpenerNamesThread'
        BY <1>1, <1>3, OtherUnchanged, TypesSplit DEF ServiceInv
    <1>5. /\ \A r \in Threads : record[r].state # "running"
          /\ \A t \in Threads : members[t] = None
        BY <1>1, <1>2, HolderAlone
    <1>6. QED
        BY <1>1, <1>2, <1>3, <1>4, <1>5, EmptyPlan, HolderStep DEF Placed

\* A DELETE of the project begins, or does not get the lock.
LEMMA ProjectWaitStep ==
    ASSUME ServiceInv, NEW h \in Requests,
           \/ RequestProject(h)
           \/ ProjectAcquires(h) /\ lock # None
    PROVE  ServiceInv'
    <1>1. /\ req[h].pc \in {"new", "projectWaiting"}
          /\ UNCHANGED <<file, sessions, record, members, lock, removal, stopping>>
        BY DEF RequestProject, ProjectAcquires, At, service
    <1>2. /\ req[h].pc \notin Holding \cup Reserving \cup Cascading \cup {"ending"}
          /\ "projectWaiting" \notin Holding \cup Handling \cup Cascading
          /\ "projectWaiting" \in Pcs
          /\ "over" \notin Holding \cup Handling \cup Cascading
        BY <1>1 DEF Holding, Working, Guarded, Reserving, Cascading, Handling, Pcs, Removing
    <1>3. req[h].retired = 0 /\ req[h].deleted = 0 /\ Len(req[h].plan) =< Cardinality(Threads)
        BY <1>1, <1>2 DEF ServiceInv, Counted
    <1>4. CASE Goto(h, "projectWaiting")
      <2>1. Placed(h, "projectWaiting", req[h].root, req[h].plan, req[h].retired, req[h].deleted)
            /\ ReqTyped'
        BY <1>2, <1>4, GotoEffect, GotoTypes DEF ServiceInv
      <2>2. Types' /\ OpenerNamesThread'
        BY <1>1, <2>1, OtherUnchanged, TypesSplit DEF ServiceInv
      <2>3. QED
        BY <1>1, <1>2, <1>3, <2>1, <2>2, OutsideStep DEF Placed
    <1>5. CASE Over(h)
      <2>1. Placed(h, "over", None, <<>>, 0, 0) /\ ReqTyped'
        BY <1>5, OverTypes
      <2>2. Types' /\ OpenerNamesThread'
        BY <1>1, <2>1, OtherUnchanged, TypesSplit DEF ServiceInv
      <2>3. QED
        BY <1>1, <1>2, <2>1, <2>2, EmptyPlan, OutsideStep DEF Placed
    <1>6. QED
        BY <1>4, <1>5 DEF RequestProject, ProjectAcquires

\* A step of the deletion of the project under the lock.
LEMMA ProjectLockedStep ==
    ASSUME ServiceInv, OtherTyped', NEW h \in Requests,
           \/ /\ req[h].pc \in {"projectLocked", "projectStopped"}
              /\ \E pc \in {"projectStopped", "projectGone"} : Goto(h, pc)
              /\ UNCHANGED <<record, members, lock>>
           \/ /\ req[h].pc \in {"projectLocked", "projectGone"}
              /\ Over(h) /\ lock' = None
              /\ \/ UNCHANGED <<record, members>>
                 \/ record' = [t \in Threads |-> NoRecord] /\ members' = Unclaimed
    PROVE  ServiceInv'
    <1>1. /\ req[h].pc \in Holding \ Working
          /\ req[h].pc \notin Reserving \cup Cascading \cup {"ending"}
          /\ \A pc \in {"projectStopped", "projectGone"} :
               /\ pc \in Holding \ Working /\ pc \in Pcs
               /\ pc \notin Handling \cup Cascading \cup Guarded \cup {"native", "removing"}
          /\ "over" \notin Holding \cup Handling \cup Cascading \cup Working \cup Guarded
          /\ "over" \notin {"native", "removing"}
        BY DEF Holding, Working, Guarded, Reserving, Cascading, Handling, Pcs, Removing
    <1>2. /\ \A r \in Threads : record[r].state # "running"
          /\ \A t \in Threads : members[t] = None
        BY <1>1, HolderAlone
    <1>3. req[h].retired = 0 /\ req[h].deleted = 0
        BY <1>1 DEF ServiceInv, Counted
    <1>4. CASE UNCHANGED <<record, members, lock>>
               /\ \E pc \in {"projectStopped", "projectGone"} : Goto(h, pc)
      <2>1. PICK pc \in {"projectStopped", "projectGone"} : Goto(h, pc)
        BY <1>4
      <2>2. Types' /\ OpenerNamesThread'
        BY <1>1, <1>4, <2>1, GotoTypes, TypesSplit DEF ServiceInv
      <2>3. QED
        BY <1>1, <1>3, <1>4, <2>1, <2>2, GotoStep
    <1>5. CASE /\ Over(h) /\ lock' = None
               /\ \/ UNCHANGED <<record, members>>
                  \/ record' = [t \in Threads |-> NoRecord] /\ members' = Unclaimed
      <2>1. Placed(h, "over", None, <<>>, 0, 0) /\ ReqTyped'
        BY <1>5, OverTypes
      <2>2. /\ record' \in [Threads -> Rec] /\ members' \in [Threads -> Threads \cup {None}]
            /\ \A r \in Threads : record'[r].state # "running"
            /\ \A t \in Threads : members'[t] = None
        BY <1>2, <1>5, RecordTypes, TypesSplit DEF ServiceInv, Unclaimed
      <2>3. Types' /\ OpenerNamesThread'
        BY <1>5, <2>1, <2>2, TypesSplit
      <2>4. QED
        BY <1>1, <1>5, <2>1, <2>2, <2>3, EmptyPlan, HolderStep DEF Placed
    <1>6. QED
        BY <1>4, <1>5

\* The deletion of the project.
LEMMA ProjectStep ==
    ASSUME ServiceInv, NEW h \in Requests,
           \/ RequestProject(h) \/ ProjectAcquires(h) \/ ProjectStops(h)
           \/ ProjectRemovesFiles(h) \/ forget_project(h)
    PROVE  ServiceInv'
    <1>0. OtherTyped
        BY TypesSplit DEF ServiceInv
    <1>1. CASE RequestProject(h) \/ (ProjectAcquires(h) /\ lock # None)
        BY <1>1, ProjectWaitStep
    <1>2. CASE ProjectAcquires(h) /\ lock = None
        BY <1>2, AcquireStep DEF ProjectAcquires, At, service
    <1>3. CASE ProjectStops(h)
      <2>1. OtherTyped'
        <3>1. UNCHANGED <<file, removal, stopping>>
          BY <1>3 DEF ProjectStops
        <3>2. CASE UNCHANGED sessions
          BY <1>0, <3>1, <3>2 DEF OtherTyped, sessions, OpenerNamesThread
        <3>3. CASE ~UNCHANGED sessions
          <4>1. /\ owner' = {} /\ busy' = {} /\ admitting' = {} /\ native' = native
                /\ opener' = Idle \/ opener' = opener
            BY <1>3, <3>3 DEF ProjectStops
          <4>2. Idle \in [pc : {"idle", "checked", "opened"}, thread : Threads \cup {None}]
                /\ Idle.pc = "idle"
            BY DEF Idle
          <4>3. QED
            BY <1>0, <3>1, <4>1, <4>2 DEF OtherTyped, OpenerNamesThread
        <3>4. QED
          BY <3>2, <3>3
      <2>2. QED
        BY <1>3, <2>1, ProjectLockedStep DEF ProjectStops, At, service
    <1>4. CASE ProjectRemovesFiles(h)
      <2>1. OtherTyped'
        BY <1>0, <1>4 DEF ProjectRemovesFiles, OtherTyped, sessions, OpenerNamesThread
      <2>2. QED
        BY <1>4, <2>1, ProjectLockedStep DEF ProjectRemovesFiles, At, service
    <1>5. CASE forget_project(h)
      <2>1. OtherTyped'
        BY <1>5, OtherUnchanged DEF forget_project
      <2>2. QED
        BY <1>5, <2>1, ProjectLockedStep DEF forget_project, At
    <1>6. QED
        BY <1>1, <1>2, <1>3, <1>4, <1>5

\* Cancel and dismiss touch one record: a running one stays running, and no other
\* begins to run.
LEMMA RecordOnlyStep ==
    ASSUME ServiceInv, NEW r \in Primaries, cancel(r) \/ dismiss(r)
    PROVE  ServiceInv'
    <1>0. r \in Threads /\ record[r] \in Rec /\ Types /\ record \in [Threads -> Rec]
        BY TypesSplit DEF Primaries, ServiceInv
    <1>1. /\ record' \in [Threads -> Rec]
          /\ \A x \in Threads : record'[x].state = "running" <=> record[x].state = "running"
          /\ \A x \in Threads : record[x].state = "running" => record'[x].deleted = record[x].deleted
      <2>1. CASE cancel(r)
        <3> DEFINE new == [record[r] EXCEPT !.cancel = TRUE]
        <3>1. new \in Rec /\ new.state = record[r].state /\ new.deleted = record[r].deleted
          BY <1>0 DEF Rec
        <3>2. record' = [record EXCEPT ![r] = new]
          BY <1>0, <2>1 DEF cancel
        <3> HIDE DEF new
        <3>3. QED
          BY <1>0, <3>1, <3>2
      <2>2. CASE dismiss(r)
        BY <1>0, <2>2, RecordTypes DEF dismiss
      <2>3. QED
        BY <2>1, <2>2
    <1>2. UNCHANGED <<members, lock, req, file, sessions, removal, stopping>>
        BY DEF cancel, dismiss, ServiceOnly
    <1>3. Types' /\ OpenerNamesThread'
      <2>1. ReqTyped'
        BY <1>2, TypesSplit DEF ServiceInv, ReqTyped
      <2>2. QED
        BY <1>1, <1>2, <2>1, OtherUnchanged, TypesSplit DEF ServiceInv
    <1>4. RecordFollowsRequest'
      <2>1. \A x : x \in Working => x \in Handling \cup Cascading
        BY DEF Working, Guarded, Handling
      <2>2. QED
        BY <1>1, <1>2, <2>1 DEF RecordFollowsRequest, ServiceInv
    <1>5. FenceIsHeld'
      <2>1. \A t \in Threads : members[t] # None => members[t] \in Threads
        BY <1>0 DEF Types, TypeOK
      <2>2. QED
        BY <1>1, <1>2, <2>1 DEF FenceIsHeld, ServiceInv
    <1>6. QED
        BY <1>2, <1>3, <1>4, <1>5 DEF ServiceInv, LockIsExclusive, Counted

\* The steps outside the service: openings, turns, admissions, removals, shutdown.
LEMMA ElsewhereStep ==
    ASSUME ServiceInv,
           \/ \E h \in Requests : RemovalRenames(h) \/ RemovalEnds(h) \/ RemovalFails(h)
           \/ \E t \in Threads : OpenChecks(t) \/ StartTurn(t) \/ EndTurn(t)
                                 \/ OwnerExits(t)
                                 \/ AdmitBegins(t) \/ AdmitRecords(t) \/ AdmitFails(t)
           \/ OpenNative \/ OpenAttaches \/ Shutdown
    PROVE  ServiceInv'
    <1>0. OtherTyped /\ Types
        BY TypesSplit DEF ServiceInv
    <1>1. UNCHANGED <<record, members, lock, req>>
        BY DEF RemovalRenames, RemovalEnds, RemovalFails, RemovalOnly, OpenChecks, StartTurn,
               EndTurn, OwnerExits, AdmitBegins, AdmitRecords, AdmitFails, OpenNative,
               OpenAttaches, SessionsOnly,
               Shutdown, service
    <1>2. OtherTyped'
      <2>1. CASE \E h \in Requests : RemovalRenames(h) \/ RemovalEnds(h) \/ RemovalFails(h)
        <3>1. PICK h \in Requests : RemovalRenames(h) \/ RemovalEnds(h) \/ RemovalFails(h)
          BY <2>1
        <3>2. removal[h] \in Removal /\ NoRemoval \in Removal
              /\ removal \in [Requests -> Removal]
          BY <1>0 DEF OtherTyped, NoRemoval, Removal
        <3>3. \A st \in {"working", "ok", "err"} : [removal[h] EXCEPT !.state = st] \in Removal
          BY <3>2 DEF Removal
        <3>4. removal' \in [Requests -> Removal]
          <4>1. PICK new \in Removal : removal' = [removal EXCEPT ![h] = new]
            <5>1. CASE RemovalRenames(h)
              BY <3>2, <3>3, <5>1 DEF RemovalRenames
            <5>2. CASE RemovalEnds(h) \/ RemovalFails(h)
              BY <3>2, <3>3, <5>2 DEF RemovalEnds, RemovalFails, Result
            <5>3. QED
              BY <3>1, <5>1, <5>2
          <4>2. QED
            BY <3>2, <4>1
        <3>5. file' \in [Threads -> {"none", "listed", "renamed", "gone"}]
          BY <1>0, <3>1 DEF RemovalRenames, RemovalEnds, RemovalFails, OtherTyped
        <3>6. UNCHANGED <<sessions, stopping>>
          BY <3>1 DEF RemovalRenames, RemovalEnds, RemovalFails, RemovalOnly
        <3>7. QED
          BY <1>0, <3>4, <3>5, <3>6 DEF OtherTyped, sessions, OpenerNamesThread
      <2>2. CASE \E t \in Threads : OpenChecks(t)
        BY <1>0, <2>2 DEF OpenChecks, SessionsOnly, OtherTyped, OpenerNamesThread
      <2>3. CASE \E t \in Threads : StartTurn(t) \/ EndTurn(t) \/ OwnerExits(t)
                                    \/ AdmitBegins(t) \/ AdmitFails(t)
        BY <1>0, <2>3 DEF StartTurn, EndTurn, OwnerExits, AdmitBegins, AdmitFails, SessionsOnly,
                          OtherTyped, OpenerNamesThread
      <2>4. CASE \E t \in Threads : AdmitRecords(t)
        BY <1>0, <2>4 DEF AdmitRecords, OtherTyped, OpenerNamesThread
      <2>5. CASE OpenNative
        <3>1. /\ Idle \in [pc : {"idle", "checked", "opened"}, thread : Threads \cup {None}]
              /\ Idle.pc = "idle"
          BY DEF Idle
        <3>2. /\ [opener EXCEPT !.pc = "opened"]
                   \in [pc : {"idle", "checked", "opened"}, thread : Threads \cup {None}]
              /\ [opener EXCEPT !.pc = "opened"].thread = opener.thread
          BY <1>0 DEF OtherTyped
        <3>3. opener.thread \in Threads
          BY <1>0, <2>5 DEF OtherTyped, OpenerNamesThread, OpenNative
        <3>4. opener' \in [pc : {"idle", "checked", "opened"}, thread : Threads \cup {None}]
              /\ OpenerNamesThread'
          BY <2>5, <3>1, <3>2, <3>3 DEF OpenNative, OpenerNamesThread
        <3>5. QED
          BY <1>0, <2>5, <3>4 DEF OpenNative, SessionsOnly, OtherTyped
      <2>6. CASE OpenAttaches
        <3>1. /\ Idle \in [pc : {"idle", "checked", "opened"}, thread : Threads \cup {None}]
              /\ Idle.pc = "idle"
          BY DEF Idle
        <3>2. QED
          BY <1>0, <2>6, <3>1 DEF OpenAttaches, SessionsOnly, OtherTyped, OpenerNamesThread
      <2>7. CASE Shutdown
        BY <1>0, <2>7 DEF Shutdown, sessions, OtherTyped, OpenerNamesThread
      <2>8. QED
        BY <2>1, <2>2, <2>3, <2>4, <2>5, <2>6, <2>7
    <1>3. Types' /\ OpenerNamesThread'
      <2>1. ReqTyped'
        BY <1>1, TypesSplit DEF ServiceInv, ReqTyped
      <2>2. QED
        BY <1>1, <1>2, <2>1, TypesSplit DEF ServiceInv
    <1>4. QED
        BY <1>1, <1>3, ServiceQuiet

\* A restarted process knows no request, record or fence.
LEMMA RestartStep ==
    ASSUME ServiceInv, Restart
    PROVE  ServiceInv'
    <1>0. OtherTyped
        BY TypesSplit DEF ServiceInv
    <1> DEFINE gone == [New EXCEPT !.pc = "over"]
    <1>1. \A x \in {New, gone} :
             /\ x \in Req /\ x.pc \in {"new", "over"} /\ x.root = None /\ x.plan = <<>>
             /\ x.retired = 0 /\ x.deleted = 0
      <2>1. <<>> \in Seq(Threads)
        OBVIOUS
      <2>2. /\ New \in Req /\ New.pc = "new" /\ New.root = None /\ New.plan = <<>>
            /\ New.retired = 0 /\ New.deleted = 0
        BY <2>1 DEF New, Req, Pcs
      <2>3. /\ gone \in Req /\ gone.pc = "over" /\ gone.root = None /\ gone.plan = <<>>
            /\ gone.retired = 0 /\ gone.deleted = 0
        BY <2>2 DEF Req, Pcs
      <2> HIDE DEF gone
      <2>4. QED
        BY <2>2, <2>3
    <1>2. \A h \in Requests : req'[h] \in {New, gone}
        BY DEF Restart
    <1> HIDE DEF gone
    <1>3. /\ req' \in [Requests -> Req]
          /\ \A h \in Requests :
               /\ req'[h].pc \in {"new", "over"} /\ req'[h].root = None /\ req'[h].plan = <<>>
               /\ req'[h].retired = 0 /\ req'[h].deleted = 0
      <2>1. \E f : req' = [h \in Requests |-> f[h]]
        BY DEF Restart
      <2>2. QED
        BY <1>1, <1>2, <2>1
    <1>4. ReqTyped'
      <2>1. \A x \in {"new", "over"} : x \in Pcs
        BY DEF Pcs
      <2>2. 0 \in 0 .. Len(<<>>) /\ <<>> \in Seq(Threads) /\ IsInjective(<<>>)
        BY EmptyPlan
      <2>3. QED
        BY <1>3, <2>1, <2>2 DEF ReqTyped
    <1>5. OtherTyped'
      <2>1. /\ Idle \in [pc : {"idle", "checked", "opened"}, thread : Threads \cup {None}]
            /\ Idle.pc = "idle"
        BY DEF Idle
      <2>2. removal' \in [Requests -> Removal]
        BY DEF Restart, NoRemoval, Removal
      <2>3. file' \in [Threads -> {"none", "listed", "renamed", "gone"}]
        BY <1>0 DEF Restart, OtherTyped
      <2>4. /\ owner' = {} /\ busy' = {} /\ admitting' = {} /\ opener' = Idle
            /\ stopping' = FALSE /\ native' = native
        BY DEF Restart
      <2>5. QED
        BY <1>0, <2>1, <2>2, <2>3, <2>4 DEF OtherTyped, OpenerNamesThread
    <1>6. /\ record' = [t \in Threads |-> NoRecord] /\ members' = [t \in Threads |-> None]
          /\ lock' = None
        BY DEF Restart, Unclaimed
    <1>7. Types' /\ OpenerNamesThread'
        BY <1>4, <1>5, <1>6, RecordTypes, TypesSplit
    <1>8. \A x \in {"new", "over"} :
             x \notin Holding \cup Working \cup Guarded \cup Handling \cup Cascading
                      \cup {"native", "removing"}
        BY DEF Holding, Working, Guarded, Handling, Reserving, Cascading
    <1>9. LockIsExclusive' /\ RecordFollowsRequest' /\ Counted'
        BY <1>3, <1>6, <1>8, EmptyPlan, ThreadDeletionAssumption
           DEF LockIsExclusive, RecordFollowsRequest, Counted
    <1>10. FenceIsHeld'
        BY <1>3, <1>6, <1>8, RecordTypes DEF FenceIsHeld
    <1>11. QED
        BY <1>7, <1>9, <1>10 DEF ServiceInv

\* A fresh process.
LEMMA ServiceInit == Init => ServiceInv
    <1> SUFFICES ASSUME Init PROVE ServiceInv
        OBVIOUS
    <1>1. /\ New \in Req /\ New.pc = "new" /\ New.root = None /\ New.plan = <<>>
          /\ New.retired = 0 /\ New.deleted = 0
      <2>1. <<>> \in Seq(Threads)
        OBVIOUS
      <2>2. QED
        BY <2>1 DEF New, Req, Pcs
    <1>2. /\ req \in [Requests -> Req]
          /\ \A h \in Requests :
               /\ req[h].pc = "new" /\ req[h].root = None /\ req[h].plan = <<>>
               /\ req[h].retired = 0 /\ req[h].deleted = 0
        BY <1>1 DEF Init
    <1>3. "new" \in Pcs
          /\ "new" \notin Holding \cup Working \cup Guarded \cup Handling \cup Cascading
                          \cup {"native", "removing"}
        BY DEF Pcs, Holding, Working, Guarded, Handling, Reserving, Cascading
    <1>4. ReqTyped
      <2>1. 0 \in 0 .. Len(<<>>) /\ <<>> \in Seq(Threads) /\ IsInjective(<<>>)
        BY EmptyPlan
      <2>2. QED
        BY <1>2, <1>3, <2>1 DEF ReqTyped
    <1>5. OtherTyped
      <2>1. /\ Idle \in [pc : {"idle", "checked", "opened"}, thread : Threads \cup {None}]
            /\ Idle.pc = "idle"
        BY DEF Idle
      <2>2. removal \in [Requests -> Removal]
        BY DEF Init, NoRemoval, Removal
      <2>3. QED
        BY <2>1, <2>2 DEF Init, OtherTyped, OpenerNamesThread
    <1>6. /\ record = [t \in Threads |-> NoRecord] /\ members = [t \in Threads |-> None]
          /\ lock = None
        BY DEF Init, Unclaimed
    <1>7. Types /\ OpenerNamesThread
        BY <1>4, <1>5, <1>6, RecordTypes, TypesSplit
    <1>8. LockIsExclusive /\ RecordFollowsRequest /\ Counted
        BY <1>2, <1>3, <1>6, EmptyPlan, ThreadDeletionAssumption
           DEF LockIsExclusive, RecordFollowsRequest, Counted
    <1>9. FenceIsHeld
        BY <1>2, <1>3, <1>6, RecordTypes DEF FenceIsHeld
    <1>10. QED
        BY <1>7, <1>8, <1>9 DEF ServiceInv

\* Every step keeps the service's invariant.
LEMMA ServiceStep == ServiceInv /\ [Next]_vars => ServiceInv'
    <1> SUFFICES ASSUME ServiceInv, [Next]_vars PROVE ServiceInv'
        OBVIOUS
    <1>1. CASE UNCHANGED vars
      <2>1. UNCHANGED <<record, members, lock, req, file, sessions, removal, stopping>>
        BY <1>1 DEF vars, service
      <2>2. ReqTyped'
        BY <2>1, TypesSplit DEF ServiceInv, ReqTyped
      <2>3. Types' /\ OpenerNamesThread'
        BY <2>1, <2>2, OtherUnchanged, TypesSplit DEF ServiceInv
      <2>4. QED
        BY <2>1, <2>3, ServiceQuiet
    <1>2. ASSUME NEW h \in Requests, Handler(h) PROVE ServiceInv'
      <2>1. CASE \E r \in Primaries : Request(h, r)
        BY <2>1, RequestStep
      <2>2. CASE Acquire(h)
        BY <2>2, AcquireStep DEF Acquire, At, service
      <2>3. CASE AcquireTimesOut(h) \/ WorktreeRefuses(h) \/ HangUp(h)
        BY <2>3, DropHandlerStep DEF AcquireTimesOut, WorktreeRefuses, HangUp, At, Handling
      <2>4. CASE Preflight(h)
        BY <2>4, PreflightStep
      <2>5. CASE reserve(h)
        BY <2>5, ReserveStep
      <2>6. CASE retire_threads(h)
        BY <2>6, RetireStep
      <2>7. CASE start(h)
        BY <2>7, StartStep
      <2>8. CASE RequestProject(h) \/ ProjectAcquires(h) \/ ProjectStops(h)
                 \/ ProjectRemovesFiles(h) \/ forget_project(h)
        BY <2>8, ProjectStep
      <2>9. QED
        BY <1>2, <2>1, <2>2, <2>3, <2>4, <2>5, <2>6, <2>7, <2>8 DEF Handler
    <1>3. ASSUME NEW h \in Requests, Cascade(h) PROVE ServiceInv'
      <2>1. CASE spawn(h)
        BY <2>1, SpawnStep
      <2>2. CASE CascadeStops(h) \/ CascadeDone(h) \/ StepFails(h) \/ NativeTimesOut(h)
        BY <2>2, EndStep
      <2>3. CASE CascadeContinues(h)
        BY <2>3, ContinueStep
      <2>4. CASE NativeDeleted(h)
        BY <2>4, NativeDeletedStep
      <2>5. CASE RemovalSeen(h) \/ RemovalTimesOut(h)
        BY <2>5, RemovalOutcomeStep
      <2>6. CASE DropLock(h)
        BY <2>6, DropLockStep
      <2>7. QED
        BY <1>3, <2>1, <2>2, <2>3, <2>4, <2>5, <2>6 DEF Cascade
    <1>4. CASE Next
        BY <1>2, <1>3, <1>4, RecordOnlyStep, ElsewhereStep, RestartStep DEF Next
    <1>5. QED
        BY <1>1, <1>4

\* In every behaviour: a running record has the holder of the lock behind it, a fence
\* stands only with a running record, and whatever a cascade is going to delete is
\* fenced (thread_deletion.rs).
THEOREM DeletionCorrect == Spec => []DeletionIsSound
    <1>1. Spec => []ServiceInv
        BY ServiceInit, ServiceStep, PTL DEF Spec
    <1>2. ServiceInv => DeletionIsSound
        BY DEF ServiceInv, Types, DeletionIsSound
    <1>3. QED
        BY <1>1, <1>2, PTL

----------------------------------------------------------------------------
(* The files.                                                              *)

\* A thread that was listed once is never new again, and one that left the listing does
\* not come back.
FilesGoForward ==
    \A t \in Threads : file[t] # "none" =>
        file'[t] # "none" /\ (file[t] # "listed" => file'[t] # "listed")

\* Every step moves the files forward.
LEMMA ForwardStep ==
    ASSUME ServiceInv, [Next]_vars
    PROVE  FilesGoForward
    <1>0. OtherTyped
        BY TypesSplit DEF ServiceInv
    <1>1. CASE file' = file
        BY <1>1 DEF FilesGoForward
    <1>2. CASE \E h \in Requests : RemovalRenames(h) \/ RemovalEnds(h)
      <2>1. PICK h \in Requests : RemovalRenames(h) \/ RemovalEnds(h)
        BY <1>2
      <2>2. \A t \in Threads : \/ file'[t] = file[t]
                               \/ file[t] = "listed" /\ file'[t] = "renamed"
                               \/ file[t] = "renamed" /\ file'[t] = "gone"
        BY <1>0, <2>1 DEF RemovalRenames, RemovalEnds, OtherTyped
      <2>3. QED
        BY <1>0, <2>2 DEF FilesGoForward
    <1>3. CASE \E t \in Threads : AdmitRecords(t)
      <2>1. PICK t \in Threads : file[t] = "none" /\ file' = [file EXCEPT ![t] = "listed"]
        BY <1>3 DEF AdmitRecords
      <2>2. \A u \in Threads : u # t => file'[u] = file[u]
        BY <1>0, <2>1 DEF OtherTyped
      <2>3. QED
        BY <2>1, <2>2 DEF FilesGoForward
    <1>4. CASE \E h \in Requests : ProjectRemovesFiles(h)
        BY <1>0, <1>4 DEF ProjectRemovesFiles, FilesGoForward
    <1>5. CASE Restart
      <2>1. \A t \in Threads : file'[t] = file[t] \/ (file[t] = "renamed" /\ file'[t] = "gone")
        BY <1>0, <1>5 DEF Restart
      <2>2. QED
        BY <2>1 DEF FilesGoForward
    <1>6. CASE UNCHANGED vars
        BY <1>1, <1>6 DEF vars
    <1>7. ASSUME NEW h \in Requests, Handler(h), ~ProjectRemovesFiles(h)
          PROVE  file' = file
        BY <1>7
           DEF Handler, Request, Acquire, AcquireTimesOut, Preflight, WorktreeRefuses, reserve,
               retire_threads, start, HangUp, RequestProject, ProjectAcquires, ProjectStops,
               forget_project, DropHandler
    <1>8. ASSUME NEW h \in Requests, Cascade(h)
          PROVE  file' = file
        BY <1>8 DEF Cascade, spawn, CascadeStops, CascadeContinues, CascadeDone, StepFails,
                    NativeTimesOut, NativeDeleted, RemovalSeen, RemovalTimesOut, DropLock,
                    CascadeOnly
    <1>9. ASSUME \/ \E h \in Requests : RemovalFails(h)
                 \/ \E r \in Primaries : cancel(r) \/ dismiss(r)
                 \/ \E t \in Threads : OpenChecks(t) \/ StartTurn(t) \/ EndTurn(t)
                                       \/ OwnerExits(t) \/ AdmitBegins(t) \/ AdmitFails(t)
                 \/ OpenNative \/ OpenAttaches \/ Shutdown
          PROVE  file' = file
        BY <1>9 DEF RemovalFails, cancel, dismiss, ServiceOnly, OpenChecks, StartTurn, EndTurn,
                    OwnerExits, AdmitBegins, AdmitFails, OpenNative, OpenAttaches, SessionsOnly,
                    Shutdown
    <1>10. CASE Next
        BY <1>1, <1>2, <1>3, <1>4, <1>5, <1>7, <1>8, <1>9, <1>10 DEF Next
    <1>11. QED
        BY <1>6, <1>10

\* What becomes of the plans when no request moves into a cascade: those of the others
\* stand, and that of h, if it has one, is as it was.
LEMMA PlanFrame ==
    ASSUME ServiceInv, FileInv, FilesGoForward, NEW h \in Requests,
           \A k \in Requests : k # h => req'[k] = req[k],
           \A k \in Requests : req[k].pc \in Guarded =>
              /\ removal'[k].thread = removal[k].thread
              /\ removal[k].state # "none" => removal'[k].state # "none",
           req'[h].pc \in Guarded => req'[h] = req[h]
    PROVE  PlanIsWorkedOff'
    <1> SUFFICES ASSUME NEW k \in Requests, req'[k].pc \in Guarded PROVE PlanOf(k)'
        BY DEF PlanIsWorkedOff
    <1>1. req'[k] = req[k]
        OBVIOUS
    <1>2. PlanOf(k)
        BY <1>1 DEF FileInv, PlanIsWorkedOff
    <1>3. /\ req[k].plan \in Seq(Threads) /\ req[k].deleted \in 0 .. Len(req[k].plan)
          /\ Range(req[k].plan) \subseteq Threads
      <2>1. req[k].plan \in Seq(Threads) /\ req[k].deleted \in 0 .. Len(req[k].plan)
        BY DEF ServiceInv, Types, TypeOK
      <2>2. QED
        BY <2>1 DEF Range
    <1>4. \A t \in Range(req[k].plan) : file'[t] # "none"
        BY <1>2, <1>3 DEF PlanOf, FilesGoForward
    <1>5. ASSUME NEW i \in 1 .. req[k].deleted
          PROVE  \/ file'[req[k].plan[i]] # "listed"
                 \/ i = Len(req[k].plan) /\ removal'[k].thread = req[k].plan[i]
      <2>1. i \in DOMAIN req[k].plan /\ req[k].plan[i] \in Range(req[k].plan)
        BY <1>3 DEF Range
      <2>2. QED
        BY <1>1, <1>2, <1>3, <2>1 DEF PlanOf, FilesGoForward
    <1>6. QED
        BY <1>1, <1>2, <1>4, <1>5 DEF PlanOf

\* The removals go on when the files do.
LEMMA RemovalFrame ==
    ASSUME ServiceInv, FileInv, FilesGoForward, UNCHANGED removal
    PROVE  RemovalUnlists'
    BY DEF FileInv, RemovalUnlists, FilesGoForward

\* A handler moves its own request only, and into the cascade only by its start.
LEMMA HandlerMoves ==
    ASSUME ServiceInv, NEW h \in Requests, Handler(h), ~start(h)
    PROVE  /\ \A k \in Requests : k # h => req'[k] = req[k]
           /\ req'[h].pc \in Guarded => req'[h] = req[h]
           /\ UNCHANGED removal
    <1>0. Types /\ req \in [Requests -> Req] /\ req[h] \in Req
        BY DEF ServiceInv, Types
    <1>1. UNCHANGED removal
        BY DEF Handler, Request, Acquire, AcquireTimesOut, Preflight, WorktreeRefuses, reserve,
               retire_threads, HangUp, RequestProject, ProjectAcquires, ProjectStops,
               ProjectRemovesFiles, forget_project, DropHandler
    <1>2. {"waiting", "locked", "checked", "retiring", "retired", "over", "projectWaiting",
           "projectLocked", "projectStopped", "projectGone"} \cap Guarded = {}
        BY DEF Guarded, Cascading
    <1>3. CASE Over(h)
      <2>1. Placed(h, "over", None, <<>>, 0, 0)
        BY <1>0, <1>3, OverEffect
      <2>2. QED
        BY <1>1, <1>2, <2>1 DEF Placed
    <1>4. CASE \E pc \in {"locked", "retiring", "retired", "projectWaiting", "projectLocked",
                          "projectStopped", "projectGone"} : Goto(h, pc)
      <2>1. PICK pc \in {"locked", "retiring", "retired", "projectWaiting", "projectLocked",
                         "projectStopped", "projectGone"} : Goto(h, pc)
        BY <1>4
      <2>2. pc \in Pcs
        BY DEF Pcs, Handling, Reserving, Removing
      <2>3. Placed(h, pc, req[h].root, req[h].plan, req[h].retired, req[h].deleted)
        BY <1>0, <2>1, <2>2, GotoEffect
      <2>4. QED
        BY <1>1, <1>2, <2>3 DEF Placed
    <1>5. CASE /\ retire_threads(h) /\ ~Goto(h, "retired")
      <2>1. req[h].pc = "retiring" /\ req' = [req EXCEPT ![h].retired = @ + 1]
        BY <1>5 DEF retire_threads, At
      <2> DEFINE new == [req[h] EXCEPT !.retired = @ + 1]
      <2>2. new.pc = req[h].pc /\ req' = [req EXCEPT ![h] = new]
        BY <1>0, <2>1 DEF Req
      <2> HIDE DEF new
      <2>3. QED
        BY <1>0, <1>1, <1>2, <2>1, <2>2
    <1>6. CASE \E r \in Primaries : Request(h, r)
      <2>1. PICK r \in Primaries : req' = [req EXCEPT ![h].pc = "waiting", ![h].root = r]
        BY <1>6 DEF Request
      <2> DEFINE mid == [req[h] EXCEPT !.pc = "waiting"]
                 new == [mid EXCEPT !.root = r]
      <2>2. req' = [req EXCEPT ![h] = new]
        BY <1>0, <2>1
      <2>3. mid \in Req /\ mid.pc = "waiting"
        BY <1>0 DEF Req, Pcs, Handling
      <2> HIDE DEF mid
      <2>4. new.pc = "waiting"
        BY <2>3 DEF Req
      <2> HIDE DEF new
      <2>5. QED
        BY <1>0, <1>1, <1>2, <2>2, <2>4
    <1>7. CASE Preflight(h) /\ ~Over(h)
      <2> DEFINE order == descendant_deletion_order(req[h].root)
                 mid == [req[h] EXCEPT !.pc = "checked"]
                 new == [mid EXCEPT !.plan = order]
      <2>1. req' = [req EXCEPT ![h].pc = "checked", ![h].plan = order]
        BY <1>7 DEF Preflight, DropHandler
      <2> HIDE DEF order
      <2>2. req' = [req EXCEPT ![h] = new]
        BY <1>0, <2>1
      <2>3. mid \in Req /\ mid.pc = "checked"
        BY <1>0 DEF Req, Pcs, Handling
      <2> HIDE DEF mid
      <2>4. new.pc = "checked"
        BY <2>3 DEF Req
      <2> HIDE DEF new
      <2>5. QED
        BY <1>0, <1>1, <1>2, <2>2, <2>4
    <1>8. QED
        BY <1>3, <1>4, <1>5, <1>6, <1>7
           DEF Handler, Acquire, AcquireTimesOut, WorktreeRefuses, reserve,
               retire_threads, HangUp, RequestProject, ProjectAcquires, ProjectStops,
               ProjectRemovesFiles, forget_project, DropHandler

\* A plan that is worked on by h is the only one.
LEMMA PlanAlone ==
    ASSUME ServiceInv, NEW h \in Requests, req[h].pc \in Guarded \cup Reserving,
           \A k \in Requests : k # h => req'[k] = req[k],
           req'[h].pc \in Guarded => PlanOf(h)'
    PROVE  PlanIsWorkedOff'
    <1>1. req[h].pc \in Holding /\ \A x \in Guarded : x \in Holding
        BY DEF Holding, Working
    <1>2. \A k \in Requests : k # h => req'[k].pc \notin Guarded
        BY <1>1, HolderAlone
    <1>3. QED
        BY <1>2 DEF PlanIsWorkedOff

\* The start of a cascade cuts a plan of listed threads.
LEMMA StartPlans ==
    ASSUME ServiceInv, FileInv, FilesGoForward, NEW h \in Requests, start(h)
    PROVE  PlanIsWorkedOff' /\ UNCHANGED removal
    <1>0. req[h].pc = "retired" /\ "retired" \in Reserving /\ UNCHANGED <<removal, file>>
        BY DEF start, At, Reserving, DropHandler
    <1>1. CASE DropHandler(h)
      <2>1. Placed(h, "over", None, <<>>, 0, 0) /\ "over" \notin Guarded
        BY <1>1, OverEffect DEF DropHandler, ServiceInv, Guarded, Cascading
      <2>2. QED
        BY <1>0, <2>1, PlanAlone DEF Placed
    <1>2. CASE ~DropHandler(h)
      <2> DEFINE s == descendant_deletion_order(req[h].root)
      <2>1. req[h].root \in Threads /\ s # <<>> /\ Placed(h, "starting", req[h].root, s, 0, 0)
        BY <1>2, StartStep
      <2>2. /\ LeafFirstOrder(s) /\ s[Len(s)] = req[h].root
            /\ \A t \in Range(s) : file[t] = "listed"
        BY <2>1, OrderFacts DEF ServiceInv
      <2> HIDE DEF s
      <2>3. PlanOf(h)'
        BY <1>0, <2>1, <2>2 DEF PlanOf, Placed
      <2>4. QED
        BY <1>0, <2>1, <2>3, PlanAlone DEF Placed
    <1>3. QED
        BY <1>1, <1>2

\* A cascade works its plan off.
LEMMA CascadePlans ==
    ASSUME ServiceInv, FileInv, FilesGoForward, NEW h \in Requests, Cascade(h)
    PROVE  PlanIsWorkedOff' /\ RemovalUnlists'
    <1>0. /\ file' = file /\ OtherTyped /\ removal \in [Requests -> Removal]
          /\ req[h].plan \in Seq(Threads) /\ req[h].deleted \in 0 .. Len(req[h].plan)
        BY TypesSplit
           DEF Cascade, spawn, CascadeStops, CascadeContinues, CascadeDone, StepFails,
               NativeTimesOut, NativeDeleted, RemovalSeen, RemovalTimesOut, DropLock,
               CascadeOnly, ServiceInv, OtherTyped, Types, TypeOK
    <1>1. "ending" \notin Guarded /\ "over" \notin Guarded
          /\ {"starting", "next", "native", "removing"} \subseteq Guarded
        BY DEF Guarded, Cascading
    <1>2. req[h].pc \in Guarded => PlanOf(h)
        BY DEF FileInv, PlanIsWorkedOff
    <1>3. ASSUME NEW state, NEW d, Ended(h, state, d), UNCHANGED removal
          PROVE  PlanIsWorkedOff' /\ RemovalUnlists'
        BY <1>1, <1>3, PlanAlone, RemovalFrame DEF Ended, Placed
    <1>4. CASE spawn(h)
      <2>1. req[h].pc = "starting" /\ UNCHANGED removal
        BY <1>4 DEF spawn, At
      <2>2. CASE Ended(h, "cancelled", 0)
        BY <1>3, <2>1, <2>2
      <2>3. CASE Placed(h, "next", req[h].root, req[h].plan, req[h].retired, req[h].deleted)
        <3>1. PlanOf(h)'
          BY <1>0, <1>1, <1>2, <2>1, <2>3 DEF PlanOf, Placed
        <3>2. QED
          BY <1>1, <2>1, <2>3, <3>1, PlanAlone, RemovalFrame DEF Placed
      <2>4. QED
        BY <1>4, <2>2, <2>3, SpawnStep
    <1>5. CASE CascadeStops(h) \/ CascadeDone(h) \/ StepFails(h) \/ NativeTimesOut(h)
      <2>1. UNCHANGED removal
        BY <1>5 DEF CascadeStops, CascadeDone, StepFails, NativeTimesOut, CascadeOnly
      <2>2. QED
        BY <1>3, <1>5, <2>1, EndStep
    <1>6. CASE CascadeContinues(h)
      <2>1. req[h].pc = "next" /\ UNCHANGED removal
        BY <1>6 DEF CascadeContinues, At, CascadeOnly
      <2>2. Placed(h, "native", req[h].root, req[h].plan, req[h].retired, req[h].deleted)
        BY <1>6, ContinueStep
      <2>3. PlanOf(h)'
        BY <1>0, <1>1, <1>2, <2>1, <2>2 DEF PlanOf, Placed
      <2>4. QED
        BY <1>1, <2>1, <2>2, <2>3, PlanAlone, RemovalFrame DEF Placed
    <1>7. CASE NativeDeleted(h)
      <2>1. req[h].pc = "native" /\ req[h].deleted < Len(req[h].plan)
        BY <1>7 DEF NativeDeleted, At, ServiceInv, Counted
      <2>2. /\ Placed(h, "removing", req[h].root, req[h].plan, req[h].retired, req[h].deleted)
            /\ Current(h) \in Threads
            /\ removal' = [removal EXCEPT ![h] = [state |-> "waiting", thread |-> Current(h)]]
        BY <1>7, NativeDeletedStep
      <2>3. /\ removal'[h].state = "waiting" /\ removal'[h].thread = Current(h)
            /\ \A k \in Requests : k # h => removal'[k] = removal[k]
        BY <1>0, <2>2
      <2>4. Current(h) \in Range(req[h].plan) /\ Current(h) = req[h].plan[req[h].deleted + 1]
        BY <1>0, <2>1 DEF Current, Range
      <2>5. file[Current(h)] # "none"
        BY <1>1, <1>2, <2>1, <2>4 DEF PlanOf
      <2>6. RemovalUnlists'
        BY <1>0, <2>2, <2>3, <2>5 DEF RemovalUnlists, FileInv
      <2>7. PlanOf(h)'
        <3>1. \A i \in 1 .. req[h].deleted : file[req[h].plan[i]] # "listed"
          BY <1>0, <1>1, <1>2, <2>1 DEF PlanOf
        <3>2. QED
          BY <1>0, <1>1, <1>2, <2>1, <2>2, <2>3, <2>4, <3>1 DEF PlanOf, Placed
      <2>8. QED
        BY <1>1, <2>1, <2>2, <2>6, <2>7, PlanAlone DEF Placed
    <1>8. CASE RemovalSeen(h) \/ RemovalTimesOut(h)
      <2>1. req[h].pc = "removing" /\ req[h].deleted < Len(req[h].plan)
        BY <1>8, RemovalOutcomeStep DEF ServiceInv, Counted
      <2>2. \/ UNCHANGED removal
            \/ removal' = [removal EXCEPT ![h] = NoRemoval]
        BY <1>8 DEF RemovalSeen, RemovalTimesOut, CascadeOnly
      <2>3. RemovalUnlists'
        <3>1. CASE UNCHANGED removal
          BY <3>1, RemovalFrame
        <3>2. CASE removal' = [removal EXCEPT ![h] = NoRemoval]
          <4>1. /\ removal'[h].state = "none"
                /\ \A k \in Requests : k # h => removal'[k] = removal[k]
            BY <1>0, <3>2 DEF NoRemoval
          <4>2. QED
            BY <1>0, <4>1 DEF RemovalUnlists, FileInv
        <3>3. QED
          BY <2>2, <3>1, <3>2
      <2>4. CASE \E state, d : Ended(h, state, d)
        BY <1>1, <2>3, <2>4, PlanAlone DEF Ended, Placed
      <2>5. CASE /\ Placed(h, "next", req[h].root, req[h].plan, req[h].retired, req[h].deleted + 1)
                 /\ \/ removal[h].state = "ok"
                    \/ UNCHANGED removal /\ req[h].deleted + 1 = Len(req[h].plan)
        <3>1. removal[h].state # "none" /\ removal[h].thread = req[h].plan[req[h].deleted + 1]
          BY <1>1, <1>2, <2>1 DEF PlanOf
        <3>2. \A i \in 1 .. req[h].deleted : file[req[h].plan[i]] # "listed"
          BY <1>0, <1>1, <1>2, <2>1 DEF PlanOf
        <3>3. \/ file[req[h].plan[req[h].deleted + 1]] # "listed"
              \/ UNCHANGED removal /\ req[h].deleted + 1 = Len(req[h].plan)
          BY <2>5, <3>1 DEF RemovalUnlists, FileInv
        <3>4. \A i \in 1 .. req[h].deleted + 1 :
                 \/ file[req[h].plan[i]] # "listed"
                 \/ i = Len(req[h].plan) /\ removal'[h].thread = req[h].plan[i]
          <4>1. \A i \in 1 .. req[h].deleted + 1 :
                   i \in 1 .. req[h].deleted \/ i = req[h].deleted + 1
            BY <1>0
          <4>2. QED
            BY <3>1, <3>2, <3>3, <4>1
        <3>5. PlanOf(h)'
          BY <1>0, <1>1, <1>2, <2>1, <2>5, <3>4 DEF PlanOf, Placed
        <3>6. QED
          BY <1>1, <2>1, <2>3, <2>5, <3>5, PlanAlone DEF Placed
      <2>6. QED
        BY <1>8, <2>4, <2>5, RemovalOutcomeStep
    <1>9. CASE DropLock(h)
      <2>1. /\ Placed(h, "over", None, <<>>, 0, 0) /\ UNCHANGED removal
        BY <1>9, OverTypes DEF DropLock
      <2>2. QED
        BY <1>1, <2>1, PlanFrame, RemovalFrame DEF Placed
    <1>10. QED
        BY <1>4, <1>5, <1>6, <1>7, <1>8, <1>9 DEF Cascade

\* The removals of files, each on a task of its own.
LEMMA RemovalPlans ==
    ASSUME ServiceInv, FileInv, FilesGoForward, NEW h \in Requests,
           RemovalRenames(h) \/ RemovalEnds(h) \/ RemovalFails(h)
    PROVE  /\ PlanIsWorkedOff' /\ RemovalUnlists' /\ UNCHANGED req
           /\ \A k \in Requests : removal'[k] # removal[k] => removal'[k].state # "waiting"
    <1>0. /\ OtherTyped /\ removal \in [Requests -> Removal] /\ removal[h] \in Removal
          /\ UNCHANGED req
          /\ file \in [Threads -> {"none", "listed", "renamed", "gone"}]
        BY TypesSplit DEF ServiceInv, OtherTyped, RemovalRenames, RemovalEnds, RemovalFails,
                          RemovalOnly
    <1>1. PICK new :
             /\ removal' = [removal EXCEPT ![h] = new]
             /\ \/ new = NoRemoval /\ req[h].pc = "over"
                \/ \E st \in {"working", "ok", "err"} :
                      /\ new = [removal[h] EXCEPT !.state = st]
                      /\ st = "working" <=> RemovalRenames(h)
                      /\ st = "ok" => RemovalEnds(h)
      <2>1. CASE RemovalRenames(h)
        BY <1>0, <2>1 DEF RemovalRenames, RemovalEnds
      <2>2. CASE RemovalEnds(h)
        BY <1>0, <2>2 DEF RemovalRenames, RemovalEnds, Result, At
      <2>3. CASE RemovalFails(h) /\ ~RemovalRenames(h)
        BY <1>0, <2>3 DEF RemovalFails, Result, At
      <2>4. QED
        BY <2>1, <2>2, <2>3
    <1>2. /\ \A k \in Requests : k # h => removal'[k] = removal[k]
          /\ removal'[h] = new
        BY <1>0, <1>1
    <1>3. NoRemoval.state = "none"
        BY DEF NoRemoval
    <1>4. removal[h].state # "none"
        BY DEF RemovalRenames, RemovalEnds, RemovalFails
    <1>5. removal[h].thread \in Threads /\ file[removal[h].thread] # "none"
        BY <1>4 DEF FileInv, RemovalUnlists
    <1>6. RemovalUnlists'
      <2> SUFFICES ASSUME NEW k \in Requests, removal'[k].state # "none"
                   PROVE  /\ removal'[k].thread \in Threads /\ file'[removal'[k].thread] # "none"
                          /\ removal'[k].state \in {"working", "ok"} =>
                                file'[removal'[k].thread] # "listed"
        BY DEF RemovalUnlists
      <2>1. CASE k # h
        BY <1>2, <2>1 DEF FileInv, RemovalUnlists, FilesGoForward
      <2>2. CASE k = h
        <3>1. PICK st \in {"working", "ok", "err"} :
                /\ new = [removal[h] EXCEPT !.state = st]
                /\ st = "working" <=> RemovalRenames(h)
                /\ st = "ok" => RemovalEnds(h)
          BY <1>1, <1>2, <1>3, <2>2
        <3>2. new.thread = removal[h].thread /\ new.state = st
          BY <1>0, <3>1 DEF Removal
        <3>3. file'[removal[h].thread] # "none"
          BY <1>5 DEF FilesGoForward
        <3>4. CASE st = "working"
          <4>1. file'[removal[h].thread] # "listed"
            BY <1>0, <1>5, <3>1, <3>4 DEF RemovalRenames
          <4>2. QED
            BY <1>2, <1>5, <2>2, <3>2, <3>3, <4>1
        <3>5. CASE st = "ok"
          <4>1. removal[h].state = "working"
            BY <3>1, <3>5 DEF RemovalEnds
          <4>2. file[removal[h].thread] # "listed"
            BY <4>1 DEF FileInv, RemovalUnlists
          <4>3. QED
            BY <1>2, <1>5, <2>2, <3>2, <3>3, <4>2 DEF FilesGoForward
        <3>6. CASE st = "err"
          BY <1>2, <1>5, <2>2, <3>2, <3>3, <3>6
        <3>7. QED
          BY <3>4, <3>5, <3>6
      <2>3. QED
        BY <2>1, <2>2
    <1>7. new = NoRemoval \/ (new.thread = removal[h].thread /\ new.state \in {"working", "ok", "err"})
        BY <1>0, <1>1 DEF Removal
    <1>8. \A k \in Requests : req[k].pc \in Guarded =>
             /\ removal'[k].thread = removal[k].thread
             /\ removal[k].state # "none" => removal'[k].state # "none"
      <2>1. "over" \notin Guarded
        BY DEF Guarded, Cascading
      <2>2. req[h].pc \in Guarded => new.thread = removal[h].thread /\ new.state # "none"
        <3>1. ASSUME req[h].pc \in Guarded
              PROVE  \E st \in {"working", "ok", "err"} : new = [removal[h] EXCEPT !.state = st]
          BY <1>1, <2>1, <3>1
        <3>2. QED
          BY <1>0, <3>1 DEF Removal
      <2>3. QED
        BY <1>2, <2>2
    <1>9. PlanIsWorkedOff'
        BY <1>0, <1>8, PlanFrame
    <1>10. QED
        BY <1>0, <1>2, <1>3, <1>6, <1>7, <1>9

\* A fresh process has no removal and no plan.
LEMMA FileInit == Init => FileInv
    <1> SUFFICES ASSUME Init PROVE FileInv
        OBVIOUS
    <1>1. RemovalUnlists
        BY DEF Init, RemovalUnlists, NoRemoval
    <1>2. PlanIsWorkedOff
        BY DEF Init, PlanIsWorkedOff, New, Guarded, Cascading
    <1>3. QED
        BY <1>1, <1>2 DEF FileInv

\* Every step keeps the invariant of the files.
LEMMA FileStep == ServiceInv /\ FileInv /\ [Next]_vars => FileInv'
    <1> SUFFICES ASSUME ServiceInv, FileInv, [Next]_vars PROVE FileInv'
        OBVIOUS
    <1>1. FilesGoForward
        BY ForwardStep
    <1>2. ASSUME UNCHANGED <<req, removal>> PROVE PlanIsWorkedOff' /\ RemovalUnlists'
      <2>1. CASE Requests = {}
        BY <2>1 DEF PlanIsWorkedOff, RemovalUnlists
      <2>2. CASE Requests # {}
        BY <1>1, <1>2, <2>2, PlanFrame, RemovalFrame
      <2>3. QED
        BY <2>1, <2>2
    <1>3. ASSUME NEW h \in Requests, Handler(h) PROVE PlanIsWorkedOff' /\ RemovalUnlists'
      <2>1. CASE start(h)
        BY <1>1, <2>1, StartPlans, RemovalFrame
      <2>2. CASE ~start(h)
        BY <1>1, <1>3, <2>2, HandlerMoves, PlanFrame, RemovalFrame
      <2>3. QED
        BY <2>1, <2>2
    <1>4. CASE Restart
      <2>1. \A h \in Requests : removal'[h].state = "none" /\ req'[h].pc \in {"new", "over"}
        BY <1>4 DEF Restart, NoRemoval, New
      <2>2. "new" \notin Guarded /\ "over" \notin Guarded
        BY DEF Guarded, Cascading
      <2>3. PlanIsWorkedOff' /\ RemovalUnlists'
        BY <2>1, <2>2 DEF PlanIsWorkedOff, RemovalUnlists
      <2>4. QED
        BY <1>1, <2>3 DEF FileInv
    <1>5. CASE UNCHANGED vars
        BY <1>1, <1>2, <1>5 DEF FileInv, vars
    <1>6. ASSUME \/ \E r \in Primaries : cancel(r) \/ dismiss(r)
                 \/ \E t \in Threads : OpenChecks(t) \/ StartTurn(t) \/ EndTurn(t)
                                       \/ OwnerExits(t)
                                       \/ AdmitBegins(t) \/ AdmitRecords(t) \/ AdmitFails(t)
                 \/ OpenNative \/ OpenAttaches \/ Shutdown
          PROVE  UNCHANGED <<req, removal>>
        BY <1>6 DEF cancel, dismiss, ServiceOnly, OpenChecks, StartTurn, EndTurn, OwnerExits,
                    AdmitBegins, AdmitRecords, AdmitFails, OpenNative, OpenAttaches, SessionsOnly, Shutdown
    <1>7. CASE Next
      <2>1. Restart \/ (PlanIsWorkedOff' /\ RemovalUnlists')
        BY <1>1, <1>2, <1>3, <1>6, <1>7, CascadePlans, RemovalPlans DEF Next
      <2>2. QED
        BY <1>1, <1>4, <2>1 DEF FileInv
    <1>8. QED
        BY <1>5, <1>7

\* What LeafFirst says of a step.
LeafFirstStep ==
    \A h \in Requests : \A t \in Threads :
        (removal'[h] # removal[h] /\ removal'[h] = [state |-> "waiting", thread |-> t])
        => \A c \in Range(req[h].plan) : Parent[c] = t => ~Listed(c)

\* Only NativeDeleted hands files to a removal, and what is before a thread in a
\* leaf-first plan is not listed any more.
LEMMA LeafFirstHolds ==
    ASSUME ServiceInv, FileInv, [Next]_vars
    PROVE  LeafFirstStep
    <1>1. ASSUME NEW h \in Requests, NativeDeleted(h) PROVE LeafFirstStep
      <2>1. req[h].pc = "native" /\ req[h].pc \in Guarded /\ req[h].deleted < Len(req[h].plan)
        BY <1>1 DEF NativeDeleted, At, Guarded, Cascading, ServiceInv, Counted
      <2>2. /\ req[h].plan \in Seq(Threads) /\ req[h].deleted \in 0 .. Len(req[h].plan)
            /\ removal \in [Requests -> Removal]
        BY TypesSplit DEF ServiceInv, Types, TypeOK, OtherTyped
      <2>3. PlanOf(h)
        BY <2>1 DEF FileInv, PlanIsWorkedOff
      <2>4. removal' = [removal EXCEPT ![h] = [state |-> "waiting", thread |-> Current(h)]]
        BY <1>1 DEF NativeDeleted
      <2>5. \A k \in Requests : k # h => removal'[k] = removal[k]
        BY <2>2, <2>4
      <2>6. removal'[h] = [state |-> "waiting", thread |-> Current(h)]
        BY <2>2, <2>4
      <2>7. ASSUME NEW c \in Range(req[h].plan), Parent[c] = Current(h) PROVE ~Listed(c)
        <3>1. PICK i \in DOMAIN req[h].plan : c = req[h].plan[i]
          BY DEF Range
        <3>2. req[h].deleted + 1 \in DOMAIN req[h].plan /\ i \in Nat /\ i >= 1
          BY <2>1, <2>2
        <3>3. i < req[h].deleted + 1
          BY <2>3, <2>7, <3>1, <3>2 DEF PlanOf, LeafFirstOrder, Current
        <3>4. i \in 1 .. req[h].deleted /\ i # Len(req[h].plan)
          BY <2>1, <2>2, <3>2, <3>3
        <3>5. QED
          BY <2>3, <3>1, <3>4 DEF PlanOf, Listed
      <2>8. \A t \in Threads : removal'[h] = [state |-> "waiting", thread |-> t] => t = Current(h)
        BY <2>6
      <2>9. QED
        BY <2>5, <2>7, <2>8 DEF LeafFirstStep
    <1>2. ASSUME \A k \in Requests : removal'[k] # removal[k] => removal'[k].state # "waiting"
          PROVE  LeafFirstStep
        BY <1>2 DEF LeafFirstStep
    <1>3. ASSUME NEW h \in Requests, Handler(h) PROVE UNCHANGED removal
        BY <1>3 DEF Handler, Request, Acquire, AcquireTimesOut, Preflight, WorktreeRefuses,
               reserve, start, retire_threads, HangUp, RequestProject, ProjectAcquires,
               ProjectStops, ProjectRemovesFiles, forget_project, DropHandler
    <1>4. ASSUME NEW h \in Requests, Cascade(h), ~NativeDeleted(h), ~RemovalSeen(h)
          PROVE  UNCHANGED removal
        BY <1>4 DEF Cascade, spawn, CascadeStops, CascadeContinues, CascadeDone, StepFails,
               NativeTimesOut, RemovalTimesOut, DropLock, CascadeOnly
    <1>5. ASSUME NEW h \in Requests, RemovalSeen(h)
          PROVE  \A k \in Requests : removal'[k] # removal[k] => removal'[k].state # "waiting"
      <2>1. removal' = [removal EXCEPT ![h] = NoRemoval] /\ removal \in [Requests -> Removal]
        BY <1>5, TypesSplit DEF RemovalSeen, ServiceInv, OtherTyped
      <2>2. QED
        BY <2>1 DEF NoRemoval
    <1>6. ASSUME Restart
          PROVE  \A k \in Requests : removal'[k] # removal[k] => removal'[k].state # "waiting"
        BY <1>6 DEF Restart, NoRemoval
    <1>7. ASSUME \/ \E r \in Primaries : cancel(r) \/ dismiss(r)
                 \/ \E t \in Threads : OpenChecks(t) \/ StartTurn(t) \/ EndTurn(t)
                                       \/ OwnerExits(t)
                                       \/ AdmitBegins(t) \/ AdmitRecords(t) \/ AdmitFails(t)
                 \/ OpenNative \/ OpenAttaches \/ Shutdown \/ UNCHANGED vars
          PROVE  UNCHANGED removal
        BY <1>7 DEF cancel, dismiss, ServiceOnly, OpenChecks, StartTurn, EndTurn, OwnerExits,
                    AdmitBegins, AdmitRecords, AdmitFails, OpenNative, OpenAttaches, SessionsOnly, Shutdown, vars
    <1>8. FilesGoForward
        BY ForwardStep
    <1>9. QED
        BY <1>1, <1>2, <1>3, <1>4, <1>5, <1>6, <1>7, <1>8, RemovalPlans DEF Next

\* In every behaviour: the files of a thread are handed to the removal only when no
\* child of it in the plan is listed any more (thread_deletion.rs).
THEOREM LeafFirstCorrect == Spec => LeafFirst
    <1>1. Spec => [](ServiceInv /\ FileInv)
        BY ServiceInit, ServiceStep, FileInit, FileStep, PTL DEF Spec
    <1>2. ServiceInv /\ FileInv /\ [Next]_vars => [LeafFirstStep]_vars
        BY LeafFirstHolds
    <1>3. Spec => [][LeafFirstStep]_vars
        BY <1>1, <1>2, PTL DEF Spec
    <1>4. QED
        BY <1>3 DEF LeafFirst, LeafFirstStep

\* What DoneMeansDeleted says of a step.
DoneStep ==
    \A h \in Requests :
        (req[h].pc \in Cascading /\ req'[h].pc = "ending" /\ record'[req[h].root] = NoRecord)
        => \A t \in Range(req[h].plan) :
              ~Listed(t) \/ (t = req[h].root /\ removal[h].thread = t)

\* Only CascadeDone ends a cascade without a terminal record, and it has counted its
\* whole plan.
LEMMA DoneHolds ==
    ASSUME ServiceInv, FileInv, [Next]_vars
    PROVE  DoneStep
    <1> SUFFICES ASSUME NEW h \in Requests, req[h].pc \in Cascading, req'[h].pc = "ending",
                        record'[req[h].root] = NoRecord, NEW t \in Range(req[h].plan)
                 PROVE  ~Listed(t) \/ (t = req[h].root /\ removal[h].thread = t)
        BY DEF DoneStep
    <1>0. /\ req[h].pc \in Guarded /\ req[h].pc \in Holding
          /\ req[h].pc # "ending" /\ "ending" \notin {"next", "native", "removing"}
          /\ req[h].plan \in Seq(Threads) /\ req[h].deleted \in 0 .. Len(req[h].plan)
        BY DEF Guarded, Holding, Working, Cascading, ServiceInv, Types, TypeOK
    <1>1. PlanOf(h)
        BY <1>0 DEF FileInv, PlanIsWorkedOff
    <1>2. ASSUME NEW state \in {"failed", "cancelled"}, NEW d, Ended(h, state, d) PROVE FALSE
      <2>1. record'[req[h].root].state = state
        BY <1>2 DEF Ended
      <2>2. QED
        BY <2>1, RecordTypes
    <1>3. ASSUME CascadeDone(h) PROVE ~Listed(t) \/ (t = req[h].root /\ removal[h].thread = t)
      <2>1. req[h].deleted = Len(req[h].plan)
        BY <1>0, <1>3 DEF CascadeDone, More
      <2>2. PICK i \in DOMAIN req[h].plan : t = req[h].plan[i]
        BY DEF Range
      <2>3. i \in 1 .. req[h].deleted
        BY <1>0, <2>1, <2>2
      <2>4. QED
        BY <1>1, <2>2, <2>3 DEF PlanOf, Listed
    <1>4. ASSUME NEW k \in Requests, k # h, Handler(k) \/ Cascade(k) PROVE FALSE
      <2>1. \A x \in Requests : x # k => req'[x] = req[x]
        <3>1. CASE Handler(k)
          <4>1. CASE start(k)
            <5>1. CASE DropHandler(k)
              BY <5>1, OverEffect DEF DropHandler, ServiceInv, Placed
            <5>2. CASE ~DropHandler(k)
              BY <4>1, <5>2, StartStep DEF Placed
            <5>3. QED
              BY <5>1, <5>2
          <4>2. CASE ~start(k)
            BY <3>1, <4>2, HandlerMoves
          <4>3. QED
            BY <4>1, <4>2
        <3>2. CASE Cascade(k)
          <4>1. req[k].pc \in Holding
            BY <3>2 DEF Cascade, spawn, CascadeStops, CascadeContinues, CascadeDone, StepFails,
               NativeTimesOut, NativeDeleted, RemovalSeen, RemovalTimesOut, DropLock, At,
               Holding, Working, Guarded, Cascading
          <4>2. QED
            BY <1>0, <1>4, <4>1, HolderAlone
        <3>3. QED
          BY <1>4, <3>1, <3>2
      <2>2. QED
        BY <1>0, <1>4, <2>1
    <1>5. ~Handler(h)
      <2>1. ASSUME start(h) PROVE FALSE
        <3>1. req[h].pc = "retired"
          BY <2>1 DEF start, At
        <3>2. QED
          BY <3>1 DEF Cascading
      <2>2. ASSUME Handler(h), ~start(h) PROVE FALSE
        BY <1>0, <2>2
           DEF Handler, Request, Acquire, AcquireTimesOut, Preflight, WorktreeRefuses, reserve,
               retire_threads, HangUp, RequestProject, ProjectAcquires, ProjectStops,
               ProjectRemovesFiles, forget_project, At, Cascading, Handling, Reserving, Removing
      <2>3. QED
        BY <2>1, <2>2
    <1>6. CASE Cascade(h)
      <2>1. CASE spawn(h) \/ DropLock(h)
        BY <2>1 DEF spawn, DropLock, At, Cascading
      <2>2. CASE CascadeStops(h) \/ CascadeDone(h) \/ StepFails(h) \/ NativeTimesOut(h)
        BY <1>2, <1>3, <2>2, EndStep
      <2>3. CASE CascadeContinues(h)
        BY <1>0, <2>3, ContinueStep DEF Placed
      <2>4. CASE NativeDeleted(h)
        BY <1>0, <2>4, NativeDeletedStep DEF Placed
      <2>5. CASE RemovalSeen(h) \/ RemovalTimesOut(h)
        BY <1>0, <1>2, <2>5, RemovalOutcomeStep DEF Placed
      <2>6. QED
        BY <1>6, <2>1, <2>2, <2>3, <2>4, <2>5 DEF Cascade
    <1>7. ASSUME Restart PROVE FALSE
        BY <1>7 DEF Restart, New
    <1>8. ASSUME \/ \E r \in Primaries : cancel(r) \/ dismiss(r)
                 \/ \E x \in Threads : OpenChecks(x) \/ StartTurn(x) \/ EndTurn(x)
                                       \/ OwnerExits(x)
                                       \/ AdmitBegins(x) \/ AdmitRecords(x) \/ AdmitFails(x)
                 \/ \E k \in Requests : RemovalRenames(k) \/ RemovalEnds(k) \/ RemovalFails(k)
                 \/ OpenNative \/ OpenAttaches \/ Shutdown \/ UNCHANGED vars
          PROVE  FALSE
        BY <1>0, <1>8
           DEF cancel, dismiss, ServiceOnly, OpenChecks, StartTurn, EndTurn, OwnerExits,
               AdmitBegins, AdmitRecords, AdmitFails, OpenNative, OpenAttaches, SessionsOnly, Shutdown, vars,
               RemovalRenames, RemovalEnds, RemovalFails, RemovalOnly
    <1>9. QED
        BY <1>4, <1>5, <1>6, <1>7, <1>8 DEF Next

\* In every behaviour: a cascade that ends without a record of its failure has deleted
\* its whole plan, but for a root whose removal outran its bound (thread_deletion.rs).
THEOREM DoneCorrect == Spec => DoneMeansDeleted
    <1>1. Spec => [](ServiceInv /\ FileInv)
        BY ServiceInit, ServiceStep, FileInit, FileStep, PTL DEF Spec
    <1>2. ServiceInv /\ FileInv /\ [Next]_vars => [DoneStep]_vars
        BY DoneHolds
    <1>3. Spec => [][DoneStep]_vars
        BY <1>1, <1>2, PTL DEF Spec
    <1>4. QED
        BY <1>3 DEF DoneMeansDeleted, DoneStep
=============================================================================
