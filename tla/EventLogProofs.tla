--------------------------- MODULE EventLogProofs ---------------------------
(***************************************************************************)
(* Proofs about the retained event log, for every cap and every bound.      *)
(***************************************************************************)
EXTENDS EventLog, SequenceTheorems, WellFoundedInduction, NaturalsInduction,
        TLAPS

(***************************************************************************)
(* The inductive invariant.  Trim and eviction both move base, so that the  *)
(* retained window is right depends on the cursors, and that a reader's     *)
(* account stays in Nat depends on unreported =< base.                      *)
(***************************************************************************)
Unreported ==
    /\ unreported =< base
    /\ Live # {} => unreported = 0

LogInv ==
    /\ TypeOK
    /\ RetainedWindow
    /\ KeptForSomeReader
    /\ ReaderAccounting
    /\ NoLostWakeup
    /\ Unreported
-----------------------------------------------------------------------------
\* The minimum that trim computes exists: a non-empty set of cursors has a least.
LEMMA MinOfNats ==
    ASSUME NEW S \in SUBSET Nat, S # {}
    PROVE  /\ Min(S) \in S
           /\ \A y \in S : Min(S) =< y
<1> DEFINE R == {ss \in Nat \X Nat : ss[1] < ss[2]}
<1>1. IsWellFoundedOn(R, Nat)
  <2>1. R = OpToRel(<, Nat)
    BY DEF OpToRel
  <2> QED
    BY <2>1, NatLessThanWellFounded
<1>2. PICK x \in S : \A y \in S : ~ (<<y, x>> \in R)
  <2> HIDE DEF R
  <2> QED
    BY <1>1, WFMin
<1>3. \A y \in S : x =< y
  <2> TAKE y \in S
  <2>1. ~ (<<y, x>> \in R)
    BY <1>2
  <2>2. y \in Nat /\ x \in Nat
    OBVIOUS
  <2>3. ~ (y < x)
    BY <2>1, <2>2
  <2> QED
    BY <2>2, <2>3
<1> QED
  BY <1>3 DEF Min

\* What trim leaves for the cursors in cs: it drops only what all of them have
\* passed, and stops at an entry one of them still needs.
LEMMA TrimmedBaseLemma ==
    ASSUME NEW b \in Nat, NEW len \in Nat, NEW D,
           NEW cs \in [D -> [next : Nat, pendingGap : Nat]]
    PROVE  LET n == TrimmedBase(b, len, cs)
           IN  /\ n \in Nat
               /\ n >= b
               /\ n =< b + len
               /\ D = {} => n = b
               /\ \A r \in D : n > b => n =< cs[r].next
               /\ (D # {} /\ \A r \in D : cs[r].next =< b + len)
                     => \E r \in D : cs[r].next =< n
<1> DEFINE n == TrimmedBase(b, len, cs)
           N == {cs[r].next : r \in DOMAIN cs}
<1>1. CASE D = {}
  BY <1>1 DEF TrimmedBase
<1>2. CASE D # {}
  <2>1. \A r \in D : cs[r].next \in Nat /\ cs[r].next \in N
    OBVIOUS
  <2>2. N \in SUBSET Nat /\ N # {}
    <3>1. DOMAIN cs = D
      OBVIOUS
    <3>2. N \in SUBSET Nat
      BY <2>1, <3>1
    <3>3. PICK r \in D : TRUE
      BY <1>2
    <3> QED
      BY <2>1, <3>2, <3>3
  <2>3. /\ Min(N) \in N
        /\ \A y \in N : Min(N) =< y
    <3> HIDE DEF N
    <3> QED
      BY <2>2, MinOfNats
  <2>4. n = IF Min(N) < b THEN b
            ELSE IF Min(N) > b + len THEN b + len
            ELSE Min(N)
    BY <1>2 DEF TrimmedBase
  <2>5. PICK q \in D : cs[q].next = Min(N)
    BY <2>3
  <2> HIDE DEF n, N
  <2>6. \A r \in D : Min(N) =< cs[r].next
    BY <2>1, <2>3
  <2>7. Min(N) \in Nat
    BY <2>2, <2>3
  <2>8. n \in Nat /\ n >= b /\ n =< b + len
    BY <2>4, <2>7
  <2>9. \A r \in D : n > b => n =< cs[r].next
    BY <2>1, <2>4, <2>6, <2>7
  <2>10. (\A r \in D : cs[r].next =< b + len) => cs[q].next =< n
    BY <2>1, <2>4, <2>5, <2>7
  <2> QED
    BY <1>2, <2>8, <2>9, <2>10 DEF n
<1> QED
  BY <1>1, <1>2

\* The window that Trim leaves: it still ends at the newest event and its entries
\* are the old ones, shifted.
LEMMA TrimWindow ==
    ASSUME NEW b \in Nat, NEW es \in Seq(Nat), NEW n \in Nat,
           n >= b, n =< b + Len(es)
    PROVE  LET kept == SubSeq(es, n - b + 1, Len(es))
           IN  /\ kept \in Seq(Nat)
               /\ Len(kept) = b + Len(es) - n
               /\ \A i \in 1 .. Len(kept) : kept[i] = es[i + (n - b)]
<1> DEFINE kept == SubSeq(es, n - b + 1, Len(es))
<1>1. Len(es) \in Nat
  OBVIOUS
<1>2. \A i \in n - b + 1 .. Len(es) : es[i] \in Nat
  BY <1>1
<1>3. n - b + 1 \in Int /\ Len(es) \in Int
  BY <1>1
<1>4. /\ kept \in Seq(Nat)
      /\ Len(kept) = IF n - b + 1 =< Len(es)
                     THEN Len(es) - (n - b + 1) + 1 ELSE 0
      /\ \A i \in 1 .. Len(es) - (n - b + 1) + 1 :
            kept[i] = es[(n - b + 1) + i - 1]
  BY <1>2, <1>3, SubSeqProperties
<1>5. /\ Len(kept) = b + Len(es) - n
      /\ \A i \in 1 .. Len(kept) : kept[i] = es[i + (n - b)]
  <2> HIDE DEF kept
  <2>1. Len(kept) = b + Len(es) - n
    <3>1. Len(kept) = IF n - b + 1 =< Len(es)
                      THEN Len(es) - (n - b + 1) + 1 ELSE 0
      BY <1>4
    <3>2. CASE n - b + 1 =< Len(es)
      BY <1>1, <3>1, <3>2
    <3>3. CASE n = b + Len(es)
      <4>1. ~ (n - b + 1 =< Len(es))
        BY <1>1, <3>3
      <4> QED
        BY <1>1, <3>1, <3>3, <4>1
    <3> QED
      BY <1>1, <3>2, <3>3
  <2>2. ASSUME NEW i \in 1 .. Len(kept)
        PROVE  kept[i] = es[i + (n - b)]
    <3>1. i \in 1 .. Len(es) - (n - b + 1) + 1
      BY <1>1, <2>1
    <3>2. (n - b + 1) + i - 1 = i + (n - b)
      BY <1>1, <3>1
    <3> QED
      BY <1>4, <3>1, <3>2
  <2> QED
    BY <2>1, <2>2
<1> QED
  BY <1>4, <1>5
-----------------------------------------------------------------------------
\* A new log satisfies the invariant.
LEMMA LogInit == Init => LogInv
<1> SUFFICES ASSUME Init PROVE LogInv
  OBVIOUS
<1>1. TypeOK
  <2>1. Live = {} /\ cursors \in [Live -> [next : Nat, pendingGap : Nat]]
    BY DEF Init, Live
  <2>2. account \in [Readers -> [start : Nat, got : Nat, lost : Nat]]
    BY DEF Init
  <2>3. entries \in Seq(Nat)
    BY EmptySeq DEF Init
  <2>4. closed \in BOOLEAN
    BY DEF Init
  <2> QED
    BY <2>1, <2>2, <2>3, <2>4, LogAssumption DEF Init, TypeOK
<1> QED
  BY <1>1, LogAssumption DEF Init, LogInv, RetainedWindow, KeptForSomeReader,
     ReaderAccounting, NoLostWakeup, Unreported, Live

\* A step that trims keeps the window and the retention rule, whatever cursors it
\* leaves.
LEMMA TrimStep ==
    ASSUME TypeOK, RetainedWindow, appended' = appended,
           cursors' \in [Live' -> [next : Nat, pendingGap : Nat]],
           Trim(cursors'),
           \A r \in Live' : cursors'[r].next =< appended
    PROVE  /\ base' \in Nat /\ entries' \in Seq(Nat)
           /\ base' >= base
           /\ Live' = {} => base' = base
           /\ \A r \in Live' : base' > base => base' =< cursors'[r].next
           /\ RetainedWindow'
           /\ KeptForSomeReader'
<1> DEFINE n == TrimmedBase(base, Len(entries), cursors')
<1>1. base \in Nat /\ entries \in Seq(Nat) /\ Len(entries) \in Nat
  BY DEF TypeOK
<1>2. /\ n \in Nat
      /\ n >= base
      /\ n =< base + Len(entries)
      /\ Live' = {} => n = base
      /\ \A r \in Live' : n > base => n =< cursors'[r].next
      /\ (Live' # {} /\ \A r \in Live' : cursors'[r].next =< base + Len(entries))
            => \E r \in Live' : cursors'[r].next =< n
  <2> HIDE DEF n
  <2> QED
    BY <1>1, TrimmedBaseLemma DEF n
<1> HIDE DEF n
<1>3. base' = n /\ entries' = SubSeq(entries, n - base + 1, Len(entries))
  BY DEF Trim, n
<1>4. /\ entries' \in Seq(Nat)
      /\ Len(entries') = base + Len(entries) - n
      /\ \A i \in 1 .. Len(entries') : entries'[i] = entries[i + (n - base)]
  BY <1>1, <1>2, <1>3, TrimWindow
<1>5. RetainedWindow'
  <2>1. base + Len(entries) = appended /\ Len(entries) =< Limit
    BY DEF RetainedWindow
  <2>2. \A i \in 1 .. Len(entries') : entries'[i] = base' + i - 1
    <3> TAKE i \in 1 .. Len(entries')
    <3>1. i + (n - base) \in 1 .. Len(entries)
      BY <1>1, <1>2, <1>4
    <3>2. entries[i + (n - base)] = base + (i + (n - base)) - 1
      BY <3>1 DEF RetainedWindow
    <3> QED
      BY <1>1, <1>2, <1>3, <1>4, <3>2
  <2>3. base' + Len(entries') = appended' /\ Len(entries') =< Limit
    BY <1>1, <1>2, <1>3, <1>4, <2>1, LogAssumption
  <2> QED
    BY <2>2, <2>3 DEF RetainedWindow
<1>6. KeptForSomeReader'
  <2>1. \A r \in Live' : cursors'[r].next =< base + Len(entries)
    BY DEF RetainedWindow
  <2> QED
    BY <1>2, <1>3, <2>1 DEF KeptForSomeReader
<1> QED
  BY <1>2, <1>3, <1>4, <1>5, <1>6

\* append preserves the invariant, whether it evicts or not.
LEMMA AppendPreserves == LogInv /\ AppendEvent => LogInv'
<1> SUFFICES ASSUME LogInv, AppendEvent PROVE LogInv'
  OBVIOUS
<1> DEFINE grown == Append(entries, appended)
<1>1. TypeOK /\ RetainedWindow /\ KeptForSomeReader /\ ReaderAccounting
        /\ NoLostWakeup /\ Unreported
  BY DEF LogInv
<1>2. /\ base \in Nat /\ appended \in Nat /\ entries \in Seq(Nat)
      /\ Len(entries) \in Nat /\ unreported \in Nat /\ notifies \in Nat
      /\ base + Len(entries) = appended
      /\ Len(entries) =< Limit /\ Limit \in Nat
  BY <1>1, LogAssumption DEF TypeOK, RetainedWindow
<1>3. /\ grown \in Seq(Nat)
      /\ Len(grown) = Len(entries) + 1
      /\ \A i \in 1 .. Len(grown) : grown[i] = base + i - 1
  BY <1>1, <1>2, AppendProperties, SMTT(30) DEF RetainedWindow
<1>4. UNCHANGED <<cursors, nextReader, closed, waiting, delivered, reported,
                  account, overlapped>> /\ Live' = Live
  BY DEF AppendEvent, Live
<1>5. /\ appended' = appended + 1 /\ appended' \in 0 .. MaxAppends
      /\ notifies' = notifies + 1 /\ notifies' \in 0 .. MaxNotifies
  BY <1>2, LogAssumption DEF AppendEvent
<1>6. \/ /\ Len(grown) > Limit
         /\ entries' = Tail(grown) /\ base' = base + 1
         /\ unreported' = IF Live = {} THEN unreported + 1 ELSE unreported
      \/ /\ ~ (Len(grown) > Limit)
         /\ entries' = grown /\ base' = base /\ unreported' = unreported
  BY DEF AppendEvent, OverCap
<1> HIDE DEF grown
<1>7. /\ entries' \in Seq(Nat) /\ base' \in Nat
      /\ base' + Len(entries') = appended'
      /\ Len(entries') =< Limit
      /\ \A i \in 1 .. Len(entries') : entries'[i] = base' + i - 1
  <2>1. CASE Len(grown) > Limit
    <3>1. entries' = Tail(grown) /\ base' = base + 1
      BY <1>6, <2>1
    <3>2. grown # <<>>
      BY <1>2, <1>3
    <3>3. /\ Tail(grown) \in Seq(Nat)
          /\ Len(Tail(grown)) = Len(grown) - 1
          /\ \A i \in 1 .. Len(Tail(grown)) : Tail(grown)[i] = grown[i + 1]
      BY <1>3, <3>2, HeadTailProperties
    <3>4. /\ base' + Len(entries') = appended'
          /\ Len(entries') =< Limit
      <4>1. Len(entries') = Len(entries)
        BY <1>2, <1>3, <3>1, <3>3
      <4>2. base + Len(entries) = appended /\ appended' = appended + 1
        BY <1>2, <1>5
      <4>3. Len(entries) \in Nat /\ base \in Nat /\ Len(entries) =< Limit
        BY <1>2
      <4>4. base' = base + 1
        BY <3>1
      <4> QED
        BY <4>1, <4>2, <4>3, <4>4
    <3>5. \A i \in 1 .. Len(entries') : entries'[i] = base' + i - 1
      BY <1>2, <1>3, <3>1, <3>3, SMTT(30)
    <3> QED
      BY <1>2, <3>1, <3>3, <3>4, <3>5
  <2>2. CASE ~ (Len(grown) > Limit)
    <3>1. entries' = grown /\ base' = base
      BY <1>6, <2>2
    <3>2. /\ base' + Len(entries') = appended'
          /\ Len(entries') =< Limit
      BY <1>2, <1>3, <1>5, <2>2, <3>1
    <3> QED
      BY <1>2, <1>3, <3>1, <3>2
  <2> QED
    BY <2>1, <2>2
<1>8. TypeOK'
  <2>1. unreported' \in Nat
    BY <1>2, <1>6
  <2> QED
    BY <1>1, <1>4, <1>5, <1>7, <2>1 DEF TypeOK
<1>9. RetainedWindow'
  BY <1>1, <1>2, <1>4, <1>5, <1>7, SMTT(30) DEF RetainedWindow, TypeOK
<1>10. KeptForSomeReader'
  BY <1>1, <1>2, <1>4, <1>6 DEF KeptForSomeReader, TypeOK
<1>11. ReaderAccounting'
  BY <1>1, <1>4 DEF ReaderAccounting
<1>12. NoLostWakeup'
  BY <1>2, <1>5 DEF NoLostWakeup
<1>13. Unreported'
  BY <1>1, <1>2, <1>4, <1>6 DEF Unreported
<1> QED
  BY <1>8, <1>9, <1>10, <1>11, <1>12, <1>13 DEF LogInv

\* Closing, waking, parking and cancelling leave entries and cursors alone and
\* keep a notify_waiters call coming for every parked reader with work.
LEMMA WakePreserves ==
    ASSUME LogInv,
           \/ Close \/ NotifyWaiters
           \/ \E r \in Readers : PollNothing(r) /\ r \in Live \ waiting
           \/ \E r \in Readers : CancelRecv(r)
    PROVE  LogInv'
<1>1. TypeOK /\ RetainedWindow /\ KeptForSomeReader /\ ReaderAccounting
        /\ NoLostWakeup /\ Unreported
  BY DEF LogInv
<1>2. UNCHANGED <<base, entries, cursors, nextReader, unreported, appended,
                  delivered, reported, account, overlapped>> /\ Live' = Live
  BY DEF Close, NotifyWaiters, PollNothing, CancelRecv, logVars, ghostVars, Live
<1>3. TypeOK'
  <2>1. closed' \in BOOLEAN
    BY <1>1 DEF Close, NotifyWaiters, PollNothing, CancelRecv, logVars, TypeOK
  <2>2. waiting' \subseteq Live
    BY <1>1 DEF Close, NotifyWaiters, PollNothing, CancelRecv, TypeOK
  <2>3. notifies' \in 0 .. MaxNotifies
    <3>1. notifies \in 0 .. MaxNotifies /\ MaxNotifies \in Nat
      BY <1>1, LogAssumption DEF TypeOK
    <3> QED
      BY <3>1 DEF Close, NotifyWaiters, PollNothing, CancelRecv
  <2> QED
    BY <1>1, <1>2, <2>1, <2>2, <2>3 DEF TypeOK
<1>4. NoLostWakeup'
  <2>1. CASE Close
    BY <1>1, <2>1 DEF Close, NoLostWakeup, TypeOK
  <2>2. CASE NotifyWaiters
    BY <2>2 DEF NotifyWaiters, NoLostWakeup
  <2>3. ASSUME NEW r \in Readers, PollNothing(r), r \in Live \ waiting
        PROVE  NoLostWakeup'
    <3>1. cursors[r].next \in Nat /\ base \in Nat /\ Len(entries) \in Nat
            /\ appended \in Nat
      BY <1>1, <2>3 DEF TypeOK
    <3>2. ~ (closed \/ cursors[r].next < appended \/ cursors[r].pendingGap > 0)
      BY <1>1, <2>3, <3>1 DEF PollNothing, RetainedWindow
    <3> QED
      BY <1>1, <1>2, <2>3, <3>2 DEF PollNothing, NoLostWakeup, logVars
  <2>4. ASSUME NEW r \in Readers, CancelRecv(r)
        PROVE  NoLostWakeup'
    BY <1>1, <2>4 DEF CancelRecv, NoLostWakeup, logVars, ghostVars
  <2> QED
    BY <2>1, <2>2, <2>3, <2>4
<1>5. RetainedWindow' /\ KeptForSomeReader' /\ ReaderAccounting' /\ Unreported'
  BY <1>1, <1>2
     DEF RetainedWindow, KeptForSomeReader, ReaderAccounting, Unreported
<1> QED
  BY <1>3, <1>4, <1>5 DEF LogInv

\* A new reader starts at base with the whole unreported deficit as its gap.
LEMMA ReaderPreserves == LogInv /\ NewReader => LogInv'
<1> SUFFICES ASSUME LogInv, NewReader PROVE LogInv'
  OBVIOUS
<1> DEFINE n == nextReader
<1>1. TypeOK /\ RetainedWindow /\ KeptForSomeReader /\ ReaderAccounting
        /\ NoLostWakeup /\ Unreported
  BY DEF LogInv
<1>2. /\ base \in Nat /\ unreported \in Nat /\ unreported =< base
      /\ n \in 0 .. MaxReaders /\ n < MaxReaders /\ MaxReaders \in Nat
      /\ base =< appended /\ appended \in Nat
      /\ Live \subseteq 0 .. n - 1
      /\ cursors \in [Live -> [next : Nat, pendingGap : Nat]]
      /\ account \in [Readers -> [start : Nat, got : Nat, lost : Nat]]
  <2>1. Len(entries) \in Nat
    BY <1>1 DEF TypeOK
  <2> QED
    BY <1>1, <2>1, LogAssumption DEF TypeOK, RetainedWindow, Unreported, NewReader
<1>3. n \notin Live /\ n \in Readers
  BY <1>2 DEF Readers
<1>4. /\ Live' = Live \cup {n}
      /\ cursors'[n] = [next |-> base, pendingGap |-> unreported]
      /\ \A r \in Live : cursors'[r] = cursors[r]
      /\ cursors' \in [Live' -> [next : Nat, pendingGap : Nat]]
  BY <1>2, <1>3 DEF NewReader, Live
<1>5. /\ account' \in [Readers -> [start : Nat, got : Nat, lost : Nat]]
      /\ account'[n] = [start |-> base - unreported, got |-> 0, lost |-> 0]
      /\ \A r \in Live : account'[r] = account[r]
  <2>1. base - unreported \in Nat
    BY <1>2
  <2>2. account' = [account EXCEPT ![n] =
                      [start |-> base - unreported, got |-> 0, lost |-> 0]]
    BY DEF NewReader
  <2>3. \A r \in Live : r # n
    BY <1>3
  <2> QED
    BY <1>2, <1>3, <2>1, <2>2, <2>3
<1>6. UNCHANGED <<base, entries, closed, waiting, notifies, appended, delivered,
                  reported>> /\ unreported' = 0 /\ nextReader' = n + 1
  BY DEF NewReader, wakeVars
<1> HIDE DEF n
<1>7. TypeOK'
  <2>1. nextReader' \in 0 .. MaxReaders /\ Live' \subseteq 0 .. nextReader' - 1
    BY <1>2, <1>4, <1>6
  <2>2. waiting' \subseteq Live'
    BY <1>1, <1>4, <1>6 DEF TypeOK
  <2>3. overlapped' \subseteq Readers
    BY <1>1, <1>3 DEF NewReader, TypeOK, n
  <2> QED
    BY <1>1, <1>4, <1>5, <1>6, <2>1, <2>2, <2>3 DEF TypeOK
<1>8. RetainedWindow'
  <2>1. \A r \in Live' : cursors'[r].next =< appended'
    BY <1>1, <1>2, <1>4, <1>6 DEF RetainedWindow
  <2> QED
    BY <1>1, <1>6, <2>1 DEF RetainedWindow
<1>9. KeptForSomeReader'
  BY <1>2, <1>4, <1>6 DEF KeptForSomeReader
<1>10. ReaderAccounting'
  BY <1>1, <1>2, <1>4, <1>5 DEF ReaderAccounting
<1>11. NoLostWakeup'
  <2>1. waiting \subseteq Live
    BY <1>1 DEF TypeOK
  <2> QED
    BY <1>1, <1>4, <1>6, <2>1 DEF NoLostWakeup
<1>12. Unreported'
  BY <1>2, <1>6 DEF Unreported
<1> QED
  BY <1>7, <1>8, <1>9, <1>10, <1>11, <1>12 DEF LogInv

\* Both kinds of gap move one reader's cursor or its pending gap and leave the
\* entries alone.
LEMMA GapPreserves ==
    ASSUME LogInv, NEW r \in Live, r \notin waiting,
           PollPendingGap(r) \/ PollGap(r)
    PROVE  LogInv'
<1> DEFINE c == cursors[r]
           told == IF c.pendingGap > 0 THEN c.pendingGap ELSE base - c.next
           to == IF c.pendingGap > 0 THEN c.next ELSE base
<1>1. TypeOK /\ RetainedWindow /\ KeptForSomeReader /\ ReaderAccounting
        /\ NoLostWakeup /\ Unreported
  BY DEF LogInv
<1>2. /\ cursors \in [Live -> [next : Nat, pendingGap : Nat]]
      /\ account \in [Readers -> [start : Nat, got : Nat, lost : Nat]]
      /\ c \in [next : Nat, pendingGap : Nat]
      /\ base \in Nat /\ appended \in Nat /\ base =< appended
      /\ Live \subseteq Readers
  <2>1. Len(entries) \in Nat /\ appended \in Nat /\ base \in Nat
          /\ base + Len(entries) = appended
    BY <1>1 DEF TypeOK, RetainedWindow
  <2>2. Live \subseteq Readers
    BY <1>1, LogAssumption DEF TypeOK, Readers
  <2>3. base =< appended
    BY <2>1
  <2> QED
    BY <1>1, <2>1, <2>2, <2>3 DEF TypeOK
<1>3. /\ Live' = Live
      /\ cursors' \in [Live -> [next : Nat, pendingGap : Nat]]
      /\ \A q \in Live \ {r} : cursors'[q] = cursors[q]
      /\ cursors'[r].next = to /\ cursors'[r].pendingGap = 0
      /\ account' = [account EXCEPT ![r].lost = @ + told]
      /\ told \in Nat
      /\ c.next + told = to + c.pendingGap
      /\ to \in Nat
      /\ to = base \/ to = c.next
      /\ reported' \subseteq reported \cup Nat
  <2>1. CASE PollPendingGap(r)
    <3>1. c.pendingGap > 0 /\ c.next \in Nat /\ c.pendingGap \in Nat
      BY <1>2, <2>1 DEF PollPendingGap
    <3>2. cursors' = [cursors EXCEPT ![r].pendingGap = 0]
      BY <2>1 DEF PollPendingGap
    <3>3. account' = [account EXCEPT ![r].lost = @ + told]
      BY <2>1, <3>1 DEF PollPendingGap
    <3>4. c.pendingGap =< c.next
      BY <1>1, <1>2 DEF ReaderAccounting
    <3>5. reported' \subseteq reported \cup Nat
      BY <2>1, <3>1, <3>4 DEF PollPendingGap
    <3> QED
      BY <1>2, <3>1, <3>2, <3>3, <3>5 DEF Live
  <2>2. CASE PollGap(r)
    <3>1. c.pendingGap = 0 /\ c.next < base /\ c.next \in Nat
      BY <1>2, <2>2 DEF PollGap
    <3>2. cursors' = [cursors EXCEPT ![r].next = base]
      BY <2>2 DEF PollGap
    <3>3. account' = [account EXCEPT ![r].lost = @ + told]
      BY <2>2, <3>1 DEF PollGap
    <3>4. reported' \subseteq reported \cup Nat
      BY <1>2, <2>2, <3>1 DEF PollGap
    <3> QED
      BY <1>2, <3>1, <3>2, <3>3, <3>4 DEF Live
  <2> QED
    BY <2>1, <2>2
<1>4. UNCHANGED <<base, entries, nextReader, unreported, closed, waiting,
                  notifies, appended, delivered, overlapped>>
  BY DEF PollPendingGap, PollGap, wakeVars
<1> HIDE DEF told, to
<1>5. /\ account' \in [Readers -> [start : Nat, got : Nat, lost : Nat]]
      /\ account'[r].lost = account[r].lost + told
      /\ account'[r].start = account[r].start
      /\ account'[r].got = account[r].got
      /\ \A q \in Live \ {r} : account'[q] = account[q]
  BY <1>2, <1>3
<1>6. TypeOK'
  BY <1>1, <1>3, <1>4, <1>5 DEF TypeOK
<1>7. RetainedWindow'
  <2>1. \A q \in Live' : cursors'[q].next =< appended'
    BY <1>1, <1>2, <1>3, <1>4 DEF RetainedWindow
  <2> QED
    BY <1>1, <1>4, <2>1 DEF RetainedWindow
<1>8. KeptForSomeReader'
  BY <1>1, <1>2, <1>3, <1>4 DEF KeptForSomeReader
<1>9. ReaderAccounting'
  <2>1. account[r].start + account[r].got + account[r].lost + c.pendingGap = c.next
    BY <1>1 DEF ReaderAccounting
  <2>2. account'[r].start + account'[r].got + account'[r].lost
           + cursors'[r].pendingGap = cursors'[r].next
    <3>1. account[r] \in [start : Nat, got : Nat, lost : Nat]
      BY <1>2
    <3>2. c.next + told = to + c.pendingGap /\ told \in Nat /\ to \in Nat
            /\ cursors'[r].pendingGap = 0 /\ cursors'[r].next = to
      BY <1>3
    <3> HIDE DEF c
    <3>3. c.next \in Nat /\ c.pendingGap \in Nat
      BY <1>2 DEF c
    <3> QED
      BY <1>5, <2>1, <3>1, <3>2, <3>3
  <2> QED
    BY <1>1, <1>3, <1>5, <2>2 DEF ReaderAccounting
<1>10. NoLostWakeup'
  <2>1. \A q \in waiting : q \in Live \ {r}
    BY <1>1 DEF TypeOK
  <2> QED
    BY <1>1, <1>3, <1>4, <2>1 DEF NoLostWakeup
<1>11. Unreported'
  BY <1>1, <1>3, <1>4 DEF Unreported
<1> QED
  BY <1>6, <1>7, <1>8, <1>9, <1>10, <1>11 DEF LogInv

\* Receiving an event moves one cursor by one and trims.
LEMMA EventPreserves ==
    ASSUME LogInv, NEW r \in Live, r \notin waiting, PollEvent(r)
    PROVE  LogInv'
<1> DEFINE c == cursors[r]
<1>1. TypeOK /\ RetainedWindow /\ KeptForSomeReader /\ ReaderAccounting
        /\ NoLostWakeup /\ Unreported
  BY DEF LogInv
<1>2. /\ cursors \in [Live -> [next : Nat, pendingGap : Nat]]
      /\ account \in [Readers -> [start : Nat, got : Nat, lost : Nat]]
      /\ c \in [next : Nat, pendingGap : Nat]
      /\ base \in Nat /\ appended \in Nat /\ Len(entries) \in Nat
      /\ base + Len(entries) = appended
      /\ r \in Readers
  <2>1. Live \subseteq Readers
    BY <1>1, LogAssumption DEF TypeOK, Readers
  <2> QED
    BY <1>1, <2>1 DEF TypeOK, RetainedWindow
<1>3. /\ c.pendingGap = 0 /\ c.next >= base /\ c.next < base + Len(entries)
      /\ cursors' = [cursors EXCEPT ![r].next = @ + 1]
      /\ account' = [account EXCEPT ![r].got = @ + 1]
      /\ Trim(cursors')
      /\ delivered' = delivered \cup {entries[c.next - base + 1]}
  BY DEF PollEvent
<1>4. UNCHANGED <<nextReader, unreported, closed, waiting, notifies, appended,
                  reported, overlapped>>
  BY DEF PollEvent, wakeVars
<1>5. /\ Live' = Live
      /\ cursors' \in [Live -> [next : Nat, pendingGap : Nat]]
      /\ \A q \in Live \ {r} : cursors'[q] = cursors[q]
      /\ cursors'[r].next = c.next + 1 /\ cursors'[r].pendingGap = 0
  <2>1. cursors' = [cursors EXCEPT ![r].next = c.next + 1]
    BY <1>3
  <2>2. c.next + 1 \in Nat /\ c.pendingGap = 0
    BY <1>2, <1>3
  <2> QED
    BY <1>2, <2>1, <2>2 DEF Live
<1>6. /\ account' \in [Readers -> [start : Nat, got : Nat, lost : Nat]]
      /\ account'[r].lost = account[r].lost
      /\ account'[r].start = account[r].start
      /\ account'[r].got = account[r].got + 1
      /\ \A q \in Live \ {r} : account'[q] = account[q]
  <2>1. account' = [account EXCEPT ![r].got = account[r].got + 1]
    BY <1>3
  <2>2. account[r].got + 1 \in Nat
    BY <1>2
  <2>3. Live \subseteq Readers
    BY <1>1, LogAssumption DEF TypeOK, Readers
  <2> QED
    BY <1>2, <2>1, <2>2, <2>3
<1>7. \A q \in Live' : cursors'[q].next =< appended
  BY <1>1, <1>2, <1>3, <1>5 DEF RetainedWindow
<1>8. /\ base' \in Nat /\ entries' \in Seq(Nat) /\ base' >= base
      /\ RetainedWindow' /\ KeptForSomeReader'
  BY <1>1, <1>3, <1>4, <1>5, <1>7, TrimStep
<1>9. TypeOK'
  <2>1. delivered' \subseteq Nat
    <3>1. c.next - base + 1 \in 1 .. Len(entries)
      BY <1>2, <1>3
    <3>2. entries[c.next - base + 1] \in Nat
      BY <1>1, <3>1 DEF TypeOK
    <3> QED
      BY <1>1, <1>3, <3>2 DEF TypeOK
  <2> QED
    BY <1>1, <1>4, <1>5, <1>6, <1>8, <2>1 DEF TypeOK
<1>10. ReaderAccounting'
  <2>1. account[r].start + account[r].got + account[r].lost + c.pendingGap = c.next
    BY <1>1 DEF ReaderAccounting
  <2>2. account'[r].start + account'[r].got + account'[r].lost
           + cursors'[r].pendingGap = cursors'[r].next
    <3>1. account[r] \in [start : Nat, got : Nat, lost : Nat]
      BY <1>2
    <3> QED
      BY <1>2, <1>3, <1>5, <1>6, <2>1, <3>1, SMTT(30)
  <2> QED
    BY <1>1, <1>5, <1>6, <2>2 DEF ReaderAccounting
<1>11. NoLostWakeup'
  <2>1. \A q \in waiting : q \in Live \ {r}
    BY <1>1 DEF TypeOK
  <2> QED
    BY <1>1, <1>4, <1>5, <2>1 DEF NoLostWakeup
<1>12. Unreported'
  BY <1>1, <1>2, <1>4, <1>5, <1>8, SMTT(30) DEF Unreported, TypeOK
<1> QED
  BY <1>8, <1>9, <1>10, <1>11, <1>12 DEF LogInv

\* Dropping a reader trims for the readers that remain.
LEMMA DropPreserves ==
    ASSUME LogInv, NEW r \in Live, DropReader(r)
    PROVE  LogInv'
<1> DEFINE c == cursors[r]
<1>1. TypeOK /\ RetainedWindow /\ KeptForSomeReader /\ ReaderAccounting
        /\ NoLostWakeup /\ Unreported
  BY DEF LogInv
<1>2. /\ cursors \in [Live -> [next : Nat, pendingGap : Nat]]
      /\ c \in [next : Nat, pendingGap : Nat]
      /\ base \in Nat /\ appended \in Nat /\ unreported \in Nat
  BY <1>1 DEF TypeOK
<1>3. /\ cursors' = [q \in Live \ {r} |-> cursors[q]]
      /\ Trim(cursors')
      /\ r \notin waiting
      /\ unreported' = IF Live = {r} THEN unreported + Deficit(c)
                                     ELSE unreported
  BY DEF DropReader
<1>4. UNCHANGED <<nextReader, closed, waiting, notifies, appended, delivered,
                  reported, account, overlapped>>
  BY DEF DropReader, wakeVars, ghostVars
<1>5. /\ Live' = Live \ {r}
      /\ cursors' \in [Live' -> [next : Nat, pendingGap : Nat]]
      /\ \A q \in Live' : cursors'[q] = cursors[q]
  BY <1>2, <1>3 DEF Live
<1>6. \A q \in Live' : cursors'[q].next =< appended
  BY <1>1, <1>5 DEF RetainedWindow
<1>7. /\ base' \in Nat /\ entries' \in Seq(Nat) /\ base' >= base
      /\ Live' = {} => base' = base
      /\ RetainedWindow' /\ KeptForSomeReader'
  BY <1>1, <1>3, <1>4, <1>5, <1>6, TrimStep
<1>8. /\ Deficit(c) \in Nat
      /\ Live = {r} => Deficit(c) =< base
  <2>1. c.pendingGap =< c.next
    <3>1. account[r] \in [start : Nat, got : Nat, lost : Nat]
      BY <1>1, LogAssumption DEF TypeOK, Readers
    <3>2. account[r].start + account[r].got + account[r].lost + c.pendingGap
            = c.next
      BY <1>1 DEF ReaderAccounting
    <3> QED
      BY <1>2, <3>1, <3>2
  <2>2. Live = {r} => c.next =< base
    BY <1>1 DEF KeptForSomeReader
  <2> QED
    BY <1>2, <2>1, <2>2 DEF Deficit, Behind
<1>9. unreported' \in Nat
  BY <1>2, <1>3, <1>8
<1>10. TypeOK'
  <2>1. waiting' \subseteq Live'
    BY <1>1, <1>3, <1>4, <1>5 DEF TypeOK
  <2> QED
    BY <1>1, <1>4, <1>5, <1>7, <1>9, <2>1 DEF TypeOK
<1>11. ReaderAccounting'
  BY <1>1, <1>4, <1>5 DEF ReaderAccounting
<1>12. NoLostWakeup'
  <2>1. \A q \in waiting : q \in Live'
    BY <1>1, <1>3, <1>5 DEF TypeOK
  <2> QED
    BY <1>1, <1>4, <1>5, <2>1 DEF NoLostWakeup
<1>13. Unreported'
  <2>1. unreported = 0
    BY <1>1 DEF Unreported
  <2>2. CASE Live = {r}
    BY <1>2, <1>3, <1>5, <1>7, <1>8, <2>1, <2>2 DEF Unreported
  <2>3. CASE Live # {r}
    BY <1>2, <1>3, <1>5, <1>7, <2>1, <2>3 DEF Unreported
  <2> QED
    BY <2>2, <2>3
<1> QED
  BY <1>7, <1>10, <1>11, <1>12, <1>13 DEF LogInv

\* Every step preserves the invariant.
LEMMA LogStep == LogInv /\ [Next]_vars => LogInv'
<1> SUFFICES ASSUME LogInv, [Next]_vars PROVE LogInv'
  OBVIOUS
<1>1. CASE AppendEvent
  BY <1>1, AppendPreserves
<1>2. CASE Close \/ NotifyWaiters
  BY <1>2, WakePreserves
<1>3. CASE NewReader
  BY <1>3, ReaderPreserves
<1>4. ASSUME NEW r \in Readers, Recv(r)
      PROVE  LogInv'
  <2>1. r \in Live /\ r \notin waiting
    BY <1>4 DEF Recv
  <2>2. CASE PollPendingGap(r) \/ PollGap(r)
    BY <2>1, <2>2, GapPreserves
  <2>3. CASE PollEvent(r)
    BY <2>1, <2>3, EventPreserves
  <2>4. CASE PollNothing(r)
    BY <2>1, <2>4, WakePreserves
  <2> QED
    BY <1>4, <2>2, <2>3, <2>4 DEF Recv
<1>5. ASSUME NEW r \in Readers, CancelRecv(r)
      PROVE  LogInv'
  BY <1>5, WakePreserves
<1>6. ASSUME NEW r \in Readers, DropReader(r)
      PROVE  LogInv'
  BY <1>6, DropPreserves DEF DropReader
<1>7. CASE UNCHANGED vars
  BY <1>7 DEF vars, logVars, wakeVars, ghostVars, LogInv, TypeOK, RetainedWindow,
     KeptForSomeReader, ReaderAccounting, NoLostWakeup, Unreported, Live
<1> QED
  BY <1>1, <1>2, <1>3, <1>4, <1>5, <1>6, <1>7 DEF Next

\* The log's invariants hold in every reachable state, for every cap and however
\* many readers overlap: the window is the newest events within the cap, nothing
\* is retained that every reader has consumed, every reader's account is exact,
\* and no wake-up is lost.
THEOREM LogCorrect ==
    Spec => [](TypeOK /\ RetainedWindow /\ KeptForSomeReader /\ ReaderAccounting
                 /\ NoLostWakeup)
<1>1. LogInv => TypeOK /\ RetainedWindow /\ KeptForSomeReader /\ ReaderAccounting
                  /\ NoLostWakeup
  BY DEF LogInv
<1> QED
  BY <1>1, LogInit, LogStep, PTL DEF Spec
-----------------------------------------------------------------------------
(***************************************************************************)
(* Exactly-once accounting across readers that follow one another.  The     *)
(* events told of (received or reported lost) form a prefix of the log; the *)
(* frontier of the prefix is the only reader's cursor less its inherited    *)
(* gap, or, between readers, base less the unreported evictions.            *)
(***************************************************************************)
Told == delivered \cup reported

Frontier ==
    overlapped = {} =>
        /\ \A r, q \in Live : r = q
        /\ delivered \cap reported = {}
        /\ Live = {} => Told = 0 .. base - unreported - 1
        /\ \A r \in Live :
              Told = 0 .. cursors[r].next - cursors[r].pendingGap - 1

\* With one reader at a time, that reader is never ahead of base.
LEMMA SoleReader ==
    ASSUME LogInv, NEW r \in Live, \A q \in Live : q = r
    PROVE  /\ cursors[r].next =< base
           /\ cursors[r].pendingGap =< cursors[r].next
           /\ cursors[r].next \in Nat /\ cursors[r].pendingGap \in Nat
           /\ base \in Nat /\ unreported = 0
<1>1. TypeOK /\ KeptForSomeReader /\ ReaderAccounting /\ Unreported
  BY DEF LogInv
<1>2. cursors[r] \in [next : Nat, pendingGap : Nat] /\ base \in Nat
  BY <1>1 DEF TypeOK
<1>3. account[r] \in [start : Nat, got : Nat, lost : Nat]
  BY <1>1, LogAssumption DEF TypeOK, Readers
<1>4. cursors[r].next =< base /\ unreported = 0
  BY <1>1 DEF KeptForSomeReader, Unreported
<1>5. account[r].start + account[r].got + account[r].lost + cursors[r].pendingGap
        = cursors[r].next
  BY <1>1 DEF ReaderAccounting
<1> QED
  BY <1>2, <1>3, <1>4, <1>5

\* With one reader at a time, every step keeps what was told and what is owed
\* two adjacent intervals that end at base.
LEMMA FrontierStep == LogInv /\ Frontier /\ [Next]_vars => Frontier'
<1> SUFFICES ASSUME LogInv, Frontier, [Next]_vars, overlapped' = {}
             PROVE  /\ \A r, q \in Live' : r = q
                    /\ delivered' \cap reported' = {}
                    /\ Live' = {} => Told' = 0 .. base' - unreported' - 1
                    /\ \A r \in Live' :
                          Told' = 0 .. cursors'[r].next
                                         - cursors'[r].pendingGap - 1
  BY DEF Frontier
<1>0. overlapped = {} /\ (NewReader => Live = {})
  BY DEF Next, vars, ghostVars, AppendEvent, Close, NotifyWaiters, NewReader, Recv,
         PollPendingGap, PollGap, PollEvent, PollNothing, CancelRecv, DropReader
<1>1. /\ \A r, q \in Live : r = q
      /\ delivered \cap reported = {}
      /\ Live = {} => Told = 0 .. base - unreported - 1
      /\ \A r \in Live : Told = 0 .. cursors[r].next - cursors[r].pendingGap - 1
  BY <1>0 DEF Frontier
<1>2. /\ TypeOK /\ RetainedWindow /\ Unreported
      /\ base \in Nat /\ unreported \in Nat
      /\ cursors \in [Live -> [next : Nat, pendingGap : Nat]]
  BY DEF LogInv, TypeOK
<1>3. CASE AppendEvent
  <2>1. UNCHANGED <<cursors, delivered, reported>> /\ Live' = Live /\ Told' = Told
    BY <1>3 DEF AppendEvent, Live, Told
  <2>2. Live = {} => base' - unreported' = base - unreported
    BY <1>2, <1>3 DEF AppendEvent
  <2>3. Live' = {} => Told' = 0 .. base' - unreported' - 1
    BY <1>1, <2>1, <2>2
  <2> QED
    BY <1>1, <2>1, <2>3
<1>4. CASE NewReader
  <2>1. Live = {}
    BY <1>0, <1>4
  <2>2. Live' = {nextReader} /\ cursors'[nextReader].next = base
          /\ cursors'[nextReader].pendingGap = unreported
    BY <1>4, <2>1 DEF NewReader, Live
  <2>3. UNCHANGED <<delivered, reported>> /\ Told' = Told
    BY <1>4 DEF NewReader, Told
  <2> QED
    BY <1>1, <2>1, <2>2, <2>3
<1>5. ASSUME NEW r \in Live, PollPendingGap(r)
      PROVE  Frontier'
  <2> DEFINE c == cursors[r]
  <2>1. /\ c.next \in Nat /\ c.pendingGap \in Nat /\ c.pendingGap =< c.next
    BY <1>1, SoleReader
  <2>2. cursors' = [cursors EXCEPT ![r].pendingGap = 0] /\ delivered' = delivered
          /\ reported' = reported \cup (c.next - c.pendingGap) .. (c.next - 1)
    BY <1>5 DEF PollPendingGap
  <2>3. Live' = {r} /\ cursors'[r].next = c.next /\ cursors'[r].pendingGap = 0
    BY <1>1, <1>2, <2>2 DEF Live
  <2>4. Told = 0 .. c.next - c.pendingGap - 1
    BY <1>1
  <2> HIDE DEF c
  <2>5. Told' = Told \cup (c.next - c.pendingGap) .. (c.next - 1)
    BY <2>2 DEF Told
  <2>6. Told' = 0 .. c.next - 1
    BY <2>1, <2>4, <2>5
  <2>7. delivered' \cap reported' = {}
    BY <1>1, <2>1, <2>2, <2>4 DEF Told
  <2>8. Told' = 0 .. cursors'[r].next - cursors'[r].pendingGap - 1
    BY <2>1, <2>3, <2>6
  <2> QED
    BY <2>3, <2>7, <2>8 DEF Frontier
<1>6. ASSUME NEW r \in Live, PollGap(r)
      PROVE  Frontier'
  <2> DEFINE c == cursors[r]
  <2>1. c.next \in Nat /\ c.next < base /\ c.pendingGap = 0
    BY <1>2, <1>6 DEF PollGap
  <2>2. cursors' = [cursors EXCEPT ![r].next = base] /\ delivered' = delivered
          /\ reported' = reported \cup c.next .. (base - 1)
    BY <1>6 DEF PollGap
  <2>3. Live' = {r} /\ cursors'[r].next = base /\ cursors'[r].pendingGap = 0
    BY <1>1, <1>2, <2>1, <2>2 DEF Live
  <2>4. Told = 0 .. c.next - 1
    BY <1>1, <2>1
  <2> HIDE DEF c
  <2>5. Told' = Told \cup c.next .. (base - 1)
    BY <2>2 DEF Told
  <2>6. Told' = 0 .. base - 1
    BY <1>2, <2>1, <2>4, <2>5
  <2>7. delivered' \cap reported' = {}
    BY <1>1, <2>1, <2>2, <2>4 DEF Told
  <2>8. Told' = 0 .. cursors'[r].next - cursors'[r].pendingGap - 1
    BY <1>2, <2>3, <2>6
  <2> QED
    BY <2>3, <2>7, <2>8 DEF Frontier
<1>7. ASSUME NEW r \in Live, PollEvent(r)
      PROVE  Frontier'
  <2> DEFINE c == cursors[r]
  <2>1. c.next \in Nat /\ c.next >= base /\ c.pendingGap = 0
          /\ c.next < base + Len(entries) /\ Len(entries) \in Nat
    BY <1>2, <1>7 DEF PollEvent, TypeOK
  <2>2. cursors' = [cursors EXCEPT ![r].next = c.next + 1] /\ reported' = reported
          /\ delivered' = delivered \cup {entries[c.next - base + 1]}
    BY <1>7 DEF PollEvent
  <2>3. Live' = {r} /\ cursors'[r].next = c.next + 1 /\ cursors'[r].pendingGap = 0
    BY <1>1, <1>2, <2>1, <2>2 DEF Live
  <2>4. Told = 0 .. c.next - 1
    BY <1>1, <2>1
  <2> HIDE DEF c
  <2>5. entries[c.next - base + 1] = c.next
    <3>1. c.next - base + 1 \in 1 .. Len(entries)
      BY <1>2, <2>1
    <3>2. entries[c.next - base + 1] = base + (c.next - base + 1) - 1
      BY <1>2, <3>1 DEF RetainedWindow
    <3> QED
      BY <1>2, <2>1, <3>2
  <2>6. Told' = Told \cup {c.next}
    BY <2>2, <2>5 DEF Told
  <2>7. Told' = 0 .. c.next
    BY <2>1, <2>4, <2>6
  <2>8. delivered' \cap reported' = {}
    BY <1>1, <2>1, <2>2, <2>4, <2>5 DEF Told
  <2>9. Told' = 0 .. cursors'[r].next - cursors'[r].pendingGap - 1
    BY <2>1, <2>3, <2>7
  <2> QED
    BY <2>3, <2>8, <2>9 DEF Frontier
<1>8. ASSUME NEW r \in Live, DropReader(r)
      PROVE  Frontier'
  <2> DEFINE c == cursors[r]
  <2>1. /\ c.next \in Nat /\ c.pendingGap \in Nat /\ c.pendingGap =< c.next
        /\ c.next =< base /\ unreported = 0
    BY <1>1, SoleReader
  <2>2. Live = {r}
    BY <1>1
  <2>3. Live' = {} /\ unreported' = Deficit(c) /\ Trim(cursors')
          /\ UNCHANGED <<appended, delivered, reported>> /\ Told' = Told
    <3>1. /\ cursors' = [q \in Live \ {r} |-> cursors[q]]
          /\ unreported' = IF Live = {r} THEN unreported + Deficit(c)
                                         ELSE unreported
          /\ Trim(cursors')
          /\ UNCHANGED <<appended, delivered, reported>>
      BY <1>8 DEF DropReader, ghostVars
    <3>2. Live' = {} /\ Told' = Told
      BY <2>2, <3>1 DEF Live, Told
    <3>3. Deficit(c) \in Nat
      BY <1>2, <2>1 DEF Deficit, Behind
    <3> QED
      BY <2>1, <2>2, <3>1, <3>2, <3>3
  <2>4. base' = base
    BY <1>2, <2>3 DEF Trim, TrimmedBase, Live
  <2>5. Told = 0 .. c.next - c.pendingGap - 1
    BY <1>1
  <2>6. base' - unreported' = c.next - c.pendingGap
    BY <1>2, <2>1, <2>3, <2>4 DEF Deficit, Behind
  <2> HIDE DEF c
  <2>7. Told' = 0 .. base' - unreported' - 1
    BY <2>3, <2>5, <2>6
  <2> QED
    BY <1>1, <2>3, <2>7 DEF Frontier
<1>9. CASE UNCHANGED <<logVars, delivered, reported>>
  <2>1. UNCHANGED <<base, unreported, cursors>> /\ Live' = Live /\ Told' = Told
          /\ UNCHANGED <<delivered, reported>>
    BY <1>9 DEF logVars, Live, Told
  <2> QED
    BY <1>1, <2>1
<1>10. CASE Close
  <2>1. UNCHANGED <<base, unreported, cursors>> /\ Live' = Live /\ Told' = Told
          /\ UNCHANGED <<delivered, reported>>
    BY <1>10 DEF Close, ghostVars, Live, Told
  <2> QED
    BY <1>1, <2>1
<1>11. CASE NotifyWaiters \/ \E r \in Readers : PollNothing(r) \/ CancelRecv(r)
  BY <1>9, <1>11 DEF NotifyWaiters, PollNothing, CancelRecv, ghostVars
<1>12. CASE UNCHANGED vars
  BY <1>9, <1>12 DEF vars, ghostVars
<1>13. Frontier' => /\ \A r, q \in Live' : r = q
                    /\ delivered' \cap reported' = {}
                    /\ Live' = {} => Told' = 0 .. base' - unreported' - 1
                    /\ \A r \in Live' :
                          Told' = 0 .. cursors'[r].next
                                         - cursors'[r].pendingGap - 1
  BY DEF Frontier
<1>14. CASE \E r \in Readers : Recv(r) \/ CancelRecv(r) \/ DropReader(r)
  BY <1>5, <1>6, <1>7, <1>8, <1>11, <1>13, <1>14 DEF Recv, DropReader
<1> QED
  BY <1>3, <1>4, <1>10, <1>11, <1>12, <1>14 DEF Next

\* The frontier is the exact account of every event that left the log.
LEMMA FrontierExact == LogInv /\ Frontier => ExactlyAccounted
<1> SUFFICES ASSUME LogInv, Frontier, overlapped = {}
             PROVE  /\ Told \cup Owed = 0 .. base - 1
                    /\ delivered \cap reported = {}
                    /\ Told \cap Owed = {}
  BY DEF ExactlyAccounted, Told
<1>1. base \in Nat /\ unreported \in Nat /\ unreported =< base
  BY DEF LogInv, TypeOK, Unreported
<1>2. delivered \cap reported = {}
  BY DEF Frontier
<1>3. CASE Live = {}
  <2>1. Owed = (base - unreported) .. (base - 1)
    BY <1>3 DEF Owed
  <2>2. Told = 0 .. base - unreported - 1
    BY <1>3 DEF Frontier
  <2> QED
    BY <1>1, <1>2, <2>1, <2>2
<1>4. CASE Live # {}
  <2>1. PICK r \in Live : TRUE
    BY <1>4
  <2>2. Live = {r}
    BY DEF Frontier
  <2> DEFINE c == cursors[r]
  <2>3. /\ c.next =< base /\ c.pendingGap =< c.next
        /\ c.next \in Nat /\ c.pendingGap \in Nat /\ unreported = 0
    BY <2>2, SoleReader
  <2>4. Told = 0 .. c.next - c.pendingGap - 1
    BY DEF Frontier
  <2>5. Owed = (base .. base - 1) \cup (c.next - c.pendingGap) .. (base - 1)
    BY <1>1, <2>2, <2>3 DEF Owed
  <2> HIDE DEF c
  <2>6. base .. base - 1 = {}
    BY <1>1
  <2>7. Owed = (c.next - c.pendingGap) .. (base - 1)
    BY <2>5, <2>6
  <2> QED
    BY <1>1, <1>2, <2>3, <2>4, <2>7
<1> QED
  BY <1>3, <1>4

\* While readers do not overlap, every event that leaves the log is received, or
\* reported lost, or owed to the next reader, exactly once: no loss is silent
\* and none is reported twice, across any number of reader replacements.
THEOREM LossIsReported == Spec => []ExactlyAccounted
<1>1. Init => Frontier
  BY DEF Init, Frontier, Live, Told
<1> QED
  BY <1>1, LogInit, LogStep, FrontierStep, FrontierExact, PTL DEF Spec
=============================================================================
