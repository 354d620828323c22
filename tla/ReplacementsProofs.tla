------------------------- MODULE ReplacementsProofs -------------------------
(***************************************************************************)
(* Proofs about Replacements, for every set of publishers, every set of     *)
(* changes and every bound: the mailbox is sound (MailboxCorrect), each     *)
(* group of fields on the page is a latest-value register                   *)
(* (RegistersCorrect), and a page nothing is on its way to shows the thread *)
(* file (ViewsCorrect).                                                     *)
(*                                                                          *)
(* The model keeps no history of the file, so the argument is about the     *)
(* snapshots in circulation: those a publisher, the mailbox, the ordered    *)
(* queue, the bootstrap, a fetch or the page holds.  Any two of them, and   *)
(* the file, could have been versions of one file in the order of their     *)
(* revisions (OneHistory), which no step can spoil: a step only copies a    *)
(* snapshot already in circulation, or commits a file newer than all.       *)
(***************************************************************************)
EXTENDS Replacements, SequenceTheorems, TLAPS

\* x is an element of the sequence s.
Has(s, x) == \E i \in 1 .. Len(s) : s[i] = x

\* The snapshots the server, the connection and the page hold, and the file.
Circulating ==
    {file, state, boot.snap, refresh.read,
     authority.common, authority.detail, authority.summary}
      \cup {pub[p].snap : p \in Publishers}
      \cup {ordered[i] : i \in 1 .. Len(ordered)}

\* No field of a snapshot is younger than the snapshot.
Dated(a) == \A f \in Fields : a[f] =< a.rev

\* b could be a later version of the file a was read from: what differs in it
\* changed after a.
Follows(a, b) == a.rev =< b.rev => \A f \in Fields : b[f] = a[f] \/ b[f] > a.rev

\* The snapshots of C are versions of one file, whose newest is top.
History(C, top) ==
    /\ C \subseteq Snapshot /\ top \in C
    /\ \A a \in C : a.rev =< top.rev /\ Dated(a)
    /\ \A a, b \in C : Follows(a, b)

OneHistory == History(Circulating, file)

\* The page takes the common fields from the newest payload it accepted.
CommonIsNewest ==
    /\ authority.detail.rev =< authority.common.rev
    /\ authority.summary.rev =< authority.common.rev

\* A permit never meets a parked writer, and a writer that is about to park, or
\* has, with a message in the mailbox is going to be woken.
Wakeups ==
    /\ permit => writer # "parked"
    /\ order # <<>> /\ writer # "loop" => permit \/ \E p \in Publishers : pub[p].notify

MailInv == TypeOK /\ NoConflict /\ Wakeups /\ OneHistory /\ CommonIsNewest

\* The file's value of f is on its way to the page as thread state.
ThreadComing(f) ==
    \/ \E p \in Publishers : Has(pub[p].work, "thread") /\ pub[p].snap[f] = file[f]
    \/ Queued("thread") /\ state[f] = file[f]
    \/ \E i \in 1 .. Len(ordered) : ordered[i][f] = file[f]
    \/ boot.pc \in {"requested", "subscribed"}
    \/ boot.pc = "read" /\ boot.snap[f] = file[f]

DetailFollows ==
    subscribed => \A f \in {"common", "detail"} :
                     authority[f][f] = file[f] \/ ThreadComing(f)

\* An invalidation of the catalog is on its way to the page.
CatalogComing ==
    Queued("catalog") \/ \E p \in Publishers : Has(pub[p].work, "catalog")

\* While no invalidation is coming, a list the page does not want again shows the
\* file's row, and so does a reply it is going to use.
CatalogFollows ==
    open /\ ~CatalogComing =>
        /\ ~refresh.dirty => authority.summary.catalog = file.catalog
        /\ refresh.fresh /\ refresh.read # NoSnap => refresh.read.catalog = file.catalog

\* A fetch, or the timer of one, is there because the page wants the list.
FetchIsWanted == refresh.running \/ refresh.timer => refresh.dirty

ViewInv == MailInv /\ FetchIsWanted /\ DetailFollows /\ CatalogFollows

-----------------------------------------------------------------------------
(* Snapshots and sequences *)

\* The fields of a snapshot are numbers.
LEMMA SnapFields ==
    ASSUME NEW s \in Snapshot
    PROVE  /\ s.rev \in Nat /\ s.common \in Nat /\ s.detail \in Nat /\ s.catalog \in Nat
           /\ \A f \in Fields : s[f] \in Nat
BY DEF Snapshot, Fields

\* NoSnap is a snapshot of a file that was never written.
LEMMA NoSnapIs ==
    NoSnap \in Snapshot /\ NoSnap.rev = 0 /\ \A f \in Fields : NoSnap[f] = 0
BY DEF NoSnap, Snapshot, Fields

\* A commit takes the next revision and dates the changed fields with it.
LEMMA CommittedIs ==
    ASSUME file \in Snapshot, NEW F \in SUBSET Fields
    PROVE  /\ Committed(F) \in Snapshot
           /\ Committed(F).rev = file.rev + 1
           /\ \A f \in Fields : Committed(F)[f] = IF f \in F THEN file.rev + 1 ELSE file[f]
<1>1. DOMAIN file = {"rev", "common", "detail", "catalog"}
  BY DEF Snapshot
<1>2. file.rev \in Nat /\ file.rev + 1 \in Nat
  BY DEF Snapshot
<1>. DEFINE new == Committed(F)
<1>3. /\ DOMAIN new = {"rev", "common", "detail", "catalog"}
      /\ new.rev = file.rev + 1
      /\ \A f \in Fields : new[f] = IF f \in F THEN file.rev + 1 ELSE file[f]
  BY <1>1 DEF Committed, Fields
<1>4. PICK n : n = new
  OBVIOUS
<1>5. n \in Snapshot
  <2>1. n = [x \in {"rev", "common", "detail", "catalog"} |->
               IF x = "rev" \/ x \in F THEN file.rev + 1 ELSE file[x]]
    BY <1>1, <1>4 DEF Committed
  <2>2. \A x \in {"rev", "common", "detail", "catalog"} :
           (IF x = "rev" \/ x \in F THEN file.rev + 1 ELSE file[x]) \in Nat
    BY <1>2, SnapFields DEF Fields
  <2>3. n \in [{"rev", "common", "detail", "catalog"} -> Nat]
    BY <2>1, <2>2
  <2>4. n = [rev |-> n.rev, common |-> n.common, detail |-> n.detail, catalog |-> n.catalog]
    BY <2>3
  <2>. QED  BY <2>3, <2>4 DEF Snapshot
<1>. QED  BY <1>3, <1>4, <1>5

\* The mutations owe messages of the two keys: thread state whenever a field of
\* the detail projection changed, an invalidation whenever one of the catalog's did.
LEMMA OwedIs ==
    ASSUME NEW F \in SUBSET Fields
    PROVE  /\ Owed(F) \in Seq(Keys)
           /\ "common" \in F \/ "detail" \in F => Has(Owed(F), "thread")
           /\ "common" \in F \/ "catalog" \in F => Has(Owed(F), "catalog")
<1>. DEFINE A == IF F \cap {"common", "detail"} # {} THEN <<"thread">> ELSE <<>>
            B == IF F \cap {"common", "catalog"} # {} THEN <<"catalog">> ELSE <<>>
<1>1. A \in Seq(Keys) /\ B \in Seq(Keys)
  <2>1. <<>> \in Seq(Keys) /\ <<"thread">> \in Seq(Keys) /\ <<"catalog">> \in Seq(Keys)
    BY EmptySeq DEF Keys
  <2>. QED  BY <2>1
<1>2. /\ Owed(F) = A \o B
      /\ Owed(F) \in Seq(Keys) /\ Len(Owed(F)) = Len(A) + Len(B)
      /\ \A i \in 1 .. Len(A) + Len(B) :
            Owed(F)[i] = IF i =< Len(A) THEN A[i] ELSE B[i - Len(A)]
  <2>. HIDE DEF A, B
  <2>1. Owed(F) = A \o B
    BY DEF Owed, A, B
  <2>. QED  BY <1>1, <2>1, ConcatProperties
<1>3. ASSUME "common" \in F \/ "detail" \in F PROVE Has(Owed(F), "thread")
  <2>1. A = <<"thread">> /\ Len(A) = 1 /\ A[1] = "thread"
    BY <1>3
  <2>2. 1 \in 1 .. Len(A) + Len(B) /\ 1 =< Len(A)
    BY <1>1, <2>1, LenProperties
  <2>3. Owed(F)[1] = "thread"
    <3>. HIDE DEF A, B
    <3>. QED  BY <1>2, <2>1, <2>2
  <2>. HIDE DEF A, B
  <2>. QED  BY <1>2, <2>2, <2>3 DEF Has
<1>4. ASSUME "common" \in F \/ "catalog" \in F PROVE Has(Owed(F), "catalog")
  <2>1. B = <<"catalog">> /\ Len(B) = 1 /\ B[1] = "catalog"
    BY <1>4
  <2>2. Len(A) \in Nat /\ Len(A) + 1 \in 1 .. Len(A) + Len(B)
    BY <1>1, <2>1, LenProperties
  <2>3. Owed(F)[Len(A) + 1] = "catalog"
    <3>. HIDE DEF A, B
    <3>1. ~(Len(A) + 1 =< Len(A)) /\ (Len(A) + 1) - Len(A) = 1
      BY <2>2
    <3>. QED  BY <1>2, <2>1, <2>2, <3>1
  <2>. HIDE DEF A, B
  <2>. QED  BY <1>2, <2>2, <2>3 DEF Has
<1>. QED  BY <1>2, <1>3, <1>4

\* What the tail of a sequence has.
LEMMA TailHas ==
    ASSUME NEW S, NEW s \in Seq(S), s # <<>>, NEW x
    PROVE  /\ Tail(s) \in Seq(S) /\ Head(s) \in S
           /\ Has(Tail(s), x) => Has(s, x)
           /\ Has(s, x) => Head(s) = x \/ Has(Tail(s), x)
           /\ Has(s, Head(s))
           /\ \A i \in 1 .. Len(Tail(s)) : i + 1 \in 1 .. Len(s) /\ Tail(s)[i] = s[i + 1]
<1>1. /\ Tail(s) \in Seq(S) /\ Head(s) \in S /\ Len(s) \in Nat /\ Len(s) >= 1
      /\ Head(s) = s[1] /\ Len(Tail(s)) = Len(s) - 1
      /\ \A i \in 1 .. Len(Tail(s)) : Tail(s)[i] = s[i + 1]
  BY HeadTailProperties, LenProperties, EmptySeq
<1>2. \A i \in 1 .. Len(Tail(s)) : i + 1 \in 1 .. Len(s)
  BY <1>1
<1>3. Has(Tail(s), x) => Has(s, x)
  BY <1>1, <1>2 DEF Has
<1>4. ASSUME Has(s, x), Head(s) # x PROVE Has(Tail(s), x)
  <2>1. PICK i \in 1 .. Len(s) : s[i] = x
    BY <1>4 DEF Has
  <2>2. i # 1
    BY <1>1, <1>4, <2>1
  <2>3. i - 1 \in 1 .. Len(Tail(s)) /\ (i - 1) + 1 = i
    BY <1>1, <2>1, <2>2
  <2>4. Tail(s)[i - 1] = x
    BY <1>1, <2>1, <2>3
  <2>. QED  BY <2>3, <2>4 DEF Has
<1>5. Has(s, Head(s))
  BY <1>1 DEF Has
<1>. QED  BY <1>1, <1>2, <1>3, <1>4, <1>5

\* What a sequence has after an Append.
LEMMA AppendHas ==
    ASSUME NEW S, NEW s \in Seq(S), NEW e \in S
    PROVE  /\ Append(s, e) \in Seq(S) /\ Append(s, e) # <<>>
           /\ Len(Append(s, e)) = Len(s) + 1 /\ Append(s, e)[Len(s) + 1] = e
           /\ \A i \in 1 .. Len(s) : Append(s, e)[i] = s[i]
           /\ Has(Append(s, e), e)
           /\ \A x : Has(s, x) => Has(Append(s, e), x)
<1>1. /\ Append(s, e) \in Seq(S) /\ Append(s, e) # <<>> /\ Len(s) \in Nat
      /\ Len(Append(s, e)) = Len(s) + 1 /\ Append(s, e)[Len(s) + 1] = e
      /\ \A i \in 1 .. Len(s) : Append(s, e)[i] = s[i]
  BY AppendProperties, LenProperties
<1>2. Len(s) + 1 \in 1 .. Len(s) + 1 /\ \A i \in 1 .. Len(s) : i \in 1 .. Len(s) + 1
  BY <1>1
<1>. QED  BY <1>1, <1>2 DEF Has
-----------------------------------------------------------------------------
(* Histories *)

\* Copying snapshots, forgetting them and starting from none keeps a history.
LEMMA HistoryStays ==
    ASSUME NEW C, NEW D, NEW top, History(C, top),
           D \subseteq C \cup {NoSnap}, top \in D
    PROVE  History(D, top)
<1>1. \A a \in C : a \in Snapshot /\ a.rev \in Nat /\ \A f \in Fields : a[f] \in Nat
  BY SnapFields DEF History
<1>2. Dated(NoSnap)
  BY NoSnapIs DEF Dated
<1>3. ASSUME NEW a \in C PROVE Follows(a, NoSnap) /\ Follows(NoSnap, a)
  <2>1. Follows(NoSnap, a)
    BY <1>1, NoSnapIs DEF Follows
  <2>2. ASSUME a.rev =< NoSnap.rev, NEW f \in Fields PROVE NoSnap[f] = a[f]
    <3>1. a[f] =< a.rev /\ a[f] \in Nat /\ a.rev \in Nat
      BY <1>1 DEF History, Dated
    <3>. QED  BY <2>2, <3>1, NoSnapIs
  <2>. QED  BY <2>1, <2>2 DEF Follows
<1>4. Follows(NoSnap, NoSnap)
  BY DEF Follows
<1>5. D \subseteq Snapshot
  BY NoSnapIs DEF History
<1>6. \A a \in D : a.rev =< top.rev /\ Dated(a)
  BY <1>1, <1>2, NoSnapIs DEF History
<1>7. \A a, b \in D : Follows(a, b)
  BY <1>3, <1>4 DEF History
<1>. QED  BY <1>5, <1>6, <1>7 DEF History

\* A commit adds a version newer than all.
LEMMA HistoryGrows ==
    ASSUME NEW C, History(C, file), NEW F \in SUBSET Fields
    PROVE  History(C \cup {Committed(F)}, Committed(F))
<1>. DEFINE new == Committed(F)
<1>1. file \in Snapshot
  BY DEF History
<1>2. /\ new \in Snapshot /\ new.rev = file.rev + 1
      /\ \A f \in Fields : new[f] = IF f \in F THEN file.rev + 1 ELSE file[f]
  BY <1>1, CommittedIs
<1>. HIDE DEF new
<1>3. \A a \in C : a \in Snapshot /\ a.rev \in Nat /\ \A f \in Fields : a[f] \in Nat
  BY SnapFields DEF History
<1>4. \A a \in C : a.rev =< file.rev /\ Dated(a) /\ Follows(a, file)
  BY DEF History
<1>5. file.rev \in Nat /\ new.rev \in Nat /\ Dated(file)
  BY <1>1, <1>2, <1>4, SnapFields DEF History
<1>6. Dated(new)
  <2>. SUFFICES ASSUME NEW f \in Fields PROVE new[f] =< new.rev
    BY DEF Dated
  <2>1. file[f] =< file.rev /\ file[f] \in Nat
    BY <1>1, <1>5, SnapFields DEF Dated
  <2>. QED  BY <1>2, <1>5, <2>1
<1>7. ASSUME NEW a \in C PROVE a.rev =< new.rev /\ Follows(a, new) /\ Follows(new, a)
  <2>1. a.rev =< file.rev /\ a.rev \in Nat
    BY <1>3, <1>4
  <2>2. ASSUME NEW f \in Fields PROVE new[f] = a[f] \/ new[f] > a.rev
    <3>1. file[f] = a[f] \/ file[f] > a.rev
      BY <1>4, <2>1 DEF Follows
    <3>. QED  BY <1>2, <1>5, <2>1, <3>1
  <2>3. ~(new.rev =< a.rev)
    BY <1>2, <1>5, <2>1
  <2>. QED  BY <1>2, <1>5, <2>1, <2>2, <2>3 DEF Follows
<1>8. Follows(new, new) /\ new.rev =< new.rev
  BY <1>5 DEF Follows
<1>9. History(C \cup {new}, new)
  BY <1>2, <1>4, <1>6, <1>7, <1>8 DEF History
<1>. QED  BY <1>9 DEF new

\* Versions of one revision are one version.
LEMMA OneRevision ==
    ASSUME NEW C, NEW top, History(C, top), NEW a \in C, NEW b \in C, a.rev = b.rev
    PROVE  \A f \in Fields : a[f] = b[f]
<1>1. /\ a.rev \in Nat /\ b.rev \in Nat /\ Dated(a) /\ Dated(b) /\ Follows(a, b)
      /\ \A f \in Fields : a[f] \in Nat /\ b[f] \in Nat
  BY SnapFields DEF History
<1>. SUFFICES ASSUME NEW f \in Fields PROVE a[f] = b[f]
  OBVIOUS
<1>2. b[f] = a[f] \/ b[f] > a.rev
  BY <1>1 DEF Follows
<1>. QED  BY <1>1, <1>2 DEF Dated

\* A later version has no older value, and has the newest if the earlier one does.
LEMMA LaterVersion ==
    ASSUME NEW C, NEW top, History(C, top), NEW a \in C, NEW b \in C, a.rev =< b.rev,
           NEW f \in Fields
    PROVE  /\ a[f] \in Nat /\ b[f] \in Nat /\ top[f] \in Nat
           /\ a[f] =< b[f] /\ b[f] =< top[f]
           /\ a[f] = top[f] => b[f] = top[f]
<1>1. /\ a.rev \in Nat /\ b.rev \in Nat /\ top.rev \in Nat /\ b.rev =< top.rev
      /\ Dated(a) /\ Dated(b) /\ Follows(a, b) /\ Follows(b, top)
      /\ a[f] \in Nat /\ b[f] \in Nat /\ top[f] \in Nat
  BY SnapFields DEF History
<1>2. (b[f] = a[f] \/ b[f] > a.rev) /\ (top[f] = b[f] \/ top[f] > b.rev)
  BY <1>1 DEF Follows
<1>3. a[f] =< a.rev /\ b[f] =< b.rev
  BY <1>1 DEF Dated
<1>. QED  BY <1>1, <1>2, <1>3

\* What circulates after a step is what its variables hold.
LEMMA CirculatingFrom ==
    ASSUME NEW D, file' \in D, state' \in D, boot'.snap \in D, refresh'.read \in D,
           authority'.common \in D, authority'.detail \in D, authority'.summary \in D,
           \A p \in Publishers : pub'[p].snap \in D,
           \A i \in 1 .. Len(ordered') : ordered'[i] \in D
    PROVE  Circulating' \subseteq D
BY DEF Circulating

\* What circulates.
LEMMA InCirculation ==
    /\ file \in Circulating /\ state \in Circulating
    /\ boot.snap \in Circulating /\ refresh.read \in Circulating
    /\ authority.common \in Circulating /\ authority.detail \in Circulating
    /\ authority.summary \in Circulating
    /\ \A p \in Publishers : pub[p].snap \in Circulating
    /\ \A i \in 1 .. Len(ordered) : ordered[i] \in Circulating
BY DEF Circulating

\* The history survives a step that copies snapshots.
LEMMA HistoryKept ==
    ASSUME OneHistory, file' = file, Circulating' \subseteq Circulating \cup {NoSnap}
    PROVE  OneHistory'
<1>1. file' \in Circulating'
  BY DEF Circulating
<1>. QED  BY <1>1, HistoryStays DEF OneHistory

-----------------------------------------------------------------------------
(* Publishers *)

PublishersTyped == pub \in [Publishers -> PublisherState]

\* p's record is replaced; the other publishers keep theirs.
Sets(p, snap, work, notify) ==
    /\ PublishersTyped'
    /\ pub'[p].snap = snap /\ pub'[p].work = work /\ pub'[p].notify = notify
    /\ \A q \in Publishers : q # p => pub'[q] = pub[q]

\* The parts of a publisher's record.
LEMMA PublisherParts ==
    ASSUME PublishersTyped, NEW p \in Publishers
    PROVE  /\ pub[p].snap \in Snapshot /\ pub[p].work \in Seq(Keys)
           /\ pub[p].notify \in BOOLEAN
           /\ pub[p] = [snap |-> pub[p].snap, work |-> pub[p].work, notify |-> pub[p].notify]
<1>1. pub[p] \in PublisherState
  BY DEF PublishersTyped
<1>. QED  BY <1>1 DEF PublisherState

\* A record of the right types replaces a publisher's.
LEMMA PublisherSet ==
    ASSUME PublishersTyped, NEW p \in Publishers, NEW r \in PublisherState,
           pub' = [pub EXCEPT ![p] = r]
    PROVE  Sets(p, r.snap, r.work, r.notify)
<1>1. pub'[p] = r /\ \A q \in Publishers : q # p => pub'[q] = pub[q]
  BY DEF PublishersTyped
<1>2. pub' \in [Publishers -> PublisherState]
  BY DEF PublishersTyped
<1>. QED  BY <1>1, <1>2 DEF Sets, PublishersTyped

\* What Published does to the publisher.
LEMMA PublishedIs ==
    ASSUME PublishersTyped, NEW p \in Publishers, NEW n \in BOOLEAN,
           pub[p].work # <<>>, Published(p, n)
    PROVE  Sets(p, pub[p].snap, Tail(pub[p].work), n)
<1>1. pub[p] \in PublisherState /\ Tail(pub[p].work) \in Seq(Keys)
  BY PublisherParts, TailHas DEF PublishersTyped
<1>. DEFINE mid == [pub[p] EXCEPT !.work = Tail(@)]
            new == [mid EXCEPT !.notify = n]
<1>2. pub' = [pub EXCEPT ![p] = new]
  BY DEF Published
<1>3. mid \in PublisherState /\ mid.snap = pub[p].snap /\ mid.work = Tail(pub[p].work)
  BY <1>1 DEF PublisherState
<1>. HIDE DEF mid
<1>4. new \in PublisherState /\ new.snap = mid.snap /\ new.work = mid.work /\ new.notify = n
  BY <1>3 DEF PublisherState
<1>. HIDE DEF new
<1>. QED  BY <1>2, <1>3, <1>4, PublisherSet

\* What a notification does to the publisher.
LEMMA NotifiedIs ==
    ASSUME PublishersTyped, NEW p \in Publishers,
           pub' = [pub EXCEPT ![p].notify = FALSE]
    PROVE  Sets(p, pub[p].snap, pub[p].work, FALSE)
<1>1. pub[p] \in PublisherState
  BY DEF PublishersTyped
<1>. DEFINE new == [pub[p] EXCEPT !.notify = FALSE]
<1>2. pub' = [pub EXCEPT ![p] = new]
  OBVIOUS
<1>3. new \in PublisherState /\ new.snap = pub[p].snap /\ new.work = pub[p].work
      /\ new.notify = FALSE
  BY <1>1 DEF PublisherState
<1>. HIDE DEF new
<1>. QED  BY <1>2, <1>3, PublisherSet

\* The idle publisher.
LEMMA IdleParts ==
    Idle \in PublisherState /\ Idle.snap = NoSnap /\ Idle.work = <<>> /\ Idle.notify = FALSE
<1>1. <<>> \in Seq(Keys) /\ NoSnap \in Snapshot
  BY EmptySeq, NoSnapIs
<1>. QED  BY <1>1 DEF Idle, PublisherState

\* A publisher that is done is idle.
LEMMA IdleIs ==
    ASSUME PublishersTyped, NEW p \in Publishers, pub' = [pub EXCEPT ![p] = Idle]
    PROVE  Sets(p, NoSnap, <<>>, FALSE)
BY IdleParts, PublisherSet

\* A mutation sets its publisher to work.
LEMMA MutateIs ==
    ASSUME PublishersTyped, file \in Snapshot, NEW p \in Publishers,
           NEW F \in SUBSET Fields, Mutate(p, F)
    PROVE  /\ file' = Committed(F) /\ file' \in Snapshot
           /\ Sets(p, file', Owed(F), FALSE)
<1>1. file' = Committed(F) /\ file' \in Snapshot /\ pub[p] = Idle
  BY CommittedIs DEF Mutate
<1>2. pub[p] \in PublisherState /\ pub[p].notify = FALSE /\ Owed(F) \in Seq(Keys)
  BY <1>1, IdleParts, OwedIs
<1>. DEFINE mid == [pub[p] EXCEPT !.snap = file']
            new == [mid EXCEPT !.work = Owed(F)]
<1>3. pub' = [pub EXCEPT ![p] = new]
  BY DEF Mutate
<1>4. mid \in PublisherState /\ mid.snap = file' /\ mid.notify = FALSE
  BY <1>1, <1>2 DEF PublisherState
<1>. HIDE DEF mid
<1>5. new \in PublisherState /\ new.snap = file' /\ new.work = Owed(F) /\ new.notify = FALSE
  BY <1>2, <1>4 DEF PublisherState
<1>. HIDE DEF new
<1>. QED  BY <1>1, <1>3, <1>5, PublisherSet
-----------------------------------------------------------------------------
(* The page *)

Authority == [common : Snapshot, detail : Snapshot, summary : Snapshot]

\* The page's view new after a payload: every part has the payload or what it had,
\* and none is older than before; the common fields are the newest.
Takes(new, kind, snap) ==
    /\ new \in Authority
    /\ \A x \in {"common", "detail", "summary"} :
          new[x] \in {authority[x], snap} /\ authority[x].rev =< new[x].rev
    /\ \A x \in {"detail", "summary"} : new[x].rev =< new.common.rev
    /\ snap.rev =< new[kind].rev
    /\ ~Stale(kind, snap) => new[kind] = snap
    /\ \A x \in {"detail", "summary"} : x # kind => new[x] = authority[x]

\* No payload in circulation conflicts with what the page has, and the page takes it
\* if it is not stale.
LEMMA AcceptIs ==
    ASSUME authority \in Authority, OneHistory, CommonIsNewest,
           NEW kind \in {"detail", "summary"}, NEW snap \in Circulating
    PROVE  ~Conflict(kind, snap) /\ Takes(Accept(kind, snap), kind, snap)
<1>1. /\ authority.common \in Snapshot /\ authority[kind] \in Snapshot
      /\ authority.common \in Circulating /\ authority[kind] \in Circulating
      /\ authority[kind].rev =< authority.common.rev
  BY InCirculation DEF Authority, CommonIsNewest
<1>2. snap \in Snapshot /\ History(Circulating, file)
  BY DEF OneHistory, History
<1>3. /\ snap.rev \in Nat /\ authority.common.rev \in Nat /\ authority[kind].rev \in Nat
      /\ authority.detail.rev \in Nat /\ authority.summary.rev \in Nat
  BY <1>1, <1>2, SnapFields DEF Authority
<1>4. ASSUME NEW a \in {authority.common, authority[kind]}, snap.rev = a.rev
      PROVE  snap.common = a.common /\ snap.detail = a.detail /\ snap.catalog = a.catalog
  <2>1. \A f \in Fields : snap[f] = a[f]
    BY <1>1, <1>2, <1>4, OneRevision
  <2>. QED  BY <2>1 DEF Fields
<1>5. ~Conflict(kind, snap)
  BY <1>4 DEF Conflict, Same, SameDetail, SameSummary
<1>. DEFINE com == IF authority.common = NoSnap \/ snap.rev > authority.common.rev
                   THEN snap ELSE authority.common
<1>6. /\ com \in Snapshot /\ com \in {authority.common, snap}
      /\ authority.common.rev =< com.rev /\ snap.rev =< com.rev /\ com.rev \in Nat
  BY <1>1, <1>2, <1>3, NoSnapIs
<1>7. CASE Stale(kind, snap)
  <2>1. Accept(kind, snap) = authority
    BY <1>7 DEF Accept
  <2>2. snap.rev =< authority[kind].rev
    BY <1>3, <1>7 DEF Stale
  <2>3. \A x \in {"common", "detail", "summary"} : authority[x].rev =< authority[x].rev
    BY <1>3
  <2>. QED  BY <1>5, <1>7, <2>1, <2>2, <2>3 DEF Takes, CommonIsNewest
<1>8. CASE ~Stale(kind, snap)
  <2>1. Accept(kind, snap) = [authority EXCEPT ![kind] = snap, !.common = com]
    <3>1. authority.common = [authority EXCEPT ![kind] = snap].common
      BY DEF Authority
    <3>. QED  BY <1>5, <1>8, <3>1 DEF Accept
  <2>. HIDE DEF com
  <2>2. authority[kind].rev =< snap.rev
    BY <1>3, <1>8 DEF Stale
  <2>3. CASE kind = "detail"
    <3>. DEFINE mid == [authority EXCEPT !.detail = snap]
                new == [mid EXCEPT !.common = com]
    <3>1. Accept(kind, snap) = new
      BY <2>1, <2>3
    <3>2. mid \in Authority /\ mid.detail = snap /\ mid.summary = authority.summary
      BY <1>2 DEF Authority
    <3>. HIDE DEF mid
    <3>3. new \in Authority /\ new.common = com /\ new.detail = snap
          /\ new.summary = authority.summary
      BY <1>6, <3>2 DEF Authority
    <3>. HIDE DEF new
    <3>4. authority.summary.rev =< com.rev
      BY <1>3, <1>6 DEF CommonIsNewest
    <3>5. Takes(new, kind, snap)
      BY <1>3, <1>6, <2>2, <2>3, <3>3, <3>4 DEF Takes
    <3>. QED  BY <1>5, <3>1, <3>5
  <2>4. CASE kind = "summary"
    <3>. DEFINE mid == [authority EXCEPT !.summary = snap]
                new == [mid EXCEPT !.common = com]
    <3>1. Accept(kind, snap) = new
      BY <2>1, <2>4
    <3>2. mid \in Authority /\ mid.summary = snap /\ mid.detail = authority.detail
      BY <1>2 DEF Authority
    <3>. HIDE DEF mid
    <3>3. new \in Authority /\ new.common = com /\ new.summary = snap
          /\ new.detail = authority.detail
      BY <1>6, <3>2 DEF Authority
    <3>. HIDE DEF new
    <3>4. authority.detail.rev =< com.rev
      BY <1>3, <1>6 DEF CommonIsNewest
    <3>5. Takes(new, kind, snap)
      BY <1>3, <1>6, <2>2, <2>4, <3>3, <3>4 DEF Takes
    <3>. QED  BY <1>5, <3>1, <3>5
  <2>. QED  BY <2>3, <2>4
<1>. QED  BY <1>7, <1>8

\* A step of the page: nothing, or it takes a payload in circulation.
PageStep ==
    \/ authority' = authority
    \/ \E kind \in {"detail", "summary"} : \E snap \in Circulating :
          Takes(authority', kind, snap)

\* What a page step leaves: types, circulation and the newest common fields.
LEMMA PageStepIs ==
    ASSUME authority \in Authority, OneHistory, CommonIsNewest, PageStep
    PROVE  /\ authority' \in Authority /\ CommonIsNewest'
           /\ \A x \in {"common", "detail", "summary"} :
                 authority'[x] \in Circulating /\ authority[x].rev =< authority'[x].rev
<1>1. CASE authority' = authority
  <2>1. \A x \in {"common", "detail", "summary"} : authority[x].rev \in Nat
    BY SnapFields DEF Authority
  <2>2. \A x \in {"common", "detail", "summary"} : authority[x].rev =< authority[x].rev
    BY <2>1
  <2>. QED  BY <1>1, <2>2, InCirculation DEF CommonIsNewest
<1>2. ASSUME NEW kind \in {"detail", "summary"}, NEW snap \in Circulating,
             Takes(authority', kind, snap)
      PROVE  /\ authority' \in Authority /\ CommonIsNewest'
             /\ \A x \in {"common", "detail", "summary"} :
                   authority'[x] \in Circulating /\ authority[x].rev =< authority'[x].rev
  <2>1. \A x \in {"common", "detail", "summary"} : authority[x] \in Circulating
    BY InCirculation
  <2>. QED  BY <1>2, <2>1 DEF Takes, CommonIsNewest
<1>. QED  BY <1>1, <1>2 DEF PageStep

\* A payload in circulation that the page handles.
LEMMA PageHandles ==
    ASSUME authority \in Authority, OneHistory, CommonIsNewest, NoConflict,
           NEW kind \in {"detail", "summary"}, NEW snap \in Circulating,
           authority' = Accept(kind, snap),
           conflicted' = (conflicted \/ (~Stale(kind, snap) /\ Conflict(kind, snap)))
    PROVE  PageStep /\ Takes(authority', kind, snap) /\ conflicted' = FALSE
<1>1. ~Conflict(kind, snap) /\ Takes(authority', kind, snap)
  BY AcceptIs
<1>2. conflicted' = FALSE
  BY <1>1 DEF NoConflict
<1>. QED  BY <1>1, <1>2 DEF PageStep

-----------------------------------------------------------------------------
(* Types *)

RefreshState ==
    [dirty : BOOLEAN, running : BOOLEAN, fresh : BOOLEAN, catchup : BOOLEAN,
     timer : BOOLEAN, read : Snapshot]
BootState == [pc : {"idle", "requested", "subscribed", "read"}, snap : Snapshot]

\* The mailbox's order: keys, each at most once.
OrderTyped ==
    /\ order \in Seq(Keys)
    /\ \A i, j \in 1 .. Len(order) : order[i] = order[j] => i = j

ConnectionTyped ==
    /\ open \in BOOLEAN /\ subscribed \in BOOLEAN
    /\ OrderTyped
    /\ state \in Snapshot
    /\ permit \in BOOLEAN
    /\ writer \in {"loop", "await", "parked"}

BootTyped == ordered \in Seq(Snapshot) /\ boot \in BootState
PageTyped == authority \in Authority /\ refresh \in RefreshState
CountsTyped == conflicted \in BOOLEAN /\ faults \in 0 .. MaxFaults

\* TypeOK by the parts a step changes together.
LEMMA TypeParts ==
    /\ TypeOK <=> /\ file \in Snapshot /\ PublishersTyped /\ ConnectionTyped
                  /\ BootTyped /\ PageTyped /\ CountsTyped
    /\ TypeOK' <=> /\ file' \in Snapshot /\ PublishersTyped' /\ ConnectionTyped'
                   /\ BootTyped' /\ PageTyped' /\ CountsTyped'
<1>1. TypeOK <=> /\ file \in Snapshot /\ PublishersTyped /\ ConnectionTyped
                 /\ BootTyped /\ PageTyped /\ CountsTyped
  BY Zenon DEF TypeOK, PublishersTyped, ConnectionTyped, OrderTyped, BootTyped, PageTyped,
         CountsTyped, Authority, RefreshState, BootState
<1>2. TypeOK' <=> /\ file' \in Snapshot /\ PublishersTyped' /\ ConnectionTyped'
                  /\ BootTyped' /\ PageTyped' /\ CountsTyped'
  BY Zenon DEF TypeOK, PublishersTyped, ConnectionTyped, OrderTyped, BootTyped, PageTyped,
         CountsTyped, Authority, RefreshState, BootState
<1>. QED  BY <1>1, <1>2

\* A key is queued once.
LEMMA EnqueueIs ==
    ASSUME OrderTyped, NEW key \in Keys, Enqueue(key)
    PROVE  /\ OrderTyped' /\ order' # <<>> /\ Queued(key)'
           /\ \A k : Queued(k) => Queued(k)'
<1>1. CASE Queued(key)
  <2>1. order' = order
    BY <1>1 DEF Enqueue
  <2>2. order # <<>>
    BY <1>1 DEF Queued
  <2>. QED  BY <1>1, <2>1, <2>2 DEF OrderTyped, Queued
<1>2. CASE ~Queued(key)
  <2>1. order' = Append(order, key)
    BY <1>2 DEF Enqueue
  <2>2. /\ order' \in Seq(Keys) /\ order' # <<>>
        /\ Len(order') = Len(order) + 1 /\ order'[Len(order) + 1] = key
        /\ \A i \in 1 .. Len(order) : order'[i] = order[i]
        /\ Has(order', key) /\ \A x : Has(order, x) => Has(order', x)
    BY <2>1, AppendHas DEF OrderTyped
  <2>3. Len(order) \in Nat
    BY LenProperties DEF OrderTyped
  <2>4. ASSUME NEW i \in 1 .. Len(order'), NEW j \in 1 .. Len(order'), order'[i] = order'[j]
        PROVE  i = j
    <3>1. i \in 1 .. Len(order) \/ i = Len(order) + 1
      BY <2>2, <2>3
    <3>2. j \in 1 .. Len(order) \/ j = Len(order) + 1
      BY <2>2, <2>3
    <3>3. \A n \in 1 .. Len(order) : order[n] # key
      BY <1>2 DEF Queued
    <3>. QED  BY <2>2, <2>4, <3>1, <3>2, <3>3 DEF OrderTyped
  <2>. QED  BY <2>2, <2>4 DEF OrderTyped, Queued, Has
<1>. QED  BY <1>1, <1>2

\* The head of the order is taken.
LEMMA PopIs ==
    ASSUME OrderTyped, order # <<>>, order' = Tail(order)
    PROVE  /\ OrderTyped' /\ Head(order) \in Keys /\ Queued(Head(order))
           /\ \A k : Queued(k) => k = Head(order) \/ Queued(k)'
<1>1. order \in Seq(Keys) /\ Len(order) \in Nat
  BY LenProperties DEF OrderTyped
<1>2. /\ order' \in Seq(Keys) /\ Head(order) \in Keys /\ Has(order, Head(order))
      /\ \A i \in 1 .. Len(order') : i + 1 \in 1 .. Len(order) /\ order'[i] = order[i + 1]
  BY <1>1, TailHas
<1>3. ASSUME NEW k PROVE Has(order, k) => Head(order) = k \/ Has(order', k)
  BY <1>1, TailHas
<1>4. ASSUME NEW i \in 1 .. Len(order'), NEW j \in 1 .. Len(order'), order'[i] = order'[j]
      PROVE  i = j
  <2>1. i + 1 = j + 1
    BY <1>2, <1>4 DEF OrderTyped
  <2>2. i \in Nat /\ j \in Nat
    BY <1>2, LenProperties
  <2>. QED  BY <2>1, <2>2
<1>. QED  BY <1>2, <1>3, <1>4 DEF OrderTyped, Queued, Has

\* Wanting the list again spoils the fetch in progress or starts one.
LEMMA LoadThreadsIs ==
    ASSUME NEW r \in RefreshState
    PROVE  /\ LoadThreads(r) \in RefreshState
           /\ LoadThreads(r).dirty = TRUE
           /\ LoadThreads(r).read \in {r.read, NoSnap}
           /\ LoadThreads(r).fresh = FALSE \/ LoadThreads(r).read = NoSnap
<1>1. CASE r.running
  <2>. DEFINE a == [r EXCEPT !.dirty = TRUE]
              b == [a EXCEPT !.fresh = FALSE]
              c == [b EXCEPT !.timer = FALSE]
  <2>1. LoadThreads(r) = c
    BY <1>1 DEF LoadThreads
  <2>2. a \in RefreshState /\ a.dirty = TRUE /\ a.read = r.read
    BY DEF RefreshState
  <2>. HIDE DEF a
  <2>3. b \in RefreshState /\ b.dirty = TRUE /\ b.read = r.read /\ b.fresh = FALSE
    BY <2>2 DEF RefreshState
  <2>. HIDE DEF b
  <2>4. c \in RefreshState /\ c.dirty = TRUE /\ c.read = r.read /\ c.fresh = FALSE
    BY <2>3 DEF RefreshState
  <2>. HIDE DEF c
  <2>. QED  BY <2>1, <2>4
<1>2. CASE ~r.running
  <2>. DEFINE n == [dirty |-> TRUE, running |-> TRUE, fresh |-> TRUE, catchup |-> FALSE,
                    timer |-> FALSE, read |-> NoSnap]
  <2>1. LoadThreads(r) = n
    BY <1>2 DEF LoadThreads
  <2>2. n \in RefreshState /\ n.dirty = TRUE /\ n.read = NoSnap
    BY NoSnapIs DEF RefreshState
  <2>. HIDE DEF n
  <2>. QED  BY <2>1, <2>2
<1>. QED  BY <1>1, <1>2
-----------------------------------------------------------------------------
(* The mailbox, step by step *)

\* Snapshots a step may leave behind.
Known == Circulating \cup {NoSnap}

\* A step that leaves the file alone and only copies snapshots.
LEMMA MailStep ==
    ASSUME MailInv, TypeOK', NoConflict', Wakeups', file' = file, PageStep,
           state' \in Known, boot'.snap \in Known, refresh'.read \in Known,
           \A p \in Publishers : pub'[p].snap \in Known,
           \A i \in 1 .. Len(ordered') : ordered'[i] \in Known
    PROVE  MailInv'
<1>1. authority \in Authority /\ OneHistory /\ CommonIsNewest
  BY TypeParts DEF MailInv, PageTyped
<1>2. /\ CommonIsNewest'
      /\ authority'.common \in Known /\ authority'.detail \in Known
      /\ authority'.summary \in Known
  BY <1>1, PageStepIs DEF Known
<1>3. file' \in Known
  BY InCirculation DEF Known
<1>4. Circulating' \subseteq Circulating \cup {NoSnap}
  BY <1>2, <1>3, CirculatingFrom DEF Known
<1>5. OneHistory'
  BY <1>1, <1>4, HistoryKept
<1>. QED  BY <1>2, <1>5 DEF MailInv

\* What is in circulation is known.
LEMMA KnownNow ==
    /\ file \in Known /\ state \in Known /\ boot.snap \in Known /\ refresh.read \in Known
    /\ \A p \in Publishers : pub[p].snap \in Known
    /\ \A i \in 1 .. Len(ordered) : ordered[i] \in Known
    /\ NoSnap \in Known
BY InCirculation DEF Known

\* A publisher that keeps its snapshot or drops it leaves known ones.
LEMMA SetsKnown ==
    ASSUME NEW p \in Publishers, NEW snap \in Known, NEW work, NEW notify,
           Sets(p, snap, work, notify)
    PROVE  \A q \in Publishers : pub'[q].snap \in Known
BY KnownNow DEF Sets

\* Init establishes the invariant.
LEMMA MailInit ==
    ASSUME Init PROVE MailInv
<1>0. MaxFaults \in Nat
  BY ReplacementAssumption
<1>. DEFINE one == [rev |-> 1, common |-> 1, detail |-> 1, catalog |-> 1]
<1>1. /\ file = one /\ one \in Snapshot
      /\ one.rev = 1 /\ \A f \in Fields : one[f] = 1
  BY DEF Init, Snapshot, Fields
<1>. HIDE DEF one
<1>2. PublishersTyped /\ \A p \in Publishers : pub[p].snap = NoSnap
  BY IdleParts DEF Init, PublishersTyped
<1>3. ConnectionTyped
  <2>1. <<>> \in Seq(Keys) /\ Len(<<>>) = 0 /\ 1 .. 0 = {}
    BY EmptySeq
  <2>. QED  BY <2>1, NoSnapIs DEF Init, ConnectionTyped, OrderTyped
<1>4. BootTyped /\ boot.snap = NoSnap
  <2>1. <<>> \in Seq(Snapshot)
    BY EmptySeq
  <2>. QED  BY <2>1, NoSnapIs DEF Init, BootTyped, BootState
<1>5. /\ PageTyped /\ refresh.read = NoSnap
      /\ authority.common = NoSnap /\ authority.detail = NoSnap /\ authority.summary = NoSnap
  <2>. DEFINE r == [dirty |-> FALSE, running |-> FALSE, fresh |-> FALSE, catchup |-> FALSE,
                    timer |-> FALSE, read |-> NoSnap]
  <2>1. r \in RefreshState /\ r.read = NoSnap
    BY NoSnapIs DEF RefreshState
  <2>2. NoAuthority \in Authority /\ \A x \in {"common", "detail", "summary"} :
                                       NoAuthority[x] = NoSnap
    BY NoSnapIs DEF NoAuthority, Authority
  <2>3. refresh = r /\ authority = NoAuthority
    BY DEF Init
  <2>. HIDE DEF r
  <2>. QED  BY <2>1, <2>2, <2>3 DEF PageTyped
<1>6. CountsTyped
  <2>1. 0 \in 0 .. MaxFaults
    BY <1>0
  <2>. QED  BY <2>1 DEF Init, CountsTyped
<1>7. TypeOK
  BY <1>1, <1>2, <1>3, <1>4, <1>5, <1>6, TypeParts
<1>8. OneHistory
  <2>1. History({one}, one)
    BY <1>1 DEF History, Dated, Follows
  <2>2. ASSUME NEW a \in Circulating PROVE a \in {one, NoSnap}
    <3>1. 1 .. Len(ordered) = {} /\ state = NoSnap
      BY DEF Init
    <3>. QED  BY <1>1, <1>2, <1>4, <1>5, <3>1 DEF Circulating
  <2>3. Circulating \subseteq {one} \cup {NoSnap} /\ one \in Circulating
    BY <1>1, <2>2, InCirculation
  <2>. QED  BY <1>1, <2>1, <2>3, HistoryStays DEF OneHistory
<1>9. CommonIsNewest
  BY <1>5, NoSnapIs DEF CommonIsNewest
<1>. QED  BY <1>7, <1>8, <1>9 DEF MailInv, NoConflict, Wakeups, Init

\* A mutation commits a version newer than all in circulation.
LEMMA MutateMail ==
    ASSUME MailInv, NEW p \in Publishers, NEW F \in SUBSET Fields, Mutate(p, F)
    PROVE  MailInv'
<1>1. /\ file \in Snapshot /\ PublishersTyped /\ ConnectionTyped
      /\ BootTyped /\ PageTyped /\ CountsTyped
  BY TypeParts DEF MailInv
<1>2. /\ file' = Committed(F) /\ file' \in Snapshot
      /\ Sets(p, file', Owed(F), FALSE)
  BY <1>1, MutateIs
<1>3. UNCHANGED <<open, subscribed, order, state, permit, writer, ordered, boot,
                  authority, refresh, conflicted, faults>>
  BY DEF Mutate, mailboxVars, bootVars, pageVars
<1>4. TypeOK'
  <2>1. ConnectionTyped' /\ BootTyped' /\ PageTyped' /\ CountsTyped'
    BY <1>1, <1>3 DEF ConnectionTyped, OrderTyped, BootTyped, PageTyped, CountsTyped
  <2>. QED  BY <1>2, <2>1, TypeParts DEF Sets
<1>5. Wakeups'
  <2>1. \A q \in Publishers : pub[q].notify => pub'[q].notify
    BY <1>2, IdleParts DEF Sets, Mutate
  <2>. QED  BY <1>3, <2>1 DEF MailInv, Wakeups
<1>6. OneHistory'
  <2>. DEFINE D == Circulating \cup {file'}
  <2>1. History(D, file')
    BY <1>2, HistoryGrows DEF MailInv, OneHistory
  <2>2. /\ file' \in D /\ state' \in D /\ boot'.snap \in D /\ refresh'.read \in D
        /\ authority'.common \in D /\ authority'.detail \in D /\ authority'.summary \in D
        /\ \A q \in Publishers : pub'[q].snap \in D
        /\ \A i \in 1 .. Len(ordered') : ordered'[i] \in D
    BY <1>2, <1>3, InCirculation DEF Sets
  <2>. HIDE DEF D
  <2>3. Circulating' \subseteq D
    BY <2>2, CirculatingFrom
  <2>4. file' \in Circulating'
    BY DEF Circulating
  <2>. QED  BY <2>1, <2>3, <2>4, HistoryStays DEF OneHistory
<1>. QED  BY <1>3, <1>4, <1>5, <1>6 DEF MailInv, NoConflict, CommonIsNewest

\* A publication of thread state replaces an older pending one.
LEMMA InsertThreadStateMail ==
    ASSUME MailInv, NEW p \in Publishers, InsertThreadState(p)
    PROVE  MailInv' /\ file' = file /\ PageStep
<1>1. /\ file \in Snapshot /\ PublishersTyped /\ ConnectionTyped
      /\ BootTyped /\ PageTyped /\ CountsTyped
  BY TypeParts DEF MailInv
<1>2. /\ UNCHANGED <<file, open, subscribed, permit, writer, ordered, boot,
                     authority, refresh, faults>>
      /\ pub[p].work # <<>> /\ ~pub[p].notify
  BY DEF InsertThreadState, Publishing, bootVars, pageVars
<1>3. pub[p].snap \in Snapshot /\ pub[p].snap \in Known /\ "thread" \in Keys
  BY <1>1, PublisherParts, KnownNow DEF Keys
<1>4. conflicted' = FALSE
  <2>1. state.rev = pub[p].snap.rev => SameDetail(state, pub[p].snap)
    <3>. SUFFICES ASSUME state.rev = pub[p].snap.rev PROVE SameDetail(state, pub[p].snap)
      OBVIOUS
    <3>1. History(Circulating, file) /\ state \in Circulating /\ pub[p].snap \in Circulating
      BY InCirculation DEF MailInv, OneHistory
    <3>2. \A f \in Fields : state[f] = pub[p].snap[f]
      BY <3>1, OneRevision
    <3>. QED  BY <3>2 DEF SameDetail, Fields
  <2>. QED  BY <2>1 DEF MailInv, NoConflict, InsertThreadState
<1>5. \E n \in BOOLEAN : Sets(p, pub[p].snap, Tail(pub[p].work), n)
                         /\ (order' # order => n = TRUE)
  <2>1. CASE subscribed /\ ~KeepsPending(pub[p].snap)
    BY <1>1, <1>2, <2>1, PublishedIs DEF InsertThreadState
  <2>2. CASE ~(subscribed /\ ~KeepsPending(pub[p].snap))
    BY <1>1, <1>2, <2>2, PublishedIs DEF InsertThreadState
  <2>. QED  BY <2>1, <2>2
<1>6. PICK n \in BOOLEAN : Sets(p, pub[p].snap, Tail(pub[p].work), n)
                           /\ (order' # order => n = TRUE)
  BY <1>5
<1>7. OrderTyped' /\ state' \in Snapshot /\ state' \in Known
  <2>1. CASE subscribed /\ ~KeepsPending(pub[p].snap)
    <3>1. Enqueue("thread") /\ state' = pub[p].snap
      BY <2>1 DEF InsertThreadState
    <3>. QED  BY <1>1, <1>3, <3>1, EnqueueIs DEF ConnectionTyped
  <2>2. CASE ~(subscribed /\ ~KeepsPending(pub[p].snap))
    <3>1. order' = order /\ state' = state
      BY <2>2 DEF InsertThreadState
    <3>. QED  BY <1>1, <3>1, KnownNow DEF ConnectionTyped, OrderTyped
  <2>. QED  BY <2>1, <2>2
<1>8. TypeOK'
  <2>1. ConnectionTyped'
    BY <1>1, <1>2, <1>7 DEF ConnectionTyped
  <2>2. BootTyped' /\ PageTyped'
    BY <1>1, <1>2 DEF BootTyped, PageTyped
  <2>3. CountsTyped'
    BY <1>1, <1>2, <1>4 DEF CountsTyped
  <2>. QED  BY <1>1, <1>2, <1>6, <2>1, <2>2, <2>3, TypeParts DEF Sets
<1>9. Wakeups'
  <2>1. CASE order' = order
    <3>1. \A q \in Publishers : pub[q].notify => pub'[q].notify
      BY <1>2, <1>6 DEF Sets
    <3>. QED  BY <1>2, <2>1, <3>1 DEF MailInv, Wakeups
  <2>2. CASE order' # order
    <3>1. pub'[p].notify
      BY <1>6, <2>2 DEF Sets
    <3>. QED  BY <1>2, <3>1 DEF MailInv, Wakeups
  <2>. QED  BY <2>1, <2>2
<1>10. \A q \in Publishers : pub'[q].snap \in Known
  BY <1>3, <1>6, SetsKnown
<1>11. PageStep /\ NoConflict'
  BY <1>2, <1>4 DEF PageStep, NoConflict
<1>12. /\ boot'.snap \in Known /\ refresh'.read \in Known
       /\ \A i \in 1 .. Len(ordered') : ordered'[i] \in Known
  BY <1>2, KnownNow
<1>. QED  BY <1>2, <1>7, <1>8, <1>9, <1>10, <1>11, <1>12, MailStep

\* An invalidation is queued and its notification is owed.
LEMMA InvalidateCatalogMail ==
    ASSUME MailInv, NEW p \in Publishers, InvalidateCatalog(p)
    PROVE  MailInv' /\ file' = file /\ PageStep
<1>1. /\ file \in Snapshot /\ PublishersTyped /\ ConnectionTyped
      /\ BootTyped /\ PageTyped /\ CountsTyped
  BY TypeParts DEF MailInv
<1>2. /\ UNCHANGED <<file, open, subscribed, state, permit, writer, ordered, boot,
                     authority, refresh, conflicted, faults>>
      /\ pub[p].work # <<>> /\ ~pub[p].notify
  BY DEF InvalidateCatalog, Publishing, bootVars, pageVars
<1>3. pub[p].snap \in Known /\ "catalog" \in Keys
  BY KnownNow DEF Keys
<1>4. \E n \in BOOLEAN : Sets(p, pub[p].snap, Tail(pub[p].work), n)
                         /\ (order' # order => n = TRUE)
  <2>1. CASE open
    BY <1>1, <1>2, <2>1, PublishedIs DEF InvalidateCatalog
  <2>2. CASE ~open
    BY <1>1, <1>2, <2>2, PublishedIs DEF InvalidateCatalog
  <2>. QED  BY <2>1, <2>2
<1>5. PICK n \in BOOLEAN : Sets(p, pub[p].snap, Tail(pub[p].work), n)
                           /\ (order' # order => n = TRUE)
  BY <1>4
<1>6. OrderTyped'
  <2>1. CASE open
    <3>1. Enqueue("catalog")
      BY <2>1 DEF InvalidateCatalog
    <3>. QED  BY <1>1, <1>3, <3>1, EnqueueIs DEF ConnectionTyped
  <2>2. CASE ~open
    <3>1. order' = order
      BY <2>2 DEF InvalidateCatalog
    <3>. QED  BY <1>1, <3>1 DEF ConnectionTyped, OrderTyped
  <2>. QED  BY <2>1, <2>2
<1>7. TypeOK'
  <2>1. ConnectionTyped'
    BY <1>1, <1>2, <1>6 DEF ConnectionTyped
  <2>2. BootTyped' /\ PageTyped' /\ CountsTyped'
    BY <1>1, <1>2 DEF BootTyped, PageTyped, CountsTyped
  <2>. QED  BY <1>1, <1>2, <1>5, <2>1, <2>2, TypeParts DEF Sets
<1>8. Wakeups'
  <2>1. CASE order' = order
    <3>1. \A q \in Publishers : pub[q].notify => pub'[q].notify
      BY <1>2, <1>5 DEF Sets
    <3>. QED  BY <1>2, <2>1, <3>1 DEF MailInv, Wakeups
  <2>2. CASE order' # order
    <3>1. pub'[p].notify
      BY <1>5, <2>2 DEF Sets
    <3>. QED  BY <1>2, <3>1 DEF MailInv, Wakeups
  <2>. QED  BY <2>1, <2>2
<1>9. \A q \in Publishers : pub'[q].snap \in Known
  BY <1>3, <1>5, SetsKnown
<1>10. PageStep /\ NoConflict'
  BY <1>2 DEF PageStep, NoConflict, MailInv
<1>11. /\ state' \in Known /\ boot'.snap \in Known /\ refresh'.read \in Known
       /\ \A i \in 1 .. Len(ordered') : ordered'[i] \in Known
  BY <1>2, KnownNow
<1>. QED  BY <1>2, <1>7, <1>8, <1>9, <1>10, <1>11, MailStep

\* A notification wakes the writer or leaves a permit.
LEMMA NotifyOneMail ==
    ASSUME MailInv, NEW p \in Publishers, NotifyOne(p)
    PROVE  MailInv' /\ file' = file /\ PageStep
<1>1. /\ file \in Snapshot /\ PublishersTyped /\ ConnectionTyped
      /\ BootTyped /\ PageTyped /\ CountsTyped
  BY TypeParts DEF MailInv
<1>2. UNCHANGED <<file, open, subscribed, order, state, ordered, boot,
                  authority, refresh, conflicted, faults>>
  BY DEF NotifyOne, bootVars, pageVars
<1>3. Sets(p, pub[p].snap, pub[p].work, FALSE)
  BY <1>1, NotifiedIs DEF NotifyOne
<1>4. /\ writer' \in {"loop", "await", "parked"} /\ permit' \in BOOLEAN
      /\ \/ writer' = "loop" /\ permit' = permit
         \/ writer' # "parked" /\ permit' = TRUE
  BY <1>1 DEF NotifyOne, ConnectionTyped
<1>5. TypeOK'
  <2>1. ConnectionTyped'
    BY <1>1, <1>2, <1>4 DEF ConnectionTyped, OrderTyped
  <2>2. BootTyped' /\ PageTyped' /\ CountsTyped'
    BY <1>1, <1>2 DEF BootTyped, PageTyped, CountsTyped
  <2>. QED  BY <1>1, <1>2, <1>3, <2>1, <2>2, TypeParts DEF Sets
<1>6. Wakeups'
  BY <1>4 DEF Wakeups
<1>7. \A q \in Publishers : pub'[q].snap \in Known
  BY <1>3, SetsKnown, KnownNow
<1>8. PageStep /\ NoConflict'
  BY <1>2 DEF PageStep, NoConflict, MailInv
<1>9. /\ state' \in Known /\ boot'.snap \in Known /\ refresh'.read \in Known
      /\ \A i \in 1 .. Len(ordered') : ordered'[i] \in Known
  BY <1>2, KnownNow
<1>. QED  BY <1>2, <1>5, <1>6, <1>7, <1>8, <1>9, MailStep

\* The reply to a mutation, and the end of one nobody asked for here, touch neither
\* mailbox nor queue.
LEMMA ReplyMail ==
    ASSUME MailInv, NEW p \in Publishers, ReplySummary(p) \/ Done(p)
    PROVE  MailInv' /\ file' = file /\ PageStep
<1>1. /\ file \in Snapshot /\ PublishersTyped /\ ConnectionTyped
      /\ BootTyped /\ PageTyped /\ CountsTyped
  BY TypeParts DEF MailInv
<1>2. /\ UNCHANGED <<file, open, subscribed, order, state, permit, writer, ordered, boot,
                     faults>>
      /\ pub' = [pub EXCEPT ![p] = Idle] /\ ~pub[p].notify
  BY DEF ReplySummary, Done, mailboxVars, bootVars, pageVars
<1>3. Sets(p, NoSnap, <<>>, FALSE)
  BY <1>1, <1>2, IdleIs
<1>4. PageStep /\ conflicted' = FALSE
  <2>1. CASE Done(p)
    BY <2>1 DEF Done, pageVars, PageStep, MailInv, NoConflict
  <2>2. CASE ReplySummary(p)
    <3>1. pub[p].snap \in Circulating
      BY InCirculation
    <3>2. /\ authority' = Accept("summary", pub[p].snap)
          /\ conflicted' = (conflicted \/ (~Stale("summary", pub[p].snap)
                                           /\ Conflict("summary", pub[p].snap)))
      BY <2>2 DEF ReplySummary
    <3>. QED  BY <1>1, <3>1, <3>2, PageHandles DEF MailInv, PageTyped
  <2>. QED  BY <2>1, <2>2
<1>5. refresh' \in RefreshState /\ refresh'.read \in Known
  <2>1. refresh' = refresh \/ refresh' = LoadThreads(refresh)
    BY DEF ReplySummary, Done, pageVars
  <2>2. refresh \in RefreshState
    BY <1>1 DEF PageTyped
  <2>. QED  BY <2>1, <2>2, LoadThreadsIs, KnownNow
<1>6. TypeOK'
  <2>1. ConnectionTyped' /\ BootTyped'
    BY <1>1, <1>2 DEF ConnectionTyped, OrderTyped, BootTyped
  <2>2. PageTyped'
    BY <1>1, <1>4, <1>5, PageStepIs DEF PageTyped, MailInv
  <2>3. CountsTyped'
    BY <1>1, <1>2, <1>4 DEF CountsTyped
  <2>. QED  BY <1>1, <1>2, <1>3, <2>1, <2>2, <2>3, TypeParts DEF Sets
<1>7. Wakeups'
  <2>1. \A q \in Publishers : pub[q].notify => pub'[q].notify
    BY <1>2, <1>3 DEF Sets
  <2>. QED  BY <1>2, <2>1 DEF MailInv, Wakeups
<1>8. \A q \in Publishers : pub'[q].snap \in Known
  BY <1>3, SetsKnown, KnownNow
<1>9. NoConflict'
  BY <1>4 DEF NoConflict
<1>10. /\ state' \in Known /\ boot'.snap \in Known
       /\ \A i \in 1 .. Len(ordered') : ordered'[i] \in Known
  BY <1>2, KnownNow
<1>. QED  BY <1>2, <1>4, <1>5, <1>6, <1>7, <1>8, <1>9, <1>10, MailStep

\* The writer takes from the mailbox, finds it empty, or awaits its Notify.
LEMMA WriterMail ==
    ASSUME MailInv, Writer
    PROVE  MailInv' /\ file' = file /\ PageStep
<1>1. /\ file \in Snapshot /\ PublishersTyped /\ ConnectionTyped
      /\ BootTyped /\ PageTyped /\ CountsTyped
  BY TypeParts DEF MailInv
<1>2. UNCHANGED <<file, pub, open, subscribed, ordered, boot, faults>>
  BY DEF Writer, PopReplacement, FindEmpty, Await, bootVars
<1>3. PageStep /\ conflicted' = FALSE
  <2>1. CASE authority' = authority /\ conflicted' = conflicted
    BY <2>1 DEF PageStep, MailInv, NoConflict
  <2>2. CASE PopReplacement /\ Head(order) = "thread"
    <3>1. state \in Circulating /\ ApplyDetail(state)
      BY <2>2, InCirculation DEF PopReplacement
    <3>. QED  BY <1>1, <3>1, PageHandles DEF MailInv, PageTyped, ApplyDetail
  <2>. QED  BY <2>1, <2>2 DEF Writer, PopReplacement, FindEmpty, Await, pageVars
<1>4. OrderTyped' /\ state' \in Snapshot /\ state' \in Known
  <2>1. CASE PopReplacement
    BY <1>1, <2>1, PopIs, KnownNow, NoSnapIs DEF PopReplacement, ConnectionTyped
  <2>2. CASE FindEmpty \/ Await
    BY <1>1, <2>2, KnownNow DEF FindEmpty, Await, ConnectionTyped, OrderTyped
  <2>. QED  BY <2>1, <2>2 DEF Writer
<1>5. refresh' \in RefreshState /\ refresh'.read \in Known
  <2>1. refresh' = refresh \/ refresh' = LoadThreads(refresh)
    BY DEF Writer, PopReplacement, FindEmpty, Await, pageVars
  <2>2. refresh \in RefreshState
    BY <1>1 DEF PageTyped
  <2>. QED  BY <2>1, <2>2, LoadThreadsIs, KnownNow
<1>6. writer' \in {"loop", "await", "parked"} /\ permit' \in BOOLEAN
  BY <1>1 DEF Writer, PopReplacement, FindEmpty, Await, ConnectionTyped
<1>7. TypeOK'
  <2>1. ConnectionTyped'
    BY <1>1, <1>2, <1>4, <1>6 DEF ConnectionTyped
  <2>2. PageTyped'
    BY <1>1, <1>3, <1>5, PageStepIs DEF PageTyped, MailInv
  <2>3. BootTyped' /\ PublishersTyped'
    BY <1>1, <1>2 DEF BootTyped, PublishersTyped
  <2>4. CountsTyped'
    BY <1>1, <1>2, <1>3 DEF CountsTyped
  <2>. QED  BY <1>1, <1>2, <2>1, <2>2, <2>3, <2>4, TypeParts
<1>8. Wakeups'
  <2>1. CASE PopReplacement
    BY <2>1 DEF PopReplacement, Wakeups
  <2>2. CASE FindEmpty
    BY <2>2 DEF FindEmpty, Wakeups
  <2>3. CASE Await
    BY <1>1, <1>2, <2>3 DEF Await, MailInv, Wakeups, ConnectionTyped
  <2>. QED  BY <2>1, <2>2, <2>3 DEF Writer
<1>9. /\ boot'.snap \in Known /\ \A i \in 1 .. Len(ordered') : ordered'[i] \in Known
      /\ \A q \in Publishers : pub'[q].snap \in Known
  BY <1>2, KnownNow
<1>10. NoConflict'
  BY <1>3 DEF NoConflict
<1>. QED  BY <1>2, <1>3, <1>4, <1>5, <1>7, <1>8, <1>9, <1>10, MailStep

\* The writer takes from the ordered queue.
LEMMA PopOrderedMail ==
    ASSUME MailInv, PopOrdered
    PROVE  /\ MailInv' /\ file' = file /\ PageStep
           /\ Head(ordered) \in Circulating /\ Takes(authority', "detail", Head(ordered))
<1>1. /\ file \in Snapshot /\ PublishersTyped /\ ConnectionTyped
      /\ BootTyped /\ PageTyped /\ CountsTyped
  BY TypeParts DEF MailInv
<1>2. /\ UNCHANGED <<file, pub, open, subscribed, order, state, permit, boot, refresh, faults>>
      /\ writer' = "loop" /\ ordered # <<>> /\ ordered' = Tail(ordered)
      /\ ordered \in Seq(Snapshot)
  BY <1>1 DEF PopOrdered, BootTyped
<1>3. /\ ordered' \in Seq(Snapshot) /\ Head(ordered) \in Circulating
      /\ \A i \in 1 .. Len(ordered') : ordered'[i] \in Known
  <2>1. /\ ordered' \in Seq(Snapshot) /\ Has(ordered, Head(ordered))
        /\ \A i \in 1 .. Len(ordered') : i + 1 \in 1 .. Len(ordered)
                                         /\ ordered'[i] = ordered[i + 1]
    BY <1>2, TailHas
  <2>. QED  BY <2>1, InCirculation DEF Has, Known
<1>4. PageStep /\ conflicted' = FALSE /\ Takes(authority', "detail", Head(ordered))
  <2>1. ApplyDetail(Head(ordered))
    BY DEF PopOrdered
  <2>. QED  BY <1>1, <1>3, <2>1, PageHandles DEF MailInv, PageTyped, ApplyDetail
<1>5. TypeOK'
  <2>1. ConnectionTyped'
    BY <1>1, <1>2 DEF ConnectionTyped, OrderTyped
  <2>2. PageTyped'
    BY <1>1, <1>2, <1>4, PageStepIs DEF PageTyped, MailInv
  <2>3. BootTyped' /\ PublishersTyped'
    BY <1>1, <1>2, <1>3 DEF BootTyped, PublishersTyped
  <2>4. CountsTyped'
    BY <1>1, <1>2, <1>4 DEF CountsTyped
  <2>. QED  BY <1>1, <1>2, <2>1, <2>2, <2>3, <2>4, TypeParts
<1>6. Wakeups' /\ NoConflict'
  BY <1>2, <1>4 DEF Wakeups, NoConflict
<1>7. /\ state' \in Known /\ boot'.snap \in Known /\ refresh'.read \in Known
      /\ \A q \in Publishers : pub'[q].snap \in Known
  BY <1>2, KnownNow
<1>. QED  BY <1>2, <1>3, <1>4, <1>5, <1>6, <1>7, MailStep

\* A step that touches neither publishers nor mailbox.
LEMMA MailUntouched ==
    ASSUME MailInv, UNCHANGED <<file, pub, order, state, permit, writer>>,
           open' \in BOOLEAN, subscribed' \in BOOLEAN, BootTyped',
           refresh' \in RefreshState, conflicted' = FALSE, faults' \in 0 .. MaxFaults,
           PageStep, boot'.snap \in Known, refresh'.read \in Known,
           \A i \in 1 .. Len(ordered') : ordered'[i] \in Known
    PROVE  MailInv' /\ file' = file /\ PageStep
<1>1. file \in Snapshot /\ PublishersTyped /\ ConnectionTyped /\ PageTyped
  BY TypeParts DEF MailInv
<1>2. TypeOK'
  <2>1. ConnectionTyped'
    BY <1>1 DEF ConnectionTyped, OrderTyped
  <2>2. PageTyped'
    BY <1>1, PageStepIs DEF PageTyped, MailInv
  <2>3. PublishersTyped'
    BY <1>1 DEF PublishersTyped
  <2>4. CountsTyped'
    BY DEF CountsTyped
  <2>. QED  BY <1>1, <2>1, <2>2, <2>3, <2>4, TypeParts
<1>3. Wakeups' /\ NoConflict'
  BY DEF MailInv, Wakeups, NoConflict
<1>4. state' \in Known /\ \A q \in Publishers : pub'[q].snap \in Known
  BY KnownNow
<1>. QED  BY <1>2, <1>3, <1>4, MailStep

\* Connecting and the subscribe bootstrap.
LEMMA ConnectMail ==
    ASSUME MailInv, Open \/ Bootstrap
    PROVE  MailInv' /\ file' = file /\ PageStep
<1>1. /\ file \in Snapshot /\ PublishersTyped /\ ConnectionTyped
      /\ BootTyped /\ PageTyped /\ CountsTyped
  BY TypeParts DEF MailInv
<1>2. UNCHANGED <<file, pub, order, state, permit, writer, authority, conflicted, faults>>
  BY DEF Open, Bootstrap, BootSubscribe, BootRead, BootSend, mailboxVars, pageVars
<1>3. open' \in BOOLEAN /\ subscribed' \in BOOLEAN
  BY <1>1 DEF Open, Bootstrap, BootSubscribe, BootRead, BootSend, ConnectionTyped
<1>4. refresh' \in RefreshState /\ refresh'.read \in Known
  <2>1. refresh' = refresh \/ refresh' = LoadThreads(refresh)
    BY DEF Open, Bootstrap, BootSubscribe, BootRead, BootSend, pageVars
  <2>2. refresh \in RefreshState
    BY <1>1 DEF PageTyped
  <2>. QED  BY <2>1, <2>2, LoadThreadsIs, KnownNow
<1>5. /\ boot' \in BootState /\ boot'.snap \in Known
      /\ \/ ordered' = ordered
         \/ ordered' = Append(ordered, boot.snap)
  <2>1. CASE Open
    BY <2>1, NoSnapIs, KnownNow DEF Open, BootState
  <2>2. CASE BootSubscribe
    <3>1. boot' = [boot EXCEPT !.pc = "subscribed"] /\ boot \in BootState /\ ordered' = ordered
      BY <1>1, <2>2 DEF BootSubscribe, BootTyped
    <3>2. boot' \in BootState /\ boot'.snap = boot.snap
      BY <3>1 DEF BootState
    <3>. QED  BY <3>1, <3>2, KnownNow
  <2>3. CASE BootRead
    BY <1>1, <2>3, KnownNow DEF BootRead, BootState
  <2>4. CASE BootSend
    BY <2>4, NoSnapIs, KnownNow DEF BootSend, BootState
  <2>. QED  BY <2>1, <2>2, <2>3, <2>4 DEF Bootstrap
<1>6. ordered' \in Seq(Snapshot) /\ \A i \in 1 .. Len(ordered') : ordered'[i] \in Known
  <2>1. CASE ordered' = ordered
    BY <1>1, <2>1, KnownNow DEF BootTyped
  <2>2. CASE ordered' = Append(ordered, boot.snap)
    <3>1. ordered \in Seq(Snapshot) /\ boot.snap \in Snapshot /\ Len(ordered) \in Nat
      BY <1>1, LenProperties DEF BootTyped, BootState
    <3>2. /\ ordered' \in Seq(Snapshot) /\ Len(ordered') = Len(ordered) + 1
          /\ ordered'[Len(ordered) + 1] = boot.snap
          /\ \A i \in 1 .. Len(ordered) : ordered'[i] = ordered[i]
      BY <2>2, <3>1, AppendHas
    <3>3. \A i \in 1 .. Len(ordered') : i \in 1 .. Len(ordered) \/ i = Len(ordered) + 1
      BY <3>1, <3>2
    <3>. QED  BY <3>2, <3>3, KnownNow
  <2>. QED  BY <1>5, <2>1, <2>2
<1>7. PageStep /\ conflicted' = FALSE /\ faults' \in 0 .. MaxFaults /\ BootTyped'
  <2>1. conflicted' = FALSE
    BY <1>2 DEF MailInv, NoConflict
  <2>. QED  BY <1>1, <1>2, <1>5, <1>6, <2>1 DEF PageStep, CountsTyped, BootTyped
<1>. QED  BY <1>2, <1>3, <1>4, <1>5, <1>6, <1>7, MailUntouched

\* The connection is lost, with or without the server.
LEMMA DisconnectMail ==
    ASSUME MailInv, LoseSocket \/ Restart
    PROVE  MailInv' /\ file' = file /\ PageStep
<1>1. /\ file \in Snapshot /\ PublishersTyped /\ ConnectionTyped
      /\ BootTyped /\ PageTyped /\ CountsTyped
  BY TypeParts DEF MailInv
<1>2. UNCHANGED <<file, authority, refresh, conflicted>> /\ Disconnected
  BY DEF LoseSocket, Restart, pageVars
<1>3. PublishersTyped' /\ \A q \in Publishers : pub'[q].snap \in Known
  <2>1. CASE LoseSocket
    <3>1. \A q \in Publishers : pub'[q] = [pub[q] EXCEPT !.notify = FALSE]
      BY <2>1 DEF LoseSocket
    <3>2. \A q \in Publishers : pub'[q] \in PublisherState /\ pub'[q].snap = pub[q].snap
      BY <1>1, <3>1 DEF PublishersTyped, PublisherState
    <3>3. pub' \in [Publishers -> PublisherState]
      BY <2>1, <3>1, <3>2 DEF LoseSocket
    <3>. QED  BY <3>2, <3>3, KnownNow DEF PublishersTyped
  <2>2. CASE Restart
    <3>1. pub' = [q \in Publishers |-> Idle]
      BY <2>2 DEF Restart
    <3>. QED  BY <3>1, IdleParts, KnownNow DEF PublishersTyped
  <2>. QED  BY <2>1, <2>2
<1>4. /\ ConnectionTyped' /\ BootTyped' /\ Wakeups' /\ state' \in Known
      /\ boot'.snap \in Known /\ \A i \in 1 .. Len(ordered') : ordered'[i] \in Known
  <2>1. /\ <<>> \in Seq(Keys) /\ <<>> \in Seq(Snapshot) /\ 1 .. Len(<<>>) = {}
    BY EmptySeq
  <2>2. ConnectionTyped'
    BY <1>2, <2>1, NoSnapIs DEF Disconnected, ConnectionTyped, OrderTyped
  <2>3. BootTyped'
    BY <1>2, <2>1, NoSnapIs DEF Disconnected, BootTyped, BootState
  <2>4. Wakeups'
    BY <1>2 DEF Disconnected, Wakeups
  <2>. QED  BY <1>2, <2>1, <2>2, <2>3, <2>4, KnownNow DEF Disconnected
<1>5. CountsTyped'
  <2>1. faults' = faults + 1 /\ faults < MaxFaults /\ MaxFaults \in Nat
    BY ReplacementAssumption DEF LoseSocket, Restart
  <2>2. faults' \in 0 .. MaxFaults
    BY <1>1, <2>1 DEF CountsTyped
  <2>. QED  BY <1>1, <1>2, <2>2 DEF CountsTyped
<1>6. TypeOK'
  <2>1. PageTyped'
    BY <1>1, <1>2 DEF PageTyped
  <2>. QED  BY <1>1, <1>2, <1>3, <1>4, <1>5, <2>1, TypeParts
<1>7. PageStep /\ NoConflict' /\ refresh'.read \in Known
  BY <1>2, KnownNow DEF PageStep, MailInv, NoConflict
<1>. QED  BY <1>2, <1>3, <1>4, <1>6, <1>7, MailStep

\* The steps of a fetch of the thread list.
LEMMA FetchMail ==
    ASSUME MailInv, Refresh \/ FetchFail
    PROVE  MailInv' /\ file' = file /\ PageStep
<1>1. /\ file \in Snapshot /\ PublishersTyped /\ ConnectionTyped
      /\ BootTyped /\ PageTyped /\ CountsTyped
  BY TypeParts DEF MailInv
<1>2. UNCHANGED <<file, pub, open, subscribed, order, state, permit, writer, ordered, boot>>
  BY DEF Refresh, FetchRead, FetchReply, RetryTimer, FetchFail, mailboxVars, bootVars
<1>3. refresh \in RefreshState /\ refresh.read \in Circulating
  BY <1>1, InCirculation DEF PageTyped
<1>4. PageStep /\ conflicted' = FALSE
  <2>1. CASE authority' = authority /\ conflicted' = conflicted
    BY <2>1 DEF PageStep, MailInv, NoConflict
  <2>2. CASE FetchReply /\ ~Superseded
    <3>1. /\ authority' = Accept("summary", refresh.read)
          /\ conflicted' = (conflicted \/ (~Stale("summary", refresh.read)
                                           /\ Conflict("summary", refresh.read)))
      BY <2>2 DEF FetchReply
    <3>. QED  BY <1>1, <1>3, <3>1, PageHandles DEF MailInv, PageTyped
  <2>. QED  BY <2>1, <2>2 DEF Refresh, FetchRead, FetchReply, RetryTimer, FetchFail
<1>5. refresh' \in RefreshState /\ refresh'.read \in Known
  <2>1. CASE FetchRead
    <3>1. refresh' = [refresh EXCEPT !.read = file]
      BY <2>1 DEF FetchRead
    <3>. QED  BY <1>1, <1>3, <3>1, KnownNow DEF RefreshState
  <2>2. CASE FetchReply
    <3>. DEFINE mid == [refresh EXCEPT !.fresh = TRUE]
                again == [mid EXCEPT !.read = NoSnap]
                caught == [again EXCEPT !.catchup = TRUE]
    <3>1. mid \in RefreshState
      BY <1>3 DEF RefreshState
    <3>. HIDE DEF mid
    <3>2. again \in RefreshState /\ again.read = NoSnap
      BY <3>1, NoSnapIs DEF RefreshState
    <3>. HIDE DEF again
    <3>3. caught \in RefreshState /\ caught.read = NoSnap
      BY <3>2 DEF RefreshState
    <3>. HIDE DEF caught
    <3>4. ASSUME NEW stale \in BOOLEAN
          PROVE  LET new == [again EXCEPT !.dirty = stale, !.running = FALSE, !.timer = stale]
                 IN  new \in RefreshState /\ new.read = NoSnap
      <4>. DEFINE a == [again EXCEPT !.dirty = stale]
                  b == [a EXCEPT !.running = FALSE]
                  c == [b EXCEPT !.timer = stale]
      <4>1. a \in RefreshState /\ a.read = NoSnap
        BY <3>2 DEF RefreshState
      <4>. HIDE DEF a
      <4>2. b \in RefreshState /\ b.read = NoSnap
        BY <4>1 DEF RefreshState
      <4>. HIDE DEF b
      <4>3. c \in RefreshState /\ c.read = NoSnap
        BY <4>2 DEF RefreshState
      <4>. QED  BY <4>3 DEF a, b
    <3>5. SummaryIsStale(refresh.read) \in BOOLEAN
      BY DEF SummaryIsStale, Stale, Conflict
    <3>6. \/ refresh' = again
          \/ refresh' = caught
          \/ refresh' = [again EXCEPT !.dirty = SummaryIsStale(refresh.read),
                                      !.running = FALSE,
                                      !.timer = SummaryIsStale(refresh.read)]
      BY <2>2 DEF FetchReply, mid, again, caught
    <3>. QED  BY <3>2, <3>3, <3>4, <3>5, <3>6, KnownNow
  <2>3. CASE RetryTimer
    <3>. DEFINE n == [dirty |-> TRUE, running |-> TRUE, fresh |-> TRUE, catchup |-> FALSE,
                      timer |-> FALSE, read |-> NoSnap]
    <3>1. refresh' = n
      BY <2>3 DEF RetryTimer
    <3>2. n \in RefreshState /\ n.read = NoSnap
      BY NoSnapIs DEF RefreshState
    <3>. HIDE DEF n
    <3>. QED  BY <3>1, <3>2, KnownNow
  <2>4. CASE FetchFail
    <3>. DEFINE a == [refresh EXCEPT !.running = FALSE]
                b == [a EXCEPT !.timer = TRUE]
                c == [b EXCEPT !.read = NoSnap]
    <3>1. refresh' = c
      BY <2>4 DEF FetchFail
    <3>2. a \in RefreshState
      BY <1>3 DEF RefreshState
    <3>. HIDE DEF a
    <3>3. b \in RefreshState
      BY <3>2 DEF RefreshState
    <3>. HIDE DEF b
    <3>4. c \in RefreshState /\ c.read = NoSnap
      BY <3>3, NoSnapIs DEF RefreshState
    <3>. HIDE DEF c
    <3>. QED  BY <3>1, <3>4, KnownNow
  <2>. QED  BY <2>1, <2>2, <2>3, <2>4 DEF Refresh
<1>6. faults' \in 0 .. MaxFaults
  <2>1. CASE faults' = faults
    BY <1>1, <2>1 DEF CountsTyped
  <2>2. CASE faults < MaxFaults /\ faults' = faults + 1
    BY <1>1, <2>2, ReplacementAssumption DEF CountsTyped
  <2>. QED  BY <2>1, <2>2 DEF Refresh, FetchRead, FetchReply, RetryTimer, FetchFail
<1>7. /\ open' \in BOOLEAN /\ subscribed' \in BOOLEAN /\ BootTyped' /\ boot'.snap \in Known
      /\ \A i \in 1 .. Len(ordered') : ordered'[i] \in Known
  BY <1>1, <1>2, KnownNow DEF ConnectionTyped, BootTyped
<1>. QED  BY <1>2, <1>4, <1>5, <1>6, <1>7, MailUntouched

\* Every step keeps the invariant, and either commits a mutation or lets the page
\* take what circulates.
LEMMA MailNext ==
    ASSUME MailInv, [Next]_vars
    PROVE  /\ MailInv'
           /\ \/ file' = file /\ PageStep
              \/ \E p \in Publishers : \E F \in SUBSET Fields : Mutate(p, F)
<1>1. ASSUME NEW p \in Publishers, NEW F \in Changes, Mutate(p, F)
      PROVE  MailInv' /\ \E q \in Publishers : \E G \in SUBSET Fields : Mutate(q, G)
  <2>1. F \in SUBSET Fields
    BY ReplacementAssumption
  <2>. QED  BY <1>1, <2>1, MutateMail
<1>2. ASSUME NEW p \in Publishers, Publish(p) PROVE MailInv' /\ file' = file /\ PageStep
  BY <1>2, InsertThreadStateMail, InvalidateCatalogMail, NotifyOneMail DEF Publish
<1>3. ASSUME NEW p \in Publishers, ReplySummary(p) \/ Done(p)
      PROVE  MailInv' /\ file' = file /\ PageStep
  BY <1>3, ReplyMail
<1>4. CASE UNCHANGED vars
  <2>1. UNCHANGED <<file, pub, order, state, permit, writer, open, subscribed, ordered, boot,
                    refresh, conflicted, faults, authority>>
    BY <1>4 DEF vars, mailboxVars, bootVars, pageVars
  <2>2. BootTyped /\ PageTyped /\ CountsTyped /\ ConnectionTyped /\ conflicted = FALSE
    BY TypeParts DEF MailInv, NoConflict, CountsTyped
  <2>3. /\ BootTyped' /\ refresh' \in RefreshState /\ faults' \in 0 .. MaxFaults
        /\ open' \in BOOLEAN /\ subscribed' \in BOOLEAN /\ conflicted' = FALSE
    BY <2>1, <2>2 DEF BootTyped, PageTyped, CountsTyped, ConnectionTyped
  <2>4. /\ boot'.snap \in Known /\ refresh'.read \in Known
        /\ \A i \in 1 .. Len(ordered') : ordered'[i] \in Known
    BY <2>1, KnownNow
  <2>5. PageStep
    BY <2>1 DEF PageStep
  <2>. QED  BY <2>1, <2>3, <2>4, <2>5, MailUntouched
<1>5. CASE Writer
  BY <1>5, WriterMail
<1>6. CASE PopOrdered
  BY <1>6, PopOrderedMail
<1>7. CASE Open \/ Bootstrap
  BY <1>7, ConnectMail
<1>8. CASE LoseSocket \/ Restart
  BY <1>8, DisconnectMail
<1>9. CASE Refresh \/ FetchFail
  BY <1>9, FetchMail
<1>. QED  BY <1>1, <1>2, <1>3, <1>4, <1>5, <1>6, <1>7, <1>8, <1>9 DEF Next

\* Whatever the publishers, the sockets and the page do: the mailbox holds each key
\* once, loses no wake-up, and no two payloads of one revision differ anywhere on
\* their way, so the conflict branches of the server and of the page are dead code.
THEOREM MailboxCorrect == Spec => []MailboxIsSound
<1>1. Init => MailInv
  BY MailInit
<1>2. MailInv /\ [Next]_vars => MailInv'
  BY MailNext
<1>3. MailInv => MailboxIsSound
  BY DEF MailInv, MailboxIsSound, NoLostWakeup, Wakeups
<1>. QED  BY <1>1, <1>2, <1>3, PTL DEF Spec

-----------------------------------------------------------------------------
(* Each group of fields is a latest-value register *)

\* A page step shows a value that is not older and was committed, and keeps the
\* newest.
LEMMA ShownAdvances ==
    ASSUME MailInv, PageStep, file' = file
    PROVE  \A f \in Fields : /\ Shown(f) \in Nat /\ Shown(f)' \in Nat /\ file[f] \in Nat
                             /\ Shown(f) =< Shown(f)' /\ Shown(f)' =< file[f]
                             /\ Shown(f) = file[f] => Shown(f)' = file[f]
<1>1. authority \in Authority /\ OneHistory /\ CommonIsNewest
  BY TypeParts DEF MailInv, PageTyped
<1>2. \A x \in {"common", "detail", "summary"} :
         /\ authority[x] \in Circulating /\ authority'[x] \in Circulating
         /\ authority[x].rev =< authority'[x].rev
  BY <1>1, PageStepIs, InCirculation
<1>3. ASSUME NEW x \in {"common", "detail", "summary"}, NEW f \in Fields
      PROVE  /\ authority[x][f] \in Nat /\ authority'[x][f] \in Nat /\ file[f] \in Nat
             /\ authority[x][f] =< authority'[x][f] /\ authority'[x][f] =< file[f]
             /\ authority[x][f] = file[f] => authority'[x][f] = file[f]
  BY <1>1, <1>2, LaterVersion DEF OneHistory
<1>4. /\ Shown("common") = authority["common"]["common"]
      /\ Shown("detail") = authority["detail"]["detail"]
      /\ Shown("catalog") = authority["summary"]["catalog"]
      /\ Shown("common")' = authority'["common"]["common"]
      /\ Shown("detail")' = authority'["detail"]["detail"]
      /\ Shown("catalog")' = authority'["summary"]["catalog"]
  BY DEF Shown
<1>5. "common" \in Fields /\ "detail" \in Fields /\ "catalog" \in Fields
  BY DEF Fields
<1>. SUFFICES ASSUME NEW f \in Fields
              PROVE  /\ Shown(f) \in Nat /\ Shown(f)' \in Nat /\ file[f] \in Nat
                     /\ Shown(f) =< Shown(f)' /\ Shown(f)' =< file[f]
                     /\ Shown(f) = file[f] => Shown(f)' = file[f]
  OBVIOUS
<1>6. CASE f = "common"
  BY <1>3, <1>4, <1>5, <1>6
<1>7. CASE f = "detail"
  BY <1>3, <1>4, <1>5, <1>7
<1>8. CASE f = "catalog"
  BY <1>3, <1>4, <1>5, <1>8
<1>. QED  BY <1>6, <1>7, <1>8 DEF Fields

\* A mutation writes the fields it changes and shows nothing.
LEMMA MutateWrites ==
    ASSUME MailInv, NEW p \in Publishers, NEW F \in SUBSET Fields, Mutate(p, F)
    PROVE  \A f \in Fields : /\ Shown(f)' = Shown(f)
                             /\ file'[f] \in Nat
                             /\ file'[f] = file[f] \/ file'[f] > file[f]
<1>1. file \in Snapshot /\ file' = Committed(F) /\ authority' = authority
  BY TypeParts DEF MailInv, Mutate, pageVars
<1>2. /\ file' \in Snapshot /\ file'.rev = file.rev + 1
      /\ \A f \in Fields : file'[f] = IF f \in F THEN file.rev + 1 ELSE file[f]
  BY <1>1, CommittedIs
<1>3. ASSUME NEW f \in Fields PROVE file[f] =< file.rev /\ file[f] \in Nat /\ file.rev \in Nat
  BY <1>1, InCirculation, SnapFields DEF MailInv, OneHistory, History, Dated
<1>4. ASSUME NEW f \in Fields PROVE file'[f] \in Nat /\ (file'[f] = file[f] \/ file'[f] > file[f])
  BY <1>2, <1>3
<1>5. ASSUME NEW f PROVE Shown(f)' = Shown(f)
  BY <1>1 DEF Shown
<1>. QED  BY <1>4, <1>5

\* A step of the page's view of f, as LatestValue allows it.
RegisterStep(f) ==
    \/ /\ file'[f] \in Nat /\ file'[f] > file[f] /\ Shown(f)' = Shown(f)
    \/ /\ Shown(f)' \in Shown(f) + 1 .. file[f] /\ file'[f] = file[f]
    \/ file'[f] = file[f] /\ Shown(f)' = Shown(f)

\* Every step is a write, a show or a stutter of each register.
LEMMA RegisterNext ==
    ASSUME MailInv, [Next]_vars PROVE \A f \in Fields : RegisterStep(f)
<1>. SUFFICES ASSUME NEW f \in Fields PROVE RegisterStep(f)
  OBVIOUS
<1>1. CASE file' = file /\ PageStep
  <2>1. /\ Shown(f) \in Nat /\ Shown(f)' \in Nat /\ file[f] \in Nat
        /\ Shown(f) =< Shown(f)' /\ Shown(f)' =< file[f]
    BY <1>1, ShownAdvances
  <2>2. Shown(f)' = Shown(f) \/ Shown(f)' \in Shown(f) + 1 .. file[f]
    BY <2>1
  <2>. QED  BY <1>1, <2>2 DEF RegisterStep
<1>2. ASSUME NEW p \in Publishers, NEW F \in SUBSET Fields, Mutate(p, F) PROVE RegisterStep(f)
  BY <1>2, MutateWrites DEF RegisterStep
<1>. QED  BY <1>1, <1>2, MailNext

\* For each group of fields the page implements LatestValue: it shows only values that
\* were committed and never goes back, through every reordering of publications,
\* replies, fetches and bootstraps, lost sockets and restarts.
THEOREM RegistersCorrect == Spec => FieldsAreRegisters
<1>1. Init => Common!Init /\ Detail!Init /\ Catalog!Init
  BY DEF Init, Common!Init, Detail!Init, Catalog!Init, Shown, NoAuthority, NoSnap
<1>2. Init => MailInv
  BY MailInit
<1>3. MailInv /\ [Next]_vars => MailInv'
  BY MailNext
<1>4. MailInv /\ [Next]_vars => /\ [Common!Next]_(Common!vars)
                                /\ [Detail!Next]_(Detail!vars)
                                /\ [Catalog!Next]_(Catalog!vars)
  <2>. SUFFICES ASSUME MailInv, [Next]_vars
                PROVE  /\ [Common!Next]_(Common!vars) /\ [Detail!Next]_(Detail!vars)
                       /\ [Catalog!Next]_(Catalog!vars)
    OBVIOUS
  <2>1. RegisterStep("common") /\ RegisterStep("detail") /\ RegisterStep("catalog")
    BY RegisterNext DEF Fields
  <2>2. [Common!Next]_(Common!vars)
    BY <2>1 DEF RegisterStep, Common!Next, Common!Write, Common!Show, Common!vars
  <2>3. [Detail!Next]_(Detail!vars)
    BY <2>1 DEF RegisterStep, Detail!Next, Detail!Write, Detail!Show, Detail!vars
  <2>4. [Catalog!Next]_(Catalog!vars)
    BY <2>1 DEF RegisterStep, Catalog!Next, Catalog!Write, Catalog!Show, Catalog!vars
  <2>. QED  BY <2>2, <2>3, <2>4
<1>. QED
  BY <1>1, <1>2, <1>3, <1>4, PTL
     DEF Spec, FieldsAreRegisters, Common!Safety, Detail!Safety, Catalog!Safety

-----------------------------------------------------------------------------
(* The views converge *)

Projected == {"common", "detail"}

\* A step after which what the page shows of f, or what brings it, is still there.
DetailKept ==
    subscribed' => /\ subscribed
                   /\ \A f \in Projected :
                         ThreadComing(f) => ThreadComing(f)' \/ authority'[f][f] = file[f]

\* Such a step keeps DetailFollows.
LEMMA DetailStep ==
    ASSUME MailInv, DetailFollows, file' = file, PageStep, DetailKept
    PROVE  DetailFollows'
<1>. SUFFICES ASSUME subscribed', NEW f \in {"common", "detail"}
              PROVE  authority'[f][f] = file'[f] \/ ThreadComing(f)'
  BY DEF DetailFollows
<1>1. CASE authority[f][f] = file[f]
  <2>1. f \in Fields /\ Shown(f) = authority[f][f] /\ Shown(f)' = authority'[f][f]
    BY DEF Shown, Fields
  <2>. QED  BY <1>1, <2>1, ShownAdvances
<1>2. CASE ThreadComing(f)
  BY <1>2 DEF DetailKept, Projected
<1>. QED  BY <1>1, <1>2 DEF DetailFollows, DetailKept

\* The list is wanted, and no reply on its way is going to be used.
Renewed == refresh'.dirty /\ (~refresh'.fresh \/ refresh'.read = NoSnap)

\* What keeps CatalogFollows.
LEMMA CatalogStep ==
    ASSUME MailInv, CatalogFollows, file' = file, PageStep,
           \/ Renewed
           \/ /\ refresh' = refresh /\ (open' => open)
              /\ (open' /\ CatalogComing => CatalogComing')
    PROVE  CatalogFollows'
<1>1. CASE Renewed
  BY <1>1 DEF Renewed, CatalogFollows
<1>2. CASE /\ refresh' = refresh /\ (open' => open)
           /\ (open' /\ CatalogComing => CatalogComing')
  <2>1. authority.summary.catalog = file.catalog => authority'.summary.catalog = file.catalog
    <3>1. "catalog" \in Fields /\ Shown("catalog") = authority.summary.catalog
          /\ Shown("catalog")' = authority'.summary.catalog /\ file["catalog"] = file.catalog
      BY DEF Shown, Fields
    <3>. QED  BY <3>1, ShownAdvances
  <2>. QED  BY <1>2, <2>1 DEF CatalogFollows
<1>. QED  BY <1>1, <1>2

\* Init has nothing to follow.
LEMMA ViewInit ==
    ASSUME Init PROVE ViewInv
BY MailInit DEF Init, ViewInv, FetchIsWanted, DetailFollows, CatalogFollows

\* A mutation owes what it changed.
LEMMA MutateView ==
    ASSUME ViewInv, NEW p \in Publishers, NEW F \in SUBSET Fields, Mutate(p, F)
    PROVE  ViewInv'
<1>1. file \in Snapshot /\ PublishersTyped /\ MailInv /\ MailInv'
  BY TypeParts, MutateMail DEF ViewInv, MailInv
<1>2. /\ file' = Committed(F) /\ file' \in Snapshot /\ Sets(p, file', Owed(F), FALSE)
      /\ \A f \in Fields : file'[f] = IF f \in F THEN file.rev + 1 ELSE file[f]
  <2>1. file' = Committed(F) /\ file' \in Snapshot /\ Sets(p, file', Owed(F), FALSE)
    BY <1>1, MutateIs
  <2>2. \A f \in Fields : Committed(F)[f] = IF f \in F THEN file.rev + 1 ELSE file[f]
    BY <1>1, CommittedIs
  <2>. QED  BY <2>1, <2>2
<1>3. UNCHANGED <<open, subscribed, order, state, permit, writer, ordered, boot,
                  authority, refresh, conflicted, faults>>
  BY DEF Mutate, mailboxVars, bootVars, pageVars
<1>4. /\ \A key : ~Has(pub[p].work, key)
      /\ \A q \in Publishers : q # p => pub'[q] = pub[q]
      /\ pub'[p].snap = file' /\ pub'[p].work = Owed(F)
  <2>1. pub[p].work = <<>>
    BY IdleParts DEF Mutate
  <2>2. \A key : ~Has(<<>>, key)
    BY DEF Has
  <2>. QED  BY <1>2, <2>1, <2>2 DEF Sets
<1>5. DetailFollows'
  <2>. SUFFICES ASSUME subscribed', NEW f \in {"common", "detail"}
                PROVE  authority'[f][f] = file'[f] \/ ThreadComing(f)'
    BY DEF DetailFollows
  <2>0. f \in Fields
    BY DEF Fields
  <2>1. CASE f \in F
    <3>1. Has(pub'[p].work, "thread") /\ pub'[p].snap[f] = file'[f]
      BY <1>4, <2>1, OwedIs
    <3>. QED  BY <3>1 DEF ThreadComing
  <2>2. CASE f \notin F
    <3>1. file'[f] = file[f]
      BY <1>2, <2>0, <2>2
    <3>2. authority[f][f] = file[f] \/ ThreadComing(f)
      BY <1>3 DEF ViewInv, DetailFollows
    <3>3. CASE ThreadComing(f)
      <4>1. ASSUME NEW q \in Publishers, Has(pub[q].work, "thread"), pub[q].snap[f] = file[f]
            PROVE  ThreadComing(f)'
        <5>1. pub'[q] = pub[q]
          BY <1>4, <4>1
        <5>. QED  BY <3>1, <4>1, <5>1 DEF ThreadComing
      <4>. QED  BY <1>3, <3>1, <3>3, <4>1 DEF ThreadComing, Queued
    <3>. QED  BY <1>3, <3>1, <3>2, <3>3
  <2>. QED  BY <2>1, <2>2
<1>6. CatalogFollows'
  <2>1. CASE "common" \in F \/ "catalog" \in F
    <3>1. CatalogComing'
      BY <1>4, <2>1, OwedIs DEF CatalogComing
    <3>. QED  BY <3>1 DEF CatalogFollows
  <2>2. CASE "catalog" \notin F
    <3>1. file'.catalog = file.catalog
      BY <1>2, <2>2 DEF Fields
    <3>2. CatalogComing => CatalogComing'
      BY <1>3, <1>4 DEF CatalogComing, Queued
    <3>. QED  BY <1>3, <3>1, <3>2 DEF ViewInv, CatalogFollows
  <2>. QED  BY <2>1, <2>2
<1>. QED  BY <1>1, <1>3, <1>5, <1>6 DEF ViewInv, FetchIsWanted

\* A publisher keeps what it owes besides the message it sends.
LEMMA OwesStill ==
    ASSUME PublishersTyped, NEW p \in Publishers, pub[p].work # <<>>, NEW n,
           Sets(p, pub[p].snap, Tail(pub[p].work), n),
           NEW q \in Publishers, NEW key, Has(pub[q].work, key)
    PROVE  /\ pub'[q].snap = pub[q].snap
           /\ Has(pub'[q].work, key) \/ (q = p /\ Head(pub[p].work) = key)
<1>1. CASE q # p
  BY <1>1 DEF Sets
<1>2. CASE q = p
  <2>1. pub[p].work \in Seq(Keys)
    BY PublisherParts
  <2>. QED  BY <1>2, <2>1, TailHas DEF Sets
<1>. QED  BY <1>1, <1>2

\* A pending thread state is replaced by one that has all it had.
LEMMA InsertThreadStateView ==
    ASSUME ViewInv, NEW p \in Publishers, InsertThreadState(p)
    PROVE  ViewInv'
<1>1. /\ file \in Snapshot /\ PublishersTyped /\ ConnectionTyped /\ MailInv
      /\ MailInv' /\ file' = file /\ PageStep
  BY TypeParts, InsertThreadStateMail DEF ViewInv, MailInv
<1>2. /\ UNCHANGED <<open, subscribed, permit, writer, ordered, boot, authority, refresh, faults>>
      /\ pub[p].work # <<>> /\ Head(pub[p].work) = "thread" /\ "thread" \in Keys
  BY DEF InsertThreadState, Publishing, bootVars, pageVars, Keys
<1>3. \E n \in BOOLEAN : Sets(p, pub[p].snap, Tail(pub[p].work), n)
  <2>1. CASE subscribed /\ ~KeepsPending(pub[p].snap)
    BY <1>1, <1>2, <2>1, PublishedIs DEF InsertThreadState
  <2>2. CASE ~(subscribed /\ ~KeepsPending(pub[p].snap))
    BY <1>1, <1>2, <2>2, PublishedIs DEF InsertThreadState
  <2>. QED  BY <2>1, <2>2
<1>4. PICK n : Sets(p, pub[p].snap, Tail(pub[p].work), n)
  BY <1>3
<1>5. \A k : Queued(k) => Queued(k)'
  <2>1. CASE subscribed /\ ~KeepsPending(pub[p].snap)
    <3>1. Enqueue("thread")
      BY <2>1 DEF InsertThreadState
    <3>. QED  BY <1>1, <1>2, <3>1, EnqueueIs DEF ConnectionTyped
  <2>2. CASE ~(subscribed /\ ~KeepsPending(pub[p].snap))
    BY <2>2 DEF InsertThreadState, Queued
  <2>. QED  BY <2>1, <2>2
<1>6. ASSUME subscribed, NEW f \in Projected,
             pub[p].snap[f] = file[f] \/ (Queued("thread") /\ state[f] = file[f])
      PROVE  Queued("thread")' /\ state'[f] = file[f]
  <2>1. /\ History(Circulating, file) /\ state \in Circulating /\ pub[p].snap \in Circulating
        /\ f \in Fields
    BY <1>1, InCirculation DEF MailInv, OneHistory, Projected, Fields
  <2>2. state.rev \in Nat /\ pub[p].snap.rev \in Nat
    BY <2>1, SnapFields DEF History
  <2>3. CASE KeepsPending(pub[p].snap)
    <3>1. Queued("thread") /\ pub[p].snap.rev =< state.rev /\ state' = state
      <4>1. state' = state
        BY <2>3 DEF InsertThreadState
      <4>2. Queued("thread") /\ pub[p].snap.rev =< state.rev
        BY <2>2, <2>3 DEF KeepsPending
      <4>. QED  BY <4>1, <4>2
    <3>2. state[f] = file[f]
      BY <1>6, <2>1, <3>1, LaterVersion
    <3>. QED  BY <1>5, <3>1, <3>2
  <2>4. CASE ~KeepsPending(pub[p].snap)
    <3>1. Enqueue("thread") /\ state' = pub[p].snap
      BY <1>6, <2>4 DEF InsertThreadState
    <3>2. Queued("thread")'
      BY <1>1, <1>2, <3>1, EnqueueIs DEF ConnectionTyped
    <3>3. Queued("thread") => state.rev =< pub[p].snap.rev
      BY <2>2, <2>4 DEF KeepsPending
    <3>4. pub[p].snap[f] = file[f]
      BY <1>6, <2>1, <3>3, LaterVersion
    <3>. QED  BY <3>1, <3>2, <3>4
  <2>. QED  BY <2>3, <2>4
<1>7. DetailKept
  <2>. SUFFICES ASSUME subscribed', NEW f \in Projected, ThreadComing(f)
                PROVE  ThreadComing(f)'
    BY <1>2 DEF DetailKept
  <2>0. subscribed
    BY <1>2
  <2>1. ASSUME NEW q \in Publishers, Has(pub[q].work, "thread"), pub[q].snap[f] = file[f]
        PROVE  ThreadComing(f)'
    <3>1. /\ pub'[q].snap = pub[q].snap
          /\ Has(pub'[q].work, "thread") \/ q = p
      BY <1>1, <1>2, <1>4, <2>1, OwesStill
    <3>2. CASE Has(pub'[q].work, "thread")
      BY <1>1, <2>1, <3>1, <3>2 DEF ThreadComing
    <3>3. CASE q = p
      BY <1>1, <1>6, <2>0, <2>1, <3>3 DEF ThreadComing
    <3>. QED  BY <3>1, <3>2, <3>3
  <2>2. CASE Queued("thread") /\ state[f] = file[f]
    BY <1>1, <1>6, <2>0, <2>2 DEF ThreadComing
  <2>3. CASE \/ \E i \in 1 .. Len(ordered) : ordered[i][f] = file[f]
             \/ boot.pc \in {"requested", "subscribed"}
             \/ boot.pc = "read" /\ boot.snap[f] = file[f]
    BY <1>1, <1>2, <2>3 DEF ThreadComing
  <2>. QED  BY <2>1, <2>2, <2>3 DEF ThreadComing
<1>8. CatalogComing => CatalogComing'
  <2>1. ASSUME NEW q \in Publishers, Has(pub[q].work, "catalog") PROVE CatalogComing'
    <3>1. Has(pub'[q].work, "catalog") \/ Head(pub[p].work) = "catalog"
      BY <1>1, <1>2, <1>4, <2>1, OwesStill
    <3>2. Has(pub'[q].work, "catalog")
      BY <1>2, <3>1
    <3>. QED  BY <3>2 DEF CatalogComing
  <2>. QED  BY <1>5, <2>1 DEF CatalogComing
<1>9. DetailFollows'
  BY <1>1, <1>7, DetailStep DEF ViewInv
<1>10. CatalogFollows'
  BY <1>1, <1>2, <1>8, CatalogStep DEF ViewInv
<1>. QED  BY <1>1, <1>2, <1>9, <1>10 DEF ViewInv, FetchIsWanted

\* An invalidation goes from its publisher to the mailbox.
LEMMA InvalidateCatalogView ==
    ASSUME ViewInv, NEW p \in Publishers, InvalidateCatalog(p)
    PROVE  ViewInv'
<1>1. /\ file \in Snapshot /\ PublishersTyped /\ ConnectionTyped /\ MailInv
      /\ MailInv' /\ file' = file /\ PageStep
  BY TypeParts, InvalidateCatalogMail DEF ViewInv, MailInv
<1>2. /\ UNCHANGED <<open, subscribed, state, permit, writer, ordered, boot, authority,
                     refresh, conflicted, faults>>
      /\ pub[p].work # <<>> /\ Head(pub[p].work) = "catalog" /\ "catalog" \in Keys
  BY DEF InvalidateCatalog, Publishing, bootVars, pageVars, Keys
<1>3. \E n \in BOOLEAN : Sets(p, pub[p].snap, Tail(pub[p].work), n)
  <2>1. CASE open
    BY <1>1, <1>2, <2>1, PublishedIs DEF InvalidateCatalog
  <2>2. CASE ~open
    BY <1>1, <1>2, <2>2, PublishedIs DEF InvalidateCatalog
  <2>. QED  BY <2>1, <2>2
<1>4. PICK n : Sets(p, pub[p].snap, Tail(pub[p].work), n)
  BY <1>3
<1>5. (\A k : Queued(k) => Queued(k)') /\ (open => Queued("catalog")')
  <2>1. CASE open
    <3>1. Enqueue("catalog")
      BY <2>1 DEF InvalidateCatalog
    <3>. QED  BY <1>1, <1>2, <3>1, EnqueueIs DEF ConnectionTyped
  <2>2. CASE ~open
    BY <2>2 DEF InvalidateCatalog, Queued
  <2>. QED  BY <2>1, <2>2
<1>6. DetailKept
  <2>. SUFFICES ASSUME subscribed', NEW f \in Projected, ThreadComing(f)
                PROVE  ThreadComing(f)'
    BY <1>2 DEF DetailKept
  <2>1. ASSUME NEW q \in Publishers, Has(pub[q].work, "thread"), pub[q].snap[f] = file[f]
        PROVE  ThreadComing(f)'
    <3>1. pub'[q].snap = pub[q].snap /\ Has(pub'[q].work, "thread")
      BY <1>1, <1>2, <1>4, <2>1, OwesStill
    <3>. QED  BY <1>1, <2>1, <3>1 DEF ThreadComing
  <2>2. CASE Queued("thread") /\ state[f] = file[f]
    BY <1>1, <1>2, <1>5, <2>2 DEF ThreadComing
  <2>3. CASE \/ \E i \in 1 .. Len(ordered) : ordered[i][f] = file[f]
             \/ boot.pc \in {"requested", "subscribed"}
             \/ boot.pc = "read" /\ boot.snap[f] = file[f]
    BY <1>1, <1>2, <2>3 DEF ThreadComing
  <2>. QED  BY <2>1, <2>2, <2>3 DEF ThreadComing
<1>7. open' => CatalogComing'
  BY <1>2, <1>5 DEF CatalogComing
<1>8. DetailFollows'
  BY <1>1, <1>6, DetailStep DEF ViewInv
<1>9. CatalogFollows'
  BY <1>7 DEF CatalogFollows
<1>. QED  BY <1>1, <1>2, <1>8, <1>9 DEF ViewInv, FetchIsWanted

\* A notification carries nothing.
LEMMA NotifyOneView ==
    ASSUME ViewInv, NEW p \in Publishers, NotifyOne(p)
    PROVE  ViewInv'
<1>1. PublishersTyped /\ MailInv /\ MailInv' /\ file' = file /\ PageStep
  BY TypeParts, NotifyOneMail DEF ViewInv, MailInv
<1>2. UNCHANGED <<open, subscribed, order, state, ordered, boot, authority, refresh>>
  BY DEF NotifyOne, bootVars, pageVars
<1>3. \A q \in Publishers : pub'[q].snap = pub[q].snap /\ pub'[q].work = pub[q].work
  BY <1>1, NotifiedIs DEF NotifyOne, Sets
<1>4. DetailKept
  BY <1>1, <1>2, <1>3 DEF DetailKept, ThreadComing, Queued
<1>5. CatalogComing => CatalogComing'
  BY <1>2, <1>3 DEF CatalogComing, Queued
<1>6. DetailFollows' /\ CatalogFollows'
  BY <1>1, <1>2, <1>4, <1>5, DetailStep, CatalogStep DEF ViewInv
<1>. QED  BY <1>1, <1>2, <1>6 DEF ViewInv, FetchIsWanted

\* A publisher that ends owes nothing any more.
LEMMA ReplyView ==
    ASSUME ViewInv, NEW p \in Publishers, ReplySummary(p) \/ Done(p)
    PROVE  ViewInv'
<1>1. PublishersTyped /\ PageTyped /\ MailInv /\ MailInv' /\ file' = file /\ PageStep
  BY TypeParts, ReplyMail DEF ViewInv, MailInv
<1>2. /\ UNCHANGED <<open, subscribed, order, state, permit, writer, ordered, boot, faults>>
      /\ pub' = [pub EXCEPT ![p] = Idle] /\ pub[p].work = <<>>
  BY DEF ReplySummary, Done, mailboxVars, bootVars
<1>3. ASSUME NEW q \in Publishers, NEW key, Has(pub[q].work, key) PROVE pub'[q] = pub[q]
  <2>1. q # p
    BY <1>2, <1>3 DEF Has
  <2>. QED  BY <1>1, <1>2, <2>1, IdleIs DEF Sets
<1>4. DetailKept
  <2>. SUFFICES ASSUME subscribed', NEW f \in Projected, ThreadComing(f)
                PROVE  ThreadComing(f)'
    BY <1>2 DEF DetailKept
  <2>1. ASSUME NEW q \in Publishers, Has(pub[q].work, "thread"), pub[q].snap[f] = file[f]
        PROVE  ThreadComing(f)'
    <3>1. pub'[q] = pub[q]
      BY <1>3, <2>1
    <3>. QED  BY <1>1, <2>1, <3>1 DEF ThreadComing
  <2>. QED  BY <1>1, <1>2, <2>1 DEF ThreadComing, Queued
<1>5. CatalogComing => CatalogComing'
  <2>1. ASSUME NEW q \in Publishers, Has(pub[q].work, "catalog") PROVE CatalogComing'
    <3>1. pub'[q] = pub[q]
      BY <1>3, <2>1
    <3>. QED  BY <2>1, <3>1 DEF CatalogComing
  <2>. QED  BY <1>2, <2>1 DEF CatalogComing, Queued
<1>6. refresh' = refresh \/ Renewed
  <2>1. refresh' = refresh \/ refresh' = LoadThreads(refresh)
    BY DEF ReplySummary, Done, pageVars
  <2>. QED  BY <1>1, <2>1, LoadThreadsIs DEF PageTyped, Renewed
<1>7. DetailFollows' /\ CatalogFollows'
  BY <1>1, <1>2, <1>4, <1>5, <1>6, DetailStep, CatalogStep DEF ViewInv
<1>8. FetchIsWanted'
  BY <1>6 DEF Renewed, ViewInv, FetchIsWanted
<1>. QED  BY <1>1, <1>7, <1>8 DEF ViewInv

\* What the page takes from a payload that has the file's value of f.
LEMMA TakesCarries ==
    ASSUME MailInv, NEW snap \in Circulating, Takes(authority', "detail", snap),
           NEW f \in Projected, snap[f] = file[f]
    PROVE  authority'[f][f] = file[f]
<1>1. snap.rev =< authority'.detail.rev /\ authority'.detail.rev =< authority'.common.rev
  BY DEF Takes
<1>2. \A x \in {"common", "detail", "summary"} : authority'[x] \in Circulating
  BY InCirculation DEF Takes
<1>3. History(Circulating, file) /\ f \in Fields
  BY DEF MailInv, OneHistory, Projected, Fields
<1>4. /\ snap.rev \in Nat /\ authority'.detail.rev \in Nat /\ authority'.common.rev \in Nat
  BY <1>2, <1>3, SnapFields DEF History
<1>5. authority'[f] \in Circulating /\ snap.rev =< authority'[f].rev
  BY <1>1, <1>2, <1>4 DEF Projected
<1>. QED  BY <1>3, <1>5, LaterVersion

\* The page shows the pending thread state it takes; an invalidation it takes makes it
\* want the list.
LEMMA PopReplacementView ==
    ASSUME ViewInv, PopReplacement
    PROVE  ViewInv'
<1>1. /\ ConnectionTyped /\ PageTyped /\ MailInv /\ MailInv' /\ file' = file /\ PageStep
  BY TypeParts, WriterMail DEF ViewInv, MailInv, Writer
<1>2. /\ UNCHANGED <<pub, open, subscribed, ordered, boot>>
      /\ order # <<>> /\ order' = Tail(order)
  BY DEF PopReplacement, bootVars
<1>3. Head(order) \in Keys /\ \A k : Queued(k) => k = Head(order) \/ Queued(k)'
  BY <1>1, <1>2, PopIs DEF ConnectionTyped
<1>4. CASE Head(order) = "thread"
  <2>1. ApplyDetail(state) /\ refresh' = refresh
    BY <1>4 DEF PopReplacement
  <2>2. Takes(authority', "detail", state) /\ state \in Circulating
    BY <1>1, <2>1, PageHandles, InCirculation DEF MailInv, PageTyped, ApplyDetail
  <2>3. DetailKept
    <3>. SUFFICES ASSUME subscribed', NEW f \in Projected, ThreadComing(f)
                  PROVE  ThreadComing(f)' \/ authority'[f][f] = file[f]
      BY <1>2 DEF DetailKept
    <3>1. CASE Queued("thread") /\ state[f] = file[f]
      BY <1>1, <2>2, <3>1, TakesCarries
    <3>. QED  BY <1>1, <1>2, <3>1 DEF ThreadComing
  <2>4. CatalogComing => CatalogComing'
    <3>1. Queued("catalog") => Queued("catalog")'
      BY <1>3, <1>4
    <3>. QED  BY <1>2, <3>1 DEF CatalogComing
  <2>5. DetailFollows' /\ CatalogFollows'
    BY <1>1, <1>2, <2>1, <2>3, <2>4, DetailStep, CatalogStep DEF ViewInv
  <2>. QED  BY <1>1, <2>1, <2>5 DEF ViewInv, FetchIsWanted
<1>5. CASE Head(order) = "catalog"
  <2>1. /\ refresh' = LoadThreads(refresh) /\ UNCHANGED <<state, authority>>
    BY <1>5 DEF PopReplacement
  <2>2. Renewed
    BY <1>1, <2>1, LoadThreadsIs DEF PageTyped, Renewed
  <2>3. DetailKept
    <3>1. Queued("thread") => Queued("thread")'
      BY <1>3, <1>5
    <3>. QED  BY <1>1, <1>2, <2>1, <3>1 DEF DetailKept, ThreadComing
  <2>4. DetailFollows' /\ CatalogFollows'
    BY <1>1, <2>2, <2>3, DetailStep, CatalogStep DEF ViewInv
  <2>. QED  BY <1>1, <2>2, <2>4 DEF ViewInv, FetchIsWanted, Renewed
<1>. QED  BY <1>3, <1>4, <1>5 DEF Keys

\* The page shows the ordered thread state it takes.
LEMMA PopOrderedView ==
    ASSUME ViewInv, PopOrdered
    PROVE  ViewInv'
<1>1. /\ BootTyped /\ MailInv /\ MailInv' /\ file' = file /\ PageStep
      /\ Head(ordered) \in Circulating /\ Takes(authority', "detail", Head(ordered))
  BY TypeParts, PopOrderedMail DEF ViewInv, MailInv
<1>2. /\ UNCHANGED <<pub, open, subscribed, order, state, boot, refresh>>
      /\ ordered # <<>> /\ ordered' = Tail(ordered)
  BY DEF PopOrdered
<1>3. DetailKept
  <2>. SUFFICES ASSUME subscribed', NEW f \in Projected, ThreadComing(f)
                PROVE  ThreadComing(f)' \/ authority'[f][f] = file[f]
    BY <1>2 DEF DetailKept
  <2>1. ASSUME NEW i \in 1 .. Len(ordered), ordered[i][f] = file[f]
        PROVE  ThreadComing(f)' \/ authority'[f][f] = file[f]
    <3>1. Has(ordered, ordered[i])
      BY DEF Has
    <3>2. Head(ordered) = ordered[i] \/ Has(ordered', ordered[i])
      BY <1>1, <1>2, <3>1, TailHas DEF BootTyped
    <3>3. CASE Head(ordered) = ordered[i]
      BY <1>1, <2>1, <3>3, TakesCarries
    <3>4. CASE Has(ordered', ordered[i])
      BY <1>1, <2>1, <3>4 DEF Has, ThreadComing
    <3>. QED  BY <3>2, <3>3, <3>4
  <2>. QED  BY <1>1, <1>2, <2>1 DEF ThreadComing, Queued
<1>4. CatalogComing => CatalogComing'
  BY <1>2 DEF CatalogComing, Queued
<1>5. DetailFollows' /\ CatalogFollows'
  BY <1>1, <1>2, <1>3, <1>4, DetailStep, CatalogStep DEF ViewInv
<1>. QED  BY <1>1, <1>2, <1>5 DEF ViewInv, FetchIsWanted

\* A step that leaves all that is on its way where it is.
LEMMA ViewUntouched ==
    ASSUME ViewInv, MailInv', file' = file, PageStep,
           UNCHANGED <<pub, open, subscribed, order, state, ordered, boot>>,
           refresh' = refresh \/ (Renewed /\ FetchIsWanted')
    PROVE  ViewInv'
<1>1. DetailKept
  BY DEF DetailKept, ThreadComing, Queued
<1>2. CatalogComing => CatalogComing'
  BY DEF CatalogComing, Queued
<1>3. DetailFollows' /\ CatalogFollows'
  BY <1>1, <1>2, DetailStep, CatalogStep DEF ViewInv
<1>. QED  BY <1>3 DEF ViewInv, FetchIsWanted

\* The socket opens: the page asks for the list and for the thread's state.
LEMMA OpenView ==
    ASSUME ViewInv, Open
    PROVE  ViewInv'
<1>1. PageTyped /\ MailInv /\ MailInv' /\ file' = file /\ PageStep
  BY TypeParts, ConnectMail DEF ViewInv, MailInv
<1>2. refresh' = LoadThreads(refresh) /\ boot'.pc = "requested"
  BY DEF Open
<1>3. Renewed
  BY <1>1, <1>2, LoadThreadsIs DEF PageTyped, Renewed
<1>4. DetailFollows'
  BY <1>2 DEF DetailFollows, ThreadComing
<1>5. CatalogFollows'
  BY <1>1, <1>3, CatalogStep DEF ViewInv
<1>. QED  BY <1>1, <1>3, <1>4, <1>5 DEF ViewInv, FetchIsWanted, Renewed

\* The bootstrap subscribes before it reads, and sends what it read.
LEMMA BootstrapView ==
    ASSUME ViewInv, Bootstrap
    PROVE  ViewInv'
<1>1. /\ BootTyped /\ MailInv /\ MailInv' /\ file' = file /\ PageStep
  BY TypeParts, ConnectMail DEF ViewInv, MailInv
<1>2. UNCHANGED <<pub, open, order, state, authority, refresh>>
  BY DEF Bootstrap, BootSubscribe, BootRead, BootSend, mailboxVars, pageVars
<1>3. DetailFollows'
  <2>1. CASE BootSubscribe
    <3>1. boot'.pc = "subscribed"
      BY <1>1, <2>1 DEF BootSubscribe, BootTyped, BootState
    <3>. QED  BY <3>1 DEF DetailFollows, ThreadComing
  <2>2. CASE BootRead
    <3>1. boot'.pc = "read" /\ boot'.snap = file
      BY <2>2 DEF BootRead
    <3>. QED  BY <1>1, <3>1 DEF DetailFollows, ThreadComing
  <2>3. CASE BootSend
    <3>1. /\ ordered' = Append(ordered, boot.snap) /\ subscribed' = subscribed
          /\ boot.pc = "read"
      BY <2>3 DEF BootSend
    <3>2. ordered \in Seq(Snapshot) /\ boot.snap \in Snapshot /\ Len(ordered) \in Nat
      BY <1>1, LenProperties DEF BootTyped, BootState
    <3>3. /\ Len(ordered') = Len(ordered) + 1 /\ ordered'[Len(ordered) + 1] = boot.snap
          /\ \A i \in 1 .. Len(ordered) : ordered'[i] = ordered[i]
      BY <3>1, <3>2, AppendHas
    <3>4. /\ Len(ordered) + 1 \in 1 .. Len(ordered')
          /\ \A i \in 1 .. Len(ordered) : i \in 1 .. Len(ordered')
      BY <3>2, <3>3
    <3>5. DetailKept
      <4>. SUFFICES ASSUME subscribed', NEW f \in Projected, ThreadComing(f)
                    PROVE  ThreadComing(f)'
        BY <3>1 DEF DetailKept
      <4>1. CASE boot.snap[f] = file[f]
        BY <1>1, <3>3, <3>4, <4>1 DEF ThreadComing
      <4>2. CASE \E i \in 1 .. Len(ordered) : ordered[i][f] = file[f]
        BY <1>1, <3>3, <3>4, <4>2 DEF ThreadComing
      <4>. QED  BY <1>1, <1>2, <3>1, <4>1, <4>2 DEF ThreadComing, Queued
    <3>. QED  BY <1>1, <3>5, DetailStep DEF ViewInv
  <2>. QED  BY <2>1, <2>2, <2>3 DEF Bootstrap
<1>4. CatalogComing => CatalogComing'
  BY <1>2 DEF CatalogComing, Queued
<1>5. CatalogFollows'
  BY <1>1, <1>2, <1>4, CatalogStep DEF ViewInv
<1>. QED  BY <1>1, <1>2, <1>3, <1>5 DEF ViewInv, FetchIsWanted

\* A page without a connection follows nothing.
LEMMA DisconnectView ==
    ASSUME ViewInv, LoseSocket \/ Restart
    PROVE  ViewInv'
<1>1. MailInv'
  BY DisconnectMail DEF ViewInv
<1>2. open' = FALSE /\ subscribed' = FALSE /\ refresh' = refresh
  BY DEF LoseSocket, Restart, Disconnected, pageVars
<1>. QED  BY <1>1, <1>2 DEF ViewInv, FetchIsWanted, DetailFollows, CatalogFollows

\* The list request reads the file as it is.
LEMMA FetchReadView ==
    ASSUME ViewInv, FetchRead
    PROVE  ViewInv'
<1>1. /\ PageTyped /\ MailInv /\ MailInv' /\ file' = file /\ PageStep
  BY TypeParts, FetchMail DEF ViewInv, MailInv, Refresh
<1>2. /\ UNCHANGED <<pub, open, subscribed, order, state, ordered, boot, authority>>
      /\ refresh' = [refresh EXCEPT !.read = file]
  BY DEF FetchRead, mailboxVars, bootVars
<1>3. /\ refresh'.read = file /\ refresh'.dirty = refresh.dirty
      /\ refresh'.running = refresh.running /\ refresh'.timer = refresh.timer
  BY <1>1, <1>2 DEF PageTyped, RefreshState
<1>4. DetailKept
  BY <1>1, <1>2 DEF DetailKept, ThreadComing, Queued
<1>5. DetailFollows'
  BY <1>1, <1>4, DetailStep DEF ViewInv
<1>6. CatalogComing => CatalogComing'
  BY <1>2 DEF CatalogComing, Queued
<1>7. CatalogFollows'
  BY <1>1, <1>2, <1>3, <1>6 DEF ViewInv, CatalogFollows
<1>. QED  BY <1>1, <1>3, <1>5, <1>7 DEF ViewInv, FetchIsWanted

\* A reply is used only if no invalidation was taken since its request.
LEMMA FetchReplyView ==
    ASSUME ViewInv, FetchReply
    PROVE  ViewInv'
<1>1. /\ PageTyped /\ MailInv /\ MailInv' /\ file' = file /\ PageStep
  BY TypeParts, FetchMail DEF ViewInv, MailInv, Refresh
<1>2. UNCHANGED <<pub, open, subscribed, order, state, ordered, boot>>
  BY DEF FetchReply, mailboxVars, bootVars
<1>3. /\ refresh \in RefreshState /\ refresh.running /\ refresh.read # NoSnap
      /\ refresh.dirty
  BY <1>1 DEF PageTyped, FetchReply, ViewInv, FetchIsWanted
<1>. DEFINE snap == refresh.read
            stale == SummaryIsStale(snap)
            mid == [refresh EXCEPT !.fresh = TRUE]
            again == [mid EXCEPT !.read = NoSnap]
            caught == [again EXCEPT !.catchup = TRUE]
            a == [again EXCEPT !.dirty = stale]
            b == [a EXCEPT !.running = FALSE]
            c == [b EXCEPT !.timer = stale]
<1>4. \/ Superseded /\ refresh' = again
      \/ stale /\ refresh' = caught
      \/ ~Superseded /\ authority' = Accept("summary", snap) /\ refresh' = c
  BY DEF FetchReply
<1>5. mid \in RefreshState /\ mid.dirty = refresh.dirty
  BY <1>3 DEF RefreshState
<1>. HIDE DEF mid
<1>6. again \in RefreshState /\ again.dirty = refresh.dirty /\ again.read = NoSnap
  BY <1>5, NoSnapIs DEF RefreshState
<1>. HIDE DEF again
<1>7. caught \in RefreshState /\ caught.dirty = refresh.dirty /\ caught.read = NoSnap
  BY <1>6 DEF RefreshState
<1>. HIDE DEF caught
<1>8. stale \in BOOLEAN
  BY DEF SummaryIsStale, Stale, Conflict
<1>9. CASE refresh' = again \/ refresh' = caught
  <2>1. refresh'.dirty /\ refresh'.read = NoSnap
    BY <1>3, <1>6, <1>7, <1>9
  <2>2. Renewed /\ FetchIsWanted'
    BY <2>1 DEF Renewed, FetchIsWanted
  <2>. QED  BY <1>1, <1>2, <2>2, ViewUntouched
<1>10. CASE ~Superseded /\ authority' = Accept("summary", snap) /\ refresh' = c
  <2>. HIDE DEF stale
  <2>1. a \in RefreshState /\ a.dirty = stale /\ a.read = NoSnap
    BY <1>6, <1>8 DEF RefreshState
  <2>. HIDE DEF a
  <2>2. b \in RefreshState /\ b.dirty = stale /\ b.read = NoSnap /\ b.running = FALSE
    BY <2>1 DEF RefreshState
  <2>. HIDE DEF b
  <2>3. c \in RefreshState /\ c.dirty = stale /\ c.read = NoSnap /\ c.running = FALSE
        /\ c.timer = stale
    BY <1>8, <2>2 DEF RefreshState
  <2>. HIDE DEF c
  <2>4. FetchIsWanted' /\ refresh'.read = NoSnap
    BY <1>10, <2>3 DEF FetchIsWanted
  <2>5. CASE stale
    <3>1. Renewed
      BY <1>10, <2>3, <2>5 DEF Renewed
    <3>. QED  BY <1>1, <1>2, <2>4, <3>1, ViewUntouched
  <2>6. CASE ~stale
    <3>1. snap \in Circulating /\ ~Stale("summary", snap)
      BY <2>6, InCirculation DEF stale, SummaryIsStale
    <3>2. authority'.summary = snap
      BY <1>1, <1>10, <3>1, AcceptIs DEF MailInv, PageTyped, Takes
    <3>3. refresh.fresh
      BY <1>10 DEF Superseded
    <3>4. CatalogComing => CatalogComing'
      BY <1>2 DEF CatalogComing, Queued
    <3>5. open /\ ~CatalogComing => snap.catalog = file.catalog
      BY <1>3, <3>3 DEF ViewInv, CatalogFollows
    <3>6. CatalogFollows'
      BY <1>1, <1>2, <2>4, <3>2, <3>4, <3>5 DEF CatalogFollows
    <3>7. DetailKept
      BY <1>1, <1>2 DEF DetailKept, ThreadComing, Queued
    <3>8. DetailFollows'
      BY <1>1, <3>7, DetailStep DEF ViewInv
    <3>. QED  BY <1>1, <2>4, <3>6, <3>8 DEF ViewInv
  <2>. QED  BY <2>5, <2>6
<1>. QED  BY <1>4, <1>9, <1>10

\* A failed fetch and the retry keep the list wanted.
LEMMA FetchAgainView ==
    ASSUME ViewInv, RetryTimer \/ FetchFail
    PROVE  ViewInv'
<1>1. /\ PageTyped /\ MailInv /\ MailInv' /\ file' = file /\ PageStep
  BY TypeParts, FetchMail DEF ViewInv, MailInv, Refresh
<1>2. UNCHANGED <<pub, open, subscribed, order, state, ordered, boot>>
  BY DEF RetryTimer, FetchFail, mailboxVars, bootVars
<1>3. refresh'.dirty /\ refresh'.read = NoSnap
  <2>1. CASE RetryTimer
    <3>. DEFINE n == [dirty |-> TRUE, running |-> TRUE, fresh |-> TRUE, catchup |-> FALSE,
                      timer |-> FALSE, read |-> NoSnap]
    <3>1. refresh' = n
      BY <2>1 DEF RetryTimer
    <3>2. n.dirty = TRUE /\ n.read = NoSnap
      OBVIOUS
    <3>. QED  BY <3>1, <3>2
  <2>2. CASE FetchFail
    <3>. DEFINE a == [refresh EXCEPT !.running = FALSE]
                b == [a EXCEPT !.timer = TRUE]
                c == [b EXCEPT !.read = NoSnap]
    <3>1. refresh' = c /\ refresh.dirty /\ refresh \in RefreshState
      BY <1>1, <2>2 DEF FetchFail, ViewInv, FetchIsWanted, PageTyped
    <3>2. a \in RefreshState /\ a.dirty = refresh.dirty
      BY <3>1 DEF RefreshState
    <3>. HIDE DEF a
    <3>3. b \in RefreshState /\ b.dirty = refresh.dirty
      BY <3>2 DEF RefreshState
    <3>. HIDE DEF b
    <3>4. c.dirty = refresh.dirty /\ c.read = NoSnap
      BY <3>3 DEF RefreshState
    <3>. HIDE DEF c
    <3>. QED  BY <3>1, <3>4
  <2>. QED  BY <2>1, <2>2
<1>4. Renewed /\ FetchIsWanted'
  BY <1>3 DEF Renewed, FetchIsWanted
<1>. QED  BY <1>1, <1>2, <1>4, ViewUntouched

\* Every step keeps ViewInv.
LEMMA ViewNext ==
    ASSUME ViewInv, [Next]_vars PROVE ViewInv'
<1>1. ASSUME NEW p \in Publishers, NEW F \in Changes, Mutate(p, F) PROVE ViewInv'
  <2>1. F \in SUBSET Fields
    BY ReplacementAssumption
  <2>. QED  BY <1>1, <2>1, MutateView
<1>2. ASSUME NEW p \in Publishers, Publish(p) PROVE ViewInv'
  BY <1>2, InsertThreadStateView, InvalidateCatalogView, NotifyOneView DEF Publish
<1>3. ASSUME NEW p \in Publishers, ReplySummary(p) \/ Done(p) PROVE ViewInv'
  BY <1>3, ReplyView
<1>4. CASE FindEmpty \/ Await \/ UNCHANGED vars
  <2>1. /\ UNCHANGED <<pub, open, subscribed, order, state, ordered, boot>>
        /\ UNCHANGED <<file, authority, refresh>>
    BY <1>4 DEF FindEmpty, Await, vars, mailboxVars, bootVars, pageVars
  <2>2. MailInv' /\ PageStep
    BY <2>1, MailNext DEF ViewInv, PageStep
  <2>. QED  BY <2>1, <2>2, ViewUntouched
<1>5. CASE PopReplacement
  BY <1>5, PopReplacementView
<1>6. CASE PopOrdered
  BY <1>6, PopOrderedView
<1>7. CASE Open \/ Bootstrap
  BY <1>7, OpenView, BootstrapView
<1>8. CASE LoseSocket \/ Restart
  BY <1>8, DisconnectView
<1>9. CASE Refresh \/ FetchFail
  BY <1>9, FetchReadView, FetchReplyView, FetchAgainView DEF Refresh
<1>. QED  BY <1>1, <1>2, <1>3, <1>4, <1>5, <1>6, <1>7, <1>8, <1>9 DEF Next, Writer

\* Once nothing is on its way to it, a connected and subscribed page shows the thread
\* file: no order of publications, replies, fetches and bootstraps, no lost socket and
\* no restart leaves it with an old title, detail or catalog row.
THEOREM ViewsCorrect == Spec => []ViewsConverge
<1>1. Init => ViewInv
  BY ViewInit
<1>2. ViewInv /\ [Next]_vars => ViewInv'
  BY ViewNext
<1>3. ViewInv => ViewsConverge
  <2>. SUFFICES ASSUME ViewInv, Quiet, NEW f \in Fields PROVE Shown(f) = file[f]
    BY DEF ViewsConverge
  <2>1. \A s : s = <<>> => ~\E i \in 1 .. Len(s) : TRUE
    OBVIOUS
  <2>2. \A key : ~Queued(key) /\ \A p \in Publishers : ~Has(pub[p].work, key)
    BY <2>1 DEF Quiet, Queued, Has
  <2>3. \A g \in {"common", "detail"} : authority[g][g] = file[g]
    <3>1. \A g \in {"common", "detail"} : ~ThreadComing(g)
      BY <2>1, <2>2 DEF Quiet, ThreadComing
    <3>. QED  BY <3>1 DEF Quiet, ViewInv, DetailFollows
  <2>4. authority.summary.catalog = file.catalog
    BY <2>2 DEF Quiet, ViewInv, CatalogFollows, CatalogComing
  <2>. QED  BY <2>3, <2>4 DEF Shown, Fields
<1>. QED  BY <1>1, <1>2, <1>3, PTL DEF Spec
=============================================================================
