---------------------------- MODULE HistoryStore ----------------------------
(***************************************************************************)
(* The files of one thread and everything the store does with them: the   *)
(* two-file turn commit with its aggregates, amendments, readers and the   *)
(* parsed-history cache, aggregate repair, the migration from the flat     *)
(* layout, deletion, and the operator's maintenance commands.              *)
(*                                                                         *)
(* A history file is a sequence of lines; a line is a header, a turn or    *)
(* unparseable, and says whether its newline reached the file.  Operations *)
(* that write hold the thread's lock, so at most one is in progress (op);  *)
(* readers hold nothing.  A crash stops the process between any two steps; *)
(* an I/O error ends an operation at any of its steps.                     *)
(***************************************************************************)
EXTENDS Integers, Sequences, SequencesExt, FiniteSets

CONSTANTS
    MaxTurns,       \* turns the thread completes, numbered in that order
    Readers,        \* concurrent reads of the history
    MaxCrashes,     \* crashes of the process
    MaxFaults,      \* I/O errors
    MaxOrphans,     \* MAX_PLAUSIBLE_ORPHANS
    Amends,         \* items may settle after their turn was persisted
    Deletes,        \* the thread may be deleted
    NoFile, None,   \* no such file; no such thing
    Header, Bad     \* a header line; a line that does not parse

ASSUME HistoryStoreAssumption ==
    /\ {MaxTurns, MaxCrashes, MaxFaults, MaxOrphans} \subseteq Nat
    /\ {Amends, Deletes} \subseteq BOOLEAN

Turns == 1..MaxTurns

VARIABLES
    flatHist,   \* <thread>.jsonl: lines or NoFile
    flatMeta,   \* <thread>.json: the turns' counts in the token ledger, or NoFile
    staging,    \* <thread>.migrating/ exists
    dir,        \* <thread>/ exists
    dirMeta,    \* <thread>/thread.json
    index,      \* <thread>/history.jsonl
    payload,    \* <thread>/turns/: what each payload file holds, or NoFile
    legacy,     \* <thread>/legacy/: which originals it holds
    deleting,   \* <thread>.deleting/ exists
    clock,      \* writes so far: the files' lengths and modification times
    stamp,      \* the metadata of the history file in use
    up,         \* the server runs (otherwise giskard-admin may)
    op,         \* the operation that holds the thread's lock
    cache,      \* the parsed-history cache entry
    unmigratable,
    reader,     \* per reader, the read in progress
    acked,      \* turns whose commit was reported to the caller, in order
    settled,    \* turns whose amendment was reported to the caller
    uncounted,  \* turns whose commit was cut off before their usage was counted
    merged,     \* an append landed on a line that had no newline
    dropped,    \* a deletion of the thread was asked for
    crashes, faults

disk   == <<flatHist, flatMeta, staging, dir, dirMeta, index, payload, legacy, deleting, clock, stamp>>
memory == <<up, op, cache, unmigratable, reader>>
ghost  == <<acked, settled, uncounted, merged, dropped, crashes, faults>>
vars   == <<disk, memory, ghost>>

Line(l, nl) == [line |-> l, nl |-> nl]
NoLedger == [t \in Turns |-> 0]

----------------------------------------------------------------------------
(* Lines of a history file.                                                *)

Unterminated(file) == file # <<>> /\ ~Last(file).nl

\* One write_all on a file opened for append: the bytes follow whatever is
\* there, so a line without its newline swallows the next one.
AppendLine(file, l) ==
    IF Unterminated(file)
      THEN Append(Front(file), Line(Bad, l.nl))
      ELSE Append(file, l)

AppendLines(file, ls) == FoldLeft(AppendLine, file, ls)

\* What a write that stops early leaves of the last line.
TornWrites(file, ls) ==
    { AppendLines(file, Front(ls) \o <<Line(l, FALSE)>>) : l \in {Bad, Last(ls).line} }

\* parse_history_index, parse_turn_history: an unparseable last line is
\* skipped, any other is Corrupt; the first record of a turn wins.
Corrupt(file) == \E i \in 1..Len(file) - 1 : file[i].line = Bad

Records(file) ==
    LET ids == [i \in DOMAIN file |-> file[i].line]
        rec == SelectSeq(ids, LAMBDA l : l \in Turns)
    IN  SelectSeq([i \in DOMAIN rec |-> IF \E j \in 1..(i - 1) : rec[j] = rec[i]
                                          THEN 0 ELSE rec[i]],
                  LAMBDA t : t # 0)

\* thread_layout: the directory decides.
Layout == IF dir THEN "dir"
          ELSE IF flatMeta # NoFile \/ flatHist # NoFile THEN "flat" ELSE "dir"

History == IF Layout = "flat" THEN flatHist ELSE index

OldLines == IF History = NoFile THEN <<>> ELSE History

Metadata == IF Layout = "flat" THEN flatMeta ELSE dirMeta

\* assemble_turn_record: a record whose payload is missing is skipped.
Assemble(ts) ==
    LET have == SelectSeq(ts, LAMBDA t : payload[t] # NoFile)
    IN  [i \in DOMAIN have |-> [turn |-> have[i], settled |-> payload[have[i]].settled]]

Inline(ts) == [i \in DOMAIN ts |-> [turn |-> ts[i], settled |-> FALSE]]

\* What a read that starts from nothing finds in the files.
Stored == IF History = NoFile THEN <<>>
          ELSE IF Layout = "flat" THEN Inline(Records(History))
          ELSE Assemble(Records(History))

\* list_threads: a directory, or a metadata file of the flat layout.
Listed == dir \/ flatMeta # NoFile

----------------------------------------------------------------------------
(* Initially nothing is on disk, or a thread of the flat layout is, whose  *)
(* history may end in a torn line.                                         *)

IdleReader == [pc |-> "idle"]
NoOp == [kind |-> None]

FlatHistories == {NoFile, <<Line(1, TRUE)>>, <<Line(1, TRUE), Line(Bad, FALSE)>>,
                  <<Line(Bad, TRUE), Line(1, TRUE)>>}

Init ==
    /\ \/ flatHist = NoFile /\ flatMeta = NoFile
       \/ /\ MaxTurns > 0 /\ flatHist \in FlatHistories
          /\ flatMeta = IF flatHist = NoFile THEN NoLedger ELSE [NoLedger EXCEPT ![1] = 1]
    /\ acked = IF flatHist # NoFile THEN Records(flatHist) ELSE <<>>
    /\ staging = FALSE /\ dir = FALSE /\ dirMeta = NoFile /\ index = NoFile
    /\ payload = [t \in Turns |-> NoFile] /\ legacy = {} /\ deleting = FALSE
    /\ clock = 0 /\ stamp = 0 /\ up = TRUE /\ op = NoOp /\ cache = None
    /\ unmigratable = FALSE /\ reader = [r \in Readers |-> IdleReader]
    /\ settled = {} /\ uncounted = {} /\ merged = FALSE /\ dropped = FALSE /\ crashes = 0 /\ faults = 0

----------------------------------------------------------------------------
(* Operations under the thread's lock.                                     *)

\* ensure_migrated has run: no original is left, or it could not be moved.
HasOriginals == flatMeta # NoFile \/ flatHist # NoFile
Ready == up /\ op = NoOp /\ (~HasOriginals \/ unmigratable)

Exists == Metadata # NoFile

Write == clock' = clock + 1

\* An I/O error ends the operation; the lock goes with its guard.
Fault == faults < MaxFaults /\ faults' = faults + 1

(* create_thread: the metadata record, then the history header.            *)
CreateThread ==
    /\ Ready /\ ~Exists /\ ~dropped
    /\ dir' = TRUE /\ dirMeta' = NoLedger /\ op' = [kind |-> "create"]
    /\ Write
    /\ UNCHANGED <<flatHist, flatMeta, staging, index, payload, legacy, deleting, stamp,
                   up, cache, unmigratable, reader, ghost>>

WriteHeader ==
    /\ op.kind = "create"
    /\ index' = IF index = NoFile THEN <<Line(Header, TRUE)>> ELSE index
    /\ Write /\ stamp' = IF index = NoFile THEN clock' ELSE stamp
    /\ op' = NoOp
    /\ UNCHANGED <<flatHist, flatMeta, staging, dir, dirMeta, payload, legacy, deleting,
                   up, cache, unmigratable, reader, ghost>>

(* append_turn_with_diffs_and_update_aggregates.  A turn whose append      *)
(* failed may be appended again, or never; the owner's seen_turn_ids holds *)
(* back a turn the history has.                                            *)
AppendPayload(t) ==
    /\ Ready /\ Exists
    /\ \A i \in DOMAIN acked : acked[i] < t
    /\ \A i \in DOMAIN Records(OldLines) : Records(OldLines)[i] < t
    /\ op' = [kind |-> "append", turn |-> t, before |-> stamp, pc |-> "index"]
    /\ payload' = IF Layout = "dir" /\ payload[t] = NoFile
                    THEN [payload EXCEPT ![t] = [settled |-> FALSE, nl |-> TRUE]]
                    ELSE payload
    /\ UNCHANGED <<flatHist, flatMeta, staging, dir, dirMeta, index, legacy, deleting,
                   clock, stamp, up, cache, unmigratable, reader, ghost>>

\* The lines of one append: a header precedes the record of a missing index.
NewLines == IF Layout = "dir" /\ index = NoFile
              THEN <<Line(Header, TRUE), Line(op.turn, TRUE)>> ELSE <<Line(op.turn, TRUE)>>

SetHistory(file) ==
    IF Layout = "flat" THEN flatHist' = file /\ UNCHANGED index
                       ELSE index' = file /\ UNCHANGED flatHist

AppendIndex ==
    /\ op.kind = "append" /\ op.pc = "index"
    /\ SetHistory(AppendLines(OldLines, NewLines))
    /\ Write /\ stamp' = clock'
    /\ op' = [op EXCEPT !.pc = "cache"]
    /\ uncounted' = uncounted \cup {op.turn}
    /\ merged' = (merged \/ Unterminated(OldLines))
    /\ UNCHANGED <<flatMeta, staging, dir, dirMeta, payload, legacy, deleting,
                   up, cache, unmigratable, reader, acked, settled, dropped, crashes, faults>>

\* Mutant: the entry takes the turn whatever file it was parsed from.
AlwaysTakes == cache # None

\* update_history_cache_after_append: only an entry that was current before
\* the append takes the new turn, any other is dropped.
TakesTurn == cache # None /\ cache.stamp = op.before

UpdateCache ==
    /\ op.kind = "append" /\ op.pc = "cache"
    /\ cache' = IF ~TakesTurn THEN None
                ELSE [cache EXCEPT !.stamp = stamp,
                        !.turns = IF \E i \in DOMAIN @ : @[i].turn = op.turn THEN @
                                  ELSE Append(@, [turn |-> op.turn, settled |-> FALSE])]
    /\ op' = [op EXCEPT !.pc = "metadata"]
    /\ UNCHANGED <<disk, up, unmigratable, reader, ghost>>

SetMetadata(ledger) ==
    IF Layout = "flat" THEN flatMeta' = ledger /\ UNCHANGED dirMeta
                       ELSE dirMeta' = ledger /\ UNCHANGED flatMeta

Counted(t) == [Metadata EXCEPT ![t] = @ + 1]

\* The usage is counted, or the outcome is MetadataFailed; both report the
\* commit to the caller.
UpdateAggregates ==
    /\ op.kind = "append" /\ op.pc = "metadata"
    /\ \/ /\ SetMetadata(Counted(op.turn))
          /\ uncounted' = uncounted \ {op.turn} /\ UNCHANGED faults
       \/ Fault /\ UNCHANGED <<flatMeta, dirMeta, uncounted>>
    /\ acked' = Append(acked, op.turn) /\ op' = NoOp
    /\ UNCHANGED <<flatHist, staging, dir, index, payload, legacy, deleting, clock, stamp,
                   up, cache, unmigratable, reader, settled, merged, dropped, crashes>>

\* The append fails: before its record is written, or in the middle of it.
AppendFails ==
    /\ op.kind = "append" /\ op.pc = "index" /\ Fault
    /\ \/ UNCHANGED <<flatHist, index, clock, stamp, uncounted, merged>>
       \/ /\ \E file \in TornWrites(OldLines, NewLines) : SetHistory(file)
          /\ Write /\ stamp' = clock' /\ uncounted' = uncounted \cup {op.turn}
          /\ merged' = (merged \/ Unterminated(OldLines))
    /\ op' = NoOp
    /\ UNCHANGED <<flatMeta, staging, dir, dirMeta, payload, legacy, deleting,
                   up, cache, unmigratable, reader, acked, settled, dropped, crashes>>

\* Mutant: the amendment is appended to a torn tail as it is.
AmendTornTail(t) == [settled |-> payload[t].nl, nl |-> TRUE]

Amended(t) == [settled |-> TRUE, nl |-> TRUE]

(* amend_turn_item: one line appended to the turn's payload, after a       *)
(* newline where the file lacks one, then the cache is dropped.            *)
AmendPayload(t) ==
    /\ Amends /\ Ready /\ Contains(acked, t) /\ t \notin settled
    /\ Layout = "dir" /\ payload[t] # NoFile
    /\ \/ /\ payload' = [payload EXCEPT ![t] = Amended(t)]
          /\ op' = [kind |-> "amend", turn |-> t] /\ UNCHANGED faults
       \/ /\ Fault /\ payload' = [payload EXCEPT ![t].nl = FALSE]
          /\ UNCHANGED op
    /\ UNCHANGED <<flatHist, flatMeta, staging, dir, dirMeta, index, legacy, deleting,
                   clock, stamp, up, cache, unmigratable, reader,
                   acked, settled, uncounted, merged, dropped, crashes>>

AmendDropsCache ==
    /\ op.kind = "amend"
    /\ cache' = None /\ op' = NoOp /\ settled' = settled \cup {op.turn}
    /\ UNCHANGED <<disk, up, unmigratable, reader, acked, uncounted, merged, dropped, crashes, faults>>

\* Mutant: the records are counted on top of what the ledger holds.
AddedUp(ts) == [t \in Turns |-> Metadata[t] + IF Contains(ts, t) THEN 1 ELSE 0]

Rebuilt(ts) == [t \in Turns |-> IF Contains(ts, t) THEN 1 ELSE 0]

(* recompute_aggregates: the ledger is rebuilt from the index alone.       *)
RecomputeAggregates ==
    /\ Ready /\ Exists
    /\ ~Corrupt(OldLines) /\ SetMetadata(Rebuilt(Records(OldLines)))
    /\ uncounted' = {}
    /\ UNCHANGED <<flatHist, staging, dir, index, payload, legacy, deleting, clock, stamp,
                   memory, acked, settled, merged, dropped, crashes, faults>>

----------------------------------------------------------------------------
(* Migration: ensure_migrated before any operation on a flat thread.       *)

MigrateStart ==
    /\ up /\ op = NoOp /\ HasOriginals /\ ~unmigratable
    /\ IF dir THEN op' = [kind |-> "migrate", pc |-> "history"] /\ UNCHANGED <<staging, unmigratable>>
       ELSE IF flatHist # NoFile /\ Corrupt(flatHist)
         THEN unmigratable' = TRUE /\ UNCHANGED <<op, staging>>
         ELSE /\ op' = [kind |-> "migrate", pc |-> "commit"] /\ staging' = TRUE
              /\ UNCHANGED unmigratable
    /\ UNCHANGED <<flatHist, flatMeta, dir, dirMeta, index, payload, legacy, deleting, clock,
                   stamp, up, cache, reader, ghost>>

\* The staged tree was read back and agrees; one rename publishes it.
MigrateCommit ==
    /\ op.kind = "migrate" /\ op.pc = "commit"
    /\ LET ts == Records(OldLines)
       IN  /\ index' = <<Line(Header, TRUE)>> \o [i \in DOMAIN ts |-> Line(ts[i], TRUE)]
           /\ payload' = [t \in Turns |-> IF Contains(ts, t)
                                            THEN [settled |-> FALSE, nl |-> TRUE] ELSE NoFile]
    /\ dir' = TRUE /\ dirMeta' = flatMeta /\ staging' = FALSE /\ legacy' = {}
    /\ Write /\ stamp' = clock'
    /\ op' = [op EXCEPT !.pc = "history"]
    /\ UNCHANGED <<flatHist, flatMeta, deleting, up, cache, unmigratable, reader, ghost>>

\* move_originals_to_legacy: history first, metadata last.
MoveHistory ==
    /\ op.kind = "migrate" /\ op.pc = "history"
    /\ legacy' = IF flatHist = NoFile THEN legacy ELSE legacy \cup {"history"}
    /\ flatHist' = NoFile /\ op' = [op EXCEPT !.pc = "metadata"]
    /\ UNCHANGED <<flatMeta, staging, dir, dirMeta, index, payload, deleting, clock, stamp,
                   up, cache, unmigratable, reader, ghost>>

MoveMetadata ==
    /\ op.kind = "migrate" /\ op.pc = "metadata"
    /\ legacy' = IF flatMeta = NoFile THEN legacy ELSE legacy \cup {"metadata"}
    /\ flatMeta' = NoFile /\ op' = NoOp /\ cache' = None
    /\ UNCHANGED <<flatHist, staging, dir, dirMeta, index, payload, deleting, clock, stamp,
                   up, unmigratable, reader, ghost>>

MigrateFails ==
    /\ op.kind = "migrate" /\ Fault
    /\ unmigratable' = TRUE /\ op' = NoOp
    /\ UNCHANGED <<disk, up, cache, reader, acked, settled, uncounted, merged, dropped, crashes>>

----------------------------------------------------------------------------
(* delete_thread: rename out of sight, remove the originals, then purge.   *)

\* Mutant: the catalog's record goes first.
MetadataFirst == <<"metadata", "history", "purge">>

\* History first, metadata last: what is left is still listed.
RemovalOrder == <<"history", "metadata", "purge">>

DeleteRename ==
    /\ Deletes /\ up /\ op = NoOp /\ Listed
    /\ dropped' = TRUE /\ op' = [kind |-> "delete", pc |-> RemovalOrder[1]]
    /\ deleting' = (dir \/ deleting)
    /\ dir' = FALSE /\ dirMeta' = NoFile /\ index' = NoFile
    /\ payload' = [t \in Turns |-> NoFile] /\ legacy' = {}
    /\ staging' = FALSE /\ Write /\ stamp' = clock'
    /\ UNCHANGED <<flatHist, flatMeta, up, cache, unmigratable, reader,
                   acked, settled, uncounted, merged, crashes, faults>>

RemoveOriginal ==
    /\ op.kind = "delete"
    /\ \E i \in 1..2 :
          /\ op.pc = RemovalOrder[i] /\ op' = [op EXCEPT !.pc = RemovalOrder[i + 1]]
          /\ flatHist' = IF op.pc = "history" THEN NoFile ELSE flatHist
          /\ flatMeta' = IF op.pc = "metadata" THEN NoFile ELSE flatMeta
    /\ UNCHANGED <<staging, dir, dirMeta, index, payload, legacy, deleting, clock, stamp,
                   up, cache, unmigratable, reader, ghost>>

DeletePurge ==
    /\ op.kind = "delete" /\ op.pc = "purge"
    /\ deleting' = FALSE /\ op' = NoOp /\ cache' = None /\ unmigratable' = FALSE
    /\ UNCHANGED <<flatHist, flatMeta, staging, dir, dirMeta, index, payload, legacy, clock,
                   stamp, up, reader, ghost>>

DeleteFails ==
    /\ op.kind = "delete" /\ Fault /\ op' = NoOp
    /\ UNCHANGED <<disk, up, cache, unmigratable, reader,
                   acked, settled, uncounted, merged, dropped, crashes>>

----------------------------------------------------------------------------
(* Readers.  load_all_turns goes through the cache; load_history and       *)
(* load_turns_after read the index and then the payloads they need.        *)

Done(r, turns) == reader' = [reader EXCEPT ![r] = [pc |-> "done", must |-> @.must,
                                                   seen |-> @.seen, turns |-> turns]]

\* current_history_cache_entry: a current entry is served as it is.
ReadAll(r) ==
    /\ up /\ reader[r].pc = "idle" /\ (~HasOriginals \/ unmigratable)
    /\ LET me == [pc |-> "load", must |-> acked, seen |-> settled, all |-> TRUE,
                  flat |-> Layout = "flat", stamp |-> stamp, attempt |-> 0]
           Served(ts) == reader' = [reader EXCEPT ![r] =
                            [pc |-> "done", must |-> acked, seen |-> settled, turns |-> ts]]
       IN  IF History = NoFile THEN Served(<<>>) /\ cache' = None
           ELSE IF cache # None /\ cache.stamp = stamp THEN Served(cache.turns) /\ UNCHANGED cache
           ELSE reader' = [reader EXCEPT ![r] = me] /\ UNCHANGED cache
    /\ UNCHANGED <<disk, up, op, unmigratable, ghost>>

\* The file a reader resolved when it started.
FileOf(me) == IF me.flat THEN flatHist ELSE index

\* load_all_turns_uncached: the file is read, and read again while its
\* metadata changes, three times at most.
LoadData(r) ==
    LET me == reader[r]
    IN  /\ me.pc = "load"
        /\ IF FileOf(me) = NoFile THEN Done(r, <<>>) /\ cache' = None
           ELSE /\ reader' = [reader EXCEPT ![r] = [me EXCEPT !.pc = "stat"] @@ [data |-> FileOf(me)]]
                /\ UNCHANGED cache
        /\ UNCHANGED <<disk, up, op, unmigratable, ghost>>

CheckData(r) ==
    LET me == reader[r]
        Again == [x \in DOMAIN me \ {"data"} |-> me[x]]
    IN  /\ me.pc = "stat"
        /\ \/ FileOf(me) = NoFile /\ Done(r, <<>>) /\ cache' = None
           \/ /\ FileOf(me) # NoFile /\ UNCHANGED cache
              /\ IF stamp # me.stamp
                   THEN IF me.attempt < 2
                     THEN reader' = [reader EXCEPT ![r] =
                            [Again EXCEPT !.pc = "load", !.stamp = stamp, !.attempt = @ + 1]]
                     ELSE Done(r, Bad)
                   ELSE IF Corrupt(me.data) THEN Done(r, Bad)
                   ELSE reader' = [reader EXCEPT ![r] =
                            [me EXCEPT !.pc = "payloads", !.data = Records(@)]]
        /\ UNCHANGED <<disk, up, op, unmigratable, ghost>>

\* load_history and load_turns_after in the directory layout.
ReadIndex(r) ==
    /\ up /\ reader[r].pc = "idle" /\ Layout = "dir" /\ (~HasOriginals \/ unmigratable)
    /\ LET me == [pc |-> "payloads", must |-> acked, seen |-> settled, all |-> FALSE, flat |-> FALSE]
           ts == IF index = NoFile THEN <<>> ELSE IF Corrupt(index) THEN Bad ELSE Records(index)
       IN  reader' = [reader EXCEPT ![r] =
             IF ts = Bad THEN [pc |-> "done", must |-> acked, seen |-> settled, turns |-> Bad]
                         ELSE me @@ [data |-> ts]]
    /\ UNCHANGED <<disk, up, op, cache, unmigratable, ghost>>

LoadPayloads(r) ==
    LET me == reader[r]
        ts == IF me.flat THEN Inline(me.data) ELSE Assemble(me.data)
    IN  /\ me.pc = "payloads"
        /\ IF me.all THEN reader' = [reader EXCEPT ![r] = [me EXCEPT !.pc = "install", !.data = ts]]
                     ELSE Done(r, ts)
        /\ UNCHANGED <<disk, up, op, cache, unmigratable, ghost>>

InstallCache(r) ==
    LET me == reader[r]
    IN  /\ me.pc = "install"
        /\ cache' = [turns |-> me.data, stamp |-> me.stamp]
        /\ Done(r, me.data)
        /\ UNCHANGED <<disk, up, op, unmigratable, ghost>>

ReadReturns(r) ==
    /\ reader[r].pc = "done" /\ reader' = [reader EXCEPT ![r] = IdleReader]
    /\ UNCHANGED <<disk, up, op, cache, unmigratable, ghost>>

----------------------------------------------------------------------------
(* The process: a crash loses the memory, a start sweeps .deleting.        *)

Crash ==
    /\ up /\ crashes < MaxCrashes /\ crashes' = crashes + 1
    /\ up' = FALSE /\ op' = NoOp /\ cache' = None /\ unmigratable' = FALSE
    /\ reader' = [r \in Readers |-> IdleReader]
    /\ UNCHANGED <<disk, acked, settled, uncounted, merged, dropped, faults>>

Restart ==
    /\ ~up /\ up' = TRUE /\ deleting' = FALSE
    /\ UNCHANGED <<flatHist, flatMeta, staging, dir, dirMeta, index, payload, legacy, clock,
                   stamp, op, cache, unmigratable, reader, ghost>>

\* giskard-admin holds the data directory, so the server is down.
\* sweep_orphan_payloads refuses where the index may be what was lost.
SweepOrphanPayloads ==
    /\ ~up /\ dir /\ index # NoFile /\ ~Corrupt(index)
    /\ LET referenced == ToSet(Records(index))
           orphans == {t \in Turns \ referenced : payload[t] # NoFile}
       IN  /\ orphans # {} /\ referenced # {} /\ Cardinality(orphans) <= MaxOrphans
           /\ payload' = [t \in Turns |-> IF t \in orphans THEN NoFile ELSE payload[t]]
    /\ UNCHANGED <<flatHist, flatMeta, staging, dir, dirMeta, index, legacy, deleting, clock,
                   stamp, memory, ghost>>

PruneLegacy ==
    /\ ~up /\ legacy # {} /\ legacy' = {}
    /\ UNCHANGED <<flatHist, flatMeta, staging, dir, dirMeta, index, payload, deleting, clock,
                   stamp, memory, ghost>>

----------------------------------------------------------------------------
Next ==
    \/ CreateThread \/ WriteHeader
    \/ \E t \in Turns : AppendPayload(t) \/ AmendPayload(t)
    \/ AppendIndex \/ UpdateCache \/ UpdateAggregates \/ AppendFails
    \/ AmendDropsCache \/ RecomputeAggregates
    \/ MigrateStart \/ MigrateCommit \/ MoveHistory \/ MoveMetadata \/ MigrateFails
    \/ DeleteRename \/ RemoveOriginal \/ DeletePurge \/ DeleteFails
    \/ \E r \in Readers : \/ ReadAll(r) \/ LoadData(r) \/ CheckData(r) \/ ReadIndex(r)
                          \/ LoadPayloads(r) \/ InstallCache(r) \/ ReadReturns(r)
    \/ Crash \/ Restart \/ SweepOrphanPayloads \/ PruneLegacy

Spec == Init /\ [][Next]_vars

----------------------------------------------------------------------------
Lines == [line : Turns \cup {Header, Bad}, nl : BOOLEAN]
Files == {NoFile} \cup Seq(Lines)
Ledgers == {NoFile} \cup [Turns -> Nat]

\* Every file and every piece of memory has the shape the store gives it.
TypeOK ==
    /\ {flatHist, index} \subseteq Files /\ {flatMeta, dirMeta} \subseteq Ledgers
    /\ {staging, dir, deleting, up, unmigratable, merged, dropped} \subseteq BOOLEAN
    /\ payload \in [Turns -> {NoFile} \cup [settled : BOOLEAN, nl : BOOLEAN]]
    /\ legacy \subseteq {"history", "metadata"} /\ {clock, stamp} \subseteq Nat
    /\ op.kind \in {None, "create", "append", "amend", "migrate", "delete"}
    /\ cache = None \/ cache.stamp \in Nat
    /\ \A r \in Readers : reader[r].pc \in {"idle", "load", "stat", "payloads", "install", "done"}
    /\ acked \in Seq(Turns) /\ settled \cup uncounted \subseteq Turns

InOrder(turns) == \A i, j \in DOMAIN turns : i < j => turns[i].turn < turns[j].turn
Holds(turns, t) == \E i \in DOMAIN turns : turns[i].turn = t

\* A turn whose commit was reported is on disk, in order and with the items
\* that settled later, in every state: through crashes and I/O errors at any
\* step, torn lines, migration and its interruptions, and the orphan sweep.
\* (Until an append lands on a line that lacks its newline.)
CommittedTurnsSurvive ==
    ~dropped /\ ~merged =>
        /\ InOrder(Stored)
        /\ \A i \in DOMAIN acked : Holds(Stored, acked[i])
        /\ \A i \in DOMAIN Stored : Stored[i].turn \in settled => Stored[i].settled

\* A read returns every turn committed before it began, in order, whether it
\* is served from the cache, from a load it races with appends, or by page.
ReadsAreCurrent ==
    \A r \in Readers :
        reader[r].pc = "done" /\ reader[r].turns # Bad /\ ~dropped /\ ~merged =>
            /\ InOrder(reader[r].turns)
            /\ \A i \in DOMAIN reader[r].must : Holds(reader[r].turns, reader[r].must[i])

\* The token ledger counts a turn at most once and only if the history has
\* it, and it lacks only turns whose commit was cut off since the last repair.
CountedOnce ==
    ~dropped /\ ~merged /\ Exists =>
        \A t \in Turns :
            LET indexed == Contains(Records(OldLines), t)
            IN  /\ Metadata[t] <= 1 /\ (Metadata[t] = 1 => indexed)
                /\ indexed /\ Metadata[t] = 0 => t \in uncounted

\* A history is never left behind by a deletion or a migration that stopped
\* half way without the thread being listed, so that it can be retried.
HistoryIsListed == flatHist # NoFile \/ index # NoFile => Listed

\* Files and memory have their shape, and no history lies on disk unlisted, with a
\* crash or an I/O error at any step of a removal or a migration.
StoreIsSound == TypeOK /\ HistoryIsListed

=============================================================================
