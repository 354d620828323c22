-------------------------- MODULE ThreadOwnerProofs --------------------------
(***************************************************************************)
(* For every set of intents, every bound and every behaviour of the        *)
(* harness, the driver and the history file that ThreadOwner allows: the   *)
(* types, that an active gate has exactly one holder, that a gate blocked  *)
(* by a failed append is never released, that the history is faithful and  *)
(* holds no turn twice, and that answers name live turns.                  *)
(***************************************************************************)
EXTENDS ThreadOwner, FiniteSetTheorems, TLAPS

\* What each stage of the owner loop relies on: a turn in progress has its
\* lease until it is settled, and a coordinator that may be replaced has no
\* owner behind it.
Stages ==
    /\ pc = "run" /\ owned # NoTurn => lease
    /\ pc \in {"persisting", "settling"} => lease
    /\ pc = "persisting" => closing.turn # NoTurn
    /\ coord \in {"none", "failed"} => pc = "idle"
    /\ pc \in {"idle", "exited"} => owned = NoTurn

OwnerInv == TypeOK /\ GateHasOneHolder /\ Stages

USE DEF Turns, NoTurn, None, External, Context

\* A sequence with some elements replaced in place is still a sequence.
LEMMA MappedSeq ==
    ASSUME NEW S, NEW h \in Seq(S), NEW F, F = [k \in 1 .. Len(h) |-> F[k]],
           \A k \in 1 .. Len(h) : F[k] \in S
    PROVE  F \in Seq(S)
    OBVIOUS

\* The initial state: no owner, an idle gate, nothing persisted.
LEMMA OwnerInit == Init => OwnerInv
    <1> SUFFICES ASSUME Init PROVE OwnerInv
        OBVIOUS
    <1>1. TypeOK
      <2>0. MaxTurns \in Nat /\ MaxItems \in Nat /\ LogCap \in Nat /\ QueueCap \in Nat
            /\ MaxAttaches \in Nat
        BY OwnerConstants
      <2>1. HarnessType
        BY <2>0 DEF Init, NoRequest, HarnessType
      <2>2. CallerType
        BY <2>0 DEF Init, CallerType
      <2>3. OwnerType
        BY <2>0 DEF Init, OwnerType, NotClosing
      <2>4. FlagType
        BY DEF Init, FlagType
      <2>5. GateType
        BY DEF Init, GateType, Gates, Idle
      <2>6. HistoryType
        BY DEF Init, HistoryType
      <2>7. QED
        BY <2>1, <2>2, <2>3, <2>4, <2>5, <2>6 DEF TypeOK
    <1>2. GateHasOneHolder /\ Stages
        BY DEF Init, GateHasOneHolder, Stages, Idle
    <1>3. QED
        BY <1>1, <1>2 DEF OwnerInv

\* What the harness appends keeps the log a bounded sequence of events.
LEMMA AppendType ==
    ASSUME log \in Seq(Event), Len(log) <= LogCap, NEW e \in Event, AppendEvent(e)
    PROVE  log' \in Seq(Event) /\ Len(log') <= LogCap
    <1>0. LogCap \in Nat \ {0}
        BY OwnerConstants
    <1>1. CASE Len(log) < LogCap
        BY <1>0, <1>1 DEF AppendEvent
    <1>2. CASE ~(Len(log) < LogCap)
      <2>1. log # <<>> /\ log' = Append(Tail(log), e)
        BY <1>0, <1>2 DEF AppendEvent
      <2>2. Tail(log) \in Seq(Event) /\ Len(Tail(log)) = Len(log) - 1
        BY <2>1
      <2>3. QED
        BY <2>1, <2>2
    <1>3. QED
        BY <1>1, <1>2

\* Every step keeps the types of the harness and its bounded log.
LEMMA HarnessTypeStep == OwnerInv /\ [Next]_vars => HarnessType'
    <1> SUFFICES ASSUME OwnerInv, [Next]_vars PROVE HarnessType'
        OBVIOUS
    <1> USE DEF OwnerInv, TypeOK
    <1>0. MaxTurns \in Nat /\ MaxItems \in Nat /\ LogCap \in Nat \ {0} /\ QueueCap \in Nat \ {0}
          /\ MaxAttaches \in Nat
        BY OwnerConstants
    <1>1. CASE UNCHANGED vars
        BY <1>1 DEF HarnessType, NoRequest, vars, harnessVars, callerVars, coordVars,
           turnVars, ownerVars
    <1>2. CASE HarnessStarts
      <2>1. [kind |-> "started", turn |-> nextTurn, n |-> 0] \in Event /\ AppendEvent([kind |-> "started", turn |-> nextTurn, n |-> 0])
        BY <1>0, <1>2 DEF HarnessStarts, BeginNative, Event, HarnessType
      <2>2. log' \in Seq(Event) /\ Len(log') <= LogCap
        BY <2>1, AppendType DEF HarnessType
      <2>3. QED
        BY <1>0, <2>2, <1>2 DEF HarnessStarts, BeginNative, HarnessType, vars,
           harnessVars, callerVars, coordVars, turnVars, ownerVars
    <1>3. CASE HarnessAnswers
        BY <1>0, <1>3 DEF HarnessAnswers, HarnessType, NoRequest, vars, harnessVars,
           callerVars, coordVars, turnVars, ownerVars
    <1>4. CASE HarnessRefuses
        BY <1>0, <1>4 DEF HarnessRefuses, HarnessType, NoRequest, vars, harnessVars,
           callerVars, coordVars, turnVars, ownerVars
    <1>5. CASE HarnessStartsUnasked
      <2>1. [kind |-> "started", turn |-> nextTurn, n |-> 0] \in Event /\ AppendEvent([kind |-> "started", turn |-> nextTurn, n |-> 0])
        BY <1>0, <1>5 DEF HarnessStartsUnasked, BeginNative, Event, HarnessType
      <2>2. log' \in Seq(Event) /\ Len(log') <= LogCap
        BY <2>1, AppendType DEF HarnessType
      <2>3. QED
        BY <1>0, <2>2, <1>5 DEF HarnessStartsUnasked, BeginNative, HarnessType, vars,
           harnessVars, callerVars, coordVars, turnVars, ownerVars
    <1>6. CASE \E t \in Turns : HarnessEmits(t)
      <2> PICK t \in Turns : HarnessEmits(t)
        BY <1>6
      <2>1. [kind |-> "item", turn |-> t, n |-> emitted[t] + 1] \in Event /\ AppendEvent([kind |-> "item", turn |-> t, n |-> emitted[t] + 1])
        BY <1>0 DEF HarnessEmits, Event, HarnessType
      <2>2. log' \in Seq(Event) /\ Len(log') <= LogCap
        BY <2>1, AppendType DEF HarnessType
      <2>3. QED
        BY <1>0, <2>2, SMTT(30) DEF HarnessEmits, HarnessType, vars, harnessVars, callerVars,
           coordVars, turnVars, ownerVars
    <1>7. CASE HarnessCompletes
      <2>1. [kind |-> "completed", turn |-> native, n |-> 0] \in Event /\ AppendEvent([kind |-> "completed", turn |-> native, n |-> 0])
        BY <1>0, <1>7 DEF HarnessCompletes, Event, HarnessType
      <2>2. log' \in Seq(Event) /\ Len(log') <= LogCap
        BY <2>1, AppendType DEF HarnessType
      <2>3. QED
        BY <1>0, <2>2, <1>7 DEF HarnessCompletes, HarnessType, vars, harnessVars,
           callerVars, coordVars, turnVars, ownerVars
    <1>8. CASE HarnessCloses
        BY <1>0, <1>8 DEF HarnessCloses, HarnessType, NoRequest, vars, harnessVars,
           callerVars, coordVars, turnVars, ownerVars
    <1>9. CASE AdmitIntent
        BY <1>0, <1>9 DEF AdmitIntent, HarnessType, NoRequest, vars, harnessVars,
           callerVars, coordVars, turnVars, ownerVars
    <1>10. CASE HandleAnswer
        BY <1>0, <1>10 DEF HandleAnswer, HarnessType, NoRequest, vars, harnessVars,
           callerVars, coordVars, turnVars, ownerVars
    <1>11. CASE DropCrossTurn
        BY <1>0, <1>11 DEF DropCrossTurn, HarnessType, NoRequest, TakeEvent,
           NextEvent, vars, harnessVars, callerVars, coordVars, turnVars, ownerVars
    <1>12. CASE ApplyLate
        BY <1>0, <1>12, SMTT(30) DEF ApplyLate, HarnessType, NoRequest, TakeEvent, NextEvent,
           vars, harnessVars, callerVars, coordVars, turnVars, ownerVars
    <1>13. CASE ApplyOwned
        BY <1>0, <1>13, SMTT(30) DEF ApplyOwned, HarnessType, NoRequest, TakeEvent, NextEvent,
           vars, harnessVars, callerVars, coordVars, turnVars, ownerVars
    <1>14. CASE AttachRefused
        BY <1>0, <1>14 DEF AttachRefused, HarnessType, NoRequest, TakeEvent,
           NextEvent, vars, harnessVars, callerVars, coordVars, turnVars, ownerVars
    <1>15. CASE Finish
        BY <1>0, <1>15 DEF Finish, HarnessType, NoRequest, vars, harnessVars,
           callerVars, coordVars, turnVars, ownerVars
    <1>16. CASE (\E i \in Intents : CallIntent(i))
              \/ (\E i \in Intents : SendIntent(i))
              \/ OwnerCancelled
              \/ HandleGap
              \/ HandleClosed
              \/ AppendTurn
              \/ AppendFails
              \/ SettleTurn
              \/ AttachOwner
              \/ ParkAttach
              \/ RequestDetach
              \/ OwnerExited
        BY <1>16 DEF CallIntent, SendIntent, OwnerCancelled, HandleGap, HandleClosed,
           AppendTurn, AppendFails, SettleTurn, AttachOwner, ParkAttach,
           RequestDetach, OwnerExited, HarnessType, NoRequest, vars, harnessVars,
           callerVars, coordVars, turnVars, ownerVars
    <1>17. QED
        BY <1>1, <1>2, <1>3, <1>4, <1>5, <1>6, <1>7, <1>8, <1>9, <1>10, <1>11, <1>12,
           <1>13, <1>14, <1>15, <1>16 DEF Next, OwnerStep

\* Every step keeps the types of the callers and of the bounded intent lane.
LEMMA CallerTypeStep == OwnerInv /\ [Next]_vars => CallerType'
    <1> SUFFICES ASSUME OwnerInv, [Next]_vars PROVE CallerType'
        OBVIOUS
    <1> USE DEF OwnerInv, TypeOK
    <1>0. MaxTurns \in Nat /\ MaxItems \in Nat /\ LogCap \in Nat \ {0} /\ QueueCap \in Nat \ {0}
          /\ MaxAttaches \in Nat
        BY OwnerConstants
    <1>1. CASE UNCHANGED vars
        BY <1>1 DEF CallerType, vars, harnessVars, callerVars, coordVars, turnVars, ownerVars
    <1>2. CASE \E i \in Intents : CallIntent(i)
        BY <1>0, <1>2 DEF CallIntent, CallerType, vars, harnessVars, callerVars,
           coordVars, turnVars, ownerVars
    <1>3. CASE \E i \in Intents : SendIntent(i)
        BY <1>0, <1>3 DEF SendIntent, CallerType, vars, harnessVars, callerVars,
           coordVars, turnVars, ownerVars
    <1>4. CASE AdmitIntent
        BY <1>0, <1>4, SMTT(30) DEF AdmitIntent, CallerType, vars, harnessVars, callerVars,
           coordVars, turnVars, ownerVars
    <1>5. CASE HandleAnswer
        BY <1>0, <1>5 DEF HandleAnswer, CallerType, AnswerAccepted, AnswerRefused,
           HarnessType, OwnerType, vars, harnessVars, callerVars, coordVars, turnVars,
           ownerVars
    <1>6. CASE Finish
        BY <1>0, <1>6 DEF Finish, CallerType, vars, harnessVars, callerVars,
           coordVars, turnVars, ownerVars
    <1>7. CASE HarnessStarts
              \/ HarnessAnswers
              \/ HarnessRefuses
              \/ HarnessStartsUnasked
              \/ (\E t \in Turns : HarnessEmits(t))
              \/ HarnessCompletes
              \/ HarnessCloses
              \/ OwnerCancelled
              \/ DropCrossTurn
              \/ ApplyLate
              \/ ApplyOwned
              \/ AttachRefused
              \/ HandleGap
              \/ HandleClosed
              \/ AppendTurn
              \/ AppendFails
              \/ SettleTurn
              \/ AttachOwner
              \/ ParkAttach
              \/ RequestDetach
              \/ OwnerExited
        BY <1>7 DEF HarnessStarts, HarnessAnswers, HarnessRefuses,
           HarnessStartsUnasked, HarnessEmits, HarnessCompletes, HarnessCloses,
           OwnerCancelled, DropCrossTurn, ApplyLate, ApplyOwned, AttachRefused,
           HandleGap, HandleClosed, AppendTurn, AppendFails, SettleTurn, AttachOwner,
           ParkAttach, RequestDetach, OwnerExited, CallerType, vars, harnessVars,
           callerVars, coordVars, turnVars, ownerVars, TakeEvent
    <1>8. QED
        BY <1>1, <1>2, <1>3, <1>4, <1>5, <1>6, <1>7 DEF Next, OwnerStep

\* The turn that is being persisted is a turn.
LEMMA PersistedType ==
    ASSUME OwnerInv, pc = "persisting"
    PROVE  PersistedTurn \in Turns
    BY DEF OwnerInv, TypeOK, OwnerType, Stages, PersistedTurn

\* The ids a new owner reads from the history are ids of turns.
LEMMA PersistedTurnsType ==
    ASSUME OwnerInv PROVE PersistedTurns \subseteq Turns
    <1>1. \A k \in 1 .. Len(history) : history[k] \in TurnRecord
        BY DEF OwnerInv, TypeOK, HistoryType
    <1>2. \A h \in TurnRecord : h.turn \in Turns
        BY DEF TurnRecord
    <1>3. QED
        BY <1>1, <1>2 DEF PersistedTurns

\* The event the owner takes is an event.
LEMMA NextEventType ==
    ASSUME OwnerInv, TakeEvent
    PROVE  /\ NextEvent.turn \in Turns
           /\ NextEvent.kind \in {"started", "item", "completed"}
           /\ NextEvent.kind = "item" => <<NextEvent.turn, NextEvent.n>> \in Item
    <1>1. NextEvent \in Event
        BY DEF OwnerInv, TypeOK, HarnessType, TakeEvent, NextEvent
    <1>2. QED
        BY <1>1 DEF Event, Item

\* The operations of the gate yield gates.
LEMMA GateOperations ==
    ASSUME NEW g \in Gates, NEW t \in Turns \cup {NoTurn}, NEW c
    PROVE  /\ Reserved(c) \in Gates /\ Released(g) \in Gates
           /\ Acknowledged(g, t) \in Gates /\ Blocked(g, t) \in Gates
    <1>1. Reserved(c) \in Gates
        BY DEF Reserved, KindOf, Gates
    <1>2. Released(g) \in Gates
        BY DEF Released, Idle, Gates
    <1>3. Acknowledged(g, t) \in Gates
        BY DEF Acknowledged, Gates
    <1>4. Blocked(g, t) \in Gates
        BY DEF Blocked, Gates
    <1>5. QED
        BY <1>1, <1>2, <1>3, <1>4

\* Every step keeps the types of the coordinator and of the owner.
LEMMA OwnerTypeStep == OwnerInv /\ [Next]_vars => OwnerType'
    <1> SUFFICES ASSUME OwnerInv, [Next]_vars PROVE OwnerType'
        OBVIOUS
    <1> USE DEF OwnerInv, TypeOK
    <1>0. MaxTurns \in Nat /\ MaxItems \in Nat /\ LogCap \in Nat \ {0} /\ QueueCap \in Nat \ {0}
          /\ MaxAttaches \in Nat
        BY OwnerConstants
    <1>1. CASE UNCHANGED vars
        BY <1>1 DEF OwnerType, vars, harnessVars, callerVars, coordVars, turnVars, ownerVars
    <1>2. CASE OwnerCancelled
        BY <1>0, <1>2 DEF OwnerCancelled, OwnerType, Exit, vars, harnessVars,
           callerVars, coordVars, turnVars, ownerVars
    <1>3. CASE AdmitIntent
        BY <1>0, <1>3 DEF AdmitIntent, OwnerType, CallerType, vars, harnessVars,
           callerVars, coordVars, turnVars, ownerVars
    <1>4. CASE HandleAnswer
        BY <1>0, <1>4 DEF HandleAnswer, OwnerType, AnswerAccepted, AnswerRefused,
           vars, harnessVars, callerVars, coordVars, turnVars, ownerVars
    <1>5. CASE ApplyOwned
        BY <1>5, NextEventType DEF ApplyOwned, OwnerType, AttachToTurn, NoteOwned,
           vars, harnessVars, callerVars, coordVars, turnVars, ownerVars
    <1>6. CASE AttachRefused
        BY <1>0, <1>6 DEF AttachRefused, OwnerType, Exit, vars, harnessVars,
           callerVars, coordVars, turnVars, ownerVars
    <1>7. CASE HandleGap
        BY <1>0, <1>7 DEF HandleGap, OwnerType, Interrupting, vars, harnessVars,
           callerVars, coordVars, turnVars, ownerVars
    <1>8. CASE HandleClosed
        BY <1>0, <1>8 DEF HandleClosed, OwnerType, Interrupting, Exit, vars,
           harnessVars, callerVars, coordVars, turnVars, ownerVars
    <1>9. CASE AppendTurn
      <2>1. PersistedTurn \in Turns
        BY <1>9, PersistedType DEF AppendTurn
      <2>2. QED
        BY <1>9, <2>1 DEF AppendTurn, OwnerType, vars, harnessVars, callerVars,
           coordVars, turnVars, ownerVars
    <1>10. CASE AppendFails
        BY <1>0, <1>10 DEF AppendFails, OwnerType, Exit, vars, harnessVars,
           callerVars, coordVars, turnVars, ownerVars
    <1>11. CASE SettleTurn
        BY <1>0, <1>11 DEF SettleTurn, OwnerType, ResetTurn, NotClosing, vars,
           harnessVars, callerVars, coordVars, turnVars, ownerVars
    <1>12. CASE Finish
        BY <1>0, <1>12 DEF Finish, OwnerType, ResetTurn, NotClosing, vars,
           harnessVars, callerVars, coordVars, turnVars, ownerVars
    <1>13. CASE AttachOwner
        BY <1>0, <1>13, PersistedTurnsType DEF AttachOwner, OwnerType, InstallOwner,
           vars, harnessVars, callerVars, coordVars, turnVars, ownerVars
    <1>14. CASE ParkAttach
        BY <1>0, <1>14 DEF ParkAttach, OwnerType, vars, harnessVars, callerVars,
           coordVars, turnVars, ownerVars
    <1>15. CASE RequestDetach
        BY <1>0, <1>15 DEF RequestDetach, OwnerType, vars, harnessVars, callerVars,
           coordVars, turnVars, ownerVars
    <1>16. CASE OwnerExited
      <2>1. CASE parked /\ InstallOwner
        BY <1>0, <1>16, <2>1, PersistedTurnsType DEF OwnerExited, OwnerType,
           InstallOwner, vars, harnessVars, callerVars, coordVars, turnVars, ownerVars
      <2>2. CASE UNCHANGED <<attaches, exit, seen>>
        BY <1>16, <2>2 DEF OwnerExited, OwnerType, InstallOwner, vars, harnessVars,
           callerVars, coordVars, turnVars, ownerVars
      <2>3. QED
        BY <1>16, <2>1, <2>2 DEF OwnerExited
    <1>17. CASE HarnessStarts
              \/ HarnessAnswers
              \/ HarnessRefuses
              \/ HarnessStartsUnasked
              \/ (\E t \in Turns : HarnessEmits(t))
              \/ HarnessCompletes
              \/ HarnessCloses
              \/ (\E i \in Intents : CallIntent(i))
              \/ (\E i \in Intents : SendIntent(i))
              \/ DropCrossTurn
              \/ ApplyLate
      <2>1. UNCHANGED <<coordVars, ownerVars, turnVars>>
        BY <1>17 DEF HarnessStarts, HarnessAnswers, HarnessRefuses,
           HarnessStartsUnasked, HarnessEmits, HarnessCompletes, HarnessCloses,
           CallIntent, SendIntent, DropCrossTurn, ApplyLate, vars, harnessVars,
           callerVars, coordVars, turnVars, ownerVars, TakeEvent
      <2>2. QED
        BY <2>1 DEF OwnerType, vars, harnessVars, callerVars, coordVars, turnVars, ownerVars
    <1>18. QED
        BY <1>1, <1>2, <1>3, <1>4, <1>5, <1>6, <1>7, <1>8, <1>9, <1>10, <1>11, <1>12,
           <1>13, <1>14, <1>15, <1>16, <1>17 DEF Next, OwnerStep

\* Every step keeps the type of the gate.
LEMMA GateTypeStep == OwnerInv /\ [Next]_vars => GateType'
    <1> SUFFICES ASSUME OwnerInv, [Next]_vars PROVE GateType'
        OBVIOUS
    <1> USE DEF OwnerInv, TypeOK
    <1>0. MaxTurns \in Nat /\ MaxItems \in Nat /\ LogCap \in Nat \ {0} /\ QueueCap \in Nat \ {0}
          /\ MaxAttaches \in Nat
        BY OwnerConstants
    <1>1. CASE UNCHANGED vars
        BY <1>1 DEF GateType, vars, harnessVars, callerVars, coordVars, turnVars, ownerVars
    <1>2. CASE AdmitIntent
        BY <1>2, GateOperations DEF AdmitIntent, GateType, vars, harnessVars,
           callerVars, coordVars, turnVars, ownerVars
    <1>3. CASE HandleAnswer
        BY <1>3, GateOperations, ZenonT(60) DEF HandleAnswer, GateType, AnswerAccepted,
           AnswerRefused, HarnessType, vars, harnessVars, callerVars, coordVars,
           turnVars, ownerVars
    <1>4. CASE ApplyOwned
        BY <1>4, GateOperations, NextEventType DEF ApplyOwned, GateType, AttachToTurn,
           vars, harnessVars, callerVars, coordVars, turnVars, ownerVars
    <1>5. CASE AppendFails
        BY <1>5, GateOperations, PersistedType DEF AppendFails, GateType, vars,
           harnessVars, callerVars, coordVars, turnVars, ownerVars
    <1>6. CASE SettleTurn
        BY <1>6, GateOperations DEF SettleTurn, GateType, vars, harnessVars,
           callerVars, coordVars, turnVars, ownerVars
    <1>7. CASE Finish
        BY <1>7, GateOperations DEF Finish, GateType, vars, harnessVars, callerVars,
           coordVars, turnVars, ownerVars
    <1>8. CASE HarnessStarts
              \/ HarnessAnswers
              \/ HarnessRefuses
              \/ HarnessStartsUnasked
              \/ (\E t \in Turns : HarnessEmits(t))
              \/ HarnessCompletes
              \/ HarnessCloses
              \/ (\E i \in Intents : CallIntent(i))
              \/ (\E i \in Intents : SendIntent(i))
              \/ OwnerCancelled
              \/ DropCrossTurn
              \/ ApplyLate
              \/ AttachRefused
              \/ HandleGap
              \/ HandleClosed
              \/ AppendTurn
              \/ AttachOwner
              \/ ParkAttach
              \/ RequestDetach
              \/ OwnerExited
        BY <1>8 DEF HarnessStarts, HarnessAnswers, HarnessRefuses,
           HarnessStartsUnasked, HarnessEmits, HarnessCompletes, HarnessCloses,
           CallIntent, SendIntent, OwnerCancelled, DropCrossTurn, ApplyLate,
           AttachRefused, HandleGap, HandleClosed, AppendTurn, AttachOwner,
           ParkAttach, RequestDetach, OwnerExited, GateType, vars, harnessVars,
           callerVars, coordVars, turnVars, ownerVars, TakeEvent
    <1>9. QED
        BY <1>1, <1>2, <1>3, <1>4, <1>5, <1>6, <1>7, <1>8 DEF Next, OwnerStep

\* Every step keeps the flags Boolean.
LEMMA FlagTypeStep == OwnerInv /\ [Next]_vars => FlagType'
    <1> SUFFICES ASSUME OwnerInv, [Next]_vars PROVE FlagType'
        OBVIOUS
    <1>1. gap \in BOOLEAN /\ closed \in BOOLEAN /\ cancel \in BOOLEAN /\ parked \in BOOLEAN
          /\ lease \in BOOLEAN
        BY DEF OwnerInv, TypeOK, FlagType
    <1>2. (gap' = gap \/ gap' \in BOOLEAN) /\ (closed' = closed \/ closed' \in BOOLEAN)
        BY DEF Next, OwnerStep, HarnessStarts, HarnessStartsUnasked, BeginNative, AppendEvent,
               HarnessAnswers, HarnessRefuses, HarnessEmits, HarnessCompletes, HarnessCloses,
               CallIntent, SendIntent, OwnerCancelled, AdmitIntent, HandleAnswer, TakeEvent,
               DropCrossTurn, ApplyLate, ApplyOwned, AttachRefused, HandleGap, HandleClosed,
               AppendTurn, AppendFails, SettleTurn, Finish, AttachOwner, ParkAttach,
               RequestDetach, OwnerExited, vars, harnessVars
    <1>3. (cancel' = cancel \/ cancel' \in BOOLEAN) /\ (parked' = parked \/ parked' \in BOOLEAN)
        BY DEF Next, OwnerStep, HarnessStarts, HarnessStartsUnasked, HarnessAnswers,
               HarnessRefuses, HarnessEmits, HarnessCompletes, HarnessCloses,
               CallIntent, SendIntent, OwnerCancelled, AdmitIntent, HandleAnswer,
               DropCrossTurn, ApplyLate, ApplyOwned, AttachRefused, HandleGap, HandleClosed,
               AppendTurn, AppendFails, SettleTurn, Finish, AttachOwner, ParkAttach,
               RequestDetach, OwnerExited, InstallOwner, vars, coordVars
    <1>4. lease' = lease \/ lease' \in BOOLEAN
        BY DEF Next, OwnerStep, HarnessStarts, HarnessStartsUnasked, HarnessAnswers,
               HarnessRefuses, HarnessEmits, HarnessCompletes, HarnessCloses,
               CallIntent, SendIntent, OwnerCancelled, AdmitIntent, HandleAnswer,
               DropCrossTurn, ApplyLate, ApplyOwned, AttachToTurn, AttachRefused, HandleGap,
               HandleClosed, AppendTurn, AppendFails, SettleTurn, Finish, ResetTurn,
               AttachOwner, ParkAttach, RequestDetach, OwnerExited, vars, turnVars
    <1>5. QED
        BY <1>1, <1>2, <1>3, <1>4 DEF FlagType

\* An amended history is a history of the same turns.
LEMMA AmendedType ==
    ASSUME NEW h \in Seq(TurnRecord), NEW e, e.turn \in Turns, <<e.turn, e.n>> \in Item
    PROVE  Amended(h, e) \in Seq(TurnRecord)
    <1>1. \A r \in TurnRecord : [r EXCEPT !.items = @ \cup {<<e.turn, e.n>>}] \in TurnRecord
        BY DEF TurnRecord
    <1>2. \A k \in 1 .. Len(h) : h[k] \in TurnRecord
        OBVIOUS
    <1>3. \A k \in 1 .. Len(h) : Amended(h, e)[k] \in TurnRecord
        BY <1>1, <1>2 DEF Amended
    <1>4. Amended(h, e) = [k \in 1 .. Len(h) |-> Amended(h, e)[k]]
        BY DEF Amended
    <1>5. QED
        BY <1>3, <1>4, MappedSeq

\* What complete_forwarded_turn appends is a turn record.
LEMMA AppendedType ==
    ASSUME OwnerInv, pc = "persisting"
    PROVE  [turn |-> PersistedTurn, status |-> closing.status, ctx |-> ctx,
            whole |-> observed # NoTurn, items |-> items] \in TurnRecord
    <1>1. PersistedTurn \in Turns
        BY PersistedType
    <1>2. (observed # NoTurn) \in BOOLEAN
        OBVIOUS
    <1>3. /\ closing.status \in {"completed", "interrupted"} /\ ctx \in Context
          /\ items \in SUBSET Item
        BY DEF OwnerInv, TypeOK, OwnerType
    <1>4. QED
        BY <1>1, <1>2, <1>3 DEF TurnRecord

\* Every step keeps the type of the history.
LEMMA HistoryTypeStep == OwnerInv /\ [Next]_vars => HistoryType'
    <1> SUFFICES ASSUME OwnerInv, [Next]_vars PROVE HistoryType'
        OBVIOUS
    <1> USE DEF OwnerInv, TypeOK
    <1>0. MaxTurns \in Nat /\ MaxItems \in Nat /\ LogCap \in Nat \ {0} /\ QueueCap \in Nat \ {0}
          /\ MaxAttaches \in Nat
        BY OwnerConstants
    <1>1. CASE UNCHANGED vars
        BY <1>1 DEF HistoryType, vars, harnessVars, callerVars, coordVars, turnVars, ownerVars
    <1>2. CASE ApplyLate
        BY <1>2, NextEventType, AmendedType DEF ApplyLate, HistoryType
    <1>3. CASE AppendTurn
        BY <1>3, AppendedType DEF AppendTurn, HistoryType
    <1>4. CASE HarnessStarts
              \/ HarnessAnswers
              \/ HarnessRefuses
              \/ HarnessStartsUnasked
              \/ (\E t \in Turns : HarnessEmits(t))
              \/ HarnessCompletes
              \/ HarnessCloses
              \/ (\E i \in Intents : CallIntent(i))
              \/ (\E i \in Intents : SendIntent(i))
              \/ OwnerCancelled
              \/ AdmitIntent
              \/ HandleAnswer
              \/ DropCrossTurn
              \/ ApplyOwned
              \/ AttachRefused
              \/ HandleGap
              \/ HandleClosed
              \/ AppendFails
              \/ SettleTurn
              \/ Finish
              \/ AttachOwner
              \/ ParkAttach
              \/ RequestDetach
              \/ OwnerExited
      <2>1. UNCHANGED <<history>>
        BY <1>4 DEF HarnessStarts, HarnessAnswers, HarnessRefuses,
           HarnessStartsUnasked, HarnessEmits, HarnessCompletes, HarnessCloses,
           CallIntent, SendIntent, OwnerCancelled, AdmitIntent, HandleAnswer,
           DropCrossTurn, ApplyOwned, AttachRefused, HandleGap, HandleClosed,
           AppendFails, SettleTurn, Finish, AttachOwner, ParkAttach, RequestDetach,
           OwnerExited, vars, harnessVars, callerVars, coordVars, turnVars, ownerVars,
           TakeEvent
      <2>2. QED
        BY <2>1 DEF HistoryType, vars, harnessVars, callerVars, coordVars, turnVars, ownerVars
    <1>5. QED
        BY <1>1, <1>2, <1>3, <1>4 DEF Next, OwnerStep

\* Every step keeps the gate with exactly one holder.
LEMMA HolderStep == OwnerInv /\ [Next]_vars => GateHasOneHolder'
    <1> SUFFICES ASSUME OwnerInv, [Next]_vars PROVE GateHasOneHolder'
        OBVIOUS
    <1> USE DEF OwnerInv, TypeOK
    <1>0. MaxTurns \in Nat /\ MaxItems \in Nat /\ LogCap \in Nat \ {0} /\ QueueCap \in Nat \ {0}
          /\ MaxAttaches \in Nat
        BY OwnerConstants
    <1>1. CASE UNCHANGED vars
        BY <1>1 DEF GateHasOneHolder, vars, harnessVars, callerVars, coordVars,
           turnVars, ownerVars
    <1>2. CASE OwnerCancelled
        BY <1>2, OwnerConstants DEF OwnerCancelled, GateHasOneHolder, Stages,
           GateType, Gates, OwnerType, Exit, vars, harnessVars, callerVars, coordVars,
           turnVars, ownerVars
    <1>3. CASE AdmitIntent
        BY <1>3, OwnerConstants DEF AdmitIntent, GateHasOneHolder, Stages, GateType,
           Gates, OwnerType, Reserved, Running, Busy, CallerType, vars, harnessVars,
           callerVars, coordVars, turnVars, ownerVars
    <1>4. CASE HandleAnswer
        BY <1>4, OwnerConstants DEF HandleAnswer, GateHasOneHolder, Stages, GateType,
           Gates, OwnerType, AnswerAccepted, AnswerRefused, Acknowledged, Released,
           Idle, Running, vars, harnessVars, callerVars, coordVars, turnVars,
           ownerVars
    <1>5. CASE ApplyOwned
      <2>1. pc = "run" /\ pc' \in {"run", "persisting"} /\ inflight' = inflight
            /\ NextEvent.turn \in Turns
        BY <1>5, NextEventType DEF ApplyOwned, NoteOwned, TakeEvent, Running
      <2>2. CASE owned # NoTurn
        BY <1>5, <2>1, <2>2 DEF ApplyOwned, GateHasOneHolder
      <2>3. CASE owned = NoTurn
        <3>1. CanAttach /\ AttachToTurn(NextEvent.turn)
          BY <1>5, <2>3 DEF ApplyOwned
        <3>2. ~lease /\ gate.blocked = NoTurn
          BY <2>3, <3>1 DEF GateHasOneHolder, CanAttach
        <3>3. /\ admitted' = None /\ lease' /\ owned' = NextEvent.turn
              /\ gate'.active /\ gate'.ack = NextEvent.turn /\ gate'.blocked = NoTurn
          BY <3>1, <3>2, <2>1 DEF AttachToTurn, CanAttach, Acknowledged, Reserved,
               GateHasOneHolder, GateType, Gates
        <3>4. QED
          BY <2>1, <3>3 DEF GateHasOneHolder
      <2>4. QED
        BY <2>2, <2>3
    <1>6. CASE AttachRefused
        BY <1>6, OwnerConstants DEF AttachRefused, GateHasOneHolder, Stages, GateType,
           Gates, OwnerType, Exit, vars, harnessVars, callerVars, coordVars, turnVars,
           ownerVars
    <1>7. CASE HandleGap
        BY <1>7, OwnerConstants DEF HandleGap, GateHasOneHolder, Stages, GateType,
           Gates, OwnerType, Interrupting, vars, harnessVars, callerVars, coordVars,
           turnVars, ownerVars
    <1>8. CASE HandleClosed
        BY <1>8, OwnerConstants DEF HandleClosed, GateHasOneHolder, Stages, GateType,
           Gates, OwnerType, Interrupting, Exit, vars, harnessVars, callerVars,
           coordVars, turnVars, ownerVars
    <1>9. CASE AppendTurn
        BY <1>9, OwnerConstants DEF AppendTurn, GateHasOneHolder, Stages, GateType,
           Gates, OwnerType, vars, harnessVars, callerVars, coordVars, turnVars,
           ownerVars
    <1>10. CASE AppendFails
        BY <1>10, OwnerConstants, PersistedType DEF AppendFails, GateHasOneHolder,
           Stages, GateType, Gates, OwnerType, Blocked, Exit, vars, harnessVars,
           callerVars, coordVars, turnVars, ownerVars
    <1>11. CASE SettleTurn
        BY <1>11, OwnerConstants DEF SettleTurn, GateHasOneHolder, Stages, GateType,
           Gates, OwnerType, Released, Idle, ResetTurn, vars, harnessVars, callerVars,
           coordVars, turnVars, ownerVars
    <1>12. CASE Finish
        BY <1>12, OwnerConstants DEF Finish, GateHasOneHolder, Stages, GateType,
           Gates, OwnerType, Released, Idle, ResetTurn, vars, harnessVars, callerVars,
           coordVars, turnVars, ownerVars
    <1>13. CASE AttachOwner
        BY <1>13, OwnerConstants DEF AttachOwner, GateHasOneHolder, Stages, GateType,
           Gates, OwnerType, InstallOwner, vars, harnessVars, callerVars, coordVars,
           turnVars, ownerVars
    <1>14. CASE OwnerExited
        BY <1>14, OwnerConstants DEF OwnerExited, GateHasOneHolder, Stages, GateType,
           Gates, OwnerType, InstallOwner, vars, harnessVars, callerVars, coordVars,
           turnVars, ownerVars
    <1>15. CASE HarnessStarts
              \/ HarnessAnswers
              \/ HarnessRefuses
              \/ HarnessStartsUnasked
              \/ (\E t \in Turns : HarnessEmits(t))
              \/ HarnessCompletes
              \/ HarnessCloses
              \/ (\E i \in Intents : CallIntent(i))
              \/ (\E i \in Intents : SendIntent(i))
              \/ DropCrossTurn
              \/ ApplyLate
              \/ ParkAttach
              \/ RequestDetach
      <2>1. UNCHANGED <<gate, admitted, lease, owned, inflight, pc>>
        BY <1>15 DEF HarnessStarts, HarnessAnswers, HarnessRefuses,
           HarnessStartsUnasked, HarnessEmits, HarnessCompletes, HarnessCloses,
           CallIntent, SendIntent, DropCrossTurn, ApplyLate, ParkAttach,
           RequestDetach, vars, harnessVars, callerVars, coordVars, turnVars,
           ownerVars, TakeEvent
      <2>2. QED
        BY <2>1 DEF GateHasOneHolder, vars, harnessVars, callerVars, coordVars,
           turnVars, ownerVars
    <1>16. QED
        BY <1>1, <1>2, <1>3, <1>4, <1>5, <1>6, <1>7, <1>8, <1>9, <1>10, <1>11, <1>12,
           <1>13, <1>14, <1>15 DEF Next, OwnerStep

\* Every step keeps what the stages of the owner loop rely on.
LEMMA StagesStep == OwnerInv /\ [Next]_vars => Stages'
    <1> SUFFICES ASSUME OwnerInv, [Next]_vars PROVE Stages'
        OBVIOUS
    <1> USE DEF OwnerInv, TypeOK
    <1>0. MaxTurns \in Nat /\ MaxItems \in Nat /\ LogCap \in Nat \ {0} /\ QueueCap \in Nat \ {0}
          /\ MaxAttaches \in Nat
        BY OwnerConstants
    <1>1. CASE UNCHANGED vars
        BY <1>1 DEF Stages, vars, harnessVars, callerVars, coordVars, turnVars, ownerVars
    <1>2. CASE OwnerCancelled
        BY <1>2, OwnerConstants DEF OwnerCancelled, GateHasOneHolder, Stages,
           OwnerType, Exit, vars, harnessVars, callerVars, coordVars, turnVars,
           ownerVars
    <1>3. CASE AdmitIntent
        BY <1>3, OwnerConstants DEF AdmitIntent, GateHasOneHolder, Stages, OwnerType,
           Running, vars, harnessVars, callerVars, coordVars, turnVars, ownerVars
    <1>4. CASE HandleAnswer
        BY <1>4, OwnerConstants DEF HandleAnswer, GateHasOneHolder, Stages, OwnerType,
           Running, vars, harnessVars, callerVars, coordVars, turnVars, ownerVars
    <1>5. CASE ApplyOwned
        BY <1>5, OwnerConstants, NextEventType DEF ApplyOwned, GateHasOneHolder,
           Stages, OwnerType, AttachToTurn, NoteOwned, Running, TakeEvent, vars,
           harnessVars, callerVars, coordVars, turnVars, ownerVars
    <1>6. CASE AttachRefused
        BY <1>6, OwnerConstants DEF AttachRefused, GateHasOneHolder, Stages,
           OwnerType, Exit, Running, TakeEvent, vars, harnessVars, callerVars,
           coordVars, turnVars, ownerVars
    <1>7. CASE HandleGap
        BY <1>7, OwnerConstants DEF HandleGap, GateHasOneHolder, Stages, OwnerType,
           Interrupting, Running, vars, harnessVars, callerVars, coordVars, turnVars,
           ownerVars
    <1>8. CASE HandleClosed
        BY <1>8, OwnerConstants DEF HandleClosed, GateHasOneHolder, Stages, OwnerType,
           Interrupting, Exit, Running, vars, harnessVars, callerVars, coordVars,
           turnVars, ownerVars
    <1>9. CASE AppendTurn
        BY <1>9, OwnerConstants DEF AppendTurn, GateHasOneHolder, Stages, OwnerType,
           vars, harnessVars, callerVars, coordVars, turnVars, ownerVars
    <1>10. CASE AppendFails
        BY <1>10, OwnerConstants DEF AppendFails, GateHasOneHolder, Stages, OwnerType,
           Exit, vars, harnessVars, callerVars, coordVars, turnVars, ownerVars
    <1>11. CASE SettleTurn
        BY <1>11, OwnerConstants DEF SettleTurn, GateHasOneHolder, Stages, OwnerType,
           ResetTurn, NotClosing, vars, harnessVars, callerVars, coordVars, turnVars,
           ownerVars
    <1>12. CASE Finish
        BY <1>12, OwnerConstants DEF Finish, GateHasOneHolder, Stages, OwnerType,
           ResetTurn, vars, harnessVars, callerVars, coordVars, turnVars, ownerVars
    <1>13. CASE AttachOwner
        BY <1>13, OwnerConstants DEF AttachOwner, GateHasOneHolder, Stages, OwnerType,
           InstallOwner, vars, harnessVars, callerVars, coordVars, turnVars, ownerVars
    <1>14. CASE RequestDetach
        BY <1>14, OwnerConstants DEF RequestDetach, GateHasOneHolder, Stages,
           OwnerType, vars, harnessVars, callerVars, coordVars, turnVars, ownerVars
    <1>15. CASE OwnerExited
        BY <1>15, OwnerConstants DEF OwnerExited, GateHasOneHolder, Stages, OwnerType,
           InstallOwner, vars, harnessVars, callerVars, coordVars, turnVars, ownerVars
    <1>16. CASE HarnessStarts
              \/ HarnessAnswers
              \/ HarnessRefuses
              \/ HarnessStartsUnasked
              \/ (\E t \in Turns : HarnessEmits(t))
              \/ HarnessCompletes
              \/ HarnessCloses
              \/ (\E i \in Intents : CallIntent(i))
              \/ (\E i \in Intents : SendIntent(i))
              \/ DropCrossTurn
              \/ ApplyLate
              \/ ParkAttach
      <2>1. UNCHANGED <<gate, lease, owned, pc, closing, coord>>
        BY <1>16 DEF HarnessStarts, HarnessAnswers, HarnessRefuses,
           HarnessStartsUnasked, HarnessEmits, HarnessCompletes, HarnessCloses,
           CallIntent, SendIntent, DropCrossTurn, ApplyLate, ParkAttach, vars,
           harnessVars, callerVars, coordVars, turnVars, ownerVars, TakeEvent
      <2>2. QED
        BY <2>1 DEF Stages, vars, harnessVars, callerVars, coordVars, turnVars, ownerVars
    <1>17. QED
        BY <1>1, <1>2, <1>3, <1>4, <1>5, <1>6, <1>7, <1>8, <1>9, <1>10, <1>11, <1>12,
           <1>13, <1>14, <1>15, <1>16 DEF Next, OwnerStep

\* The inductive step.
LEMMA OwnerInvStep == OwnerInv /\ [Next]_vars => OwnerInv'
    BY HarnessTypeStep, CallerTypeStep, OwnerTypeStep, GateTypeStep, FlagTypeStep,
       HistoryTypeStep, HolderStep, StagesStep
       DEF OwnerInv, TypeOK

\* Whatever the harness emits, however its answers trail its events, whenever the
\* driver detaches or replaces the owner and whichever appends fail: the types
\* hold and an active gate has exactly one holder.
THEOREM OwnerCorrect == Spec => [](TypeOK /\ GateHasOneHolder)
    <1>1. Init => OwnerInv
        BY OwnerInit
    <1>2. OwnerInv /\ [Next]_vars => OwnerInv'
        BY OwnerInvStep
    <1>3. OwnerInv => TypeOK /\ GateHasOneHolder
        BY DEF OwnerInv
    <1>4. QED
        BY <1>1, <1>2, <1>3, PTL DEF Spec

\* With exactly one holder, no step touches a blocked gate.
LEMMA BlockedStep == OwnerInv /\ [Next]_vars => (gate.blocked # NoTurn => gate' = gate)
    <1> SUFFICES ASSUME OwnerInv, [Next]_vars PROVE (gate.blocked # NoTurn => gate' = gate)
        OBVIOUS
    <1> USE DEF OwnerInv, TypeOK
    <1>0. MaxTurns \in Nat /\ MaxItems \in Nat /\ LogCap \in Nat \ {0} /\ QueueCap \in Nat \ {0}
          /\ MaxAttaches \in Nat
        BY OwnerConstants
    <1>1. CASE UNCHANGED vars
        BY <1>1 DEF GateHasOneHolder, vars, harnessVars, callerVars, coordVars,
           turnVars, ownerVars
    <1>2. CASE AdmitIntent
        BY <1>2, OwnerConstants DEF AdmitIntent, GateHasOneHolder, Stages, GateType,
           Gates, OwnerType, vars, harnessVars, callerVars, coordVars, turnVars,
           ownerVars
    <1>3. CASE HandleAnswer
        BY <1>3, OwnerConstants DEF HandleAnswer, GateHasOneHolder, Stages, GateType,
           Gates, OwnerType, AnswerAccepted, AnswerRefused, vars, harnessVars,
           callerVars, coordVars, turnVars, ownerVars
    <1>4. CASE ApplyOwned
        BY <1>4, OwnerConstants DEF ApplyOwned, GateHasOneHolder, Stages, GateType,
           Gates, OwnerType, CanAttach, TakeEvent, Running, vars, harnessVars,
           callerVars, coordVars, turnVars, ownerVars
    <1>5. CASE AppendFails
        BY <1>5, OwnerConstants DEF AppendFails, GateHasOneHolder, Stages, GateType,
           Gates, OwnerType, vars, harnessVars, callerVars, coordVars, turnVars,
           ownerVars
    <1>6. CASE SettleTurn
        BY <1>6, OwnerConstants DEF SettleTurn, GateHasOneHolder, Stages, GateType,
           Gates, OwnerType, vars, harnessVars, callerVars, coordVars, turnVars,
           ownerVars
    <1>7. CASE Finish
        BY <1>7, OwnerConstants DEF Finish, GateHasOneHolder, Stages, GateType, Gates,
           OwnerType, vars, harnessVars, callerVars, coordVars, turnVars, ownerVars
    <1>8. CASE HarnessStarts
              \/ HarnessAnswers
              \/ HarnessRefuses
              \/ HarnessStartsUnasked
              \/ (\E t \in Turns : HarnessEmits(t))
              \/ HarnessCompletes
              \/ HarnessCloses
              \/ (\E i \in Intents : CallIntent(i))
              \/ (\E i \in Intents : SendIntent(i))
              \/ OwnerCancelled
              \/ DropCrossTurn
              \/ ApplyLate
              \/ AttachRefused
              \/ HandleGap
              \/ HandleClosed
              \/ AppendTurn
              \/ AttachOwner
              \/ ParkAttach
              \/ RequestDetach
              \/ OwnerExited
      <2>1. UNCHANGED <<gate>>
        BY <1>8 DEF HarnessStarts, HarnessAnswers, HarnessRefuses,
           HarnessStartsUnasked, HarnessEmits, HarnessCompletes, HarnessCloses,
           CallIntent, SendIntent, OwnerCancelled, DropCrossTurn, ApplyLate,
           AttachRefused, HandleGap, HandleClosed, AppendTurn, AttachOwner,
           ParkAttach, RequestDetach, OwnerExited, vars, harnessVars, callerVars,
           coordVars, turnVars, ownerVars, TakeEvent
      <2>2. QED
        BY <2>1 DEF GateHasOneHolder, vars, harnessVars, callerVars, coordVars,
           turnVars, ownerVars
    <1>9. QED
        BY <1>1, <1>2, <1>3, <1>4, <1>5, <1>6, <1>7, <1>8 DEF Next, OwnerStep

\* A gate blocked by a failed append is never released or taken over, through
\* the exit of its owner, a detach of the failed coordinator and any new owner.
THEOREM BlockedRetained == Spec => BlockedGateIsRetained
    <1>1. Init => OwnerInv
        BY OwnerInit
    <1>2. OwnerInv /\ [Next]_vars => OwnerInv'
        BY OwnerInvStep
    <1>3. OwnerInv /\ [Next]_vars => [gate.blocked # NoTurn => gate' = gate]_vars
        BY BlockedStep
    <1>4. QED
        BY <1>1, <1>2, <1>3, PTL DEF Spec, BlockedGateIsRetained

-----------------------------------------------------------------------------
(* The history.                                                            *)

\* The forwarder's turn state is about one turn: what it observed, collected
\* and is about to persist are of the turn it owns, and it owns no turn whose
\* persistence it has seen.
TurnIds ==
    /\ observed \in {NoTurn, owned}
    /\ items \subseteq {owned} \X (1 .. MaxItems)
    /\ owned = NoTurn => items = {}
    /\ owned # NoTurn /\ pc # "settling" => owned \notin seen
    /\ pc = "settling" => owned \in seen
    /\ pc \in {"persisting", "settling"} => closing.turn = owned

\* The turn a completion persists is the turn the owner owns.
LEMMA PersistedIsOwned ==
    ASSUME OwnerInv, TurnIds, pc = "persisting"
    PROVE  PersistedTurn = owned /\ owned \in Turns /\ owned \notin seen
    <1>1. closing.turn = owned /\ closing.turn # NoTurn
        BY DEF OwnerInv, Stages, TurnIds
    <1>2. owned \in Turns \cup {NoTurn}
        BY DEF OwnerInv, TypeOK, OwnerType
    <1>3. QED
        BY <1>1, <1>2 DEF TurnIds, PersistedTurn

\* An event that belongs to the owner's turn: after it the owner owns the turn
\* of the event, which nobody has persisted.
LEMMA OwnedEvent ==
    ASSUME OwnerInv, ApplyOwned
    PROVE  /\ pc = "run" /\ NextEvent \in Event /\ NextEvent.turn \in Turns
           /\ owned' = NextEvent.turn /\ NextEvent.turn \notin seen /\ seen' = seen
           /\ owned # NoTurn => owned = NextEvent.turn
           /\ NoteOwned(NextEvent) /\ TakeEvent
    <1>1. TakeEvent /\ Owned(NextEvent) /\ NoteOwned(NextEvent) /\ seen' = seen /\ pc = "run"
        BY DEF ApplyOwned, TakeEvent, Running
    <1>2. NextEvent.turn \in Turns /\ NextEvent \in Event
        BY <1>1, NextEventType DEF OwnerInv, TypeOK, HarnessType, TakeEvent, NextEvent
    <1>3. NextEvent.turn \notin seen /\ (owned # NoTurn => owned = NextEvent.turn)
        BY <1>1 DEF Owned, CrossTurn, Late
    <1>4. owned' = NextEvent.turn
        BY <1>3 DEF ApplyOwned, AttachToTurn
    <1>5. QED
        BY <1>1, <1>2, <1>3, <1>4

\* Every step keeps the turn state about one turn.
LEMMA TurnIdsStep == OwnerInv /\ TurnIds /\ [Next]_vars => TurnIds'
    <1> SUFFICES ASSUME OwnerInv /\ TurnIds, [Next]_vars PROVE TurnIds'
        OBVIOUS
    <1>0. MaxTurns \in Nat /\ MaxItems \in Nat /\ LogCap \in Nat \ {0} /\ QueueCap \in Nat \ {0}
          /\ MaxAttaches \in Nat
        BY OwnerConstants
    <1>1. CASE OwnerCancelled
        BY <1>1, <1>0 DEF OwnerCancelled, Exit, OwnerInv, TypeOK, OwnerType, Stages,
           TurnIds, vars, harnessVars, callerVars, coordVars, turnVars, ownerVars
    <1>2. CASE ApplyOwned
      <2>1. /\ pc = "run" /\ NextEvent \in Event /\ NextEvent.turn \in Turns
            /\ owned' = NextEvent.turn /\ NextEvent.turn \notin seen /\ seen' = seen
            /\ owned # NoTurn => owned = NextEvent.turn
            /\ NoteOwned(NextEvent) /\ TakeEvent
        BY <1>2, OwnedEvent
      <2>2. NextEvent.kind = "item" => <<NextEvent.turn, NextEvent.n>> \in Item
        BY <2>1, NextEventType
      <2>3. observed' \in {NoTurn, owned'}
        BY <2>1 DEF NoteOwned, TurnIds
      <2>4. items \subseteq {NextEvent.turn} \X (1 .. MaxItems)
        BY <2>1 DEF TurnIds
      <2>5. items' \subseteq {owned'} \X (1 .. MaxItems)
        BY <2>1, <2>2, <2>4 DEF NoteOwned, Item
      <2>6. pc' # "settling" /\ (pc' = "persisting" => closing'.turn = owned')
        BY <2>1 DEF NoteOwned
      <2>7. QED
        BY <2>1, <2>3, <2>5, <2>6 DEF TurnIds
    <1>3. CASE AttachRefused
        BY <1>3, <1>0 DEF AttachRefused, Exit, TakeEvent, Running, OwnerInv, TypeOK,
           OwnerType, Stages, TurnIds, vars, harnessVars, callerVars, coordVars,
           turnVars, ownerVars
    <1>4. CASE HandleGap
        BY <1>4, <1>0 DEF HandleGap, Interrupting, Running, OwnerInv, TypeOK,
           OwnerType, Stages, TurnIds, vars, harnessVars, callerVars, coordVars,
           turnVars, ownerVars
    <1>5. CASE HandleClosed
        BY <1>5, <1>0 DEF HandleClosed, Interrupting, Exit, Running, OwnerInv,
           TypeOK, OwnerType, Stages, TurnIds, vars, harnessVars, callerVars,
           coordVars, turnVars, ownerVars
    <1>6. CASE AppendTurn
      <2>1. PersistedTurn = owned /\ owned \in Turns /\ owned \notin seen
        BY <1>6, PersistedIsOwned DEF AppendTurn
      <2>2. QED
        BY <1>6, <2>1 DEF AppendTurn, TurnIds, turnVars
    <1>7. CASE AppendFails
        BY <1>7, <1>0 DEF AppendFails, Exit, OwnerInv, TypeOK, OwnerType, Stages,
           TurnIds, vars, harnessVars, callerVars, coordVars, turnVars, ownerVars
    <1>8. CASE SettleTurn
        BY <1>8, <1>0 DEF SettleTurn, ResetTurn, NotClosing, OwnerInv, TypeOK,
           OwnerType, Stages, TurnIds, vars, harnessVars, callerVars, coordVars,
           turnVars, ownerVars
    <1>9. CASE Finish
        BY <1>9, <1>0 DEF Finish, ResetTurn, NotClosing, OwnerInv, TypeOK,
           OwnerType, Stages, TurnIds, vars, harnessVars, callerVars, coordVars,
           turnVars, ownerVars
    <1>10. CASE AttachOwner
        BY <1>10, <1>0 DEF AttachOwner, InstallOwner, OwnerInv, TypeOK, OwnerType,
           Stages, TurnIds, vars, harnessVars, callerVars, coordVars, turnVars,
           ownerVars
    <1>11. CASE OwnerExited
        BY <1>11, <1>0 DEF OwnerExited, InstallOwner, OwnerInv, TypeOK, OwnerType,
           Stages, TurnIds, vars, harnessVars, callerVars, coordVars, turnVars,
           ownerVars
    <1>12. CASE UNCHANGED vars
              \/ HarnessStarts
              \/ HarnessAnswers
              \/ HarnessRefuses
              \/ HarnessStartsUnasked
              \/ (\E t \in Turns : HarnessEmits(t))
              \/ HarnessCompletes
              \/ HarnessCloses
              \/ (\E i \in Intents : CallIntent(i))
              \/ (\E i \in Intents : SendIntent(i))
              \/ AdmitIntent
              \/ HandleAnswer
              \/ DropCrossTurn
              \/ ApplyLate
              \/ ParkAttach
              \/ RequestDetach
      <2>1. UNCHANGED <<observed, owned, items, seen, pc, closing>>
        BY <1>12 DEF HarnessStarts, HarnessAnswers, HarnessRefuses,
           HarnessStartsUnasked, HarnessEmits, HarnessCompletes, HarnessCloses,
           CallIntent, SendIntent, AdmitIntent, HandleAnswer, DropCrossTurn,
           ApplyLate, ParkAttach, RequestDetach, TakeEvent, vars, harnessVars,
           callerVars, coordVars, turnVars, ownerVars
      <2>2. QED
        BY <2>1 DEF TurnIds
    <1>13. QED
        BY <1>1, <1>2, <1>3, <1>4, <1>5, <1>6, <1>7, <1>8, <1>9, <1>10, <1>11, <1>12
           DEF Next, OwnerStep

\* What complete_forwarded_turn appends names the turn its owner owns, which is
\* none of those it has seen.
LEMMA AppendedOnce ==
    OwnerInv /\ TurnIds /\ [Next]_vars =>
      (Len(history') > Len(history) /\ PersistedTurns \subseteq seen =>
         history'[Len(history')].turn \notin PersistedTurns)
    <1> SUFFICES ASSUME OwnerInv, TurnIds, [Next]_vars, Len(history') > Len(history),
                        PersistedTurns \subseteq seen
                 PROVE  history'[Len(history')].turn \notin PersistedTurns
        OBVIOUS
    <1>1. CASE AppendTurn
      <2>1. PersistedTurn = owned /\ owned \notin seen
        BY <1>1, PersistedIsOwned DEF AppendTurn
      <2>2. history \in Seq(TurnRecord)
        BY DEF OwnerInv, TypeOK, HistoryType
      <2>3. history'[Len(history')].turn = PersistedTurn
        BY <1>1, <2>2 DEF AppendTurn
      <2>4. QED
        BY <2>1, <2>3
    <1>2. CASE ApplyLate
      <2>1. Len(history') = Len(history)
        BY <1>2 DEF ApplyLate, Amended, OwnerInv, TypeOK, HistoryType
      <2>2. QED
        BY <2>1 DEF OwnerInv, TypeOK, HistoryType
    <1>3. CASE ~AppendTurn /\ ~ApplyLate
      <2>1. history' = history
        BY <1>3 DEF Next, OwnerStep, HarnessStarts, HarnessAnswers, HarnessRefuses,
           HarnessStartsUnasked, HarnessEmits, HarnessCompletes, HarnessCloses, CallIntent,
           SendIntent, OwnerCancelled, AdmitIntent, HandleAnswer, DropCrossTurn, ApplyOwned,
           AttachRefused, HandleGap, HandleClosed, AppendFails, SettleTurn, Finish,
           AttachOwner, ParkAttach, RequestDetach, OwnerExited, vars
      <2>2. QED
        BY <2>1 DEF OwnerInv, TypeOK, HistoryType
    <1>4. QED
        BY <1>1, <1>2, <1>3

\* Whatever arrives late for a turn that was interrupted, completed or answered:
\* an owner that read the ids of the persisted turns appends none of them again.
THEOREM PersistedOnce == Spec => NoTurnPersistedTwice
    <1>1. Init => OwnerInv /\ TurnIds
        BY OwnerInit DEF Init, TurnIds
    <1>2. OwnerInv /\ TurnIds /\ [Next]_vars => OwnerInv' /\ TurnIds'
        BY OwnerInvStep, TurnIdsStep
    <1>3. OwnerInv /\ TurnIds /\ [Next]_vars =>
            [Len(history') > Len(history) /\ PersistedTurns \subseteq seen =>
               history'[Len(history')].turn \notin PersistedTurns]_vars
        BY AppendedOnce
    <1>4. QED
        BY <1>1, <1>2, <1>3, PTL DEF Spec, NoTurnPersistedTwice

\* Every event, or every record, of a sequence is of a turn that has begun.
Begun(s, n) == \A k \in 1 .. Len(s) : s[k].turn < n

\* Nothing knows of a turn that the harness has not begun, and a turn that has
\* not begun has emitted nothing.
Past ==
    /\ native < nextTurn /\ owned < nextTurn /\ (\A t \in seen : t < nextTurn)
    /\ Begun(history, nextTurn) /\ Begun(log, nextTurn)
    /\ \A t \in Turns : atEnd[t] <= emitted[t] /\ (t >= nextTurn => emitted[t] = 0)

\* What appending an event does: the event is the last of the log, after all the
\* events retained before, or after all but the oldest when a gap is owed.
LEMMA Appended ==
    ASSUME OwnerInv, NEW e \in Event, AppendEvent(e)
    PROVE  \E l \in Seq(Event) : /\ log' = Append(l, e)
                                 /\ \/ l = log /\ gap' = gap
                                    \/ log # <<>> /\ l = Tail(log) /\ gap' = TRUE
    <1>0. LogCap \in Nat \ {0} /\ log \in Seq(Event)
        BY OwnerConstants DEF OwnerInv, TypeOK, HarnessType
    <1>1. CASE Len(log) < LogCap
        BY <1>0, <1>1 DEF AppendEvent
    <1>2. CASE ~(Len(log) < LogCap)
      <2>1. log # <<>> /\ log' = Append(Tail(log), e) /\ gap' = TRUE
        BY <1>0, <1>2 DEF AppendEvent
      <2>2. Tail(log) \in Seq(Event)
        BY <1>0, <2>1
      <2>3. QED
        BY <2>1, <2>2
    <1>3. QED
        BY <1>1, <1>2

\* The tail of a sequence is its elements but the first, in their order.
LEMMA TailElements ==
    ASSUME NEW S, NEW s \in Seq(S), s # <<>>
    PROVE  /\ Tail(s) \in Seq(S) /\ Len(s) \in Nat \ {0} /\ Len(Tail(s)) = Len(s) - 1
           /\ \A k \in 1 .. Len(s) - 1 : Tail(s)[k] = s[k + 1]
           /\ Head(s) = s[1] /\ s[1] \in S
    OBVIOUS

\* Append puts one element behind the others.
LEMMA AppendElements ==
    ASSUME NEW S, NEW s \in Seq(S), NEW e \in S
    PROVE  /\ Append(s, e) \in Seq(S) /\ Len(s) \in Nat /\ Len(Append(s, e)) = Len(s) + 1
           /\ Append(s, e)[Len(s) + 1] = e
           /\ \A k \in 1 .. Len(s) : Append(s, e)[k] = s[k] /\ s[k] \in S
    OBVIOUS

\* The tail of a log holds events of turns that have begun.
LEMMA BegunTail ==
    ASSUME NEW S, NEW s \in Seq(S), s # <<>>, NEW n, Begun(s, n)
    PROVE  Begun(Tail(s), n)
    BY TailElements DEF Begun

\* So does a log, or a history, with one more of such a turn.
LEMMA BegunAppend ==
    ASSUME NEW S, NEW s \in Seq(S), NEW e \in S, NEW n \in Nat, NEW m \in Nat, n <= m,
           \A r \in S : r.turn \in Nat, Begun(s, n), e.turn < m
    PROVE  Begun(Append(s, e), m)
    BY AppendElements DEF Begun

\* An appended event leaves a log of turns that have begun.
LEMMA BegunAppended ==
    ASSUME OwnerInv, Begun(log, nextTurn), NEW e \in Event, AppendEvent(e),
           NEW m \in Nat, nextTurn <= m, e.turn < m
    PROVE  Begun(log', m)
    <1>1. PICK l \in Seq(Event) : /\ log' = Append(l, e)
                                  /\ \/ l = log /\ gap' = gap
                                     \/ log # <<>> /\ l = Tail(log) /\ gap' = TRUE
        BY Appended
    <1>2. log \in Seq(Event) /\ nextTurn \in Nat
        BY OwnerConstants DEF OwnerInv, TypeOK, HarnessType
    <1>3. Begun(l, nextTurn)
        BY <1>1, <1>2, BegunTail
    <1>4. \A r \in Event : r.turn \in Nat
        BY DEF Event
    <1>5. Begun(Append(l, e), m)
        BY <1>2, <1>3, <1>4, BegunAppend
    <1>6. QED
        BY <1>1, <1>5

\* An amended history has the records of before, with one item more at most.
LEMMA AmendedRecord ==
    ASSUME NEW h \in Seq(TurnRecord), NEW e, NEW k \in 1 .. Len(h)
    PROVE  /\ Len(Amended(h, e)) = Len(h)
           /\ Amended(h, e)[k].turn = h[k].turn /\ Amended(h, e)[k].status = h[k].status
           /\ Amended(h, e)[k].ctx = h[k].ctx /\ Amended(h, e)[k].whole = h[k].whole
           /\ \/ Amended(h, e)[k].items = h[k].items
              \/ e.turn = h[k].turn
                 /\ Amended(h, e)[k].items = h[k].items \cup {<<e.turn, e.n>>}
    <1>1. h[k] \in TurnRecord
        OBVIOUS
    <1>2. Len(Amended(h, e)) = Len(h)
        BY DEF Amended
    <1>3. CASE h[k].turn = e.turn
      <2>1. Amended(h, e)[k] = [h[k] EXCEPT !.items = @ \cup {<<e.turn, e.n>>}]
        BY <1>3 DEF Amended
      <2>2. QED
        BY <1>1, <1>2, <1>3, <2>1 DEF TurnRecord
    <1>4. CASE h[k].turn # e.turn
        BY <1>2, <1>4 DEF Amended
    <1>5. QED
        BY <1>3, <1>4

\* The types of what the harness keeps, as the proofs below use them.
LEMMA HarnessFacts ==
    ASSUME OwnerInv
    PROVE  /\ log \in Seq(Event) /\ history \in Seq(TurnRecord)
           /\ nextTurn \in Nat /\ nextTurn >= 1 /\ native \in Nat /\ native \in Turns \cup {NoTurn}
           /\ owned \in Nat /\ owned \in Turns \cup {NoTurn} /\ seen \subseteq Turns
           /\ emitted \in [Turns -> Nat] /\ atEnd \in [Turns -> Nat]
           /\ (\A r \in Event : r.turn \in Nat /\ r.turn \in Turns)
           /\ (\A r \in TurnRecord : r.turn \in Nat /\ r.turn \in Turns)
    <1>0. MaxTurns \in Nat /\ MaxItems \in Nat
        BY OwnerConstants
    <1>1. HarnessType /\ OwnerType /\ HistoryType
        BY DEF OwnerInv, TypeOK
    <1>2. /\ log \in Seq(Event) /\ history \in Seq(TurnRecord)
          /\ nextTurn \in Nat /\ nextTurn >= 1 /\ native \in Turns \cup {NoTurn}
          /\ owned \in Turns \cup {NoTurn} /\ seen \subseteq Turns
        BY <1>0, <1>1 DEF HarnessType, OwnerType, HistoryType
    <1>3. emitted \in [Turns -> Nat] /\ atEnd \in [Turns -> Nat]
        BY <1>0, <1>1 DEF HarnessType
    <1>4. \A r \in Event : r.turn \in Nat /\ r.turn \in Turns
        BY DEF Event
    <1>5. \A r \in TurnRecord : r.turn \in Nat /\ r.turn \in Turns
        BY DEF TurnRecord
    <1>6. QED
        BY <1>2, <1>3, <1>4, <1>5

\* A turn begins: it is the newest, the owner and the history do not know it.
LEMMA PastBegins ==
    ASSUME OwnerInv, Past, BeginNative, UNCHANGED <<owned, seen, history>>
    PROVE  Past'
    <1>0. MaxTurns \in Nat /\ MaxItems \in Nat
        BY OwnerConstants
    <1> DEFINE e == [kind |-> "started", turn |-> nextTurn, n |-> 0]
    <1>1. e \in Event /\ AppendEvent(e) /\ e.turn = nextTurn
        BY <1>0 DEF BeginNative, Event, OwnerInv, TypeOK, HarnessType
    <1> HIDE DEF e
    <1>2. Begun(log', nextTurn + 1)
        BY <1>1, BegunAppended, HarnessFacts DEF Past
    <1>3. /\ nextTurn' = nextTurn + 1 /\ native' = nextTurn
          /\ UNCHANGED <<emitted, atEnd>>
        BY DEF BeginNative
    <1>4. Begun(history', nextTurn + 1)
        BY HarnessFacts DEF Past, Begun
    <1>5. native' < nextTurn' /\ owned' < nextTurn' /\ (\A t \in seen' : t < nextTurn')
        BY <1>3, HarnessFacts DEF Past
    <1>6. \A t \in Turns : atEnd'[t] <= emitted'[t] /\ (t >= nextTurn' => emitted'[t] = 0)
        BY <1>0, <1>3, HarnessFacts DEF Past
    <1>7. QED
        BY <1>2, <1>3, <1>4, <1>5, <1>6 DEF Past

\* Every step keeps the knowledge of turns to those that have begun.
LEMMA PastStep == OwnerInv /\ TurnIds /\ Past /\ [Next]_vars => Past'
    <1> SUFFICES ASSUME OwnerInv /\ TurnIds /\ Past, [Next]_vars PROVE Past'
        OBVIOUS
    <1>0. MaxTurns \in Nat /\ MaxItems \in Nat /\ LogCap \in Nat \ {0} /\ QueueCap \in Nat \ {0}
          /\ MaxAttaches \in Nat
        BY OwnerConstants
    <1>1. CASE HarnessStarts
        BY <1>1, PastBegins DEF HarnessStarts, ownerVars, turnVars
    <1>2. CASE HarnessStartsUnasked
        BY <1>2, PastBegins DEF HarnessStartsUnasked, ownerVars, turnVars
    <1>3. CASE \E t \in Turns : HarnessEmits(t)
      <2> PICK t \in Turns : HarnessEmits(t)
        BY <1>3
      <2> DEFINE e == [kind |-> "item", turn |-> t, n |-> emitted[t] + 1]
      <2>1. e \in Event /\ AppendEvent(e) /\ e.turn = t /\ t < nextTurn
        BY <1>0 DEF HarnessEmits, Event, OwnerInv, TypeOK, HarnessType
      <2> HIDE DEF e
      <2>2. Begun(log', nextTurn)
        BY <2>1, BegunAppended, HarnessFacts DEF Past
      <2>3. /\ emitted' = [emitted EXCEPT ![t] = @ + 1]
            /\ UNCHANGED <<native, nextTurn, atEnd, owned, seen, history>>
        BY DEF HarnessEmits, turnVars, ownerVars
      <2>4. \A u \in Turns : atEnd'[u] <= emitted'[u] /\ (u >= nextTurn' => emitted'[u] = 0)
        <3> TAKE u \in Turns
        <3>1. /\ emitted[u] \in Nat /\ atEnd[u] \in Nat /\ atEnd[u] <= emitted[u]
              /\ u >= nextTurn => emitted[u] = 0
          BY HarnessFacts DEF Past
        <3>2. emitted'[u] = IF u = t THEN emitted[u] + 1 ELSE emitted[u]
          BY <2>3, HarnessFacts
        <3>3. QED
          BY <2>1, <2>3, <3>1, <3>2, HarnessFacts
      <2>5. QED
        BY <2>2, <2>3, <2>4 DEF Past
    <1>4. CASE HarnessCompletes
      <2> DEFINE e == [kind |-> "completed", turn |-> native, n |-> 0]
      <2>1. e \in Event /\ AppendEvent(e) /\ e.turn = native /\ native \in Turns
        BY <1>4, <1>0 DEF HarnessCompletes, Event, OwnerInv, TypeOK, HarnessType
      <2> HIDE DEF e
      <2>2. Begun(log', nextTurn)
        BY <2>1, BegunAppended, HarnessFacts DEF Past
      <2>3. /\ atEnd' = [atEnd EXCEPT ![native] = emitted[native]] /\ native' = NoTurn
            /\ UNCHANGED <<emitted, nextTurn, owned, seen, history>>
        BY <1>4 DEF HarnessCompletes, turnVars, ownerVars
      <2>4. \A u \in Turns : atEnd'[u] <= emitted'[u] /\ (u >= nextTurn' => emitted'[u] = 0)
        BY <1>0, <2>1, <2>3, HarnessFacts DEF Past
      <2>5. QED
        BY <2>2, <2>3, <2>4, HarnessFacts DEF Past
    <1>5. CASE HarnessCloses
        BY <1>5, HarnessFacts DEF HarnessCloses, Past, turnVars, ownerVars
    <1>6. CASE DropCrossTurn
      <2>1. log # <<>> /\ log' = Tail(log) /\ UNCHANGED <<native, nextTurn, emitted, atEnd>>
        BY <1>6 DEF DropCrossTurn, TakeEvent
      <2>2. Begun(log', nextTurn)
        BY <2>1, BegunTail, HarnessFacts DEF Past
      <2>3. QED
        BY <1>6, <2>1, <2>2 DEF DropCrossTurn, Past, turnVars, ownerVars
    <1>7. CASE ApplyLate
      <2>1. log # <<>> /\ log' = Tail(log) /\ UNCHANGED <<native, nextTurn, emitted, atEnd>>
        BY <1>7 DEF ApplyLate, TakeEvent
      <2>2. Begun(log', nextTurn)
        BY <2>1, BegunTail, HarnessFacts DEF Past
      <2>3. history' = history \/ history' = Amended(history, NextEvent)
        BY <1>7 DEF ApplyLate
      <2>4. Begun(history', nextTurn)
        <3>1. CASE history' = history
          BY <3>1 DEF Past
        <3>2. CASE history' = Amended(history, NextEvent)
          <4>1. history \in Seq(TurnRecord) /\ Begun(history, nextTurn)
            BY HarnessFacts DEF Past
          <4>2. Len(history') = Len(history)
            BY <3>2, <4>1 DEF Amended
          <4>3. \A k \in 1 .. Len(history) : history'[k].turn = history[k].turn
            BY <3>2, <4>1, AmendedRecord
          <4>4. QED
            BY <4>1, <4>2, <4>3 DEF Begun
        <3>3. QED
          BY <2>3, <3>1, <3>2
      <2>5. QED
        BY <1>7, <2>1, <2>2, <2>4 DEF ApplyLate, Past, turnVars, ownerVars
    <1>8. CASE ApplyOwned
      <2>1. log # <<>> /\ log' = Tail(log) /\ UNCHANGED <<native, nextTurn, emitted, atEnd>>
        BY <1>8 DEF ApplyOwned, TakeEvent
      <2>2. Begun(log', nextTurn)
        BY <2>1, BegunTail, HarnessFacts DEF Past
      <2>3. owned' = log[1].turn /\ UNCHANGED <<seen, history>>
        BY <1>8, <2>1, OwnedEvent, HarnessFacts DEF NextEvent, ApplyOwned
      <2>4. owned' < nextTurn
        BY <2>1, <2>3, TailElements, HarnessFacts DEF Past, Begun
      <2>5. QED
        BY <2>1, <2>2, <2>3, <2>4 DEF Past
    <1>9. CASE AttachRefused
      <2>1. log # <<>> /\ log' = Tail(log) /\ UNCHANGED <<native, nextTurn, emitted, atEnd>>
        BY <1>9 DEF AttachRefused, TakeEvent
      <2>2. Begun(log', nextTurn)
        BY <2>1, BegunTail, HarnessFacts DEF Past
      <2>3. QED
        BY <1>9, <2>1, <2>2 DEF AttachRefused, Past, turnVars, ownerVars
    <1>10. CASE AppendTurn
      <2> DEFINE r == [turn |-> PersistedTurn, status |-> closing.status, ctx |-> ctx,
                       whole |-> observed # NoTurn, items |-> items]
      <2>1. r \in TurnRecord /\ r.turn = owned /\ PersistedTurn = owned
        BY <1>10, AppendedType, PersistedIsOwned DEF AppendTurn
      <2>2. history' = Append(history, r) /\ seen' = seen \cup {PersistedTurn}
        BY <1>10 DEF AppendTurn
      <2> HIDE DEF r
      <2>3. Begun(history', nextTurn)
        <3>1. /\ history \in Seq(TurnRecord) /\ nextTurn \in Nat /\ nextTurn <= nextTurn
              /\ \A x \in TurnRecord : x.turn \in Nat
          BY HarnessFacts
        <3>2. Begun(history, nextTurn) /\ r.turn < nextTurn
          BY <2>1 DEF Past
        <3>3. Begun(Append(history, r), nextTurn)
          BY <2>1, <3>1, <3>2, BegunAppend
        <3>4. QED
          BY <2>2, <3>3
      <2>4. QED
        BY <1>10, <2>1, <2>2, <2>3 DEF AppendTurn, Past, turnVars, harnessVars
    <1>11. CASE SettleTurn
        BY <1>11, HarnessFacts DEF SettleTurn, ResetTurn, Past, harnessVars
    <1>12. CASE Finish
        BY <1>12, HarnessFacts DEF Finish, ResetTurn, Past, harnessVars
    <1>13. CASE AttachOwner
      <2>1. seen' = {} \/ seen' = PersistedTurns
        BY <1>13 DEF AttachOwner, InstallOwner
      <2>2. \A t \in seen' : t < nextTurn
        BY <2>1 DEF PersistedTurns, Past, Begun
      <2>3. QED
        BY <1>13, <2>2 DEF AttachOwner, Past, harnessVars, turnVars
    <1>14. CASE OwnerExited
      <2>1. seen' = seen \/ seen' = {} \/ seen' = PersistedTurns
        BY <1>14 DEF OwnerExited, InstallOwner
      <2>2. \A t \in seen' : t < nextTurn
        BY <2>1 DEF PersistedTurns, Past, Begun
      <2>3. QED
        BY <1>14, <2>2 DEF OwnerExited, Past, harnessVars, turnVars
    <1>15. CASE UNCHANGED vars
              \/ HarnessAnswers
              \/ HarnessRefuses
              \/ (\E i \in Intents : CallIntent(i))
              \/ (\E i \in Intents : SendIntent(i))
              \/ OwnerCancelled
              \/ AdmitIntent
              \/ HandleAnswer
              \/ HandleGap
              \/ HandleClosed
              \/ AppendFails
              \/ ParkAttach
              \/ RequestDetach
      <2>1. UNCHANGED <<native, nextTurn, emitted, atEnd, log, owned, seen, history>>
        BY <1>15 DEF HarnessAnswers, HarnessRefuses, CallIntent, SendIntent,
           OwnerCancelled, AdmitIntent, HandleAnswer, HandleGap, HandleClosed,
           AppendFails, ParkAttach, RequestDetach, Exit, vars, harnessVars,
           callerVars, coordVars, turnVars, ownerVars
      <2>2. QED
        BY <2>1 DEF Past
    <1>16. QED
        BY <1>1, <1>2, <1>3, <1>4, <1>5, <1>6, <1>7, <1>8, <1>9, <1>10, <1>11,
           <1>12, <1>13, <1>14, <1>15 DEF Next, OwnerStep

ItemOf(t, n) == [kind |-> "item", turn |-> t, n |-> n]

\* A retained start is followed by every item its turn has emitted.
StartsFirst(l, em) ==
    \A i \in 1 .. Len(l) : l[i].kind = "started" =>
       \A n \in 1 .. em[l[i].turn] : \E j \in i + 1 .. Len(l) : l[j] = ItemOf(l[i].turn, n)

\* A retained completion is of a turn that runs no more, and what follows it is
\* none of the items emitted before the turn ended.
EndsLast(l, ae, nat) ==
    \A i \in 1 .. Len(l) : l[i].kind = "completed" =>
       /\ l[i].turn # nat
       /\ \A j \in i + 1 .. Len(l) :
             l[j].kind = "item" /\ l[j].turn = l[i].turn => l[j].n > ae[l[i].turn]

\* The log is in the order of the harness's steps.
LogInOrder == StartsFirst(log, emitted) /\ EndsLast(log, atEnd, native)

\* Reading, or evicting, the oldest event keeps the order of the others.
LEMMA OrderedTail ==
    ASSUME NEW l \in Seq(Event), l # <<>>, NEW em, NEW ae, NEW nat,
           StartsFirst(l, em), EndsLast(l, ae, nat)
    PROVE  StartsFirst(Tail(l), em) /\ EndsLast(Tail(l), ae, nat)
    <1>0. /\ Len(l) \in Nat \ {0} /\ Len(Tail(l)) = Len(l) - 1
          /\ \A k \in 1 .. Len(l) - 1 : Tail(l)[k] = l[k + 1]
        BY TailElements
    <1>1. StartsFirst(Tail(l), em)
      <2> SUFFICES ASSUME NEW i \in 1 .. Len(Tail(l)), Tail(l)[i].kind = "started",
                          NEW n \in 1 .. em[Tail(l)[i].turn]
                   PROVE  \E j \in i + 1 .. Len(Tail(l)) : Tail(l)[j] = ItemOf(Tail(l)[i].turn, n)
        BY DEF StartsFirst
      <2>1. i + 1 \in 1 .. Len(l) /\ Tail(l)[i] = l[i + 1]
        BY <1>0
      <2>2. PICK j \in (i + 1) + 1 .. Len(l) : l[j] = ItemOf(l[i + 1].turn, n)
        BY <2>1 DEF StartsFirst
      <2>3. j - 1 \in i + 1 .. Len(Tail(l)) /\ Tail(l)[j - 1] = l[j]
        BY <1>0, <2>1, <2>2
      <2>4. QED
        BY <2>1, <2>2, <2>3
    <1>2. EndsLast(Tail(l), ae, nat)
      <2> SUFFICES ASSUME NEW i \in 1 .. Len(Tail(l)), Tail(l)[i].kind = "completed"
                   PROVE  /\ Tail(l)[i].turn # nat
                          /\ \A j \in i + 1 .. Len(Tail(l)) :
                                Tail(l)[j].kind = "item" /\ Tail(l)[j].turn = Tail(l)[i].turn
                                  => Tail(l)[j].n > ae[Tail(l)[i].turn]
        BY DEF EndsLast
      <2>1. i + 1 \in 1 .. Len(l) /\ Tail(l)[i] = l[i + 1]
        BY <1>0
      <2>2. l[i + 1].turn # nat
        BY <2>1 DEF EndsLast
      <2>3. ASSUME NEW j \in i + 1 .. Len(Tail(l)), Tail(l)[j].kind = "item",
                   Tail(l)[j].turn = Tail(l)[i].turn
            PROVE  Tail(l)[j].n > ae[Tail(l)[i].turn]
        <3>1. j + 1 \in (i + 1) + 1 .. Len(l) /\ Tail(l)[j] = l[j + 1]
          BY <1>0, <2>1
        <3>2. QED
          BY <2>1, <2>3, <3>1 DEF EndsLast
      <2>4. QED
        BY <2>1, <2>2, <2>3
    <1>3. QED
        BY <1>1, <1>2

\* The start of a turn that is new to the log.
LEMMA OrderedStart ==
    ASSUME NEW l \in Seq(Event), NEW em, NEW ae, NEW nat, NEW t \in Nat, NEW e \in Event,
           StartsFirst(l, em), EndsLast(l, ae, nat), Begun(l, t), em[t] = 0,
           e.kind = "started", e.turn = t
    PROVE  StartsFirst(Append(l, e), em) /\ EndsLast(Append(l, e), ae, t)
    <1> DEFINE m == Append(l, e)
    <1>0. /\ Len(l) \in Nat /\ Len(m) = Len(l) + 1 /\ m[Len(l) + 1] = e
          /\ \A k \in 1 .. Len(l) : m[k] = l[k]
        BY AppendElements
    <1> HIDE DEF m
    <1>1. StartsFirst(m, em)
      <2> SUFFICES ASSUME NEW i \in 1 .. Len(m), m[i].kind = "started", NEW n \in 1 .. em[m[i].turn]
                   PROVE  \E j \in i + 1 .. Len(m) : m[j] = ItemOf(m[i].turn, n)
        BY DEF StartsFirst
      <2>1. i \in 1 .. Len(l)
        BY <1>0
      <2>2. PICK j \in i + 1 .. Len(l) : l[j] = ItemOf(l[i].turn, n)
        BY <1>0, <2>1 DEF StartsFirst
      <2>3. QED
        BY <1>0, <2>1, <2>2
    <1>2. EndsLast(m, ae, t)
      <2> SUFFICES ASSUME NEW i \in 1 .. Len(m), m[i].kind = "completed"
                   PROVE  /\ m[i].turn # t
                          /\ \A j \in i + 1 .. Len(m) :
                                m[j].kind = "item" /\ m[j].turn = m[i].turn => m[j].n > ae[m[i].turn]
        BY DEF EndsLast
      <2>1. i \in 1 .. Len(l) /\ m[i] = l[i]
        BY <1>0
      <2>2. l[i].turn < t /\ l[i].turn \in Nat
        BY <2>1 DEF Begun, Event
      <2>3. ASSUME NEW j \in i + 1 .. Len(m), m[j].kind = "item", m[j].turn = m[i].turn
            PROVE  m[j].n > ae[m[i].turn]
        <3>1. j \in i + 1 .. Len(l) /\ m[j] = l[j]
          BY <1>0, <2>1, <2>3
        <3>2. QED
          BY <2>1, <2>3, <3>1 DEF EndsLast
      <2>4. QED
        BY <2>1, <2>2, <2>3
    <1>3. QED
        BY <1>1, <1>2 DEF m

\* An event is of a turn.
LEMMA HarnessEventTurn == \A r \in Event : r.turn \in Turns
    BY DEF Event

\* The next item of a turn.
LEMMA OrderedItem ==
    ASSUME NEW l \in Seq(Event), NEW em \in [Turns -> Nat], NEW ae \in [Turns -> Nat], NEW nat,
           NEW t \in Turns, NEW em2, em2 = [em EXCEPT ![t] = @ + 1],
           StartsFirst(l, em), EndsLast(l, ae, nat), ae[t] <= em[t],
           ItemOf(t, em[t] + 1) \in Event
    PROVE  LET m == Append(l, ItemOf(t, em[t] + 1))
           IN  StartsFirst(m, em2) /\ EndsLast(m, ae, nat)
    <1> DEFINE e == ItemOf(t, em[t] + 1)
               m == Append(l, e)
    <1>0. /\ Len(l) \in Nat /\ Len(m) = Len(l) + 1 /\ m[Len(l) + 1] = e
          /\ \A k \in 1 .. Len(l) : m[k] = l[k] /\ l[k] \in Event
        BY AppendElements
    <1>e. e.kind = "item" /\ e.turn = t /\ e.n = em[t] + 1 /\ em[t] \in Nat /\ ae[t] \in Nat
        BY DEF ItemOf
    <1> HIDE DEF m, e
    <1>1. StartsFirst(m, em2)
      <2> SUFFICES ASSUME NEW i \in 1 .. Len(m), m[i].kind = "started", NEW n \in 1 .. em2[m[i].turn]
                   PROVE  \E j \in i + 1 .. Len(m) : m[j] = ItemOf(m[i].turn, n)
        BY DEF StartsFirst
      <2>0. i # Len(l) + 1
        BY <1>0, <1>e
      <2>1. i \in 1 .. Len(l) /\ m[i] = l[i] /\ l[i] \in Event /\ l[i].turn \in Turns
        BY <1>0, <2>0, HarnessEventTurn
      <2>2. CASE n \in 1 .. em[l[i].turn]
        <3>1. PICK j \in i + 1 .. Len(l) : l[j] = ItemOf(l[i].turn, n)
          BY <2>1, <2>2 DEF StartsFirst
        <3>2. QED
          BY <1>0, <2>1, <3>1
      <2>3. CASE n \notin 1 .. em[l[i].turn]
        <3>1. l[i].turn = t /\ n = em[t] + 1
          BY <2>1, <2>3, <1>e
        <3>2. m[Len(l) + 1] = ItemOf(m[i].turn, n) /\ Len(l) + 1 \in i + 1 .. Len(m)
          BY <1>0, <2>1, <3>1 DEF e
        <3>3. QED
          BY <3>2
      <2>4. QED
        BY <2>2, <2>3
    <1>2. EndsLast(m, ae, nat)
      <2> SUFFICES ASSUME NEW i \in 1 .. Len(m), m[i].kind = "completed"
                   PROVE  /\ m[i].turn # nat
                          /\ \A j \in i + 1 .. Len(m) :
                                m[j].kind = "item" /\ m[j].turn = m[i].turn => m[j].n > ae[m[i].turn]
        BY DEF EndsLast
      <2>1. i \in 1 .. Len(l) /\ m[i] = l[i]
        BY <1>0, <1>e
      <2>2. l[i].turn # nat
        BY <2>1 DEF EndsLast
      <2>3. ASSUME NEW j \in i + 1 .. Len(m), m[j].kind = "item", m[j].turn = m[i].turn
            PROVE  m[j].n > ae[m[i].turn]
        <3>1. CASE j \in i + 1 .. Len(l)
          <4>1. m[j] = l[j]
            BY <1>0, <2>1, <3>1
          <4>2. QED
            BY <2>1, <2>3, <3>1, <4>1 DEF EndsLast
        <3>2. CASE j = Len(l) + 1
          BY <1>0, <1>e, <2>3, <3>2
        <3>3. QED
          BY <1>0, <2>1, <3>1, <3>2
      <2>4. QED
        BY <2>1, <2>2, <2>3
    <1>3. QED
        BY <1>1, <1>2 DEF m, e

\* The completion of the running turn.
LEMMA OrderedEnd ==
    ASSUME NEW l \in Seq(Event), NEW em, NEW ae \in [Turns -> Nat], NEW nat \in Turns, NEW e \in Event,
           StartsFirst(l, em), EndsLast(l, ae, nat), NEW ae2, ae2 = [ae EXCEPT ![nat] = em[nat]],
           e.kind = "completed", e.turn = nat
    PROVE  StartsFirst(Append(l, e), em) /\ EndsLast(Append(l, e), ae2, NoTurn)
    <1> DEFINE m == Append(l, e)
    <1>0. /\ Len(l) \in Nat /\ Len(m) = Len(l) + 1 /\ m[Len(l) + 1] = e
          /\ \A k \in 1 .. Len(l) : m[k] = l[k] /\ l[k] \in Event
        BY AppendElements
    <1> HIDE DEF m
    <1>1. StartsFirst(m, em)
      <2> SUFFICES ASSUME NEW i \in 1 .. Len(m), m[i].kind = "started", NEW n \in 1 .. em[m[i].turn]
                   PROVE  \E j \in i + 1 .. Len(m) : m[j] = ItemOf(m[i].turn, n)
        BY DEF StartsFirst
      <2>1. i \in 1 .. Len(l)
        BY <1>0
      <2>2. PICK j \in i + 1 .. Len(l) : l[j] = ItemOf(l[i].turn, n)
        BY <1>0, <2>1 DEF StartsFirst
      <2>3. QED
        BY <1>0, <2>1, <2>2
    <1>2. EndsLast(m, ae2, NoTurn)
      <2> SUFFICES ASSUME NEW i \in 1 .. Len(m), m[i].kind = "completed"
                   PROVE  /\ m[i].turn # NoTurn
                          /\ \A j \in i + 1 .. Len(m) :
                                m[j].kind = "item" /\ m[j].turn = m[i].turn => m[j].n > ae2[m[i].turn]
        BY DEF EndsLast
      <2>1. CASE i = Len(l) + 1
        BY <1>0, <2>1
      <2>2. CASE i \in 1 .. Len(l)
        <3>1. m[i] = l[i] /\ l[i].turn \in Turns /\ l[i].turn # nat
          BY <1>0, <2>2 DEF Event, EndsLast
        <3>2. ae2[l[i].turn] = ae[l[i].turn]
          BY <3>1
        <3>3. ASSUME NEW j \in i + 1 .. Len(m), m[j].kind = "item", m[j].turn = m[i].turn
              PROVE  m[j].n > ae2[m[i].turn]
          <4>1. j \in i + 1 .. Len(l) /\ m[j] = l[j]
            BY <1>0, <2>2, <3>3
          <4>2. QED
            BY <2>2, <3>1, <3>2, <3>3, <4>1 DEF EndsLast
        <3>4. m[i].turn # NoTurn
          BY <3>1
        <3>5. QED
          BY <3>3, <3>4
      <2>3. QED
        BY <1>0, <2>1, <2>2
    <1>3. QED
        BY <1>1, <1>2 DEF m

\* What the owner has collected: while it runs and no gap is owed, every item
\* the turn it saw starting has emitted is collected or still in the log; and a
\* turn it is about to persist as completed runs no more and lacks no item
\* emitted before its end.
Holds(l, e) == \E i \in 1 .. Len(l) : l[i] = e
Collected ==
    pc = "run" /\ observed # NoTurn /\ ~gap =>
      \A n \in 1 .. emitted[observed] : <<observed, n>> \in items \/ Holds(log, ItemOf(observed, n))
Complete ==
    pc = "persisting" /\ closing.status = "completed" =>
      /\ owned # native
      /\ observed # NoTurn => {observed} \X (1 .. atEnd[observed]) \subseteq items

\* A turn recorded as completed runs no more: what it had emitted at its end is
\* final.
Ended == \A k \in 1 .. Len(history) : history[k].status = "completed" => history[k].turn # native

HistoryInv ==
    OwnerInv /\ TurnIds /\ Past /\ LogInOrder /\ Collected /\ Complete /\ Ended /\ HistoryIsFaithful

\* A retained suffix of an ordered log is ordered.
LEMMA OrderedRest ==
    ASSUME OwnerInv, LogInOrder, NEW l,
           l = log \/ (log # <<>> /\ l = Tail(log))
    PROVE  StartsFirst(l, emitted) /\ EndsLast(l, atEnd, native)
    BY OrderedTail, HarnessFacts DEF LogInOrder

\* A turn begins behind everything the log retains.
LEMMA OrderBegins ==
    ASSUME OwnerInv, Past, LogInOrder, BeginNative
    PROVE  LogInOrder'
    <1>0. MaxTurns \in Nat /\ MaxItems \in Nat
        BY OwnerConstants
    <1> DEFINE e == [kind |-> "started", turn |-> nextTurn, n |-> 0]
    <1>1. e \in Event /\ AppendEvent(e) /\ e.turn = nextTurn /\ e.kind = "started" /\ nextTurn \in Turns
        BY <1>0 DEF BeginNative, Event, OwnerInv, TypeOK, HarnessType
    <1> HIDE DEF e
    <1>2. PICK l \in Seq(Event) : /\ log' = Append(l, e)
                                  /\ \/ l = log /\ gap' = gap
                                     \/ log # <<>> /\ l = Tail(log) /\ gap' = TRUE
        BY <1>1, Appended
    <1>3. StartsFirst(l, emitted) /\ EndsLast(l, atEnd, native)
        BY <1>2, OrderedRest
    <1>4. Begun(l, nextTurn)
        BY <1>2, BegunTail, HarnessFacts DEF Past
    <1>5. emitted[nextTurn] = 0 /\ nextTurn \in Nat
        BY <1>1, HarnessFacts DEF Past
    <1>6. StartsFirst(Append(l, e), emitted) /\ EndsLast(Append(l, e), atEnd, nextTurn)
        BY <1>1, <1>3, <1>4, <1>5, OrderedStart
    <1>7. QED
        BY <1>2, <1>6 DEF BeginNative, LogInOrder

\* Every step keeps the log in the order of the harness's steps.
LEMMA LogInOrderStep == OwnerInv /\ Past /\ LogInOrder /\ [Next]_vars => LogInOrder'
    <1> SUFFICES ASSUME OwnerInv /\ Past /\ LogInOrder, [Next]_vars PROVE LogInOrder'
        OBVIOUS
    <1>0. MaxTurns \in Nat /\ MaxItems \in Nat /\ LogCap \in Nat \ {0} /\ QueueCap \in Nat \ {0}
          /\ MaxAttaches \in Nat
        BY OwnerConstants
    <1>1. CASE HarnessStarts
        BY <1>1, OrderBegins DEF HarnessStarts
    <1>2. CASE HarnessStartsUnasked
        BY <1>2, OrderBegins DEF HarnessStartsUnasked
    <1>3. CASE \E t \in Turns : HarnessEmits(t)
      <2> PICK t \in Turns : HarnessEmits(t)
        BY <1>3
      <2>1. /\ ItemOf(t, emitted[t] + 1) \in Event /\ AppendEvent(ItemOf(t, emitted[t] + 1))
            /\ emitted' = [emitted EXCEPT ![t] = @ + 1] /\ UNCHANGED <<native, atEnd>>
        BY <1>0 DEF HarnessEmits, ItemOf, Event, OwnerInv, TypeOK, HarnessType
      <2>2. PICK l \in Seq(Event) : /\ log' = Append(l, ItemOf(t, emitted[t] + 1))
                                    /\ \/ l = log /\ gap' = gap
                                       \/ log # <<>> /\ l = Tail(log) /\ gap' = TRUE
        BY <2>1, Appended
      <2>3. StartsFirst(l, emitted) /\ EndsLast(l, atEnd, native)
        BY <2>2, OrderedRest
      <2>4. emitted \in [Turns -> Nat] /\ atEnd \in [Turns -> Nat] /\ atEnd[t] <= emitted[t]
        BY HarnessFacts DEF Past
      <2>5. /\ StartsFirst(Append(l, ItemOf(t, emitted[t] + 1)), emitted')
            /\ EndsLast(Append(l, ItemOf(t, emitted[t] + 1)), atEnd, native)
        BY <2>1, <2>3, <2>4, OrderedItem
      <2>6. QED
        BY <2>1, <2>2, <2>5 DEF LogInOrder
    <1>4. CASE HarnessCompletes
      <2> DEFINE e == [kind |-> "completed", turn |-> native, n |-> 0]
      <2>1. /\ e \in Event /\ AppendEvent(e) /\ e.turn = native /\ e.kind = "completed"
            /\ native \in Turns
        BY <1>4, <1>0 DEF HarnessCompletes, Event, OwnerInv, TypeOK, HarnessType
      <2>2. /\ atEnd' = [atEnd EXCEPT ![native] = emitted[native]]
            /\ native' = NoTurn /\ emitted' = emitted
        BY <1>4 DEF HarnessCompletes
      <2> HIDE DEF e
      <2>3. PICK l \in Seq(Event) : /\ log' = Append(l, e)
                                    /\ \/ l = log /\ gap' = gap
                                       \/ log # <<>> /\ l = Tail(log) /\ gap' = TRUE
        BY <2>1, Appended
      <2>4. StartsFirst(l, emitted) /\ EndsLast(l, atEnd, native)
        BY <2>3, OrderedRest
      <2>5. atEnd \in [Turns -> Nat]
        BY HarnessFacts
      <2>6. StartsFirst(Append(l, e), emitted) /\ EndsLast(Append(l, e), atEnd', NoTurn)
        BY <2>1, <2>2, <2>4, <2>5, OrderedEnd
      <2>7. QED
        BY <2>2, <2>3, <2>6 DEF LogInOrder
    <1>5. CASE HarnessCloses
      <2>1. UNCHANGED <<log, emitted, atEnd>> /\ native' = NoTurn
        BY <1>5 DEF HarnessCloses
      <2>2. \A i \in 1 .. Len(log) : log[i].turn \in Turns
        BY HarnessFacts
      <2>3. QED
        BY <2>1, <2>2 DEF LogInOrder, StartsFirst, EndsLast
    <1>6. CASE DropCrossTurn
        BY <1>6, OrderedRest DEF DropCrossTurn, TakeEvent, LogInOrder
    <1>7. CASE ApplyLate
        BY <1>7, OrderedRest DEF ApplyLate, TakeEvent, LogInOrder
    <1>8. CASE ApplyOwned
        BY <1>8, OrderedRest DEF ApplyOwned, TakeEvent, LogInOrder
    <1>9. CASE AttachRefused
        BY <1>9, OrderedRest DEF AttachRefused, TakeEvent, LogInOrder
    <1>10. CASE UNCHANGED vars
              \/ HarnessAnswers
              \/ HarnessRefuses
              \/ (\E i \in Intents : CallIntent(i))
              \/ (\E i \in Intents : SendIntent(i))
              \/ OwnerCancelled
              \/ AdmitIntent
              \/ HandleAnswer
              \/ HandleGap
              \/ HandleClosed
              \/ AppendTurn
              \/ AppendFails
              \/ SettleTurn
              \/ Finish
              \/ AttachOwner
              \/ ParkAttach
              \/ RequestDetach
              \/ OwnerExited
      <2>1. UNCHANGED <<log, emitted, atEnd, native>>
        BY <1>10 DEF HarnessAnswers, HarnessRefuses, CallIntent, SendIntent,
           OwnerCancelled, AdmitIntent, HandleAnswer, HandleGap, HandleClosed,
           AppendTurn, AppendFails, SettleTurn, Finish, AttachOwner, ParkAttach,
           RequestDetach, OwnerExited, Exit, vars, harnessVars, callerVars,
           coordVars, turnVars, ownerVars
      <2>2. QED
        BY <2>1 DEF LogInOrder
    <1>11. QED
        BY <1>1, <1>2, <1>3, <1>4, <1>5, <1>6, <1>7, <1>8, <1>9, <1>10 DEF Next,
           OwnerStep

\* An event appended without an eviction leaves everything in the log; an
\* eviction is owed to the reader as a gap.
LEMMA StillInLog ==
    ASSUME OwnerInv, NEW e \in Event, AppendEvent(e), ~gap'
    PROVE  /\ \A d : Holds(log, d) => Holds(log', d)
           /\ Holds(log', e) /\ ~gap
    <1>1. PICK l \in Seq(Event) : /\ log' = Append(l, e)
                                  /\ \/ l = log /\ gap' = gap
                                     \/ log # <<>> /\ l = Tail(log) /\ gap' = TRUE
        BY Appended
    <1>2. log' = Append(log, e) /\ ~gap /\ log \in Seq(Event)
        BY <1>1
    <1>3. /\ Len(log) \in Nat /\ Len(log') = Len(log) + 1 /\ log'[Len(log) + 1] = e
          /\ \A k \in 1 .. Len(log) : log'[k] = log[k]
        BY <1>2, AppendElements
    <1>4. \A d : Holds(log, d) => Holds(log', d)
      <2> SUFFICES ASSUME NEW d, Holds(log, d) PROVE Holds(log', d)
        OBVIOUS
      <2>1. PICK i \in 1 .. Len(log) : log[i] = d
        BY DEF Holds
      <2>2. i \in 1 .. Len(log') /\ log'[i] = d
        BY <1>3, <2>1
      <2>3. QED
        BY <2>2 DEF Holds
    <1>5. Holds(log', e)
        BY <1>3 DEF Holds
    <1>6. QED
        BY <1>2, <1>4, <1>5

\* What stays in the log when the owner takes the oldest event.
LEMMA TakenFromLog ==
    ASSUME OwnerInv, TakeEvent
    PROVE  \A d : Holds(log, d) => d = NextEvent \/ Holds(log', d)
    <1>1. log \in Seq(Event) /\ log # <<>> /\ log' = Tail(log)
        BY HarnessFacts DEF TakeEvent
    <1>2. /\ Len(log) \in Nat \ {0} /\ Len(log') = Len(log) - 1 /\ NextEvent = log[1]
          /\ \A k \in 1 .. Len(log) - 1 : log'[k] = log[k + 1]
        BY <1>1, TailElements DEF NextEvent
    <1> SUFFICES ASSUME NEW d, Holds(log, d), d # NextEvent PROVE Holds(log', d)
        OBVIOUS
    <1>3. PICK i \in 1 .. Len(log) : log[i] = d
        BY DEF Holds
    <1>4. i - 1 \in 1 .. Len(log') /\ log'[i - 1] = d
        BY <1>2, <1>3
    <1>5. QED
        BY <1>4 DEF Holds

\* When a start is taken from an ordered log, all its turn's items are behind it.
LEMMA StartTaken ==
    ASSUME OwnerInv, LogInOrder, TakeEvent, NextEvent.kind = "started"
    PROVE  \A n \in 1 .. emitted[NextEvent.turn] : Holds(log', ItemOf(NextEvent.turn, n))
    <1>1. log \in Seq(Event) /\ log # <<>> /\ log' = Tail(log)
        BY HarnessFacts DEF TakeEvent
    <1>2. /\ Len(log) \in Nat \ {0} /\ Len(log') = Len(log) - 1 /\ NextEvent = log[1]
          /\ \A k \in 1 .. Len(log) - 1 : log'[k] = log[k + 1]
        BY <1>1, TailElements DEF NextEvent
    <1> SUFFICES ASSUME NEW n \in 1 .. emitted[NextEvent.turn]
                 PROVE  Holds(log', ItemOf(NextEvent.turn, n))
        OBVIOUS
    <1>3. 1 \in 1 .. Len(log) /\ log[1].kind = "started" /\ n \in 1 .. emitted[log[1].turn]
        BY <1>2
    <1>4. PICK j \in 1 + 1 .. Len(log) : log[j] = ItemOf(log[1].turn, n)
        BY <1>3 DEF LogInOrder, StartsFirst
    <1>5. j - 1 \in 1 .. Len(log') /\ log'[j - 1] = ItemOf(NextEvent.turn, n)
        BY <1>2, <1>4
    <1>6. QED
        BY <1>5 DEF Holds

\* A start appended to the log takes nothing from what is collected.
LEMMA CollectedBegins ==
    ASSUME OwnerInv, Collected, BeginNative, UNCHANGED <<pc, observed, items>>
    PROVE  Collected'
    <1>0. MaxTurns \in Nat /\ MaxItems \in Nat
        BY OwnerConstants
    <1> DEFINE e == [kind |-> "started", turn |-> nextTurn, n |-> 0]
    <1>1. e \in Event /\ AppendEvent(e) /\ emitted' = emitted
        BY <1>0 DEF BeginNative, Event, OwnerInv, TypeOK, HarnessType
    <1> HIDE DEF e
    <1> SUFFICES ASSUME pc = "run", observed # NoTurn, ~gap', NEW n \in 1 .. emitted[observed]
                 PROVE  <<observed, n>> \in items \/ Holds(log', ItemOf(observed, n))
        BY <1>1 DEF Collected
    <1>2. ~gap /\ \A x : Holds(log, x) => Holds(log', x)
        BY <1>1, StillInLog
    <1>3. QED
        BY <1>2 DEF Collected

\* Every step keeps the items of the turn collected or in the log.
LEMMA CollectedStep == OwnerInv /\ TurnIds /\ LogInOrder /\ Collected /\ [Next]_vars => Collected'
    <1> SUFFICES ASSUME OwnerInv /\ TurnIds /\ LogInOrder /\ Collected, [Next]_vars PROVE Collected'
        OBVIOUS
    <1>0. MaxTurns \in Nat /\ MaxItems \in Nat /\ LogCap \in Nat \ {0} /\ QueueCap \in Nat \ {0}
          /\ MaxAttaches \in Nat
        BY OwnerConstants
    <1>1. CASE HarnessStarts
        BY <1>1, CollectedBegins DEF HarnessStarts, ownerVars, turnVars
    <1>2. CASE HarnessStartsUnasked
        BY <1>2, CollectedBegins DEF HarnessStartsUnasked, ownerVars, turnVars
    <1>3. CASE \E t \in Turns : HarnessEmits(t)
      <2> PICK t \in Turns : HarnessEmits(t)
        BY <1>3
      <2>1. /\ ItemOf(t, emitted[t] + 1) \in Event /\ AppendEvent(ItemOf(t, emitted[t] + 1))
            /\ emitted' = [emitted EXCEPT ![t] = @ + 1] /\ UNCHANGED <<pc, observed, items>>
        BY <1>0 DEF HarnessEmits, ItemOf, Event, OwnerInv, TypeOK, HarnessType, ownerVars, turnVars
      <2>2. emitted \in [Turns -> Nat] /\ observed \in Turns \cup {NoTurn}
        BY HarnessFacts DEF OwnerInv, TypeOK, OwnerType
      <2> SUFFICES ASSUME pc = "run", observed # NoTurn, ~gap', NEW n \in 1 .. emitted'[observed]
                   PROVE  <<observed, n>> \in items \/ Holds(log', ItemOf(observed, n))
        BY <2>1 DEF Collected
      <2>3. /\ ~gap /\ (\A x : Holds(log, x) => Holds(log', x))
            /\ Holds(log', ItemOf(t, emitted[t] + 1))
        BY <2>1, StillInLog
      <2>4. CASE n \in 1 .. emitted[observed]
        BY <2>3, <2>4 DEF Collected
      <2>5. CASE n \notin 1 .. emitted[observed]
        <3>1. observed = t /\ n = emitted[t] + 1
          BY <2>1, <2>2, <2>5
        <3>2. QED
          BY <2>3, <3>1
      <2>6. QED
        BY <2>4, <2>5
    <1>4. CASE HarnessCompletes
      <2> DEFINE e == [kind |-> "completed", turn |-> native, n |-> 0]
      <2>1. e \in Event /\ AppendEvent(e) /\ UNCHANGED <<emitted, pc, observed, items>>
        BY <1>4, <1>0 DEF HarnessCompletes, Event, OwnerInv, TypeOK, HarnessType, ownerVars, turnVars
      <2> HIDE DEF e
      <2> SUFFICES ASSUME pc = "run", observed # NoTurn, ~gap', NEW n \in 1 .. emitted[observed]
                   PROVE  <<observed, n>> \in items \/ Holds(log', ItemOf(observed, n))
        BY <2>1 DEF Collected
      <2>2. ~gap /\ \A x : Holds(log, x) => Holds(log', x)
        BY <2>1, StillInLog
      <2>3. QED
        BY <2>2 DEF Collected
    <1>5. CASE OwnerCancelled
        BY <1>5 DEF OwnerCancelled, Exit, Collected
    <1>6. CASE DropCrossTurn
      <2>1. TakeEvent /\ UNCHANGED <<pc, observed, items>>
        BY <1>6 DEF DropCrossTurn, ownerVars, turnVars
      <2>2. UNCHANGED <<emitted, gap>> /\ ~gap
        BY <2>1 DEF TakeEvent
      <2> SUFFICES ASSUME pc = "run", observed # NoTurn, NEW n \in 1 .. emitted[observed]
                   PROVE  <<observed, n>> \in items \/ Holds(log', ItemOf(observed, n))
        BY <2>1, <2>2 DEF Collected
      <2>3. observed = owned /\ owned \notin seen /\ NextEvent.turn # observed
        BY <1>6 DEF TurnIds, DropCrossTurn, CrossTurn
      <2>4. ItemOf(observed, n) # NextEvent
        BY <2>3 DEF ItemOf
      <2>5. <<observed, n>> \in items \/ Holds(log, ItemOf(observed, n))
        BY <2>2 DEF Collected
      <2>6. QED
        BY <2>1, <2>4, <2>5, TakenFromLog
    <1>7. CASE ApplyLate
      <2>1. TakeEvent /\ UNCHANGED <<pc, observed, items>>
        BY <1>7 DEF ApplyLate, ownerVars, turnVars
      <2>2. UNCHANGED <<emitted, gap>> /\ ~gap
        BY <2>1 DEF TakeEvent
      <2> SUFFICES ASSUME pc = "run", observed # NoTurn, NEW n \in 1 .. emitted[observed]
                   PROVE  <<observed, n>> \in items \/ Holds(log', ItemOf(observed, n))
        BY <2>1, <2>2 DEF Collected
      <2>3. observed = owned /\ owned \notin seen /\ NextEvent.turn # observed
        BY <1>7 DEF TurnIds, ApplyLate, Late
      <2>4. ItemOf(observed, n) # NextEvent
        BY <2>3 DEF ItemOf
      <2>5. <<observed, n>> \in items \/ Holds(log, ItemOf(observed, n))
        BY <2>2 DEF Collected
      <2>6. QED
        BY <2>1, <2>4, <2>5, TakenFromLog
    <1>8. CASE ApplyOwned
      <2>1. /\ pc = "run" /\ NextEvent \in Event /\ NextEvent.turn \in Turns
            /\ owned' = NextEvent.turn /\ (owned # NoTurn => owned = NextEvent.turn)
            /\ NoteOwned(NextEvent) /\ TakeEvent
        BY <1>8, OwnedEvent
      <2>2. UNCHANGED <<emitted, gap>> /\ ~gap
        BY <2>1 DEF TakeEvent
      <2> SUFFICES ASSUME observed' # NoTurn, NEW n \in 1 .. emitted[observed']
                   PROVE  <<observed', n>> \in items' \/ Holds(log', ItemOf(observed', n))
        BY <2>2 DEF Collected
      <2>3. CASE NextEvent.kind = "started"
        <3>1. observed' = NextEvent.turn
          BY <2>1, <2>3 DEF NoteOwned
        <3>2. QED
          BY <2>1, <2>3, <3>1, StartTaken
      <2>4. CASE NextEvent.kind # "started"
        <3>1. observed' = observed /\ items \subseteq items' /\ observed = NextEvent.turn
          BY <2>1, <2>4 DEF NoteOwned, TurnIds
        <3>2. <<observed, n>> \in items \/ Holds(log, ItemOf(observed, n))
          BY <2>1, <2>2, <3>1 DEF Collected
        <3>3. Holds(log, ItemOf(observed, n)) =>
                ItemOf(observed, n) = NextEvent \/ Holds(log', ItemOf(observed, n))
          BY <2>1, TakenFromLog
        <3>4. ItemOf(observed, n) = NextEvent => NextEvent.kind = "item" /\ NextEvent.n = n
          BY DEF ItemOf
        <3>5. NextEvent.kind = "item" => <<NextEvent.turn, NextEvent.n>> \in items'
          BY <2>1 DEF NoteOwned
        <3>6. QED
          BY <3>1, <3>2, <3>3, <3>4, <3>5
      <2>5. QED
        BY <2>3, <2>4
    <1>9. CASE AttachRefused
        BY <1>9 DEF AttachRefused, Exit, Collected
    <1>10. CASE HandleGap
      <2>1. CASE owned # NoTurn
        BY <1>10, <2>1 DEF HandleGap, Interrupting, Collected
      <2>2. CASE owned = NoTurn
        BY <1>10, <2>2 DEF HandleGap, TurnIds, Collected, turnVars
      <2>3. QED
        BY <2>1, <2>2
    <1>11. CASE HandleClosed
        BY <1>11 DEF HandleClosed, Interrupting, Exit, Collected
    <1>12. CASE AppendTurn
        BY <1>12 DEF AppendTurn, Collected
    <1>13. CASE AppendFails
        BY <1>13 DEF AppendFails, Exit, Collected
    <1>14. CASE SettleTurn
        BY <1>14 DEF SettleTurn, ResetTurn, Collected
    <1>15. CASE Finish
        BY <1>15 DEF Finish, Collected
    <1>16. CASE AttachOwner
        BY <1>16 DEF AttachOwner, InstallOwner, OwnerInv, Stages, TurnIds,
           Collected, turnVars
    <1>17. CASE OwnerExited
        BY <1>17 DEF OwnerExited, InstallOwner, OwnerInv, Stages, TurnIds,
           Collected, turnVars
    <1>18. CASE UNCHANGED vars
              \/ HarnessAnswers
              \/ HarnessRefuses
              \/ HarnessCloses
              \/ (\E i \in Intents : CallIntent(i))
              \/ (\E i \in Intents : SendIntent(i))
              \/ AdmitIntent
              \/ HandleAnswer
              \/ ParkAttach
              \/ RequestDetach
      <2>1. UNCHANGED <<pc, observed, items, gap, emitted, log>>
        BY <1>18 DEF HarnessAnswers, HarnessRefuses, HarnessCloses, CallIntent,
           SendIntent, AdmitIntent, HandleAnswer, ParkAttach, RequestDetach, Exit,
           vars, harnessVars, callerVars, coordVars, turnVars, ownerVars
      <2>2. QED
        BY <2>1 DEF Collected
    <1>19. QED
        BY <1>1, <1>2, <1>3, <1>4, <1>5, <1>6, <1>7, <1>8, <1>9, <1>10, <1>11,
           <1>12, <1>13, <1>14, <1>15, <1>16, <1>17, <1>18 DEF Next, OwnerStep

\* A completion is taken: everything the turn emitted before it is collected.
LEMMA CompletionTaken ==
    ASSUME OwnerInv, TurnIds, Past, LogInOrder, Collected, ApplyOwned, NextEvent.kind = "completed"
    PROVE  /\ owned' # native
           /\ observed # NoTurn => {observed} \X (1 .. atEnd[observed]) \subseteq items
    <1>1. /\ pc = "run" /\ owned' = NextEvent.turn /\ (owned # NoTurn => owned = NextEvent.turn)
          /\ TakeEvent
        BY OwnedEvent
    <1>2. log \in Seq(Event) /\ log # <<>> /\ ~gap
        BY <1>1, HarnessFacts DEF TakeEvent
    <1>3. NextEvent = log[1] /\ Len(log) \in Nat \ {0}
        BY <1>2, TailElements DEF NextEvent
    <1>4. 1 \in 1 .. Len(log) /\ log[1].kind = "completed"
        BY <1>3
    <1>5. /\ log[1].turn # native
          /\ \A j \in 1 + 1 .. Len(log) :
                log[j].kind = "item" /\ log[j].turn = log[1].turn => log[j].n > atEnd[log[1].turn]
        BY <1>4 DEF LogInOrder, EndsLast
    <1>6. ASSUME observed # NoTurn, NEW n \in 1 .. atEnd[observed]
          PROVE  <<observed, n>> \in items
      <2>1. observed = log[1].turn /\ observed \in Turns
        BY <1>1, <1>3, <1>6 DEF TurnIds, OwnerInv, TypeOK, OwnerType
      <2>2. atEnd[observed] \in Nat /\ emitted[observed] \in Nat /\ atEnd[observed] <= emitted[observed]
        BY <2>1, HarnessFacts DEF Past
      <2>3. <<observed, n>> \in items \/ Holds(log, ItemOf(observed, n))
        BY <1>1, <1>2, <1>6, <2>2 DEF Collected
      <2>4. ~Holds(log, ItemOf(observed, n))
        <3> SUFFICES ASSUME NEW i \in 1 .. Len(log), log[i] = ItemOf(observed, n) PROVE FALSE
          BY DEF Holds
        <3>1. log[i].kind = "item" /\ log[i].turn = observed /\ log[i].n = n
          BY DEF ItemOf
        <3>2. i \in 1 + 1 .. Len(log)
          BY <1>3, <1>4, <3>1
        <3>3. n > atEnd[observed]
          BY <1>5, <2>1, <3>1, <3>2
        <3>4. QED
          BY <1>6, <2>2, <3>3
      <2>5. QED
        BY <2>3, <2>4
    <1>7. observed # NoTurn => {observed} \X (1 .. atEnd[observed]) \subseteq items
        BY <1>6
    <1>8. QED
        BY <1>1, <1>3, <1>5, <1>7

\* Every step keeps what is about to be persisted as completed complete.
LEMMA CompleteStep == OwnerInv /\ TurnIds /\ Past /\ LogInOrder /\ Collected /\ Complete /\ [Next]_vars => Complete'
    <1> SUFFICES ASSUME OwnerInv /\ TurnIds /\ Past /\ LogInOrder /\ Collected /\ Complete, [Next]_vars PROVE Complete'
        OBVIOUS
    <1>0. MaxTurns \in Nat /\ MaxItems \in Nat /\ LogCap \in Nat \ {0} /\ QueueCap \in Nat \ {0}
          /\ MaxAttaches \in Nat
        BY OwnerConstants
    <1>1. CASE HarnessStarts
        BY <1>1, HarnessFacts DEF HarnessStarts, BeginNative, OwnerInv, Stages,
           TurnIds, Past, Complete, ownerVars, turnVars
    <1>2. CASE HarnessStartsUnasked
        BY <1>2, HarnessFacts DEF HarnessStartsUnasked, BeginNative, OwnerInv,
           Stages, TurnIds, Past, Complete, ownerVars, turnVars
    <1>3. CASE HarnessCompletes
      <2> SUFFICES ASSUME pc = "persisting", closing.status = "completed"
                   PROVE  /\ owned # native'
                          /\ observed # NoTurn => {observed} \X (1 .. atEnd'[observed]) \subseteq items
        BY <1>3 DEF HarnessCompletes, Complete, ownerVars, turnVars
      <2>1. owned # native /\ owned \in Turns /\ native \in Turns /\ native' = NoTurn
            /\ observed \in {NoTurn, owned}
        BY <1>3, PersistedIsOwned, HarnessFacts DEF HarnessCompletes, Complete, TurnIds
      <2>2. observed # NoTurn => atEnd'[observed] = atEnd[observed]
        BY <1>3, <2>1, HarnessFacts DEF HarnessCompletes
      <2>3. QED
        BY <2>1, <2>2 DEF Complete
    <1>4. CASE HarnessCloses
      <2>1. pc = "persisting" => owned \in Turns
        BY PersistedIsOwned
      <2>2. native' = NoTurn /\ UNCHANGED <<pc, closing, owned, observed, items, atEnd>>
        BY <1>4 DEF HarnessCloses, ownerVars, turnVars
      <2>3. QED
        BY <2>1, <2>2 DEF Complete
    <1>5. CASE OwnerCancelled
        BY <1>5 DEF OwnerCancelled, Exit, Complete
    <1>6. CASE ApplyOwned
      <2>1. CASE NextEvent.kind = "completed"
        <3>1. /\ owned' # native
              /\ observed # NoTurn => {observed} \X (1 .. atEnd[observed]) \subseteq items
          BY <1>6, <2>1, CompletionTaken
        <3>2. observed' = observed /\ items' = items /\ UNCHANGED <<native, atEnd>>
          BY <1>6, <2>1 DEF ApplyOwned, NoteOwned, TakeEvent
        <3>3. QED
          BY <3>1, <3>2 DEF Complete
      <2>2. CASE NextEvent.kind # "completed"
        BY <1>6, <2>2 DEF ApplyOwned, NoteOwned, TakeEvent, Running, Complete
      <2>3. QED
        BY <2>1, <2>2
    <1>7. CASE AttachRefused
        BY <1>7 DEF AttachRefused, Exit, Complete
    <1>8. CASE HandleGap
        BY <1>8 DEF HandleGap, Running, Interrupting, Complete
    <1>9. CASE HandleClosed
        BY <1>9 DEF HandleClosed, Running, Interrupting, Exit, Complete
    <1>10. CASE AppendTurn
        BY <1>10 DEF AppendTurn, Complete
    <1>11. CASE AppendFails
        BY <1>11 DEF AppendFails, Exit, Complete
    <1>12. CASE SettleTurn
        BY <1>12 DEF SettleTurn, OwnerInv, TypeOK, OwnerType, Complete
    <1>13. CASE Finish
        BY <1>13 DEF Finish, Complete
    <1>14. CASE AttachOwner
        BY <1>14 DEF AttachOwner, InstallOwner, Complete
    <1>15. CASE OwnerExited
        BY <1>15 DEF OwnerExited, InstallOwner, Complete
    <1>16. CASE UNCHANGED vars
              \/ HarnessAnswers
              \/ HarnessRefuses
              \/ (\E t \in Turns : HarnessEmits(t))
              \/ (\E i \in Intents : CallIntent(i))
              \/ (\E i \in Intents : SendIntent(i))
              \/ AdmitIntent
              \/ HandleAnswer
              \/ DropCrossTurn
              \/ ApplyLate
              \/ ParkAttach
              \/ RequestDetach
      <2>1. UNCHANGED <<pc, closing, owned, native, observed, atEnd, items>>
        BY <1>16 DEF HarnessAnswers, HarnessRefuses, HarnessEmits, CallIntent,
           SendIntent, AdmitIntent, HandleAnswer, DropCrossTurn, ApplyLate,
           ParkAttach, RequestDetach, TakeEvent, vars, harnessVars, callerVars,
           coordVars, turnVars, ownerVars
      <2>2. QED
        BY <2>1 DEF Complete
    <1>17. QED
        BY <1>1, <1>2, <1>3, <1>4, <1>5, <1>6, <1>7, <1>8, <1>9, <1>10, <1>11,
           <1>12, <1>13, <1>14, <1>15, <1>16 DEF Next, OwnerStep

\* A turn recorded as completed never runs again.
LEMMA EndedStep == OwnerInv /\ TurnIds /\ Past /\ Complete /\ Ended /\ [Next]_vars => Ended'
    <1> SUFFICES ASSUME OwnerInv /\ TurnIds /\ Past /\ Complete /\ Ended, [Next]_vars PROVE Ended'
        OBVIOUS
    <1>0. MaxTurns \in Nat /\ MaxItems \in Nat /\ LogCap \in Nat \ {0} /\ QueueCap \in Nat \ {0}
          /\ MaxAttaches \in Nat
        BY OwnerConstants
    <1>1. CASE HarnessStarts
        BY <1>1, HarnessFacts DEF HarnessStarts, BeginNative, Past, Begun, Ended
    <1>2. CASE HarnessStartsUnasked
        BY <1>2, HarnessFacts DEF HarnessStartsUnasked, BeginNative, Past, Begun,
           Ended
    <1>3. CASE HarnessCompletes
        BY <1>3, HarnessFacts DEF HarnessCompletes, Ended
    <1>4. CASE HarnessCloses
        BY <1>4, HarnessFacts DEF HarnessCloses, Ended
    <1>5. CASE ApplyLate
      <2>1. UNCHANGED native /\ (history' = history \/ history' = Amended(history, NextEvent))
        BY <1>5 DEF ApplyLate, TakeEvent
      <2>2. CASE history' = history
        BY <2>1, <2>2 DEF Ended
      <2>3. CASE history' = Amended(history, NextEvent)
        <3>1. history \in Seq(TurnRecord)
          BY HarnessFacts
        <3>2. Len(history') = Len(history)
          BY <2>3, <3>1 DEF Amended
        <3>3. \A k \in 1 .. Len(history) : history'[k].turn = history[k].turn
                                           /\ history'[k].status = history[k].status
          BY <2>3, <3>1, AmendedRecord
        <3>4. QED
          BY <2>1, <3>2, <3>3 DEF Ended
      <2>4. QED
        BY <2>1, <2>2, <2>3
    <1>6. CASE AppendTurn
      <2> DEFINE r == [turn |-> PersistedTurn, status |-> closing.status, ctx |-> ctx,
                       whole |-> observed # NoTurn, items |-> items]
      <2>1. r \in TurnRecord /\ r.turn = owned /\ r.status = closing.status
        BY <1>6, AppendedType, PersistedIsOwned DEF AppendTurn
      <2>2. history' = Append(history, r) /\ history \in Seq(TurnRecord) /\ native' = native
        BY <1>6, HarnessFacts DEF AppendTurn, harnessVars
      <2> HIDE DEF r
      <2>3. /\ Len(history) \in Nat /\ Len(history') = Len(history) + 1
            /\ history'[Len(history) + 1] = r
            /\ \A k \in 1 .. Len(history) : history'[k] = history[k]
        BY <2>1, <2>2, AppendElements
      <2>4. r.status = "completed" => r.turn # native
        BY <1>6, <2>1 DEF AppendTurn, Complete
      <2>5. QED
        BY <2>2, <2>3, <2>4 DEF Ended
    <1>7. CASE UNCHANGED vars
              \/ HarnessAnswers
              \/ HarnessRefuses
              \/ (\E t \in Turns : HarnessEmits(t))
              \/ (\E i \in Intents : CallIntent(i))
              \/ (\E i \in Intents : SendIntent(i))
              \/ OwnerCancelled
              \/ AdmitIntent
              \/ HandleAnswer
              \/ DropCrossTurn
              \/ ApplyOwned
              \/ AttachRefused
              \/ HandleGap
              \/ HandleClosed
              \/ AppendFails
              \/ SettleTurn
              \/ Finish
              \/ AttachOwner
              \/ ParkAttach
              \/ RequestDetach
              \/ OwnerExited
      <2>1. UNCHANGED <<history, native>>
        BY <1>7 DEF HarnessAnswers, HarnessRefuses, HarnessEmits, CallIntent,
           SendIntent, OwnerCancelled, AdmitIntent, HandleAnswer, DropCrossTurn,
           ApplyOwned, AttachRefused, HandleGap, HandleClosed, AppendFails,
           SettleTurn, Finish, AttachOwner, ParkAttach, RequestDetach, OwnerExited,
           TakeEvent, vars, harnessVars, callerVars, coordVars, turnVars, ownerVars
      <2>2. QED
        BY <2>1 DEF Ended
    <1>8. QED
        BY <1>1, <1>2, <1>3, <1>4, <1>5, <1>6, <1>7 DEF Next, OwnerStep

\* One record of the history is faithful, given what its turn had emitted at its
\* end.
RecordIsFaithful(h, ae) ==
    /\ h.items \subseteq {h.turn} \X (1 .. MaxItems)
    /\ h.status = "completed" /\ h.whole => {h.turn} \X (1 .. ae[h.turn]) \subseteq h.items

\* The history is faithful when each of its records is.
LEMMA FaithfulRecords ==
    /\ HistoryIsFaithful <=> \A k \in 1 .. Len(history) : RecordIsFaithful(history[k], atEnd)
    /\ HistoryIsFaithful' <=> \A k \in 1 .. Len(history') : RecordIsFaithful(history'[k], atEnd')
    BY DEF HistoryIsFaithful, RecordIsFaithful

\* Every step keeps the history faithful.
LEMMA FaithfulStep == OwnerInv /\ TurnIds /\ Complete /\ Ended /\ HistoryIsFaithful /\ [Next]_vars => HistoryIsFaithful'
    <1> SUFFICES ASSUME OwnerInv /\ TurnIds /\ Complete /\ Ended /\ HistoryIsFaithful, [Next]_vars PROVE HistoryIsFaithful'
        OBVIOUS
    <1>0. MaxTurns \in Nat /\ MaxItems \in Nat /\ LogCap \in Nat \ {0} /\ QueueCap \in Nat \ {0}
          /\ MaxAttaches \in Nat
        BY OwnerConstants
    <1>1. CASE HarnessCompletes
      <2>1. history' = history /\ atEnd' = [atEnd EXCEPT ![native] = emitted[native]]
        BY <1>1 DEF HarnessCompletes
      <2> SUFFICES ASSUME NEW k \in 1 .. Len(history) PROVE RecordIsFaithful(history[k], atEnd')
        BY <2>1, FaithfulRecords
      <2>2. RecordIsFaithful(history[k], atEnd) /\ history[k].turn \in Turns
        BY FaithfulRecords, HarnessFacts
      <2>3. history[k].status = "completed" => atEnd'[history[k].turn] = atEnd[history[k].turn]
        BY <2>1, <2>2, HarnessFacts DEF Ended
      <2>4. QED
        BY <2>2, <2>3 DEF RecordIsFaithful
    <1>2. CASE ApplyLate
      <2>1. /\ atEnd' = atEnd
            /\ \/ history' = history
               \/ NextEvent.kind = "item" /\ history' = Amended(history, NextEvent)
        BY <1>2 DEF ApplyLate, TakeEvent
      <2>2. CASE history' = history
        BY <2>1, <2>2, FaithfulRecords
      <2>3. CASE NextEvent.kind = "item" /\ history' = Amended(history, NextEvent)
        <3>1. history \in Seq(TurnRecord) /\ <<NextEvent.turn, NextEvent.n>> \in Item
          BY <1>2, <2>3, NextEventType, HarnessFacts DEF ApplyLate
        <3>2. Len(history') = Len(history)
          BY <2>3, <3>1 DEF Amended
        <3> SUFFICES ASSUME NEW k \in 1 .. Len(history) PROVE RecordIsFaithful(history'[k], atEnd)
          BY <2>1, <3>2, FaithfulRecords
        <3>3. /\ history'[k].turn = history[k].turn /\ history'[k].status = history[k].status
              /\ history'[k].whole = history[k].whole
              /\ \/ history'[k].items = history[k].items
                 \/ NextEvent.turn = history[k].turn
                    /\ history'[k].items = history[k].items \cup {<<NextEvent.turn, NextEvent.n>>}
          BY <2>3, <3>1, AmendedRecord
        <3>4. RecordIsFaithful(history[k], atEnd)
          BY FaithfulRecords
        <3>5. QED
          BY <3>1, <3>3, <3>4 DEF RecordIsFaithful, Item
      <2>4. QED
        BY <2>1, <2>2, <2>3
    <1>3. CASE AppendTurn
      <2> DEFINE r == [turn |-> PersistedTurn, status |-> closing.status, ctx |-> ctx,
                       whole |-> observed # NoTurn, items |-> items]
      <2>1. /\ r \in TurnRecord /\ r.turn = owned /\ r.status = closing.status
            /\ r.items = items /\ (r.whole <=> observed # NoTurn) /\ pc = "persisting"
        BY <1>3, AppendedType, PersistedIsOwned DEF AppendTurn
      <2>2. history' = Append(history, r) /\ history \in Seq(TurnRecord) /\ atEnd' = atEnd
        BY <1>3, HarnessFacts DEF AppendTurn, harnessVars
      <2> HIDE DEF r
      <2>3. /\ Len(history) \in Nat /\ Len(history') = Len(history) + 1
            /\ history'[Len(history) + 1] = r
            /\ \A k \in 1 .. Len(history) : history'[k] = history[k]
        BY <2>1, <2>2, AppendElements
      <2>4. RecordIsFaithful(r, atEnd)
        <3>1. r.items \subseteq {r.turn} \X (1 .. MaxItems)
          BY <2>1 DEF TurnIds
        <3>2. ASSUME r.status = "completed", r.whole
              PROVE  {r.turn} \X (1 .. atEnd[r.turn]) \subseteq r.items
          <4>1. observed # NoTurn /\ observed = owned
            BY <2>1, <3>2 DEF TurnIds
          <4>2. QED
            BY <2>1, <3>2, <4>1 DEF Complete
        <3>3. QED
          BY <3>1, <3>2 DEF RecordIsFaithful
      <2>5. \A k \in 1 .. Len(history) : RecordIsFaithful(history[k], atEnd)
        BY FaithfulRecords
      <2>6. \A k \in 1 .. Len(history') : RecordIsFaithful(history'[k], atEnd')
        BY <2>2, <2>3, <2>4, <2>5
      <2>7. QED
        BY <2>6, FaithfulRecords
    <1>4. CASE UNCHANGED vars
              \/ HarnessStarts
              \/ HarnessAnswers
              \/ HarnessRefuses
              \/ HarnessStartsUnasked
              \/ (\E t \in Turns : HarnessEmits(t))
              \/ HarnessCloses
              \/ (\E i \in Intents : CallIntent(i))
              \/ (\E i \in Intents : SendIntent(i))
              \/ OwnerCancelled
              \/ AdmitIntent
              \/ HandleAnswer
              \/ DropCrossTurn
              \/ ApplyOwned
              \/ AttachRefused
              \/ HandleGap
              \/ HandleClosed
              \/ AppendFails
              \/ SettleTurn
              \/ Finish
              \/ AttachOwner
              \/ ParkAttach
              \/ RequestDetach
              \/ OwnerExited
      <2>1. UNCHANGED <<history, atEnd>>
        BY <1>4 DEF HarnessStarts, HarnessAnswers, HarnessRefuses,
           HarnessStartsUnasked, HarnessEmits, HarnessCloses, CallIntent,
           SendIntent, OwnerCancelled, AdmitIntent, HandleAnswer, DropCrossTurn,
           ApplyOwned, AttachRefused, HandleGap, HandleClosed, AppendFails,
           SettleTurn, Finish, AttachOwner, ParkAttach, RequestDetach, OwnerExited,
           TakeEvent, BeginNative, vars, harnessVars, callerVars, coordVars,
           turnVars, ownerVars
      <2>2. QED
        BY <2>1 DEF HistoryIsFaithful
    <1>5. QED
        BY <1>1, <1>2, <1>3, <1>4 DEF Next, OwnerStep

\* The initial state satisfies the invariant.
LEMMA HistoryInit == Init => HistoryInv
    <1> SUFFICES ASSUME Init PROVE HistoryInv
        OBVIOUS
    <1>1. OwnerInv
        BY OwnerInit
    <1>2. TurnIds /\ Collected /\ Complete
        BY DEF Init, TurnIds, Collected, Complete
    <1>3. log = <<>> /\ history = <<>>
        BY DEF Init
    <1>4. LogInOrder /\ Ended /\ HistoryIsFaithful
        BY <1>3 DEF LogInOrder, StartsFirst, EndsLast, Ended, HistoryIsFaithful
    <1>5. Past
        BY <1>3 DEF Init, Past, Begun
    <1>6. QED
        BY <1>1, <1>2, <1>4, <1>5 DEF HistoryInv

\* Every step keeps the invariant.
LEMMA HistoryInvStep == HistoryInv /\ [Next]_vars => HistoryInv'
    BY OwnerInvStep, TurnIdsStep, PastStep, LogInOrderStep, CollectedStep, CompleteStep,
       EndedStep, FaithfulStep DEF HistoryInv

\* Whatever the harness emits, the log evicts and the driver replaces: a persisted
\* turn holds items of its own only, and a completed one whose start was seen
\* lacks none of those emitted before its end.
THEOREM HistoryCorrect == Spec => []HistoryIsFaithful
    <1>1. Init => HistoryInv
        BY HistoryInit
    <1>2. HistoryInv /\ [Next]_vars => HistoryInv'
        BY HistoryInvStep
    <1>3. HistoryInv => HistoryIsFaithful
        BY DEF HistoryInv
    <1>4. QED
        BY <1>1, <1>2, <1>3, PTL DEF Spec

-----------------------------------------------------------------------------
(* The answers.                                                            *)

\* The turn that the lease of an admitted intent adopts, or is about to adopt,
\* from the answer to its request is none that was persisted.
Live ==
    /\ admitted # None => owned = NoTurn
    /\ admitted # None /\ gate.ack # NoTurn => gate.ack \notin seen
    /\ admitted # None /\ inflight # None /\ request.turn # NoTurn => request.turn \notin seen

\* Every step keeps the turn of an admitted intent live.
LEMMA LiveStep == OwnerInv /\ TurnIds /\ Past /\ Live /\ [Next]_vars => Live'
    <1> SUFFICES ASSUME OwnerInv /\ TurnIds /\ Past /\ Live, [Next]_vars PROVE Live'
        OBVIOUS
    <1>0. MaxTurns \in Nat /\ MaxItems \in Nat /\ LogCap \in Nat \ {0} /\ QueueCap \in Nat \ {0}
          /\ MaxAttaches \in Nat
        BY OwnerConstants
    <1>1. CASE HarnessStarts
      <2>1. UNCHANGED <<admitted, owned, gate, seen, inflight>> /\ request'.turn = nextTurn
        BY <1>1 DEF HarnessStarts, ownerVars, turnVars
      <2>2. nextTurn \notin seen
        BY HarnessFacts DEF Past
      <2>3. QED
        BY <2>1, <2>2 DEF Live
    <1>2. CASE HarnessAnswers
      <2>1. UNCHANGED <<admitted, owned, gate, seen, inflight>> /\ request'.turn = request.turn
        BY <1>2 DEF HarnessAnswers, OwnerInv, TypeOK, HarnessType, ownerVars, turnVars
      <2>2. QED
        BY <2>1 DEF Live
    <1>3. CASE HarnessRefuses
      <2>1. UNCHANGED <<admitted, owned, gate, seen, inflight>> /\ request'.turn = NoTurn
        BY <1>3 DEF HarnessRefuses, ownerVars, turnVars
      <2>2. QED
        BY <2>1 DEF Live
    <1>4. CASE AdmitIntent
      <2>1. UNCHANGED <<owned, seen>>
        BY <1>4 DEF AdmitIntent, turnVars
      <2>2. CASE Busy \/ gate.active
        BY <1>4, <2>1, <2>2 DEF AdmitIntent, Live
      <2>3. CASE ~(Busy \/ gate.active)
        <3>1. owned = NoTurn /\ gate'.ack = NoTurn /\ request'.turn = NoTurn
          BY <1>4, <2>3 DEF AdmitIntent, Busy, Reserved
        <3>2. QED
          BY <2>1, <3>1 DEF Live
      <2>4. QED
        BY <2>2, <2>3
    <1>5. CASE HandleAnswer
      <2>1. UNCHANGED <<owned, seen>> /\ inflight' = None
        BY <1>5 DEF HandleAnswer, turnVars
      <2>2. CASE AnswerAccepted
        <3>1. admitted' = admitted
          BY <2>2 DEF AnswerAccepted
        <3>2. admitted # None => gate'.ack \in {gate.ack, request.turn}
          BY <2>2 DEF AnswerAccepted, Acknowledged, OwnerInv, TypeOK, GateType, Gates
        <3>3. admitted # None => inflight # None
          BY <1>5 DEF HandleAnswer
        <3>4. QED
          BY <2>1, <3>1, <3>2, <3>3 DEF Live
      <2>3. CASE AnswerRefused
        BY <2>1, <2>3 DEF AnswerRefused, Live
      <2>4. QED
        BY <1>5, <2>2, <2>3 DEF HandleAnswer
    <1>6. CASE ApplyOwned
      <2>1. CASE owned # NoTurn
        BY <1>6, <2>1 DEF ApplyOwned, Live
      <2>2. CASE owned = NoTurn
        BY <1>6, <2>2 DEF ApplyOwned, AttachToTurn, Live
      <2>3. QED
        BY <2>1, <2>2
    <1>7. CASE AppendTurn
      <2>1. admitted' = admitted /\ admitted = None
        BY <1>7 DEF AppendTurn, OwnerInv, Stages, GateHasOneHolder
      <2>2. QED
        BY <2>1 DEF Live
    <1>8. CASE AppendFails
      <2>1. admitted' = admitted /\ admitted = None
        BY <1>8 DEF AppendFails, OwnerInv, Stages, GateHasOneHolder
      <2>2. QED
        BY <2>1 DEF Live
    <1>9. CASE SettleTurn
      <2>1. admitted' = admitted /\ admitted = None
        BY <1>9 DEF SettleTurn, OwnerInv, Stages, GateHasOneHolder
      <2>2. QED
        BY <2>1 DEF Live
    <1>10. CASE Finish
        BY <1>10 DEF Finish, Live
    <1>11. CASE AttachOwner
      <2>1. admitted' = admitted /\ admitted = None
        BY <1>11 DEF AttachOwner, OwnerInv, Stages, GateHasOneHolder
      <2>2. QED
        BY <2>1 DEF Live
    <1>12. CASE OwnerExited
      <2>1. admitted' = admitted /\ admitted = None
        BY <1>12 DEF OwnerExited, OwnerInv, Stages, GateHasOneHolder
      <2>2. QED
        BY <2>1 DEF Live
    <1>13. CASE UNCHANGED vars
              \/ HarnessStartsUnasked
              \/ (\E t \in Turns : HarnessEmits(t))
              \/ HarnessCompletes
              \/ HarnessCloses
              \/ (\E i \in Intents : CallIntent(i))
              \/ (\E i \in Intents : SendIntent(i))
              \/ OwnerCancelled
              \/ DropCrossTurn
              \/ ApplyLate
              \/ AttachRefused
              \/ HandleGap
              \/ HandleClosed
              \/ ParkAttach
              \/ RequestDetach
      <2>1. UNCHANGED <<admitted, owned, gate, seen, inflight, request>>
        BY <1>13 DEF HarnessStartsUnasked, HarnessEmits, HarnessCompletes,
           HarnessCloses, CallIntent, SendIntent, OwnerCancelled, DropCrossTurn,
           ApplyLate, AttachRefused, HandleGap, HandleClosed, ParkAttach,
           RequestDetach, TakeEvent, Exit, vars, harnessVars, callerVars, coordVars,
           turnVars, ownerVars
      <2>2. QED
        BY <2>1 DEF Live
    <1>14. QED
        BY <1>1, <1>2, <1>3, <1>4, <1>5, <1>6, <1>7, <1>8, <1>9, <1>10, <1>11,
           <1>12, <1>13 DEF Next, OwnerStep

\* The gate offers a turn for steering only while the turn is in progress or its
\* intent is admitted.
LEMMA SteerableLive ==
    ASSUME OwnerInv, TurnIds, Live PROVE SteerableTurnIsLive
    <1> SUFFICES ASSUME SteerableTurn # NoTurn, pc # "settling" PROVE SteerableTurn \notin seen
        BY DEF SteerableTurnIsLive
    <1>1. gate.active /\ gate.blocked = NoTurn /\ SteerableTurn = gate.ack
        BY DEF SteerableTurn
    <1>2. admitted # None \/ lease
        BY <1>1 DEF OwnerInv, GateHasOneHolder
    <1>3. CASE lease
        BY <1>1, <1>3 DEF OwnerInv, GateHasOneHolder, TurnIds
    <1>4. CASE admitted # None
        BY <1>1, <1>4 DEF Live
    <1>5. QED
        BY <1>2, <1>3, <1>4

\* The owner has one request in flight, the one of the only call in flight, and
\* an admitted intent whose request is in flight is that call.
InFlight ==
    /\ inflight = None <=> request.st = "none"
    /\ inflight # None => reply[inflight] = "inflight"
    /\ admitted # None /\ inflight # None => admitted = inflight
    /\ \A i \in Intents : reply[i] = "inflight" => i = inflight

\* A call is queued once.
Queued ==
    /\ \A j, k \in 1 .. Len(queue) : queue[j] = queue[k] => j = k
    /\ \A k \in 1 .. Len(queue) : reply[queue[k]] = "queued"

\* The call whose input a turn has is in flight or answered.
Submitted == {"inflight", "ok", "err"}
Contexts ==
    /\ admitted \in Intents => reply[admitted] \in Submitted
    /\ ctx \in Intents => reply[ctx] \in Submitted
    /\ \A k \in 1 .. Len(history) : history[k].ctx \in Intents => reply[history[k].ctx] \in Submitted

Granted == {i \in Intents : reply[i] = "ok"}
Outstanding == IF request.st \in {"started", "ok"} THEN 1 ELSE 0

\* Before the first owner nothing was asked, granted or persisted.
FirstOwner ==
    attaches = 0 => /\ coord = "none" /\ pc = "idle" /\ inflight = None
                    /\ Granted = {} /\ history = <<>>

\* The types of the calls, as the proofs below use them.
LEMMA CallFacts ==
    ASSUME OwnerInv
    PROVE  /\ reply \in [Intents -> {"idle", "sending", "queued", "inflight", "ok", "err"}]
           /\ answered \in [Intents -> Turns \cup {NoTurn}] /\ queue \in Seq(Intents)
           /\ admitted \in Intents \cup {None} /\ inflight \in Intents \cup {None}
           /\ ctx \in Context /\ None \notin Intents /\ External \notin Intents
           /\ request.st \in {"none", "sent", "started", "ok", "err"}
           /\ request.turn \in Turns \cup {NoTurn}
    BY OwnerConstants DEF OwnerInv, TypeOK, CallerType, OwnerType, HarnessType

\* The head of the queue is a queued call, and none of the others is that call.
LEMMA QueueHead ==
    ASSUME OwnerInv, Queued, queue # <<>>
    PROVE  /\ Head(queue) \in Intents /\ reply[Head(queue)] = "queued"
           /\ Len(Tail(queue)) = Len(queue) - 1 /\ Len(queue) \in Nat \ {0}
           /\ \A k \in 1 .. Len(queue) - 1 : Tail(queue)[k] = queue[k + 1]
                                            /\ queue[k + 1] # Head(queue)
    <1>1. /\ queue \in Seq(Intents) /\ Len(queue) \in Nat \ {0} /\ Len(Tail(queue)) = Len(queue) - 1
          /\ \A k \in 1 .. Len(queue) - 1 : Tail(queue)[k] = queue[k + 1]
          /\ Head(queue) = queue[1] /\ queue[1] \in Intents
        BY CallFacts, TailElements
    <1>2. 1 \in 1 .. Len(queue)
        BY <1>1
    <1>3. \A k \in 1 .. Len(queue) - 1 : queue[k + 1] # queue[1]
        BY <1>1, <1>2 DEF Queued
    <1>4. QED
        BY <1>1, <1>2, <1>3 DEF Queued

\* Every step keeps one request in flight.
LEMMA InFlightStep == OwnerInv /\ Queued /\ InFlight /\ [Next]_vars => InFlight'
    <1> SUFFICES ASSUME OwnerInv /\ Queued /\ InFlight, [Next]_vars PROVE InFlight'
        OBVIOUS
    <1>0. MaxTurns \in Nat /\ MaxItems \in Nat /\ LogCap \in Nat \ {0} /\ QueueCap \in Nat \ {0}
          /\ MaxAttaches \in Nat
        BY OwnerConstants
    <1>1. CASE HarnessStarts
      <2>1. request.st = "sent" /\ request'.st = "started" /\ UNCHANGED <<inflight, reply, admitted>>
        BY <1>1 DEF HarnessStarts, callerVars, ownerVars
      <2>2. QED
        BY <2>1 DEF InFlight
    <1>2. CASE HarnessAnswers
      <2>1. request.st = "started" /\ request'.st = "ok" /\ UNCHANGED <<inflight, reply, admitted>>
        BY <1>2 DEF HarnessAnswers, callerVars, ownerVars, OwnerInv, TypeOK, HarnessType
      <2>2. QED
        BY <2>1 DEF InFlight
    <1>3. CASE HarnessRefuses
      <2>1. request.st = "sent" /\ request'.st = "err" /\ UNCHANGED <<inflight, reply, admitted>>
        BY <1>3 DEF HarnessRefuses, callerVars, ownerVars
      <2>2. QED
        BY <2>1 DEF InFlight
    <1>4. CASE \E i \in Intents : CallIntent(i)
      <2> PICK i \in Intents : CallIntent(i)
        BY <1>4
      <2>1. /\ reply[i] = "idle" /\ reply'[i] \in {"sending", "err"}
            /\ \A j \in Intents \ {i} : reply'[j] = reply[j]
            /\ UNCHANGED <<inflight, request, admitted>>
        BY CallFacts DEF CallIntent, ownerVars
      <2>2. QED
        BY <2>1, CallFacts DEF InFlight
    <1>5. CASE \E i \in Intents : SendIntent(i)
      <2> PICK i \in Intents : SendIntent(i)
        BY <1>5
      <2>1. /\ reply[i] = "sending" /\ reply'[i] = "queued"
            /\ \A j \in Intents \ {i} : reply'[j] = reply[j]
            /\ UNCHANGED <<inflight, request, admitted>>
        BY CallFacts DEF SendIntent, ownerVars
      <2>2. QED
        BY <2>1, CallFacts DEF InFlight
    <1>6. CASE AdmitIntent
      <2> DEFINE i == Head(queue)
      <2>1. i \in Intents /\ reply[i] = "queued"
        BY <1>6, QueueHead DEF AdmitIntent
      <2>2. CASE Busy \/ gate.active
        <3>1. /\ reply' = [reply EXCEPT ![i] = "err"] /\ UNCHANGED <<inflight, request, admitted>>
          BY <1>6, <2>2 DEF AdmitIntent
        <3> HIDE DEF i
        <3>2. reply'[i] = "err" /\ \A j \in Intents \ {i} : reply'[j] = reply[j]
          BY <2>1, <3>1, CallFacts
        <3>3. QED
          BY <2>1, <3>1, <3>2, CallFacts DEF InFlight
      <2>3. CASE ~(Busy \/ gate.active)
        <3>1. /\ reply' = [reply EXCEPT ![i] = "inflight"] /\ inflight' = i /\ admitted' = i
              /\ request'.st = "sent" /\ inflight = None
          BY <1>6, <2>3 DEF AdmitIntent, Busy
        <3> HIDE DEF i
        <3>2. reply'[i] = "inflight" /\ \A j \in Intents \ {i} : reply'[j] = reply[j]
          BY <2>1, <3>1, CallFacts
        <3>3. QED
          BY <2>1, <3>1, <3>2, CallFacts DEF InFlight
      <2>4. QED
        BY <2>2, <2>3
    <1>7. CASE HandleAnswer
      <2>1. inflight' = None /\ request'.st = "none" /\ inflight \in Intents
        BY <1>7, CallFacts DEF HandleAnswer, NoRequest
      <2>2. reply' = [reply EXCEPT ![inflight] = "ok"] \/ reply' = [reply EXCEPT ![inflight] = "err"]
        BY <1>7 DEF HandleAnswer, AnswerAccepted, AnswerRefused
      <2>3. reply'[inflight] # "inflight" /\ \A j \in Intents \ {inflight} : reply'[j] = reply[j]
        BY <2>1, <2>2, CallFacts
      <2>4. QED
        BY <2>1, <2>3 DEF InFlight
    <1>8. CASE ApplyOwned
      <2>1. UNCHANGED <<inflight, request, reply>> /\ admitted' \in {admitted, None}
        BY <1>8 DEF ApplyOwned, AttachToTurn, callerVars
      <2>2. QED
        BY <2>1 DEF InFlight
    <1>9. CASE Finish
      <2>1. /\ inflight' = None /\ request'.st = "none"
            /\ \A i \in Intents : reply'[i] # "inflight"
        BY <1>9 DEF Finish, NoRequest
      <2>2. QED
        BY <2>1 DEF InFlight
    <1>10. CASE UNCHANGED vars
              \/ HarnessStartsUnasked
              \/ (\E t \in Turns : HarnessEmits(t))
              \/ HarnessCompletes
              \/ HarnessCloses
              \/ OwnerCancelled
              \/ DropCrossTurn
              \/ ApplyLate
              \/ AttachRefused
              \/ HandleGap
              \/ HandleClosed
              \/ AppendTurn
              \/ AppendFails
              \/ SettleTurn
              \/ AttachOwner
              \/ ParkAttach
              \/ RequestDetach
              \/ OwnerExited
      <2>1. UNCHANGED <<inflight, request, reply, admitted>>
        BY <1>10 DEF HarnessStartsUnasked, HarnessEmits, HarnessCompletes,
           HarnessCloses, OwnerCancelled, DropCrossTurn, ApplyLate, AttachRefused,
           HandleGap, HandleClosed, AppendTurn, AppendFails, SettleTurn,
           AttachOwner, ParkAttach, RequestDetach, OwnerExited, TakeEvent, vars,
           harnessVars, callerVars, coordVars, turnVars, ownerVars
      <2>2. QED
        BY <2>1 DEF InFlight
    <1>11. QED
        BY <1>1, <1>2, <1>3, <1>4, <1>5, <1>6, <1>7, <1>8, <1>9, <1>10 DEF Next,
           OwnerStep

\* Every step keeps each call queued once.
LEMMA QueuedStep == OwnerInv /\ Queued /\ InFlight /\ [Next]_vars => Queued'
    <1> SUFFICES ASSUME OwnerInv /\ Queued /\ InFlight, [Next]_vars PROVE Queued'
        OBVIOUS
    <1>0. MaxTurns \in Nat /\ MaxItems \in Nat /\ LogCap \in Nat \ {0} /\ QueueCap \in Nat \ {0}
          /\ MaxAttaches \in Nat
        BY OwnerConstants
    <1>1. CASE \E i \in Intents : CallIntent(i)
      <2> PICK i \in Intents : CallIntent(i)
        BY <1>1
      <2>1. /\ reply[i] = "idle" /\ queue' = queue
            /\ \A j \in Intents \ {i} : reply'[j] = reply[j]
        BY CallFacts DEF CallIntent
      <2>2. \A k \in 1 .. Len(queue) : queue[k] \in Intents \ {i}
        BY <2>1, CallFacts DEF Queued
      <2>3. QED
        BY <2>1, <2>2 DEF Queued
    <1>2. CASE \E i \in Intents : SendIntent(i)
      <2> PICK i \in Intents : SendIntent(i)
        BY <1>2
      <2>1. /\ reply[i] = "sending" /\ queue' = Append(queue, i) /\ reply'[i] = "queued"
            /\ \A j \in Intents \ {i} : reply'[j] = reply[j]
        BY CallFacts DEF SendIntent
      <2>2. \A k \in 1 .. Len(queue) : queue[k] \in Intents \ {i}
        BY <2>1, CallFacts DEF Queued
      <2>3. /\ Len(queue) \in Nat /\ Len(queue') = Len(queue) + 1 /\ queue'[Len(queue) + 1] = i
            /\ \A k \in 1 .. Len(queue) : queue'[k] = queue[k]
        BY <2>1, CallFacts, AppendElements
      <2>4. \A k \in 1 .. Len(queue') : reply'[queue'[k]] = "queued"
        BY <2>1, <2>2, <2>3 DEF Queued
      <2>5. \A j, k \in 1 .. Len(queue') : queue'[j] = queue'[k] => j = k
        BY <2>1, <2>2, <2>3 DEF Queued
      <2>6. QED
        BY <2>4, <2>5 DEF Queued
    <1>3. CASE AdmitIntent
      <2> DEFINE i == Head(queue)
      <2>1. queue # <<>> /\ queue' = Tail(queue)
        BY <1>3 DEF AdmitIntent
      <2>2. /\ i \in Intents /\ Len(queue') = Len(queue) - 1 /\ Len(queue) \in Nat \ {0}
            /\ \A k \in 1 .. Len(queue) - 1 : queue'[k] = queue[k + 1] /\ queue[k + 1] # i
        BY <2>1, QueueHead
      <2>3. reply' = [reply EXCEPT ![i] = "err"] \/ reply' = [reply EXCEPT ![i] = "inflight"]
        BY <1>3 DEF AdmitIntent
      <2> HIDE DEF i
      <2>4. \A j \in Intents \ {i} : reply'[j] = reply[j]
        BY <2>2, <2>3, CallFacts
      <2>5. \A k \in 1 .. Len(queue') : reply'[queue'[k]] = "queued"
        <3> TAKE k \in 1 .. Len(queue')
        <3>1. k + 1 \in 1 .. Len(queue) /\ queue'[k] = queue[k + 1] /\ queue[k + 1] # i
          BY <2>2
        <3>2. queue[k + 1] \in Intents /\ reply[queue[k + 1]] = "queued"
          BY <3>1, CallFacts DEF Queued
        <3>3. QED
          BY <2>4, <3>1, <3>2
      <2>6. \A j, k \in 1 .. Len(queue') : queue'[j] = queue'[k] => j = k
        <3> TAKE j, k \in 1 .. Len(queue')
        <3>1. /\ j + 1 \in 1 .. Len(queue) /\ k + 1 \in 1 .. Len(queue)
              /\ queue'[j] = queue[j + 1] /\ queue'[k] = queue[k + 1]
          BY <2>2
        <3>2. queue[j + 1] = queue[k + 1] => j + 1 = k + 1
          BY <3>1 DEF Queued
        <3>3. QED
          BY <3>1, <3>2
      <2>7. QED
        BY <2>5, <2>6 DEF Queued
    <1>4. CASE HandleAnswer
      <2>1. queue' = queue /\ inflight \in Intents /\ reply[inflight] = "inflight"
        BY <1>4, CallFacts DEF HandleAnswer, InFlight
      <2>2. reply' = [reply EXCEPT ![inflight] = "ok"] \/ reply' = [reply EXCEPT ![inflight] = "err"]
        BY <1>4 DEF HandleAnswer, AnswerAccepted, AnswerRefused
      <2>3. \A j \in Intents \ {inflight} : reply'[j] = reply[j]
        BY <2>1, <2>2, CallFacts
      <2>4. \A k \in 1 .. Len(queue) : queue[k] \in Intents \ {inflight}
        BY <2>1, CallFacts DEF Queued
      <2>5. QED
        BY <2>1, <2>3, <2>4 DEF Queued
    <1>5. CASE Finish
        BY <1>5 DEF Finish, Queued
    <1>6. CASE UNCHANGED vars
              \/ HarnessStarts
              \/ HarnessAnswers
              \/ HarnessRefuses
              \/ HarnessStartsUnasked
              \/ (\E t \in Turns : HarnessEmits(t))
              \/ HarnessCompletes
              \/ HarnessCloses
              \/ OwnerCancelled
              \/ DropCrossTurn
              \/ ApplyLate
              \/ ApplyOwned
              \/ AttachRefused
              \/ HandleGap
              \/ HandleClosed
              \/ AppendTurn
              \/ AppendFails
              \/ SettleTurn
              \/ AttachOwner
              \/ ParkAttach
              \/ RequestDetach
              \/ OwnerExited
      <2>1. UNCHANGED <<queue, reply>>
        BY <1>6 DEF HarnessStarts, HarnessAnswers, HarnessRefuses,
           HarnessStartsUnasked, HarnessEmits, HarnessCompletes, HarnessCloses,
           OwnerCancelled, DropCrossTurn, ApplyLate, ApplyOwned, AttachRefused,
           HandleGap, HandleClosed, AppendTurn, AppendFails, SettleTurn,
           AttachOwner, ParkAttach, RequestDetach, OwnerExited, TakeEvent,
           callerVars, vars, harnessVars, callerVars, coordVars, turnVars, ownerVars
      <2>2. QED
        BY <2>1 DEF Queued
    <1>7. QED
        BY <1>1, <1>2, <1>3, <1>4, <1>5, <1>6 DEF Next, OwnerStep

\* An answered call stays as it was answered, and a call in flight stays so until
\* it is answered.
LEMMA AnswersStand == OwnerInv /\ Queued /\ InFlight /\ [Next]_vars => 
      (\A i \in Intents : (reply[i] \in {"ok", "err"} => reply'[i] = reply[i] /\ answered'[i] = answered[i])
                          /\ (reply[i] = "inflight" => reply'[i] \in Submitted))
    <1> SUFFICES ASSUME OwnerInv /\ Queued /\ InFlight, [Next]_vars PROVE 
      (\A i \in Intents : (reply[i] \in {"ok", "err"} => reply'[i] = reply[i] /\ answered'[i] = answered[i])
                          /\ (reply[i] = "inflight" => reply'[i] \in Submitted))
        OBVIOUS
    <1>0. MaxTurns \in Nat /\ MaxItems \in Nat /\ LogCap \in Nat \ {0} /\ QueueCap \in Nat \ {0}
          /\ MaxAttaches \in Nat
        BY OwnerConstants
    <1>1. CASE \E i \in Intents : CallIntent(i)
      <2> PICK i \in Intents : CallIntent(i)
        BY <1>1
      <2>1. /\ reply[i] = "idle" /\ answered' = answered
            /\ \A j \in Intents \ {i} : reply'[j] = reply[j]
        BY CallFacts DEF CallIntent
      <2>2. QED
        BY <2>1 DEF Submitted
    <1>2. CASE \E i \in Intents : SendIntent(i)
      <2> PICK i \in Intents : SendIntent(i)
        BY <1>2
      <2>1. /\ reply[i] = "sending" /\ answered' = answered
            /\ \A j \in Intents \ {i} : reply'[j] = reply[j]
        BY CallFacts DEF SendIntent
      <2>2. QED
        BY <2>1 DEF Submitted
    <1>3. CASE AdmitIntent
      <2> DEFINE i == Head(queue)
      <2>1. i \in Intents /\ reply[i] = "queued" /\ answered' = answered
        BY <1>3, QueueHead DEF AdmitIntent
      <2>2. reply' = [reply EXCEPT ![i] = "err"] \/ reply' = [reply EXCEPT ![i] = "inflight"]
        BY <1>3 DEF AdmitIntent
      <2> HIDE DEF i
      <2>3. \A j \in Intents \ {i} : reply'[j] = reply[j]
        BY <2>1, <2>2, CallFacts
      <2>4. QED
        BY <2>1, <2>3 DEF Submitted
    <1>4. CASE HandleAnswer
      <2>1. inflight \in Intents /\ reply[inflight] = "inflight"
        BY <1>4, CallFacts DEF HandleAnswer, InFlight
      <2>2. reply' = [reply EXCEPT ![inflight] = "ok"] \/ reply' = [reply EXCEPT ![inflight] = "err"]
        BY <1>4 DEF HandleAnswer, AnswerAccepted, AnswerRefused
      <2>3. /\ reply'[inflight] \in {"ok", "err"}
            /\ \A j \in Intents \ {inflight} : reply'[j] = reply[j]
        BY <2>1, <2>2, CallFacts
      <2>4. \A j \in Intents \ {inflight} : answered'[j] = answered[j]
        BY <1>4, <2>1, CallFacts DEF HandleAnswer, AnswerAccepted, AnswerRefused
      <2>5. QED
        BY <2>1, <2>3, <2>4 DEF Submitted
    <1>5. CASE Finish
        BY <1>5 DEF Finish, Submitted
    <1>6. CASE UNCHANGED vars
              \/ HarnessStarts
              \/ HarnessAnswers
              \/ HarnessRefuses
              \/ HarnessStartsUnasked
              \/ (\E t \in Turns : HarnessEmits(t))
              \/ HarnessCompletes
              \/ HarnessCloses
              \/ OwnerCancelled
              \/ DropCrossTurn
              \/ ApplyLate
              \/ ApplyOwned
              \/ AttachRefused
              \/ HandleGap
              \/ HandleClosed
              \/ AppendTurn
              \/ AppendFails
              \/ SettleTurn
              \/ AttachOwner
              \/ ParkAttach
              \/ RequestDetach
              \/ OwnerExited
      <2>1. UNCHANGED <<reply, answered>>
        BY <1>6 DEF HarnessStarts, HarnessAnswers, HarnessRefuses,
           HarnessStartsUnasked, HarnessEmits, HarnessCompletes, HarnessCloses,
           OwnerCancelled, DropCrossTurn, ApplyLate, ApplyOwned, AttachRefused,
           HandleGap, HandleClosed, AppendTurn, AppendFails, SettleTurn,
           AttachOwner, ParkAttach, RequestDetach, OwnerExited, TakeEvent,
           callerVars, vars, harnessVars, callerVars, coordVars, turnVars, ownerVars
      <2>2. QED
        BY <2>1 DEF Submitted
    <1>7. QED
        BY <1>1, <1>2, <1>3, <1>4, <1>5, <1>6 DEF Next, OwnerStep

\* Every step keeps the calls behind admitted intents and turns submitted.
LEMMA ContextsStep == OwnerInv /\ Queued /\ InFlight /\ Contexts /\ [Next]_vars => Contexts'
    <1> SUFFICES ASSUME OwnerInv /\ Queued /\ InFlight /\ Contexts, [Next]_vars PROVE Contexts'
        OBVIOUS
    <1>0. MaxTurns \in Nat /\ MaxItems \in Nat /\ LogCap \in Nat \ {0} /\ QueueCap \in Nat \ {0}
          /\ MaxAttaches \in Nat
        BY OwnerConstants
    <1>s. \A i \in Intents : reply[i] \in Submitted => reply'[i] \in Submitted
        BY AnswersStand DEF Submitted
    <1>1. CASE AdmitIntent
      <2>1. UNCHANGED <<ctx, history>>
        BY <1>1 DEF AdmitIntent, turnVars
      <2>2. admitted' = admitted \/ (admitted' \in Intents /\ reply'[admitted'] = "inflight")
        <3>1. CASE Busy \/ gate.active
          BY <1>1, <3>1 DEF AdmitIntent
        <3>2. CASE ~(Busy \/ gate.active)
          BY <1>1, <3>2, QueueHead, CallFacts DEF AdmitIntent
        <3>3. QED
          BY <3>1, <3>2
      <2>3. QED
        BY <1>s, <2>1, <2>2 DEF Contexts, Submitted
    <1>2. CASE HandleAnswer
      <2>1. UNCHANGED <<ctx, history>> /\ admitted' \in {admitted, None}
        BY <1>2 DEF HandleAnswer, AnswerAccepted, AnswerRefused, turnVars
      <2>2. QED
        BY <1>s, <2>1, CallFacts DEF Contexts, Submitted
    <1>3. CASE ApplyOwned
      <2>1. history' = history /\ admitted' \in {admitted, None} /\ ctx' \in {ctx, admitted, External}
        BY <1>3 DEF ApplyOwned, AttachToTurn
      <2>2. QED
        BY <1>s, <2>1, CallFacts DEF Contexts, Submitted
    <1>4. CASE ApplyLate
      <2>1. /\ UNCHANGED <<ctx, admitted>>
            /\ history' = history \/ history' = Amended(history, NextEvent)
        BY <1>4 DEF ApplyLate, turnVars, ownerVars
      <2>2. CASE history' = history
        BY <1>s, <2>1, <2>2 DEF Contexts, Submitted
      <2>3. CASE history' = Amended(history, NextEvent)
        <3>1. history \in Seq(TurnRecord)
          BY HarnessFacts
        <3>2. Len(history') = Len(history)
          BY <2>3, <3>1 DEF Amended
        <3>3. \A k \in 1 .. Len(history) : history'[k].ctx = history[k].ctx
          BY <2>3, <3>1, AmendedRecord
        <3>4. QED
          BY <1>s, <2>1, <3>2, <3>3 DEF Contexts, Submitted
      <2>4. QED
        BY <2>1, <2>2, <2>3
    <1>5. CASE AppendTurn
      <2> DEFINE r == [turn |-> PersistedTurn, status |-> closing.status, ctx |-> ctx,
                       whole |-> observed # NoTurn, items |-> items]
      <2>1. r \in TurnRecord /\ r.ctx = ctx
        BY <1>5, AppendedType DEF AppendTurn
      <2>2. history' = Append(history, r) /\ history \in Seq(TurnRecord) /\ UNCHANGED <<ctx, admitted>>
        BY <1>5, HarnessFacts DEF AppendTurn, turnVars
      <2> HIDE DEF r
      <2>3. /\ Len(history) \in Nat /\ Len(history') = Len(history) + 1
            /\ history'[Len(history) + 1] = r
            /\ \A k \in 1 .. Len(history) : history'[k] = history[k]
        BY <2>1, <2>2, AppendElements
      <2>4. QED
        BY <1>s, <2>1, <2>2, <2>3 DEF Contexts, Submitted
    <1>6. CASE SettleTurn
      <2>1. UNCHANGED <<admitted, history>> /\ ctx' = None
        BY <1>6 DEF SettleTurn, ResetTurn
      <2>2. QED
        BY <1>s, <2>1, CallFacts DEF Contexts, Submitted
    <1>7. CASE Finish
      <2>1. admitted' = None /\ history' = history /\ ctx' = None
        BY <1>7 DEF Finish, ResetTurn
      <2>2. QED
        BY <1>s, <2>1, CallFacts DEF Contexts, Submitted
    <1>8. CASE UNCHANGED vars
              \/ HarnessStarts
              \/ HarnessAnswers
              \/ HarnessRefuses
              \/ HarnessStartsUnasked
              \/ (\E t \in Turns : HarnessEmits(t))
              \/ HarnessCompletes
              \/ HarnessCloses
              \/ (\E i \in Intents : CallIntent(i))
              \/ (\E i \in Intents : SendIntent(i))
              \/ OwnerCancelled
              \/ DropCrossTurn
              \/ AttachRefused
              \/ HandleGap
              \/ HandleClosed
              \/ AppendFails
              \/ AttachOwner
              \/ ParkAttach
              \/ RequestDetach
              \/ OwnerExited
      <2>1. UNCHANGED <<ctx, admitted, history>>
        BY <1>8 DEF HarnessStarts, HarnessAnswers, HarnessRefuses,
           HarnessStartsUnasked, HarnessEmits, HarnessCompletes, HarnessCloses,
           CallIntent, SendIntent, OwnerCancelled, DropCrossTurn, AttachRefused,
           HandleGap, HandleClosed, AppendFails, AttachOwner, ParkAttach,
           RequestDetach, OwnerExited, TakeEvent, vars, harnessVars, callerVars,
           coordVars, turnVars, ownerVars
      <2>2. QED
        BY <2>1, <1>s DEF Contexts, Submitted
    <1>9. QED
        BY <1>1, <1>2, <1>3, <1>4, <1>5, <1>6, <1>7, <1>8 DEF Next, OwnerStep

\* Before the first owner nothing happens to a call but that it is refused.
LEMMA FirstOwnerStep == OwnerInv /\ Queued /\ InFlight /\ FirstOwner /\ [Next]_vars => FirstOwner'
    <1> SUFFICES ASSUME OwnerInv /\ Queued /\ InFlight /\ FirstOwner, [Next]_vars PROVE FirstOwner'
        OBVIOUS
    <1>0. MaxTurns \in Nat /\ MaxItems \in Nat /\ LogCap \in Nat \ {0} /\ QueueCap \in Nat \ {0}
          /\ MaxAttaches \in Nat
        BY OwnerConstants
    <1>1. CASE \E i \in Intents : CallIntent(i)
      <2> PICK i \in Intents : CallIntent(i)
        BY <1>1
      <2>1. /\ reply'[i] # "ok" /\ reply[i] # "ok"
            /\ \A j \in Intents \ {i} : reply'[j] = reply[j]
        BY CallFacts DEF CallIntent
      <2>2. UNCHANGED <<attaches, coord, pc, inflight, history>>
        BY DEF CallIntent, coordVars, ownerVars
      <2>3. Granted' = Granted
        BY <2>1 DEF Granted
      <2>4. QED
        BY <2>2, <2>3 DEF FirstOwner
    <1>2. CASE \E i \in Intents : SendIntent(i)
      <2> PICK i \in Intents : SendIntent(i)
        BY <1>2
      <2>1. /\ reply'[i] # "ok" /\ reply[i] # "ok"
            /\ \A j \in Intents \ {i} : reply'[j] = reply[j]
        BY CallFacts DEF SendIntent
      <2>2. UNCHANGED <<attaches, coord, pc, inflight, history>>
        BY DEF SendIntent, coordVars, ownerVars
      <2>3. Granted' = Granted
        BY <2>1 DEF Granted
      <2>4. QED
        BY <2>2, <2>3 DEF FirstOwner
    <1>3. CASE OwnerCancelled
        BY <1>3 DEF OwnerCancelled, FirstOwner, coordVars
    <1>4. CASE AdmitIntent
        BY <1>4 DEF AdmitIntent, Running, FirstOwner, coordVars
    <1>5. CASE HandleAnswer
        BY <1>5 DEF HandleAnswer, Running, FirstOwner, coordVars
    <1>6. CASE DropCrossTurn
        BY <1>6 DEF DropCrossTurn, TakeEvent, Running, FirstOwner, coordVars
    <1>7. CASE ApplyLate
        BY <1>7 DEF ApplyLate, TakeEvent, Running, FirstOwner, coordVars
    <1>8. CASE ApplyOwned
        BY <1>8 DEF ApplyOwned, TakeEvent, Running, FirstOwner, coordVars
    <1>9. CASE AttachRefused
        BY <1>9 DEF AttachRefused, TakeEvent, Running, FirstOwner, coordVars
    <1>10. CASE HandleGap
        BY <1>10 DEF HandleGap, Running, FirstOwner, coordVars
    <1>11. CASE HandleClosed
        BY <1>11 DEF HandleClosed, Running, FirstOwner, coordVars
    <1>12. CASE AppendTurn
        BY <1>12 DEF AppendTurn, FirstOwner, coordVars
    <1>13. CASE AppendFails
        BY <1>13 DEF AppendFails, FirstOwner, coordVars
    <1>14. CASE SettleTurn
        BY <1>14 DEF SettleTurn, FirstOwner, coordVars
    <1>15. CASE Finish
        BY <1>15 DEF Finish, FirstOwner, coordVars
    <1>16. CASE AttachOwner
        BY <1>16, <1>0 DEF AttachOwner, InstallOwner, FirstOwner, OwnerInv, TypeOK,
           OwnerType
    <1>17. CASE RequestDetach
        BY <1>17 DEF RequestDetach, FirstOwner
    <1>18. CASE OwnerExited
        BY <1>18, <1>0 DEF OwnerExited, InstallOwner, FirstOwner, OwnerInv, TypeOK,
           OwnerType
    <1>19. CASE UNCHANGED vars
              \/ HarnessStarts
              \/ HarnessAnswers
              \/ HarnessRefuses
              \/ HarnessStartsUnasked
              \/ (\E t \in Turns : HarnessEmits(t))
              \/ HarnessCompletes
              \/ HarnessCloses
              \/ ParkAttach
      <2>1. UNCHANGED <<attaches, coord, pc, inflight, reply, history>>
        BY <1>19 DEF HarnessStarts, HarnessAnswers, HarnessRefuses,
           HarnessStartsUnasked, HarnessEmits, HarnessCompletes, HarnessCloses,
           ParkAttach, TakeEvent, vars, harnessVars, callerVars, coordVars,
           turnVars, ownerVars
      <2>2. QED
        BY <2>1 DEF FirstOwner, Granted
    <1>20. QED
        BY <1>1, <1>2, <1>3, <1>4, <1>5, <1>6, <1>7, <1>8, <1>9, <1>10, <1>11,
           <1>12, <1>13, <1>14, <1>15, <1>16, <1>17, <1>18, <1>19 DEF Next,
           OwnerStep

\* How many native turns nobody asked for: all but those whose call is answered
\* or has its request in flight.
Unasked == nextTurn - 1 - (Cardinality(Granted) + Outstanding)
Counted == IsFiniteSet(Granted) /\ Unasked >= 0

\* The counts are numbers.
LEMMA CountFacts ==
    ASSUME OwnerInv, Counted
    PROVE  /\ Cardinality(Granted) \in Nat /\ nextTurn \in Nat /\ Outstanding \in {0, 1}
           /\ Unasked \in Nat /\ (EveryTurnWasAsked <=> Unasked = 0)
    <1>1. Cardinality(Granted) \in Nat /\ nextTurn \in Nat /\ Outstanding \in {0, 1}
        BY FS_CardinalityType, HarnessFacts DEF Counted, Outstanding
    <1>2. EveryTurnWasAsked <=> nextTurn - 1 = Cardinality(Granted) + Outstanding
        BY DEF EveryTurnWasAsked, Granted, Outstanding
    <1>3. QED
        BY <1>1, <1>2 DEF Counted, Unasked

\* A step never makes a turn asked for after the fact.
LEMMA CountedStep == OwnerInv /\ Queued /\ InFlight /\ Counted /\ [Next]_vars => (IsFiniteSet(Granted') /\ Unasked' >= Unasked)
    <1> SUFFICES ASSUME OwnerInv /\ Queued /\ InFlight /\ Counted, [Next]_vars PROVE (IsFiniteSet(Granted') /\ Unasked' >= Unasked)
        OBVIOUS
    <1>0. MaxTurns \in Nat /\ MaxItems \in Nat /\ LogCap \in Nat \ {0} /\ QueueCap \in Nat \ {0}
          /\ MaxAttaches \in Nat
        BY OwnerConstants
    <1>1. CASE HarnessStarts
      <2>1. reply' = reply /\ nextTurn' = nextTurn + 1 /\ request.st = "sent" /\ request'.st = "started"
        BY <1>1 DEF HarnessStarts, BeginNative, callerVars
      <2>2. Granted' = Granted /\ Outstanding = 0 /\ Outstanding' = 1
        BY <2>1 DEF Granted, Outstanding
      <2>3. QED
        BY <2>1, <2>2, CountFacts DEF Counted, Unasked
    <1>2. CASE HarnessAnswers
      <2>1. reply' = reply /\ nextTurn' = nextTurn /\ request.st = "started" /\ request'.st = "ok"
        BY <1>2 DEF HarnessAnswers, harnessVars, callerVars, OwnerInv, TypeOK, HarnessType
      <2>2. Granted' = Granted /\ Outstanding' = Outstanding
        BY <2>1 DEF Granted, Outstanding
      <2>3. QED
        BY <2>1, <2>2, CountFacts DEF Counted, Unasked
    <1>3. CASE HarnessRefuses
      <2>1. reply' = reply /\ nextTurn' = nextTurn /\ request.st = "sent" /\ request'.st = "err"
        BY <1>3 DEF HarnessRefuses, harnessVars, callerVars
      <2>2. Granted' = Granted /\ Outstanding' = Outstanding
        BY <2>1 DEF Granted, Outstanding
      <2>3. QED
        BY <2>1, <2>2, CountFacts DEF Counted, Unasked
    <1>4. CASE HarnessStartsUnasked
      <2>1. UNCHANGED <<reply, request>> /\ nextTurn' = nextTurn + 1
        BY <1>4 DEF HarnessStartsUnasked, BeginNative, callerVars
      <2>2. Granted' = Granted /\ Outstanding' = Outstanding
        BY <2>1 DEF Granted, Outstanding
      <2>3. QED
        BY <2>1, <2>2, CountFacts DEF Counted, Unasked
    <1>5. CASE \E i \in Intents : CallIntent(i)
      <2> PICK i \in Intents : CallIntent(i)
        BY <1>5
      <2>1. /\ reply'[i] # "ok" /\ reply[i] # "ok"
            /\ \A j \in Intents \ {i} : reply'[j] = reply[j]
        BY CallFacts DEF CallIntent
      <2>2. UNCHANGED <<nextTurn, request>>
        BY DEF CallIntent, harnessVars
      <2>3. Granted' = Granted /\ Outstanding' = Outstanding
        BY <2>1, <2>2 DEF Granted, Outstanding
      <2>4. QED
        BY <2>2, <2>3, CountFacts DEF Counted, Unasked
    <1>6. CASE \E i \in Intents : SendIntent(i)
      <2> PICK i \in Intents : SendIntent(i)
        BY <1>6
      <2>1. /\ reply'[i] # "ok" /\ reply[i] # "ok"
            /\ \A j \in Intents \ {i} : reply'[j] = reply[j]
        BY CallFacts DEF SendIntent
      <2>2. UNCHANGED <<nextTurn, request>>
        BY DEF SendIntent, harnessVars
      <2>3. Granted' = Granted /\ Outstanding' = Outstanding
        BY <2>1, <2>2 DEF Granted, Outstanding
      <2>4. QED
        BY <2>2, <2>3, CountFacts DEF Counted, Unasked
    <1>7. CASE AdmitIntent
      <2> DEFINE i == Head(queue)
      <2>1. i \in Intents /\ reply[i] = "queued" /\ nextTurn' = nextTurn
        BY <1>7, QueueHead DEF AdmitIntent, harnessVars
      <2>2. reply' = [reply EXCEPT ![i] = "err"] \/ reply' = [reply EXCEPT ![i] = "inflight"]
        BY <1>7 DEF AdmitIntent
      <2>3. request' = request \/ (request.st = "none" /\ request'.st = "sent")
        BY <1>7 DEF AdmitIntent, Busy, InFlight
      <2> HIDE DEF i
      <2>4. reply'[i] # "ok" /\ \A j \in Intents \ {i} : reply'[j] = reply[j]
        BY <2>1, <2>2, CallFacts
      <2>5. Granted' = Granted /\ Outstanding' = Outstanding
        BY <2>1, <2>3, <2>4 DEF Granted, Outstanding
      <2>6. QED
        BY <2>1, <2>5, CountFacts DEF Counted, Unasked
    <1>8. CASE HandleAnswer
      <2>1. /\ inflight \in Intents /\ reply[inflight] = "inflight" /\ nextTurn' = nextTurn
            /\ request'.st = "none"
        BY <1>8, CallFacts DEF HandleAnswer, InFlight, NoRequest, harnessVars
      <2>2. CASE AnswerAccepted
        <3>1. reply' = [reply EXCEPT ![inflight] = "ok"] /\ request.st = "ok"
          BY <2>2 DEF AnswerAccepted
        <3>2. Granted' = Granted \cup {inflight} /\ inflight \notin Granted
          BY <2>1, <3>1, CallFacts DEF Granted
        <3>3. Outstanding = 1 /\ Outstanding' = 0
          BY <2>1, <3>1 DEF Outstanding
        <3>4. IsFiniteSet(Granted') /\ Cardinality(Granted') = Cardinality(Granted) + 1
          BY <3>2, FS_AddElement DEF Counted
        <3>5. QED
          BY <2>1, <3>3, <3>4, CountFacts DEF Unasked
      <2>3. CASE AnswerRefused
        <3>1. reply' = [reply EXCEPT ![inflight] = "err"] /\ request.st = "err"
          BY <2>3 DEF AnswerRefused
        <3>2. Granted' = Granted
          BY <2>1, <3>1, CallFacts DEF Granted
        <3>3. Outstanding' = Outstanding
          BY <2>1, <3>1 DEF Outstanding
        <3>4. QED
          BY <2>1, <3>2, <3>3, CountFacts DEF Counted, Unasked
      <2>4. QED
        BY <1>8, <2>2, <2>3 DEF HandleAnswer
    <1>9. CASE Finish
      <2>1. nextTurn' = nextTurn /\ \A i \in Intents : reply'[i] = "ok" <=> reply[i] = "ok"
        BY <1>9 DEF Finish, harnessVars
      <2>2. Outstanding' = 0
        BY <1>9 DEF Finish, NoRequest, Outstanding
      <2>3. Granted' = Granted
        BY <2>1 DEF Granted
      <2>4. QED
        BY <2>1, <2>2, <2>3, CountFacts DEF Counted, Unasked
    <1>10. CASE UNCHANGED vars
              \/ (\E t \in Turns : HarnessEmits(t))
              \/ HarnessCompletes
              \/ HarnessCloses
              \/ OwnerCancelled
              \/ DropCrossTurn
              \/ ApplyLate
              \/ ApplyOwned
              \/ AttachRefused
              \/ HandleGap
              \/ HandleClosed
              \/ AppendTurn
              \/ AppendFails
              \/ SettleTurn
              \/ AttachOwner
              \/ ParkAttach
              \/ RequestDetach
              \/ OwnerExited
      <2>1. UNCHANGED <<nextTurn, reply, request>>
        BY <1>10 DEF HarnessEmits, HarnessCompletes, HarnessCloses, OwnerCancelled,
           DropCrossTurn, ApplyLate, ApplyOwned, AttachRefused, HandleGap,
           HandleClosed, AppendTurn, AppendFails, SettleTurn, AttachOwner,
           ParkAttach, RequestDetach, OwnerExited, TakeEvent, vars, harnessVars,
           callerVars, coordVars, turnVars, ownerVars
      <2>2. QED
        BY <2>1, CountFacts DEF Counted, Unasked, Granted, Outstanding
    <1>11. QED
        BY <1>1, <1>2, <1>3, <1>4, <1>5, <1>6, <1>7, <1>8, <1>9, <1>10 DEF Next,
           OwnerStep

\* A turn is the one its call was, or is about to be, answered with.
Named(c, t, flying, req, rep, ans) ==
    \/ c \in Compactions
    \/ c = flying /\ req.st \in {"started", "ok"} /\ req.turn = t
    \/ rep[c] = "ok" /\ ans[c] = t
    \/ rep[c] = "err"

\* While every turn was asked for and the first owner runs: a turn is persisted,
\* in progress, or the newest and still to be attached to the admitted intent;
\* the answer on its way names the newest turn; and every turn in progress or
\* persisted is named by its call.
AllAsked == attaches <= 1 /\ EveryTurnWasAsked
OneByOne ==
    pc \in {"run", "persisting", "settling"} =>
      \A t \in 1 .. nextTurn - 1 :
         \/ t \in seen \cup {owned}
         \/ t = nextTurn - 1 /\ admitted # None /\ request.st \notin {"sent", "err"}
NewestIsAnswered ==
    /\ request.st \in {"sent", "err"} => admitted = inflight
    /\ request.st \in {"started", "ok"} => request.turn = nextTurn - 1
    /\ admitted # None /\ inflight = None =>
         admitted \in Compactions \/ (reply[admitted] = "ok" /\ answered[admitted] = nextTurn - 1)
TurnsAreNamed ==
    /\ ctx \in Intents /\ owned # NoTurn => Named(ctx, owned, inflight, request, reply, answered)
    /\ \A k \in 1 .. Len(history) : history[k].ctx \in Intents =>
         Named(history[k].ctx, history[k].turn, inflight, request, reply, answered)
Asked == AllAsked => OneByOne /\ NewestIsAnswered /\ TurnsAreNamed

AnswersInv ==
    HistoryInv /\ Live /\ InFlight /\ Queued /\ Contexts /\ FirstOwner /\ Counted /\ Asked

\* A turn nobody asked for is never taken back.
LEMMA AskedBefore ==
    ASSUME AnswersInv, [Next]_vars, AllAsked'
    PROVE  AllAsked /\ Unasked' = 0 /\ Unasked = 0
    <1>1. OwnerInv /\ Queued /\ InFlight /\ Counted
        BY DEF AnswersInv, HistoryInv
    <1>2. IsFiniteSet(Granted') /\ Unasked' >= Unasked
        BY <1>1, CountedStep
    <1>3. OwnerInv'
        BY <1>1, OwnerInvStep
    <1>4. Unasked \in Nat /\ (EveryTurnWasAsked <=> Unasked = 0)
        BY <1>1, CountFacts
    <1>5. Cardinality(Granted') \in Nat /\ nextTurn' \in Nat /\ Outstanding' \in {0, 1}
        BY <1>2, <1>3, FS_CardinalityType, OwnerConstants DEF OwnerInv, TypeOK, HarnessType, Outstanding
    <1>6. EveryTurnWasAsked' <=> nextTurn' - 1 = Cardinality(Granted') + Outstanding'
        BY DEF EveryTurnWasAsked, Granted, Outstanding
    <1>7. Unasked' = 0
        BY <1>5, <1>6 DEF AllAsked, Unasked
    <1>8. attaches' = attaches \/ attaches' = attaches + 1
        BY DEF Next, OwnerStep, HarnessStarts, HarnessAnswers, HarnessRefuses,
           HarnessStartsUnasked, HarnessEmits, HarnessCompletes, HarnessCloses, CallIntent,
           SendIntent, OwnerCancelled, AdmitIntent, HandleAnswer, DropCrossTurn, ApplyLate,
           ApplyOwned, AttachRefused, HandleGap, HandleClosed, AppendTurn, AppendFails,
           SettleTurn, Finish, AttachOwner, InstallOwner, ParkAttach, RequestDetach,
           OwnerExited, vars, coordVars
    <1>9. attaches \in Nat
        BY <1>1, OwnerConstants DEF OwnerInv, TypeOK, OwnerType
    <1>10. QED
        BY <1>2, <1>4, <1>7, <1>8, <1>9 DEF AllAsked

\* A turn named by its call stays named by it, through the answer to the call and
\* its failure.
LEMMA NamedStands == OwnerInv /\ Queued /\ InFlight /\ [Next]_vars =>
      \A c \in Intents : \A t : Named(c, t, inflight, request, reply, answered) =>
                                Named(c, t, inflight', request', reply', answered')
    <1> SUFFICES ASSUME OwnerInv /\ Queued /\ InFlight, [Next]_vars, NEW c \in Intents, NEW t,
                        Named(c, t, inflight, request, reply, answered)
                 PROVE  Named(c, t, inflight', request', reply', answered')
        OBVIOUS
    <1>0. MaxTurns \in Nat /\ MaxItems \in Nat /\ LogCap \in Nat \ {0} /\ QueueCap \in Nat \ {0}
          /\ MaxAttaches \in Nat
        BY OwnerConstants
    <1>s. /\ reply[c] = "ok" => reply'[c] = "ok" /\ answered'[c] = answered[c]
          /\ reply[c] = "err" => reply'[c] = "err"
        BY AnswersStand
    <1>1. CASE HarnessStarts
      <2>1. request.st = "sent"
        BY <1>1 DEF HarnessStarts
      <2>2. QED
        BY <1>s, <2>1 DEF Named
    <1>2. CASE HarnessAnswers
      <2>1. request'.st = "ok" /\ request'.turn = request.turn /\ inflight' = inflight
        BY <1>2 DEF HarnessAnswers, OwnerInv, TypeOK, HarnessType, ownerVars
      <2>2. QED
        BY <1>s, <2>1 DEF Named
    <1>3. CASE HarnessRefuses
      <2>1. request.st = "sent"
        BY <1>3 DEF HarnessRefuses
      <2>2. QED
        BY <1>s, <2>1 DEF Named
    <1>4. CASE AdmitIntent
      <2>1. UNCHANGED <<inflight, request>> \/ request.st = "none"
        BY <1>4 DEF AdmitIntent, Busy, InFlight
      <2>2. QED
        BY <1>s, <2>1 DEF Named
    <1>5. CASE HandleAnswer
      <2>1. inflight \in Intents
        BY <1>5, CallFacts DEF HandleAnswer
      <2>2. CASE AnswerAccepted
        <3>1. reply' = [reply EXCEPT ![inflight] = "ok"]
          BY <2>2 DEF AnswerAccepted
        <3>2. inflight \notin Compactions => answered' = [answered EXCEPT ![inflight] = request.turn]
          BY <2>2 DEF AnswerAccepted
        <3>3. inflight \notin Compactions => reply'[inflight] = "ok" /\ answered'[inflight] = request.turn
          BY <2>1, <3>1, <3>2, CallFacts
        <3>4. QED
          BY <1>s, <3>3 DEF Named
      <2>3. CASE AnswerRefused
        <3>1. request.st = "err"
          BY <2>3 DEF AnswerRefused
        <3>2. QED
          BY <1>s, <3>1 DEF Named
      <2>4. QED
        BY <1>5, <2>2, <2>3 DEF HandleAnswer
    <1>6. CASE Finish
      <2>1. inflight \in Intents => reply'[inflight] = "err"
        BY <1>6, CallFacts DEF Finish, InFlight
      <2>2. QED
        BY <1>s, <2>1 DEF Named
    <1>7. CASE UNCHANGED vars
              \/ HarnessStartsUnasked
              \/ (\E u \in Turns : HarnessEmits(u))
              \/ HarnessCompletes
              \/ HarnessCloses
              \/ (\E i \in Intents : CallIntent(i))
              \/ (\E i \in Intents : SendIntent(i))
              \/ OwnerCancelled
              \/ DropCrossTurn
              \/ ApplyLate
              \/ ApplyOwned
              \/ AttachRefused
              \/ HandleGap
              \/ HandleClosed
              \/ AppendTurn
              \/ AppendFails
              \/ SettleTurn
              \/ AttachOwner
              \/ ParkAttach
              \/ RequestDetach
              \/ OwnerExited
      <2>1. UNCHANGED <<inflight, request>>
        BY <1>7 DEF HarnessStartsUnasked, HarnessEmits, HarnessCompletes,
           HarnessCloses, CallIntent, SendIntent, OwnerCancelled, DropCrossTurn,
           ApplyLate, ApplyOwned, AttachRefused, HandleGap, HandleClosed,
           AppendTurn, AppendFails, SettleTurn, AttachOwner, ParkAttach,
           RequestDetach, OwnerExited, TakeEvent, vars, harnessVars, callerVars,
           coordVars, turnVars, ownerVars
      <2>2. QED
        BY <2>1, <1>s DEF Named
    <1>8. QED
        BY <1>1, <1>2, <1>3, <1>4, <1>5, <1>6, <1>7 DEF Next, OwnerStep

\* While every turn was asked for, an event attaches the owner to the newest turn,
\* for the intent it was admitted for, and its call names that turn.
LEMMA AttachesNewest ==
    ASSUME OwnerInv, TurnIds, Past, InFlight, OneByOne, NewestIsAnswered, ApplyOwned, owned = NoTurn
    PROVE  /\ owned' = nextTurn - 1 /\ admitted # None /\ ctx' = admitted
           /\ request.st \notin {"sent", "err"}
           /\ Named(admitted, nextTurn - 1, inflight, request, reply, answered)
    <1>1. pc = "run" /\ owned' = NextEvent.turn /\ NextEvent.turn \notin seen /\ TakeEvent
          /\ NextEvent.turn \in Turns
        BY OwnedEvent
    <1>2. NextEvent = log[1] /\ Len(log) \in Nat \ {0}
        BY <1>1, HarnessFacts, TailElements DEF TakeEvent, NextEvent
    <1>3. NextEvent.turn < nextTurn
        BY <1>2 DEF Past, Begun
    <1>4. NextEvent.turn \in 1 .. nextTurn - 1 /\ NextEvent.turn # NoTurn
        BY <1>1, <1>3, HarnessFacts
    <1>5. NextEvent.turn = nextTurn - 1 /\ admitted # None /\ request.st \notin {"sent", "err"}
        BY <1>1, <1>4 DEF OneByOne
    <1>6. ctx' = admitted
        BY <1>5 DEF ApplyOwned, AttachToTurn
    <1>7. Named(admitted, nextTurn - 1, inflight, request, reply, answered)
      <2>1. CASE inflight = None
        BY <1>5, <2>1 DEF NewestIsAnswered, Named
      <2>2. CASE inflight # None
        <3>1. admitted = inflight /\ request.st \in {"started", "ok"}
          BY <1>5, <2>2, CallFacts DEF InFlight
        <3>2. QED
          BY <3>1 DEF NewestIsAnswered, Named
      <2>3. QED
        BY <2>1, <2>2
    <1>8. QED
        BY <1>1, <1>5, <1>6, <1>7

\* A start nobody asked for ends the claim that every turn was asked for.
LEMMA NotAllAsked ==
    ASSUME AnswersInv, [Next]_vars, AllAsked', HarnessStartsUnasked PROVE FALSE
    <1>1. UNCHANGED <<reply, request>> /\ nextTurn' = nextTurn + 1
        BY DEF HarnessStartsUnasked, BeginNative, callerVars
    <1>2. Granted' = Granted /\ Outstanding' = Outstanding
        BY <1>1 DEF Granted, Outstanding
    <1>3. Unasked' = 0 /\ Unasked = 0
        BY AskedBefore
    <1>4. Cardinality(Granted) \in Nat /\ nextTurn \in Nat /\ Outstanding \in {0, 1}
        BY CountFacts DEF AnswersInv, HistoryInv
    <1>5. QED
        BY <1>1, <1>2, <1>3, <1>4 DEF Unasked

\* When the first owner is installed no turn has begun.
LEMMA FirstAttach ==
    ASSUME AnswersInv, [Next]_vars, AllAsked', InstallOwner
    PROVE  nextTurn = 1 /\ inflight = None /\ history = <<>> /\ request.st = "none" /\ pc = "idle"
    <1>1. attaches = 0
        BY OwnerConstants DEF AllAsked, InstallOwner, AnswersInv, HistoryInv, OwnerInv, TypeOK, OwnerType
    <1>2. pc = "idle" /\ inflight = None /\ Granted = {} /\ history = <<>>
        BY <1>1 DEF AnswersInv, FirstOwner
    <1>3. request.st = "none"
        BY <1>2 DEF AnswersInv, InFlight
    <1>4. Outstanding = 0 /\ Cardinality(Granted) = 0
        BY <1>2, <1>3, FS_EmptySet DEF Outstanding
    <1>5. Unasked = 0 /\ nextTurn \in Nat
        BY AskedBefore, HarnessFacts DEF AnswersInv, HistoryInv
    <1>6. nextTurn = 1
        BY <1>4, <1>5 DEF Unasked
    <1>7. QED
        BY <1>2, <1>3, <1>6

\* While every turn was asked for, turns are handled one by one.
LEMMA OneByOneStep == AnswersInv /\ AllAsked' /\ [Next]_vars => OneByOne'
    <1> SUFFICES ASSUME AnswersInv /\ AllAsked', [Next]_vars PROVE OneByOne'
        OBVIOUS
    <1>0. MaxTurns \in Nat /\ MaxItems \in Nat /\ LogCap \in Nat \ {0} /\ QueueCap \in Nat \ {0}
          /\ MaxAttaches \in Nat
        BY OwnerConstants
    <1>a. /\ OwnerInv /\ TurnIds /\ Past /\ InFlight /\ Queued /\ Contexts
          /\ OneByOne /\ NewestIsAnswered /\ TurnsAreNamed
        BY AskedBefore DEF AnswersInv, HistoryInv, Asked
    <1>1. CASE HarnessStarts
      <2>1. /\ request.st = "sent" /\ request'.st = "started" /\ nextTurn' = nextTurn + 1
            /\ UNCHANGED <<pc, seen, owned, admitted, inflight>>
        BY <1>1 DEF HarnessStarts, BeginNative, ownerVars, turnVars
      <2>2. admitted # None
        BY <1>a, <2>1 DEF NewestIsAnswered, InFlight
      <2>3. nextTurn \in Nat
        BY <1>a, HarnessFacts
      <2>4. QED
        BY <1>a, <2>1, <2>2, <2>3 DEF OneByOne
    <1>2. CASE HarnessAnswers
      <2>1. request'.st = "ok" /\ UNCHANGED <<pc, nextTurn, seen, owned, admitted>>
        BY <1>2, <1>a DEF HarnessAnswers, OwnerInv, TypeOK, HarnessType, harnessVars, ownerVars, turnVars
      <2>2. QED
        BY <1>a, <2>1 DEF OneByOne
    <1>3. CASE HarnessRefuses
      <2>1. request.st = "sent" /\ UNCHANGED <<pc, nextTurn, seen, owned, admitted>>
        BY <1>3 DEF HarnessRefuses, harnessVars, ownerVars, turnVars
      <2>2. QED
        BY <1>a, <2>1 DEF OneByOne
    <1>4. CASE HarnessStartsUnasked
        BY <1>4, NotAllAsked
    <1>5. CASE OwnerCancelled
        BY <1>5 DEF OwnerCancelled, Exit, OneByOne
    <1>6. CASE AdmitIntent
      <2>1. UNCHANGED <<pc, nextTurn, seen, owned>>
        BY <1>6 DEF AdmitIntent, harnessVars, turnVars
      <2>2. UNCHANGED <<admitted, request>> \/ admitted = None
        BY <1>6 DEF AdmitIntent, Busy
      <2>3. QED
        BY <1>a, <2>1, <2>2 DEF OneByOne
    <1>7. CASE HandleAnswer
      <2>1. UNCHANGED <<pc, nextTurn, seen, owned>> /\ request'.st = "none"
        BY <1>7 DEF HandleAnswer, NoRequest, harnessVars, turnVars
      <2>2. admitted' = admitted \/ request.st = "err"
        BY <1>7 DEF HandleAnswer, AnswerAccepted, AnswerRefused
      <2>3. QED
        BY <1>a, <2>1, <2>2 DEF OneByOne
    <1>8. CASE ApplyOwned
      <2>1. UNCHANGED <<nextTurn, seen, request>> /\ pc = "run"
        BY <1>8 DEF ApplyOwned, TakeEvent, Running
      <2>2. CASE owned # NoTurn
        <3>1. UNCHANGED <<owned, admitted>>
          BY <1>8, <2>2 DEF ApplyOwned
        <3>2. QED
          BY <1>a, <2>1, <3>1 DEF OneByOne
      <2>3. CASE owned = NoTurn
        <3>1. owned' = nextTurn - 1
          BY <1>8, <1>a, <2>3, AttachesNewest
        <3>2. \A t \in 1 .. nextTurn - 1 : t \in seen \/ t = nextTurn - 1
          BY <1>a, <2>1, <2>3 DEF OneByOne
        <3>3. QED
          BY <2>1, <3>1, <3>2 DEF OneByOne
      <2>4. QED
        BY <2>2, <2>3
    <1>9. CASE AttachRefused
        BY <1>9 DEF AttachRefused, Exit, OneByOne
    <1>10. CASE HandleGap
      <2>1. pc = "run" /\ UNCHANGED <<nextTurn, seen, owned, admitted, request>>
        BY <1>10 DEF HandleGap, Running, turnVars
      <2>2. QED
        BY <1>a, <2>1 DEF OneByOne
    <1>11. CASE HandleClosed
      <2>1. pc = "run" /\ UNCHANGED <<nextTurn, seen, owned, admitted, request>>
        BY <1>11 DEF HandleClosed, Running, harnessVars, turnVars
      <2>2. QED
        BY <1>a, <2>1 DEF OneByOne
    <1>12. CASE AppendTurn
      <2>1. pc = "persisting" /\ UNCHANGED <<nextTurn, owned, admitted, request>> /\ seen \subseteq seen'
        BY <1>12 DEF AppendTurn, harnessVars, turnVars
      <2>2. QED
        BY <1>a, <2>1 DEF OneByOne
    <1>13. CASE AppendFails
        BY <1>13 DEF AppendFails, Exit, OneByOne
    <1>14. CASE SettleTurn
      <2>1. pc = "settling" /\ UNCHANGED <<nextTurn, seen, admitted, request>> /\ owned \in seen
        BY <1>14, <1>a DEF SettleTurn, TurnIds, harnessVars
      <2>2. QED
        BY <1>a, <2>1 DEF OneByOne
    <1>15. CASE Finish
        BY <1>15 DEF Finish, OneByOne
    <1>16. CASE AttachOwner
      <2>1. nextTurn = 1 /\ nextTurn' = nextTurn
        BY <1>16, FirstAttach DEF AttachOwner, harnessVars
      <2>2. QED
        BY <2>1 DEF OneByOne
    <1>17. CASE OwnerExited
      <2>1. CASE InstallOwner
        BY <1>17, <2>1, FirstAttach DEF OwnerExited
      <2>2. CASE pc' = "idle"
        BY <2>2 DEF OneByOne
      <2>3. QED
        BY <1>17, <2>1, <2>2 DEF OwnerExited
    <1>18. CASE UNCHANGED vars
              \/ (\E t \in Turns : HarnessEmits(t))
              \/ HarnessCompletes
              \/ HarnessCloses
              \/ (\E i \in Intents : CallIntent(i))
              \/ (\E i \in Intents : SendIntent(i))
              \/ DropCrossTurn
              \/ ApplyLate
              \/ ParkAttach
              \/ RequestDetach
      <2>1. UNCHANGED <<pc, nextTurn, seen, owned, admitted, request>>
        BY <1>18 DEF HarnessEmits, HarnessCompletes, HarnessCloses, CallIntent,
           SendIntent, DropCrossTurn, ApplyLate, ParkAttach, RequestDetach,
           TakeEvent, vars, harnessVars, callerVars, coordVars, turnVars, ownerVars
      <2>2. QED
        BY <2>1, <1>a DEF OneByOne
    <1>19. QED
        BY <1>1, <1>2, <1>3, <1>4, <1>5, <1>6, <1>7, <1>8, <1>9, <1>10, <1>11,
           <1>12, <1>13, <1>14, <1>15, <1>16, <1>17, <1>18 DEF Next, OwnerStep

\* While every turn was asked for, the answer on its way names the newest turn.
LEMMA NewestStep == AnswersInv /\ AllAsked' /\ [Next]_vars => NewestIsAnswered'
    <1> SUFFICES ASSUME AnswersInv /\ AllAsked', [Next]_vars PROVE NewestIsAnswered'
        OBVIOUS
    <1>0. MaxTurns \in Nat /\ MaxItems \in Nat /\ LogCap \in Nat \ {0} /\ QueueCap \in Nat \ {0}
          /\ MaxAttaches \in Nat
        BY OwnerConstants
    <1>a. /\ OwnerInv /\ TurnIds /\ Past /\ InFlight /\ Queued /\ Contexts
          /\ OneByOne /\ NewestIsAnswered /\ TurnsAreNamed
        BY AskedBefore DEF AnswersInv, HistoryInv, Asked
    <1>s. \A c \in Intents : reply[c] = "ok" => reply'[c] = "ok" /\ answered'[c] = answered[c]
        BY <1>a, AnswersStand
    <1>1. CASE HarnessStarts
      <2>1. /\ request.st = "sent" /\ request'.st = "started" /\ request'.turn = nextTurn
            /\ nextTurn' = nextTurn + 1 /\ inflight' = inflight
        BY <1>1 DEF HarnessStarts, BeginNative, ownerVars
      <2>2. inflight # None /\ nextTurn \in Nat
        BY <1>a, <2>1, HarnessFacts DEF InFlight
      <2>3. QED
        BY <2>1, <2>2 DEF NewestIsAnswered
    <1>2. CASE HarnessAnswers
      <2>1. /\ request.st = "started" /\ request'.st = "ok" /\ request'.turn = request.turn
            /\ UNCHANGED <<inflight, admitted, nextTurn, reply, answered>>
        BY <1>2, <1>a DEF HarnessAnswers, OwnerInv, TypeOK, HarnessType, harnessVars, ownerVars, callerVars
      <2>2. QED
        BY <1>a, <2>1 DEF NewestIsAnswered
    <1>3. CASE HarnessRefuses
      <2>1. /\ request.st = "sent" /\ request'.st = "err"
            /\ UNCHANGED <<inflight, admitted, nextTurn, reply, answered>>
        BY <1>3 DEF HarnessRefuses, harnessVars, ownerVars, callerVars
      <2>2. QED
        BY <1>a, <2>1 DEF NewestIsAnswered
    <1>4. CASE HarnessStartsUnasked
        BY <1>4, NotAllAsked
    <1>5. CASE \E i \in Intents : CallIntent(i)
      <2>1. UNCHANGED <<inflight, admitted, nextTurn, request>>
        BY <1>5 DEF CallIntent, harnessVars, ownerVars
      <2>2. QED
        BY <1>a, <1>s, <2>1, CallFacts DEF NewestIsAnswered
    <1>6. CASE \E i \in Intents : SendIntent(i)
      <2>1. UNCHANGED <<inflight, admitted, nextTurn, request>>
        BY <1>6 DEF SendIntent, harnessVars, ownerVars
      <2>2. QED
        BY <1>a, <1>s, <2>1, CallFacts DEF NewestIsAnswered
    <1>7. CASE AdmitIntent
      <2>1. nextTurn' = nextTurn
        BY <1>7 DEF AdmitIntent, harnessVars
      <2>2. CASE Busy \/ gate.active
        <3>1. UNCHANGED <<inflight, admitted, request>>
          BY <1>7, <2>2 DEF AdmitIntent
        <3>2. QED
          BY <1>a, <1>s, <2>1, <3>1, CallFacts DEF NewestIsAnswered
      <2>3. CASE ~(Busy \/ gate.active)
        <3>1. inflight' = Head(queue) /\ admitted' = inflight' /\ request'.st = "sent"
          BY <1>7, <2>3 DEF AdmitIntent
        <3>2. inflight' # None
          BY <1>7, <1>a, <3>1, QueueHead, CallFacts DEF AdmitIntent
        <3>3. QED
          BY <3>1, <3>2 DEF NewestIsAnswered
      <2>4. QED
        BY <2>2, <2>3
    <1>8. CASE HandleAnswer
      <2>1. nextTurn' = nextTurn /\ request'.st = "none" /\ inflight # None /\ inflight \in Intents
        BY <1>8, <1>a, CallFacts DEF HandleAnswer, NoRequest, harnessVars
      <2>2. CASE AnswerAccepted
        <3>1. admitted' = admitted /\ reply' = [reply EXCEPT ![inflight] = "ok"] /\ request.st = "ok"
          BY <2>2 DEF AnswerAccepted
        <3>2. inflight \notin Compactions => answered' = [answered EXCEPT ![inflight] = request.turn]
          BY <2>2 DEF AnswerAccepted
        <3>3. inflight \notin Compactions => reply'[inflight] = "ok" /\ answered'[inflight] = nextTurn - 1
          BY <1>a, <2>1, <3>1, <3>2, CallFacts DEF NewestIsAnswered
        <3>4. admitted # None => admitted = inflight
          BY <1>a, <2>1 DEF InFlight
        <3>5. QED
          BY <2>1, <3>1, <3>3, <3>4 DEF NewestIsAnswered
      <2>3. CASE AnswerRefused
        BY <2>1, <2>3 DEF AnswerRefused, NewestIsAnswered
      <2>4. QED
        BY <1>8, <2>2, <2>3 DEF HandleAnswer
    <1>9. CASE ApplyOwned
      <2>1. UNCHANGED <<inflight, nextTurn, request, reply, answered>>
        BY <1>9 DEF ApplyOwned, TakeEvent, callerVars
      <2>2. CASE owned # NoTurn
        <3>1. admitted' = admitted
          BY <1>9, <2>2 DEF ApplyOwned
        <3>2. QED
          BY <1>a, <2>1, <3>1 DEF NewestIsAnswered
      <2>3. CASE owned = NoTurn
        <3>1. request.st \notin {"sent", "err"}
          BY <1>9, <1>a, <2>3, AttachesNewest
        <3>2. admitted' = None
          BY <1>9, <2>3 DEF ApplyOwned, AttachToTurn
        <3>3. QED
          BY <1>a, <2>1, <3>1, <3>2 DEF NewestIsAnswered
      <2>4. QED
        BY <2>2, <2>3
    <1>10. CASE Finish
        BY <1>10 DEF Finish, NoRequest, NewestIsAnswered
    <1>11. CASE UNCHANGED vars
              \/ (\E t \in Turns : HarnessEmits(t))
              \/ HarnessCompletes
              \/ HarnessCloses
              \/ OwnerCancelled
              \/ DropCrossTurn
              \/ ApplyLate
              \/ AttachRefused
              \/ HandleGap
              \/ HandleClosed
              \/ AppendTurn
              \/ AppendFails
              \/ SettleTurn
              \/ AttachOwner
              \/ ParkAttach
              \/ RequestDetach
              \/ OwnerExited
      <2>1. UNCHANGED <<request, inflight, admitted, nextTurn, reply, answered>>
        BY <1>11 DEF HarnessEmits, HarnessCompletes, HarnessCloses, OwnerCancelled,
           DropCrossTurn, ApplyLate, AttachRefused, HandleGap, HandleClosed,
           AppendTurn, AppendFails, SettleTurn, AttachOwner, ParkAttach,
           RequestDetach, OwnerExited, TakeEvent, vars, harnessVars, callerVars,
           coordVars, turnVars, ownerVars
      <2>2. QED
        BY <2>1, <1>a DEF NewestIsAnswered
    <1>12. QED
        BY <1>1, <1>2, <1>3, <1>4, <1>5, <1>6, <1>7, <1>8, <1>9, <1>10, <1>11 DEF
           Next, OwnerStep

\* While every turn was asked for, turns are named by their calls.
LEMMA TurnsNamedStep == AnswersInv /\ AllAsked' /\ [Next]_vars => TurnsAreNamed'
    <1> SUFFICES ASSUME AnswersInv /\ AllAsked', [Next]_vars PROVE TurnsAreNamed'
        OBVIOUS
    <1>0. MaxTurns \in Nat /\ MaxItems \in Nat /\ LogCap \in Nat \ {0} /\ QueueCap \in Nat \ {0}
          /\ MaxAttaches \in Nat
        BY OwnerConstants
    <1>a. /\ OwnerInv /\ TurnIds /\ Past /\ InFlight /\ Queued /\ Contexts
          /\ OneByOne /\ NewestIsAnswered /\ TurnsAreNamed
        BY AskedBefore DEF AnswersInv, HistoryInv, Asked
    <1>n. \A c \in Intents : \A t : Named(c, t, inflight, request, reply, answered) =>
                                    Named(c, t, inflight', request', reply', answered')
        BY <1>a, NamedStands
    <1>1. CASE ApplyLate
      <2>1. /\ UNCHANGED <<ctx, owned>>
            /\ history' = history \/ history' = Amended(history, NextEvent)
        BY <1>1 DEF ApplyLate, turnVars
      <2>2. CASE history' = history
        BY <1>a, <1>n, <2>1, <2>2 DEF TurnsAreNamed
      <2>3. CASE history' = Amended(history, NextEvent)
        <3>1. history \in Seq(TurnRecord)
          BY <1>a, HarnessFacts
        <3>2. Len(history') = Len(history)
          BY <2>3, <3>1 DEF Amended
        <3>3. \A m \in 1 .. Len(history) : history'[m].ctx = history[m].ctx
                                           /\ history'[m].turn = history[m].turn
          BY <2>3, <3>1, AmendedRecord
        <3>4. QED
          BY <1>a, <1>n, <2>1, <3>2, <3>3 DEF TurnsAreNamed
      <2>4. QED
        BY <2>1, <2>2, <2>3
    <1>2. CASE ApplyOwned
      <2>1. history' = history
        BY <1>2 DEF ApplyOwned
      <2>2. CASE owned # NoTurn
        <3>1. UNCHANGED <<ctx, owned>>
          BY <1>2, <2>2 DEF ApplyOwned
        <3>2. QED
          BY <1>a, <1>n, <2>1, <3>1 DEF TurnsAreNamed
      <2>3. CASE owned = NoTurn
        <3>1. /\ owned' = nextTurn - 1 /\ ctx' = admitted
              /\ Named(admitted, nextTurn - 1, inflight, request, reply, answered)
          BY <1>2, <1>a, <2>3, AttachesNewest
        <3>2. ctx' \in Intents => Named(ctx', owned', inflight', request', reply', answered')
          BY <1>n, <3>1
        <3>3. QED
          BY <1>a, <1>n, <2>1, <3>2 DEF TurnsAreNamed
      <2>4. QED
        BY <2>2, <2>3
    <1>3. CASE AppendTurn
      <2> DEFINE r == [turn |-> PersistedTurn, status |-> closing.status, ctx |-> ctx,
                       whole |-> observed # NoTurn, items |-> items]
      <2>1. r \in TurnRecord /\ r.ctx = ctx /\ r.turn = owned /\ owned # NoTurn
        BY <1>3, <1>a, AppendedType, PersistedIsOwned DEF AppendTurn
      <2>2. history' = Append(history, r) /\ history \in Seq(TurnRecord) /\ UNCHANGED <<ctx, owned>>
        BY <1>3, <1>a, HarnessFacts DEF AppendTurn, turnVars
      <2> HIDE DEF r
      <2>3. /\ Len(history) \in Nat /\ Len(history') = Len(history) + 1
            /\ history'[Len(history) + 1] = r
            /\ \A m \in 1 .. Len(history) : history'[m] = history[m]
        BY <2>1, <2>2, AppendElements
      <2>4. r.ctx \in Intents => Named(r.ctx, r.turn, inflight', request', reply', answered')
        BY <1>a, <1>n, <2>1 DEF TurnsAreNamed
      <2>5. \A m \in 1 .. Len(history) : history[m].ctx \in Intents =>
              Named(history[m].ctx, history[m].turn, inflight', request', reply', answered')
        BY <1>a, <1>n DEF TurnsAreNamed
      <2>6. \A m \in 1 .. Len(history') : history'[m].ctx \in Intents =>
              Named(history'[m].ctx, history'[m].turn, inflight', request', reply', answered')
        BY <2>3, <2>4, <2>5
      <2>7. QED
        BY <1>a, <1>n, <2>2, <2>6 DEF TurnsAreNamed
    <1>4. CASE SettleTurn
      <2>1. history' = history /\ owned' = NoTurn
        BY <1>4 DEF SettleTurn, ResetTurn
      <2>2. QED
        BY <1>a, <1>n, <2>1 DEF TurnsAreNamed
    <1>5. CASE Finish
      <2>1. history' = history /\ owned' = NoTurn
        BY <1>5 DEF Finish, ResetTurn
      <2>2. QED
        BY <1>a, <1>n, <2>1 DEF TurnsAreNamed
    <1>6. CASE UNCHANGED vars
              \/ HarnessStarts
              \/ HarnessAnswers
              \/ HarnessRefuses
              \/ HarnessStartsUnasked
              \/ (\E t \in Turns : HarnessEmits(t))
              \/ HarnessCompletes
              \/ HarnessCloses
              \/ (\E i \in Intents : CallIntent(i))
              \/ (\E i \in Intents : SendIntent(i))
              \/ OwnerCancelled
              \/ AdmitIntent
              \/ HandleAnswer
              \/ DropCrossTurn
              \/ AttachRefused
              \/ HandleGap
              \/ HandleClosed
              \/ AppendFails
              \/ AttachOwner
              \/ ParkAttach
              \/ RequestDetach
              \/ OwnerExited
      <2>1. UNCHANGED <<ctx, owned, history>>
        BY <1>6 DEF HarnessStarts, HarnessAnswers, HarnessRefuses,
           HarnessStartsUnasked, HarnessEmits, HarnessCompletes, HarnessCloses,
           CallIntent, SendIntent, OwnerCancelled, AdmitIntent, HandleAnswer,
           DropCrossTurn, AttachRefused, HandleGap, HandleClosed, AppendFails,
           AttachOwner, ParkAttach, RequestDetach, OwnerExited, TakeEvent, vars,
           harnessVars, callerVars, coordVars, turnVars, ownerVars
      <2>2. QED
        BY <2>1, <1>a, <1>n DEF TurnsAreNamed
    <1>7. QED
        BY <1>1, <1>2, <1>3, <1>4, <1>5, <1>6 DEF Next, OwnerStep

\* The initial state satisfies the invariant.
LEMMA AnswersInit == Init => AnswersInv
    <1> SUFFICES ASSUME Init PROVE AnswersInv
        OBVIOUS
    <1>1. HistoryInv
        BY HistoryInit
    <1>2. Live /\ Queued /\ InFlight
        BY DEF Init, Live, Queued, InFlight, NoRequest, Idle
    <1>3. Granted = {} /\ Outstanding = 0
        BY DEF Init, Granted, Outstanding, NoRequest
    <1>4. Contexts /\ FirstOwner
        BY <1>3, OwnerConstants DEF Init, Contexts, FirstOwner
    <1>5. IsFiniteSet(Granted) /\ Cardinality(Granted) = 0 /\ nextTurn = 1
        BY <1>3, FS_EmptySet DEF Init
    <1>6. Counted
        BY <1>3, <1>5 DEF Counted, Unasked
    <1>7. Asked
      <2>1. OneByOne /\ NewestIsAnswered
        BY DEF Init, OneByOne, NewestIsAnswered, NoRequest
      <2>2. TurnsAreNamed
        BY DEF Init, TurnsAreNamed
      <2>3. QED
        BY <2>1, <2>2 DEF Asked
    <1>8. QED
        BY <1>1, <1>2, <1>4, <1>6, <1>7 DEF AnswersInv

\* Every step keeps the invariant.
LEMMA AnswersInvStep == AnswersInv /\ [Next]_vars => AnswersInv'
    <1> SUFFICES ASSUME AnswersInv, [Next]_vars PROVE AnswersInv'
        OBVIOUS
    <1>1. /\ HistoryInv /\ OwnerInv /\ TurnIds /\ Past /\ Live /\ Queued /\ InFlight /\ Contexts
          /\ FirstOwner /\ Counted
        BY DEF AnswersInv, HistoryInv
    <1>2. HistoryInv' /\ Live' /\ Queued' /\ InFlight' /\ Contexts' /\ FirstOwner'
        BY <1>1, HistoryInvStep, LiveStep, QueuedStep, InFlightStep, ContextsStep, FirstOwnerStep
    <1>3. Counted'
      <2>1. IsFiniteSet(Granted') /\ Unasked' >= Unasked
        BY <1>1, CountedStep
      <2>2. Unasked \in Nat
        BY <1>1, CountFacts
      <2>3. OwnerInv'
        BY <1>1, OwnerInvStep
      <2>4. Cardinality(Granted') \in Nat /\ nextTurn' \in Nat /\ Outstanding' \in {0, 1}
        BY <2>1, <2>3, FS_CardinalityType, OwnerConstants DEF OwnerInv, TypeOK, HarnessType, Outstanding
      <2>5. Unasked' >= 0
        BY <2>1, <2>2, <2>4 DEF Unasked
      <2>6. QED
        BY <2>1, <2>5 DEF Counted
    <1>4. Asked'
      <2>1. ASSUME AllAsked' PROVE OneByOne' /\ NewestIsAnswered' /\ TurnsAreNamed'
        BY <2>1, OneByOneStep, NewestStep, TurnsNamedStep
      <2>2. QED
        BY <2>1 DEF Asked
    <1>5. QED
        BY <1>2, <1>3, <1>4 DEF AnswersInv

\* The named turns are the answered ones.
LEMMA AnswersNamed == AnswersInv => AnswersNameLiveTurns
    <1> SUFFICES ASSUME AnswersInv PROVE AnswersNameLiveTurns
        OBVIOUS
    <1>1. SteerableTurnIsLive
        BY SteerableLive DEF AnswersInv, HistoryInv
    <1>2. AnswerNamesItsTurn
      <2> SUFFICES ASSUME attaches <= 1, EveryTurnWasAsked, NEW m \in 1 .. Len(history),
                          history[m].ctx \in Intents \ Compactions, reply[history[m].ctx] = "ok"
                   PROVE  answered[history[m].ctx] = history[m].turn
        BY DEF AnswerNamesItsTurn
      <2>1. Named(history[m].ctx, history[m].turn, inflight, request, reply, answered)
        BY DEF AnswersInv, Asked, AllAsked, TurnsAreNamed
      <2>2. inflight # None => reply[inflight] = "inflight"
        BY DEF AnswersInv, InFlight
      <2>3. history[m].ctx # None
        BY OwnerConstants
      <2>4. QED
        BY <2>1, <2>2, <2>3 DEF Named
    <1>3. QED
        BY <1>1, <1>2 DEF AnswersNameLiveTurns

\* Whatever the order of a turn's events and the answer to its request: the turn
\* offered for steering is live, and under the first owner of a thread whose
\* turns were all asked for, the turn persisted with a call's input is the turn
\* the call was answered with.
THEOREM AnswersCorrect == Spec => []AnswersNameLiveTurns
    <1>1. Init => AnswersInv
        BY AnswersInit
    <1>2. AnswersInv /\ [Next]_vars => AnswersInv'
        BY AnswersInvStep
    <1>3. AnswersInv => AnswersNameLiveTurns
        BY AnswersNamed
    <1>4. QED
        BY <1>1, <1>2, <1>3, PTL DEF Spec

=============================================================================
