-------------------------- MODULE StorageIosProofs --------------------------
(***************************************************************************)
(* Theorems about StorageIos for any set of releases.  Each names the      *)
(* accidents it excludes; every other accident may happen.                 *)
(***************************************************************************)
EXTENDS StorageIos, TLAPS

(* What the writers put into state.json is a pointer.                      *)
LEMMA PromotedIsPointer ==
    ASSUME NEW p \in Pointer, NEW r \in Ids
    PROVE  Promoted(p, r) \in Pointer
  BY DEF Pointer, Ids, Promoted

LEMMA ConfirmedIsPointer ==
    ASSUME NEW p \in Pointer
    PROVE  Confirmed(p) \in Pointer
  BY DEF Pointer, Confirmed

LEMMA RolledBackIsPointer ==
    ASSUME NEW p \in Pointer
    PROVE  RolledBack(p) \in Pointer
  BY DEF Pointer, Ids, RolledBack

LEMMA EmptyIsPointer == Empty \in Pointer
  BY DEF Pointer, Ids, Empty

(* A new process starts from values of the right type.                     *)
LEMMA FreshProcess ==
    /\ Down \in [pc : {"down", "read", "delete", "resolve", "up"}, auto : BOOLEAN]
    /\ None \in Ids
    /\ NoTask \in [pc : {"idle"} \cup InstallSteps \cup ConfirmSteps,
                   release : Ids, seen : Pointer]
    /\ NoTask.pc \notin InstallSteps
    /\ AtRest \in [pc : {"idle", "read", "write", "trust"}, seen : Pointer]
    /\ [t \in Reverters |-> AtRest] \in
         [Reverters -> [pc : {"idle", "read", "write", "trust"}, seen : Pointer]]
    /\ NoSignal \in [pc : {"idle", "open", "write", "raise"}, auto : BOOLEAN]
  BY EmptyIsPointer DEF Down, Ids, NoTask, AtRest, NoSignal, InstallSteps

(* Every step keeps the types.                                             *)
LEMMA TypeStep == TypeOK /\ [Next]_vars => TypeOK'
<1> SUFFICES ASSUME TypeOK, [Next]_vars PROVE TypeOK'
  OBVIOUS
<1> USE DEF disk, process
<1>1. CASE Launch
  BY <1>1 DEF TypeOK, Launch
<1>2. CASE ReadMarker
  BY <1>2 DEF TypeOK, ReadMarker
<1>3. CASE DeleteMarker
  BY <1>3 DEF TypeOK, DeleteMarker, Reverters
<1>4. CASE Resolve
  BY <1>4 DEF TypeOK, Resolve, Pointer, Ids
<1>5. ASSUME NEW t \in Reverters, RevertRead(t) PROVE TypeOK'
  BY <1>5, FreshProcess DEF TypeOK, RevertRead
<1>6. ASSUME NEW t \in Reverters, RevertWrite(t) PROVE TypeOK'
  <2>1. RolledBack(reverting[t].seen) \in Pointer
    BY RolledBackIsPointer DEF TypeOK
  <2> QED
    BY <1>6, <2>1 DEF TypeOK, RevertWrite
<1>7. ASSUME NEW t \in Reverters, RevertTrust(t) PROVE TypeOK'
  <2>1. reverting' \in [Reverters -> [pc : {"idle", "read", "write", "trust"},
                                      seen : Pointer]]
    BY <1>7, FreshProcess DEF TypeOK, RevertTrust
  <2>2. mountMarker' \in BOOLEAN
    BY <1>7 DEF TypeOK, RevertTrust
  <2> QED
    BY <1>7, <2>1, <2>2 DEF TypeOK, RevertTrust
<1>8. CASE Task
  <2> USE DEF InstallSteps, ConfirmSteps
  <2>1. ASSUME NEW release \in Releases, StartInstall(release) PROVE TypeOK'
    <3>1. /\ UNCHANGED <<state, mountMarker, crashMarker, bundles, main, loaded>>
          /\ UNCHANGED <<reverting, signal, acknowledged>>
          /\ task' = [task EXCEPT !.pc = "stage", !.release = release]
      BY <2>1 DEF StartInstall, disk
    <3>2. /\ task' \in [pc : {"idle"} \cup InstallSteps \cup ConfirmSteps,
                        release : Ids, seen : Pointer]
          /\ task'.release \in Releases
      BY <3>1 DEF TypeOK, Ids
    <3> QED
      BY <3>1, <3>2 DEF TypeOK
  <2>2. CASE Stage
    BY <2>2 DEF TypeOK, Stage
  <2>3. CASE RemoveOld
    BY <2>3 DEF TypeOK, RemoveOld
  <2>4. CASE MoveIn
    BY <2>4 DEF TypeOK, MoveIn
  <2>5. CASE ReadForInstall
    BY <2>5 DEF TypeOK, ReadForInstall
  <2>6. CASE Promote
    <3>1. Promoted(task.seen, task.release) \in Pointer
      BY PromotedIsPointer DEF TypeOK
    <3> QED
      BY <2>6, <3>1 DEF TypeOK, Promote
  <2>7. CASE ClearMarker
    BY <2>7 DEF TypeOK, ClearMarker
  <2>8. CASE PruneEntry
    BY <2>8 DEF TypeOK, PruneEntry
  <2>9. CASE FinishInstall \/ TaskThrows
    BY <2>9, FreshProcess DEF TypeOK, FinishInstall, TaskThrows
  <2>10. CASE StartConfirm
    BY <2>10 DEF TypeOK, StartConfirm
  <2>11. CASE MarkMounted
    BY <2>11 DEF TypeOK, MarkMounted
  <2>12. CASE ReadForConfirm
    BY <2>12 DEF TypeOK, ReadForConfirm
  <2>13. CASE Confirm
    <3>1. Confirmed(task.seen) \in Pointer
      BY ConfirmedIsPointer DEF TypeOK
    <3> QED
      BY <2>13, <3>1, FreshProcess DEF TypeOK, Confirm
  <2> QED
    BY <1>8, <2>1, <2>2, <2>3, <2>4, <2>5, <2>6, <2>7, <2>8, <2>9, <2>10,
       <2>11, <2>12, <2>13 DEF Task
<1>9. CASE FatalError
  BY <1>9 DEF TypeOK, FatalError, Reverters
<1>10. CASE SignalArrives
  BY <1>10 DEF TypeOK, SignalArrives
<1>11. CASE OpenMarker
  BY <1>11 DEF TypeOK, OpenMarker
<1>12. CASE WriteMarker
  BY <1>12 DEF TypeOK, WriteMarker
<1>13. CASE Raise \/ Kill
  BY <1>13, FreshProcess DEF TypeOK, Raise, Kill, Die
<1>14. CASE UNCHANGED vars
  BY <1>14 DEF TypeOK, vars
<1> QED
  BY <1>1, <1>2, <1>3, <1>4, <1>5, <1>6, <1>7, <1>8, <1>9, <1>10, <1>11,
     <1>12, <1>13, <1>14 DEF Next

(* Every variable of the storage keeps its type, whatever accidents occur. *)
THEOREM TypeCorrect == Spec => []TypeOK
<1>1. Init => TypeOK
  BY FreshProcess, EmptyIsPointer DEF Init, TypeOK
<1>2. TypeOK /\ [Next]_vars => TypeOK'
  BY TypeStep
<1> QED
  BY <1>1, <1>2, PTL DEF Spec

-----------------------------------------------------------------------------
(***************************************************************************)
(* Retention.  Beside the property itself the invariant knows that a       *)
(* release being installed is on disk from the moment it is moved in, and  *)
(* that from its promotion to the end of the pruning both pointers stay    *)
(* within what the pruning keeps: a rollback of the handler in between     *)
(* only moves previous into current.                                       *)
(***************************************************************************)
Pointed == {state.current, state.previous} \ {None}

RetentionInv ==
    /\ Retained
    /\ task.pc \in {"read", "promote", "clear", "prune"} => task.release \in bundles
    /\ task.pc \in {"clear", "prune"} => Pointed \subseteq Kept

(* No pruning and no replacement loses a bundle that state.json names,     *)
(* unless the process dies inside the replacement of that bundle, or a     *)
(* stale state.json is written back.                                       *)
THEOREM RetentionHolds ==
    ASSUME "gap" \notin Accidents, "stale" \notin Accidents
    PROVE  Spec => []Retained
<1>1. Init => RetentionInv
  BY DEF Init, RetentionInv, Retained, Empty, NoTask
<1>2. TypeOK /\ RetentionInv /\ [Next]_vars => RetentionInv'
  <2> SUFFICES ASSUME TypeOK, RetentionInv, [Next]_vars
               PROVE  RetentionInv'
    OBVIOUS
  <2> USE DEF disk, process
  <2>1. CASE UNCHANGED <<state, bundles, task>>
    BY <2>1 DEF RetentionInv, Retained, Kept, Pointed
  <2>2. CASE Next
    <3>1. CASE Launch \/ ReadMarker \/ DeleteMarker \/ Resolve \/ FatalError
                 \/ SignalArrives \/ OpenMarker \/ WriteMarker
      BY <3>1, <2>1 DEF Launch, ReadMarker, DeleteMarker, Resolve, FatalError,
                        SignalArrives, OpenMarker, WriteMarker
    <3>2. ASSUME NEW t \in Reverters, RevertRead(t) \/ RevertTrust(t)
          PROVE  RetentionInv'
      BY <3>2, <2>1 DEF RevertRead, RevertTrust
    <3>3. ASSUME NEW t \in Reverters, RevertWrite(t), MayWrite(reverting[t].seen)
          PROVE  RetentionInv'
      <4>1. state' = RolledBack(state) \/ state' = state
        BY <3>3 DEF RevertWrite, MayWrite
      <4>2. Pointed' \subseteq Pointed
        BY <4>1 DEF Pointed, RolledBack
      <4>3. UNCHANGED <<bundles, task>>
        BY <3>3 DEF RevertWrite
      <4> QED
        BY <4>2, <4>3 DEF RetentionInv, Retained, Kept, Pointed
    <3>4. CASE Task
      <4>1. ASSUME NEW release \in Releases, StartInstall(release)
            PROVE  RetentionInv'
        BY <4>1 DEF StartInstall, QueueFree, RetentionInv, Retained, TypeOK
      <4>2. CASE Stage \/ StartConfirm \/ MarkMounted \/ ReadForConfirm
        BY <4>2 DEF Stage, StartConfirm, MarkMounted, ReadForConfirm,
                    QueueFree, RetentionInv, Retained, TypeOK
      <4>3. CASE RemoveOld
        BY <4>3 DEF RemoveOld, RetentionInv, Retained, TypeOK
      <4>4. CASE MoveIn
        BY <4>4 DEF MoveIn, RetentionInv, Retained, TypeOK
      <4>5. CASE ReadForInstall
        BY <4>5 DEF ReadForInstall, RetentionInv, Retained, TypeOK
      <4>6. CASE Promote /\ MayWrite(task.seen)
        <5>1. state' = Promoted(task.seen, task.release)
              /\ UNCHANGED bundles /\ task' = [task EXCEPT !.pc = "clear"]
          BY <4>6 DEF Promote
        <5>2. task.seen = state
          BY <4>6 DEF MayWrite
        <5>3. /\ state'.current = task.release
              /\ state'.previous = task.seen.current
          BY <5>1 DEF Promoted
        <5>4. {task.release, task.seen.current} \ {None} \subseteq bundles
          BY <4>6, <5>2, <5>3 DEF Promote, RetentionInv, Retained
        <5> QED
          BY <5>1, <5>3, <5>4, <4>6
             DEF Promote, RetentionInv, Retained, Kept, Pointed, TypeOK
      <4>7. CASE ClearMarker
        BY <4>7 DEF ClearMarker, RetentionInv, Retained, Kept, Pointed, TypeOK
      <4>8. CASE PruneEntry
        BY <4>8 DEF PruneEntry, RetentionInv, Retained, Kept, Pointed
      <4>9. CASE FinishInstall \/ TaskThrows
        BY <4>9 DEF FinishInstall, TaskThrows, NoTask, RetentionInv, Retained
      <4>10. CASE Confirm /\ MayWrite(task.seen)
        <5>1. /\ UNCHANGED bundles
              /\ task.pc = "confirm" /\ task'.pc = "idle"
              /\ state' = Confirmed(task.seen)
          BY <4>10 DEF Confirm, NoTask
        <5>2. task.seen = state
          BY <4>10 DEF MayWrite
        <5>3. state'.current = state.current /\ state'.previous = state.previous
          BY <5>1, <5>2 DEF Confirmed, TypeOK, Pointer
        <5> QED
          BY <5>1, <5>3 DEF RetentionInv, Retained
      <4> QED
        BY <3>4, <4>1, <4>2, <4>3, <4>4, <4>5, <4>6, <4>7, <4>8, <4>9, <4>10
           DEF Task
    <3>5. CASE (Raise \/ Kill) /\ MayDie
      <4>1. task' = NoTask /\ UNCHANGED <<state, bundles>>
        BY <3>5 DEF Raise, Kill, Die
      <4>2. Pointed \subseteq bundles
        <5>1. CASE task.pc = "move"
          BY <5>1, <3>5 DEF MayDie, RetentionInv, Retained, Pointed
        <5>2. CASE task.pc # "move"
          BY <5>2 DEF RetentionInv, Retained, Pointed
        <5> QED
          BY <5>1, <5>2
      <4> QED
        BY <4>1, <4>2 DEF RetentionInv, Retained, NoTask, Pointed
    <3> QED
      BY <2>2, <3>1, <3>2, <3>3, <3>4, <3>5 DEF Next
  <2> QED
    BY <2>1, <2>2 DEF vars
<1>3. RetentionInv => Retained
  BY DEF RetentionInv
<1> QED
  BY <1>1, <1>2, <1>3, TypeCorrect, PTL DEF Spec
-----------------------------------------------------------------------------
(***************************************************************************)
(* Trial and trust: PendingIsUnmounted is inductive on its own.            *)
(***************************************************************************)

(* A release on trial stays unmounted until it is acknowledged, unless the *)
(* process dies before the old marker is cleared or a rollback vouches for *)
(* a state that is not its own.                                            *)
THEOREM TrialIsUnmounted ==
    ASSUME "uncleared" \notin Accidents, "vouched" \notin Accidents
    PROVE  Spec => []PendingIsUnmounted
<1>1. Init => PendingIsUnmounted
  BY DEF Init, PendingIsUnmounted
<1>2. TypeOK /\ PendingIsUnmounted /\ [Next]_vars
        => PendingIsUnmounted'
  <2> SUFFICES ASSUME TypeOK, PendingIsUnmounted, [Next]_vars
               PROVE  PendingIsUnmounted'
    OBVIOUS
  <2> USE DEF disk, process
  <2>1. CASE UNCHANGED <<state, mountMarker, task, acknowledged>>
    BY <2>1 DEF PendingIsUnmounted
  <2>2. CASE Next
    <3>1. CASE Launch \/ ReadMarker \/ DeleteMarker \/ Resolve \/ FatalError
                 \/ SignalArrives \/ OpenMarker \/ WriteMarker
      BY <3>1, <2>1 DEF Launch, ReadMarker, DeleteMarker, Resolve, FatalError,
                        SignalArrives, OpenMarker, WriteMarker
    <3>2. ASSUME NEW t \in Reverters, RevertRead(t) PROVE PendingIsUnmounted'
      BY <3>2, <2>1 DEF RevertRead
    <3>3. ASSUME NEW t \in Reverters, RevertWrite(t) PROVE PendingIsUnmounted'
      BY <3>3 DEF RevertWrite, RolledBack, PendingIsUnmounted
    <3>4. ASSUME NEW t \in Reverters, RevertTrust(t), MayTrust(reverting[t].seen)
          PROVE  PendingIsUnmounted'
      <4>1. state.status = "confirmed"
        BY <3>4 DEF MayTrust, RolledBack
      <4> QED
        BY <3>4, <4>1 DEF RevertTrust, PendingIsUnmounted
    <3>5. CASE Task
      <4>1. CASE Promote
        BY <4>1 DEF Promote, PendingIsUnmounted, TypeOK
      <4>2. CASE ClearMarker
        BY <4>2 DEF ClearMarker, PendingIsUnmounted
      <4>3. CASE MarkMounted
        BY <4>3 DEF MarkMounted, PendingIsUnmounted
      <4>4. CASE Confirm
        BY <4>4 DEF Confirm, Confirmed, PendingIsUnmounted, TypeOK, Pointer
      <4>5. CASE (\E release \in Releases : StartInstall(release))
                 \/ Stage \/ RemoveOld \/ MoveIn \/ ReadForInstall \/ PruneEntry
                 \/ FinishInstall \/ StartConfirm \/ ReadForConfirm \/ TaskThrows
        BY <4>5 DEF StartInstall, QueueFree, Stage, RemoveOld, MoveIn,
                    ReadForInstall, PruneEntry, FinishInstall, StartConfirm,
                    ReadForConfirm, TaskThrows, PendingIsUnmounted
      <4> QED
        BY <3>5, <4>1, <4>2, <4>3, <4>4, <4>5 DEF Task
    <3>6. CASE (Raise \/ Kill) /\ MayDie
      <4>1. UNCHANGED <<state, mountMarker, acknowledged>> /\ task.pc # "clear"
        BY <3>6 DEF Raise, Kill, Die, MayDie
      <4> QED
        BY <4>1 DEF PendingIsUnmounted
    <3> QED
      BY <2>2, <3>1, <3>2, <3>3, <3>4, <3>5, <3>6 DEF Next
  <2> QED
    BY <2>1, <2>2 DEF vars
<1> QED
  BY <1>1, <1>2, TypeCorrect, PTL DEF Spec
-----------------------------------------------------------------------------
(***************************************************************************)
(* The marker follows the state.  A promotion that has not cleared the old *)
(* marker yet may not meet a confirmed state with a fallback: otherwise    *)
(* clearing it would unmask a confirmed release.                           *)
(***************************************************************************)
OnTrial == state.previous # None => state.status = "pending"

MarkerInv ==
    /\ ConfirmedIsMounted
    /\ task.pc = "clear" => OnTrial
    /\ task.pc \in {"reread", "confirm"} => mountMarker

(* A confirmed release with a fallback has its marker, unless creating the *)
(* marker failed: whatever else is interleaved, killed or stale.           *)
THEOREM ConfirmedHasMarker ==
    ASSUME "unmarked" \notin Accidents
    PROVE  Spec => []ConfirmedIsMounted
<1>1. Init => MarkerInv
  BY DEF Init, MarkerInv, ConfirmedIsMounted, Empty, NoTask
<1>2. TypeOK /\ MarkerInv /\ [Next]_vars => MarkerInv'
  <2> SUFFICES ASSUME TypeOK, MarkerInv, [Next]_vars
               PROVE  MarkerInv'
    OBVIOUS
  <2> USE DEF disk, process
  <2>1. CASE UNCHANGED <<state, mountMarker, task>>
    BY <2>1 DEF MarkerInv, ConfirmedIsMounted, OnTrial
  <2>2. CASE Next
    <3>1. CASE Launch \/ ReadMarker \/ DeleteMarker \/ Resolve \/ FatalError
                 \/ SignalArrives \/ OpenMarker \/ WriteMarker
      BY <3>1, <2>1 DEF Launch, ReadMarker, DeleteMarker, Resolve, FatalError,
                        SignalArrives, OpenMarker, WriteMarker
    <3>2. ASSUME NEW t \in Reverters, RevertRead(t) PROVE MarkerInv'
      BY <3>2, <2>1 DEF RevertRead
    <3>3. ASSUME NEW t \in Reverters, RevertWrite(t) PROVE MarkerInv'
      BY <3>3 DEF RevertWrite, RolledBack, MarkerInv, ConfirmedIsMounted, OnTrial
    <3>4. ASSUME NEW t \in Reverters, RevertTrust(t) PROVE MarkerInv'
      BY <3>4 DEF RevertTrust, MarkerInv, ConfirmedIsMounted, OnTrial
    <3>5. CASE Task
      <4>1. CASE Promote
        BY <4>1 DEF Promote, Promoted, MarkerInv, ConfirmedIsMounted, OnTrial, TypeOK
      <4>2. CASE ClearMarker
        BY <4>2 DEF ClearMarker, MarkerInv, ConfirmedIsMounted, OnTrial, TypeOK
      <4>3. CASE MarkMounted /\ MayMark
        <5>1. mountMarker'
          BY <4>3 DEF MayMark
        <5> QED
          BY <4>3, <5>1 DEF MarkMounted, MarkerInv, ConfirmedIsMounted, TypeOK
      <4>4. CASE Confirm
        BY <4>4 DEF Confirm, NoTask, MarkerInv, ConfirmedIsMounted
      <4>5. CASE (\E release \in Releases : StartInstall(release))
                 \/ Stage \/ RemoveOld \/ MoveIn \/ ReadForInstall \/ StartConfirm
        BY <4>5 DEF StartInstall, QueueFree, Stage, RemoveOld, MoveIn,
                    ReadForInstall, StartConfirm, MarkerInv, ConfirmedIsMounted,
                    TypeOK
      <4>6. CASE ReadForConfirm
        BY <4>6 DEF ReadForConfirm, MarkerInv, ConfirmedIsMounted, TypeOK
      <4>7. CASE PruneEntry \/ FinishInstall \/ TaskThrows
        BY <4>7 DEF PruneEntry, FinishInstall, TaskThrows, NoTask, MarkerInv,
                    ConfirmedIsMounted
      <4> QED
        BY <3>5, <4>1, <4>2, <4>3, <4>4, <4>5, <4>6, <4>7 DEF Task
    <3>6. CASE Raise \/ Kill
      BY <3>6 DEF Raise, Kill, Die, NoTask, MarkerInv, ConfirmedIsMounted
    <3> QED
      BY <2>2, <3>1, <3>2, <3>3, <3>4, <3>5, <3>6 DEF Next
  <2> QED
    BY <2>1, <2>2 DEF vars
<1>3. MarkerInv => ConfirmedIsMounted
  BY DEF MarkerInv
<1> QED
  BY <1>1, <1>2, <1>3, TypeCorrect, PTL DEF Spec
-----------------------------------------------------------------------------
(***************************************************************************)
(* Decisions.  A rollback is decided only while the state is on trial (or  *)
(* has nothing to return to); the decision is carried as a thread's step,  *)
(* as the signal handler's verdict, as crash.marker or as what the         *)
(* bootstrap read there; and while it is carried no confirmation is under  *)
(* way.  A stale write does no harm here: none of them confirms.           *)
(***************************************************************************)
Decided == RollbackDecided \/ main.auto

DecisionInv ==
    /\ MarkerInv
    /\ Decided => OnTrial
    /\ task.pc \in {"reread", "confirm"} => ~Decided
    /\ task.pc # "idle" => main.pc = "up"
    /\ main.auto => main.pc = "delete"

(* A step that leaves state.json, the marker and the queue alone and takes *)
(* no decision preserves the invariant.                                    *)
LEMMA QuietStep ==
    ASSUME TypeOK, DecisionInv,
           UNCHANGED <<state, mountMarker, task>>,
           Decided' => Decided,
           task.pc # "idle" => main'.pc = "up",
           main'.auto => main'.pc = "delete"
    PROVE  DecisionInv'
  BY DEF DecisionInv, MarkerInv, ConfirmedIsMounted, OnTrial

(* Steps of the bootstrap.                                                 *)
LEMMA BootStep ==
    ASSUME TypeOK, DecisionInv, Launch \/ ReadMarker \/ DeleteMarker \/ Resolve
    PROVE  DecisionInv'
<1> USE DEF disk
<1>1. CASE Launch
  <2>1. Decided' => Decided
    BY <1>1 DEF Launch, Decided, RollbackDecided, TypeOK
  <2> QED
    BY <1>1, <2>1, QuietStep DEF Launch, TypeOK, DecisionInv
<1>2. CASE ReadMarker
  <2>1. Decided' => Decided
    BY <1>2 DEF ReadMarker, Decided, RollbackDecided, TypeOK
  <2> QED
    BY <1>2, <2>1, QuietStep DEF ReadMarker, TypeOK, DecisionInv
<1>3. CASE DeleteMarker
  <2>1. Decided' => Decided
    BY <1>3 DEF DeleteMarker, Decided, RollbackDecided, TypeOK, Reverters
  <2> QED
    BY <1>3, <2>1, QuietStep DEF DeleteMarker, TypeOK, DecisionInv
<1>4. CASE Resolve
  <2>1. Decided' => Decided
    BY <1>4 DEF Resolve, Decided, RollbackDecided, TypeOK
  <2> QED
    BY <1>4, <2>1, QuietStep DEF Resolve, TypeOK, DecisionInv
<1> QED
  BY <1>1, <1>2, <1>3, <1>4

(* Steps of the crash handlers before they touch state.json: to decide on  *)
(* a rollback they must have found no marker.                              *)
LEMMA CrashStep ==
    ASSUME TypeOK, DecisionInv,
           FatalError \/ SignalArrives \/ OpenMarker \/ WriteMarker
    PROVE  DecisionInv'
<1> USE DEF disk
<1>1. ASSUME ~mountMarker PROVE OnTrial /\ task.pc \notin {"reread", "confirm"}
  BY <1>1 DEF DecisionInv, MarkerInv, ConfirmedIsMounted, OnTrial, TypeOK, Pointer
<1>2. CASE FatalError
  BY <1>1, <1>2 DEF FatalError, DecisionInv, MarkerInv, ConfirmedIsMounted, OnTrial
<1>3. CASE SignalArrives
  <2>1. CASE mountMarker
    <3>1. Decided' => Decided
      BY <1>3, <2>1 DEF SignalArrives, Decided, RollbackDecided, TypeOK
    <3> QED
      BY <1>3, <3>1, QuietStep DEF SignalArrives, TypeOK, DecisionInv
  <2>2. CASE ~mountMarker
    BY <1>1, <1>3, <2>2 DEF SignalArrives, DecisionInv, MarkerInv,
                            ConfirmedIsMounted, OnTrial
  <2> QED
    BY <2>1, <2>2
<1>4. CASE OpenMarker
  <2>1. Decided' => Decided
    BY <1>4 DEF OpenMarker, Decided, RollbackDecided, TypeOK
  <2> QED
    BY <1>4, <2>1, QuietStep DEF OpenMarker, TypeOK, DecisionInv
<1>5. CASE WriteMarker
  <2>1. Decided' => Decided
    BY <1>5 DEF WriteMarker, Decided, RollbackDecided, TypeOK
  <2> QED
    BY <1>5, <2>1, QuietStep DEF WriteMarker, TypeOK, DecisionInv
<1> QED
  BY <1>2, <1>3, <1>4, <1>5

(* Steps of rollbackToPrevious: what it writes has nothing to return to.   *)
LEMMA RevertStep ==
    ASSUME TypeOK, DecisionInv, NEW t \in Reverters,
           RevertRead(t) \/ RevertWrite(t) \/ RevertTrust(t)
    PROVE  DecisionInv'
<1> USE DEF disk
<1>1. CASE RevertRead(t)
  <2>1. Decided' => Decided
    BY <1>1 DEF RevertRead, Decided, RollbackDecided, TypeOK, AtRest
  <2> QED
    BY <1>1, <2>1, QuietStep DEF RevertRead, DecisionInv
<1>2. CASE RevertTrust(t)
  <2>1. Decided' => Decided
    BY <1>2 DEF RevertTrust, Decided, RollbackDecided, TypeOK, AtRest
  <2>2. MarkerInv'
    BY <1>2 DEF RevertTrust, DecisionInv, MarkerInv, ConfirmedIsMounted, OnTrial
  <2> QED
    BY <1>2, <2>1, <2>2 DEF RevertTrust, DecisionInv, OnTrial
<1>3. CASE RevertWrite(t)
  <2>1. Decided' => Decided
    BY <1>3 DEF RevertWrite, Decided, RollbackDecided, TypeOK
  <2>2. CASE UNCHANGED state
    BY <1>3, <2>1, <2>2, QuietStep DEF RevertWrite, DecisionInv
  <2>3. CASE state' = RolledBack(reverting[t].seen)
    <3>1. state'.previous = None
      BY <2>3 DEF RolledBack
    <3> QED
      BY <1>3, <2>1, <3>1 DEF RevertWrite, DecisionInv, MarkerInv,
                              ConfirmedIsMounted, OnTrial
  <2> QED
    BY <1>3, <2>2, <2>3 DEF RevertWrite
<1> QED
  BY <1>1, <1>2, <1>3

(* Steps of the queue: a promotion puts on trial, and a confirmation goes  *)
(* on only where nothing has been decided.                                 *)
LEMMA TaskStep ==
    ASSUME TypeOK, DecisionInv, Task,
           "overtaken" \notin Accidents, "unmarked" \notin Accidents
    PROVE  DecisionInv'
<1> USE DEF disk
<1>1. (Decided' <=> Decided) /\ UNCHANGED <<main, reverting>>
  BY DEF Task, StartInstall, Stage, RemoveOld, MoveIn, ReadForInstall, Promote,
         ClearMarker, PruneEntry, FinishInstall, StartConfirm, MarkMounted,
         ReadForConfirm, Confirm, TaskThrows, Decided, RollbackDecided, process
<1>2. main.pc = "up"
  BY DEF Task, StartInstall, Stage, RemoveOld, MoveIn, ReadForInstall, Promote,
         ClearMarker, PruneEntry, FinishInstall, StartConfirm, MarkMounted,
         ReadForConfirm, Confirm, TaskThrows, QueueFree, DecisionInv
<1>3. CASE Promote
  <2>1. state'.status = "pending" /\ task'.pc = "clear"
    BY <1>3 DEF Promote, Promoted, TypeOK
  <2> QED
    BY <1>1, <1>2, <2>1 DEF DecisionInv, MarkerInv, ConfirmedIsMounted, OnTrial
<1>4. CASE Confirm
  <2>1. mountMarker' /\ ~Decided /\ task'.pc = "idle"
    BY <1>4 DEF Confirm, NoTask, DecisionInv, MarkerInv
  <2> QED
    BY <1>1, <1>2, <2>1 DEF DecisionInv, MarkerInv, ConfirmedIsMounted
<1>5. CASE MarkMounted /\ MayMark
  <2>1. mountMarker' /\ task'.pc = "reread" /\ UNCHANGED state
    BY <1>5 DEF MarkMounted, MayMark, TypeOK
  <2>2. ~Decided
    BY <1>2, <1>5 DEF MayMark, Decided, DecisionInv
  <2> QED
    BY <1>1, <1>2, <2>1, <2>2 DEF DecisionInv, MarkerInv, ConfirmedIsMounted, OnTrial
<1>6. CASE ClearMarker
  <2>1. OnTrial /\ task'.pc = "prune" /\ UNCHANGED state
    BY <1>6 DEF ClearMarker, DecisionInv, MarkerInv, TypeOK
  <2> QED
    BY <1>1, <1>2, <2>1
       DEF DecisionInv, MarkerInv, ConfirmedIsMounted, OnTrial, TypeOK, Pointer
<1>7. CASE (\E release \in Releases : StartInstall(release))
           \/ Stage \/ RemoveOld \/ MoveIn \/ ReadForInstall \/ PruneEntry
           \/ FinishInstall \/ StartConfirm \/ ReadForConfirm \/ TaskThrows
  <2>1. UNCHANGED <<state, mountMarker>>
    BY <1>7 DEF StartInstall, Stage, RemoveOld, MoveIn, ReadForInstall,
                PruneEntry, FinishInstall, StartConfirm, ReadForConfirm, TaskThrows
  <2>2. /\ task'.pc # "clear"
        /\ task'.pc \in {"reread", "confirm"} => task.pc = "reread"
    <3>1. CASE PruneEntry \/ FinishInstall \/ TaskThrows
      BY <3>1 DEF PruneEntry, FinishInstall, TaskThrows, NoTask, process
    <3>2. CASE Stage \/ RemoveOld \/ MoveIn \/ ReadForInstall
      BY <3>2 DEF Stage, RemoveOld, MoveIn, ReadForInstall, TypeOK
    <3>3. CASE (\E release \in Releases : StartInstall(release))
               \/ StartConfirm \/ ReadForConfirm
      BY <3>3 DEF StartInstall, StartConfirm, ReadForConfirm, TypeOK
    <3> QED
      BY <1>7, <3>1, <3>2, <3>3
  <2> QED
    BY <1>1, <1>2, <2>1, <2>2 DEF DecisionInv, MarkerInv, ConfirmedIsMounted, OnTrial
<1> QED
  BY <1>3, <1>4, <1>5, <1>6, <1>7 DEF Task

LEMMA DecisionHolds ==
    ASSUME "overtaken" \notin Accidents, "unmarked" \notin Accidents
    PROVE  Spec => [](TypeOK /\ DecisionInv)
<1>1. Init => DecisionInv
  BY DEF Init, DecisionInv, MarkerInv, ConfirmedIsMounted, OnTrial, Decided,
         RollbackDecided, Empty, NoTask, Down, NoSignal, AtRest
<1>2. TypeOK /\ DecisionInv /\ [Next]_vars => DecisionInv'
  <2> SUFFICES ASSUME TypeOK, DecisionInv, [Next]_vars PROVE DecisionInv'
    OBVIOUS
  <2>1. CASE UNCHANGED vars
    BY <2>1 DEF vars, disk, process, DecisionInv, MarkerInv, ConfirmedIsMounted,
                OnTrial, Decided, RollbackDecided
  <2>2. CASE Raise \/ Kill
    <3>1. /\ UNCHANGED <<state, mountMarker, crashMarker>>
          /\ main' = Down /\ task' = NoTask /\ signal' = NoSignal
          /\ reverting' = [t \in Reverters |-> AtRest]
      BY <2>2 DEF Raise, Kill, Die, disk
    <3>2. Decided' => Decided
      BY <3>1 DEF Decided, RollbackDecided, Down, NoSignal, AtRest
    <3> QED
      BY <3>1, <3>2 DEF DecisionInv, MarkerInv, ConfirmedIsMounted, OnTrial,
                        Down, NoTask, AtRest
  <2> QED
    BY <2>1, <2>2, BootStep, CrashStep, RevertStep, TaskStep DEF Next
<1> QED
  BY <1>1, <1>2, TypeCorrect, PTL DEF Spec

(* A rollback that was decided is still due when it is carried out, also   *)
(* by the next launch and whatever is written meanwhile, unless the boot   *)
(* is confirmed after the decision or its marker could not be created.     *)
THEOREM RollbackAlwaysDue ==
    ASSUME "overtaken" \notin Accidents, "unmarked" \notin Accidents
    PROVE  Spec => []RollbackIsDue
<1>1. TypeOK /\ DecisionInv => RollbackIsDue
  BY DEF DecisionInv, Decided, OnTrial, RollbackIsDue
<1> QED
  BY <1>1, DecisionHolds, PTL

-----------------------------------------------------------------------------
(***************************************************************************)
(* Implementation.  A rollback writes only what it read with a release to  *)
(* go back to; that it also leaves a release on trial is DecisionInv.      *)
(***************************************************************************)
FallbackSeen ==
    \A t \in Reverters : reverting[t].pc = "write" => reverting[t].seen.previous # None

LEMMA FallbackSeenStep == TypeOK /\ FallbackSeen /\ [Next]_vars => FallbackSeen'
<1> SUFFICES ASSUME TypeOK, FallbackSeen, [Next]_vars PROVE FallbackSeen'
  OBVIOUS
<1> USE DEF process
<1>1. CASE UNCHANGED reverting
  BY <1>1 DEF FallbackSeen
<1>2. CASE Launch \/ ReadMarker \/ Resolve \/ SignalArrives \/ OpenMarker \/ WriteMarker
           \/ Task \/ UNCHANGED vars
  BY <1>1, <1>2
     DEF Launch, ReadMarker, Resolve, SignalArrives, OpenMarker, WriteMarker, Task,
         StartInstall, Stage, RemoveOld, MoveIn, ReadForInstall, Promote, ClearMarker,
         PruneEntry, FinishInstall, StartConfirm, MarkMounted, ReadForConfirm,
         Confirm, TaskThrows, vars
<1>3. CASE DeleteMarker
  BY <1>3 DEF DeleteMarker, FallbackSeen, TypeOK, Reverters
<1>4. CASE FatalError
  BY <1>4 DEF FatalError, FallbackSeen, TypeOK, Reverters
<1>5. ASSUME NEW t \in Reverters, RevertRead(t) \/ RevertWrite(t) \/ RevertTrust(t)
      PROVE  FallbackSeen'
  BY <1>5 DEF RevertRead, RevertWrite, RevertTrust, FallbackSeen, TypeOK, AtRest
<1>6. CASE Raise \/ Kill
  BY <1>6 DEF Raise, Kill, Die, FallbackSeen, AtRest
<1> QED
  BY <1>2, <1>3, <1>4, <1>5, <1>6 DEF Next

LEMMA FallbackAlwaysSeen == Spec => [](TypeOK /\ FallbackSeen)
<1>1. Init => FallbackSeen
  BY DEF Init, FallbackSeen, AtRest
<1> QED
  BY <1>1, FallbackSeenStep, TypeCorrect, PTL DEF Spec

(* What may happen to state.json, when no write is stale.                  *)
LEMMA StateSteps ==
    ASSUME TypeOK, FallbackSeen, [Next]_vars, "stale" \notin Accidents
    PROVE  \/ UNCHANGED state
           \/ \E release \in Releases : state' = Promoted(state, release)
           \/ state' = Confirmed(state)
           \/ RollbackDecided /\ state.previous # None /\ state' = RolledBack(state)
<1> USE DEF disk
<1>1. CASE Promote /\ MayWrite(task.seen)
  BY <1>1 DEF Promote, MayWrite, TypeOK, InstallSteps
<1>2. CASE Confirm /\ MayWrite(task.seen)
  BY <1>2 DEF Confirm, MayWrite
<1>3. ASSUME NEW t \in Reverters, RevertWrite(t), MayWrite(reverting[t].seen)
      PROVE  \/ UNCHANGED state
             \/ RollbackDecided /\ state.previous # None /\ state' = RolledBack(state)
  BY <1>3 DEF RevertWrite, MayWrite, FallbackSeen, RollbackDecided
<1>4. CASE \/ Launch \/ ReadMarker \/ DeleteMarker \/ Resolve
           \/ FatalError \/ SignalArrives \/ OpenMarker \/ WriteMarker
           \/ Raise \/ Kill \/ UNCHANGED vars
           \/ \E t \in Reverters : RevertRead(t) \/ RevertTrust(t)
  BY <1>4 DEF Launch, ReadMarker, DeleteMarker, Resolve, FatalError, SignalArrives,
     OpenMarker, WriteMarker, Raise, Kill, Die, RevertRead, RevertTrust, vars
<1>5. CASE \/ \E release \in Releases : StartInstall(release)
           \/ Stage \/ RemoveOld \/ MoveIn \/ ReadForInstall \/ ClearMarker
           \/ PruneEntry \/ FinishInstall \/ StartConfirm \/ MarkMounted
           \/ ReadForConfirm \/ TaskThrows
  BY <1>5 DEF StartInstall, Stage, RemoveOld, MoveIn, ReadForInstall, ClearMarker,
     PruneEntry, FinishInstall, StartConfirm, MarkMounted, ReadForConfirm, TaskThrows
<1>6. CASE Task
  BY <1>1, <1>2, <1>5, <1>6 DEF Task
<1> QED
  BY <1>3, <1>4, <1>6 DEF Next

(* A release with nothing behind it is left by an installation only: its   *)
(* crashes change nothing, whichever accidents happen but stale writes.    *)
THEOREM FirstAlwaysKept ==
    ASSUME "stale" \notin Accidents
    PROVE  Spec => FirstIsKept
<1>1. TypeOK /\ FallbackSeen /\ [Next]_vars
        => [state.previous = None /\ state'.current # state.current
              => state'.status = "pending"]_state
  <2> SUFFICES ASSUME TypeOK, FallbackSeen, [Next]_vars, state.previous = None,
                      state'.current # state.current
               PROVE  state'.status = "pending"
    OBVIOUS
  <2> QED
    BY StateSteps DEF TypeOK, Pointer, Promoted, Confirmed
<1> QED
  BY <1>1, FallbackAlwaysSeen, PTL DEF Spec, FirstIsKept

(* state.json behaves as the abstract release pointer: installations,      *)
(* confirmations and rollbacks of releases on trial, and nothing else,     *)
(* unless a stale state is written back, a confirmation is overtaken by a  *)
(* rollback already decided, or the marker could not be created.           *)
THEOREM ImplementsReleasePointer ==
    ASSUME "stale" \notin Accidents, "overtaken" \notin Accidents,
           "unmarked" \notin Accidents
    PROVE  Spec => PointerPromise
<1>1. Init => ReleasePointerOfState!Init
  BY DEF Init, Empty, ReleasePointerOfState!Init, ReleasePointerOfState!Empty
<1>2. TypeOK /\ DecisionInv /\ FallbackSeen /\ [Next]_vars
        => [ReleasePointerOfState!Next]_state
  <2> SUFFICES ASSUME TypeOK, DecisionInv, FallbackSeen, [Next]_vars
               PROVE  [ReleasePointerOfState!Next]_state
    OBVIOUS
  <2>1. ASSUME NEW release \in Releases, state' = Promoted(state, release)
        PROVE  ReleasePointerOfState!Next
    BY <2>1 DEF Promoted, ReleasePointerOfState!Next, ReleasePointerOfState!Install,
                ReleasePointerOfState!Promoted
  <2>2. CASE state' = Confirmed(state)
    BY <2>2 DEF Confirmed, ReleasePointerOfState!Next, ReleasePointerOfState!Confirm,
                ReleasePointerOfState!Confirmed
  <2>3. CASE RollbackDecided /\ state.previous # None /\ state' = RolledBack(state)
    <3>1. state.status = "pending"
      BY <2>3 DEF DecisionInv, Decided, OnTrial
    <3> QED
      BY <2>3, <3>1 DEF RolledBack, ReleasePointerOfState!Next,
                        ReleasePointerOfState!RollBack, ReleasePointerOfState!RolledBack
  <2> QED
    BY <2>1, <2>2, <2>3, StateSteps
<1> QED
  BY <1>1, <1>2, DecisionHolds, FallbackAlwaysSeen, PTL
     DEF Spec, PointerPromise, ReleasePointerOfState!Spec

-----------------------------------------------------------------------------
(***************************************************************************)
(* A confirmed release.  One thread rolls back at a time, and writes while *)
(* the state is on trial; a confirmation writes what it has read, since no *)
(* rollback runs beside it.  Both hold although a rollback may write back  *)
(* a state that an installation has replaced.                              *)
(***************************************************************************)
OneReverts ==
    /\ reverting["boot"].pc # "idle" => main.pc = "resolve"
    /\ reverting["handler"].pc # "idle" => main.pc = "up"

RevertsTrial == \A t \in Reverters : reverting[t].pc = "write" => state.status = "pending"

ConfirmsSeen == task.pc = "confirm" => task.seen = state

StayInv == OneReverts /\ RevertsTrial /\ ConfirmsSeen

LEMMA OneRevertsStep == TypeOK /\ OneReverts /\ [Next]_vars => OneReverts'
<1> SUFFICES ASSUME TypeOK, OneReverts, [Next]_vars PROVE OneReverts'
  OBVIOUS
<1> USE DEF process, OneReverts
<1>1. CASE UNCHANGED <<main, reverting>>
  BY <1>1
<1>2. CASE SignalArrives \/ OpenMarker \/ WriteMarker \/ Task \/ UNCHANGED vars
  BY <1>1, <1>2
     DEF SignalArrives, OpenMarker, WriteMarker, Task, StartInstall, Stage, RemoveOld,
         MoveIn, ReadForInstall, Promote, ClearMarker, PruneEntry, FinishInstall,
         StartConfirm, MarkMounted, ReadForConfirm, Confirm, TaskThrows, vars
<1>3. CASE Launch \/ ReadMarker \/ Resolve
  BY <1>3 DEF Launch, ReadMarker, Resolve, TypeOK
<1>4. CASE DeleteMarker
  BY <1>4 DEF DeleteMarker, TypeOK, Reverters
<1>5. CASE FatalError
  BY <1>5 DEF FatalError, TypeOK, Reverters
<1>6. ASSUME NEW t \in Reverters, RevertRead(t) \/ RevertWrite(t) \/ RevertTrust(t)
      PROVE  OneReverts'
  <2>1. UNCHANGED main /\ reverting[t].pc # "idle"
        /\ \A u \in Reverters \ {t} : reverting'[u] = reverting[u]
    BY <1>6 DEF RevertRead, RevertWrite, RevertTrust, TypeOK
  <2> QED
    BY <2>1 DEF Reverters
<1>7. CASE Raise \/ Kill
  BY <1>7 DEF Raise, Kill, Die, AtRest, Reverters
<1> QED
  BY <1>2, <1>3, <1>4, <1>5, <1>6, <1>7 DEF Next

LEMMA StayStep ==
    ASSUME TypeOK, DecisionInv, StayInv, [Next]_vars
    PROVE  /\ StayInv'
           /\ state.status = "confirmed" /\ state'.current # state.current
                => state'.status = "pending"
<1> DEFINE Stays == state.status = "confirmed" /\ state'.current # state.current
                      => state'.status = "pending"
<1> USE DEF disk, process
<1>0. OneReverts'
  BY OneRevertsStep DEF StayInv
<1>1. ASSUME UNCHANGED state,
             task'.pc = "confirm" => task'.seen = state,
             \A t \in Reverters : reverting'[t].pc = "write" =>
                 reverting[t].pc = "write" \/ state.status = "pending"
      PROVE  StayInv' /\ Stays
  BY <1>0, <1>1 DEF StayInv, RevertsTrial, ConfirmsSeen
<1>2. CASE Launch \/ ReadMarker \/ Resolve \/ SignalArrives \/ OpenMarker \/ WriteMarker
           \/ UNCHANGED vars
  BY <1>1, <1>2 DEF Launch, ReadMarker, Resolve, SignalArrives, OpenMarker, WriteMarker,
     vars, StayInv, ConfirmsSeen
<1>3. CASE DeleteMarker \/ FatalError
  <2>1. /\ UNCHANGED <<state, task>>
        /\ \A t \in Reverters : reverting'[t].pc \in {reverting[t].pc, "read"}
    BY <1>3 DEF DeleteMarker, FatalError, TypeOK, Reverters
  <2> QED
    BY <1>1, <2>1 DEF StayInv, ConfirmsSeen
<1>4. ASSUME NEW t \in Reverters, RevertRead(t) \/ RevertTrust(t)
      PROVE  StayInv' /\ Stays
  <2>1. /\ UNCHANGED <<state, task>>
        /\ \A u \in Reverters \ {t} : reverting'[u] = reverting[u]
    BY <1>4 DEF RevertRead, RevertTrust, TypeOK
  <2>2. ASSUME reverting'[t].pc = "write" PROVE state.status = "pending"
    <3>1. reverting[t].pc = "read" /\ state.previous # None
      BY <1>4, <2>2 DEF RevertRead, RevertTrust, TypeOK, AtRest
    <3> QED
      BY <3>1 DEF DecisionInv, Decided, RollbackDecided, OnTrial
  <2> QED
    BY <1>1, <2>1, <2>2 DEF StayInv, ConfirmsSeen
<1>5. ASSUME NEW t \in Reverters, RevertWrite(t) PROVE StayInv' /\ Stays
  <2>1. /\ UNCHANGED task /\ reverting[t].pc = "write" /\ reverting'[t].pc = "trust"
        /\ \A u \in Reverters \ {t} : reverting'[u] = reverting[u]
    BY <1>5 DEF RevertWrite, TypeOK
  <2>2. \A u \in Reverters \ {t} : reverting[u].pc = "idle"
    BY <2>1 DEF StayInv, OneReverts, Reverters
  <2>3. state.status = "pending" /\ task.pc # "confirm"
    BY <2>1 DEF StayInv, RevertsTrial, DecisionInv, Decided, RollbackDecided
  <2>4. RevertsTrial'
    BY <2>1, <2>2 DEF RevertsTrial
  <2> QED
    BY <1>0, <2>1, <2>3, <2>4 DEF StayInv, ConfirmsSeen
<1>6. CASE Promote
  <2>1. UNCHANGED reverting /\ state'.status = "pending" /\ task'.pc = "clear"
    BY <1>6 DEF Promote, Promoted, TypeOK
  <2> QED
    BY <1>0, <2>1 DEF StayInv, RevertsTrial, ConfirmsSeen
<1>7. CASE Confirm
  <2>1. /\ UNCHANGED reverting /\ task'.pc = "idle"
        /\ state' = Confirmed(state) /\ ~RollbackDecided
    BY <1>7 DEF Confirm, NoTask, StayInv, ConfirmsSeen, DecisionInv, Decided
  <2>2. state'.current = state.current
    BY <2>1 DEF Confirmed, TypeOK, Pointer
  <2>3. RevertsTrial'
    BY <2>1 DEF RevertsTrial, RollbackDecided
  <2> QED
    BY <1>0, <2>1, <2>2, <2>3 DEF StayInv, ConfirmsSeen
<1>8. CASE ReadForConfirm
  BY <1>1, <1>8 DEF ReadForConfirm, TypeOK
<1>9. CASE (\E release \in Releases : StartInstall(release))
           \/ Stage \/ RemoveOld \/ MoveIn \/ ReadForInstall \/ ClearMarker \/ PruneEntry
           \/ FinishInstall \/ StartConfirm \/ MarkMounted \/ TaskThrows
  <2>1. UNCHANGED <<state, reverting>>
    BY <1>9 DEF StartInstall, Stage, RemoveOld, MoveIn, ReadForInstall, ClearMarker,
                PruneEntry, FinishInstall, StartConfirm, MarkMounted, TaskThrows
  <2>2. task'.pc # "confirm"
    <3>1. CASE PruneEntry \/ FinishInstall \/ TaskThrows
      BY <3>1 DEF PruneEntry, FinishInstall, TaskThrows, NoTask
    <3>2. CASE Stage \/ RemoveOld \/ MoveIn \/ ReadForInstall \/ ClearMarker \/ MarkMounted
      BY <3>2 DEF Stage, RemoveOld, MoveIn, ReadForInstall, ClearMarker, MarkMounted, TypeOK
    <3>3. CASE (\E release \in Releases : StartInstall(release)) \/ StartConfirm
      BY <3>3 DEF StartInstall, StartConfirm, TypeOK
    <3> QED
      BY <1>9, <3>1, <3>2, <3>3
  <2> QED
    BY <1>1, <2>1, <2>2
<1>10. CASE Raise \/ Kill
  <2>1. /\ UNCHANGED state /\ task' = NoTask
        /\ \A t \in Reverters : reverting'[t].pc = "idle"
    BY <1>10 DEF Raise, Kill, Die, AtRest
  <2> QED
    BY <1>1, <2>1 DEF NoTask
<1>11. CASE Task
  BY <1>6, <1>7, <1>8, <1>9, <1>11 DEF Task
<1> QED
  BY <1>2, <1>3, <1>4, <1>5, <1>10, <1>11 DEF Next

(* A confirmed release stays current until the next installation, whatever *)
(* crashes meanwhile, also when a rollback writes back a state that is no  *)
(* longer there: then the release it leaves had not been confirmed.        *)
THEOREM ConfirmedAlwaysStays ==
    ASSUME "overtaken" \notin Accidents, "unmarked" \notin Accidents
    PROVE  Spec => ConfirmedStays
<1>1. Init => StayInv
  BY DEF Init, StayInv, OneReverts, RevertsTrial, ConfirmsSeen, AtRest, NoTask, Reverters
<1>2. TypeOK /\ DecisionInv /\ StayInv /\ [Next]_vars
        => /\ StayInv'
           /\ [state.status = "confirmed" /\ state'.current # state.current
                 => state'.status = "pending"]_state
  BY StayStep
<1> QED
  BY <1>1, <1>2, DecisionHolds, PTL DEF Spec, ConfirmedStays
=============================================================================
