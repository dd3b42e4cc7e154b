----------------------------- MODULE StorageIos -----------------------------
(***************************************************************************)
(* SalvePushStorage on iOS: the files under salve-push/, the serial queue  *)
(* that installs and confirms releases, the fatal-error handler and the    *)
(* signal handler that run beside it on other threads, the bootstrap that  *)
(* picks a bundle before JavaScript exists, and the death of the process   *)
(* between any two file operations.  A step is one file operation.         *)
(***************************************************************************)
EXTENDS PointerState

CONSTANTS
    Broken,     \* releases whose bundle crashes before it can call the SDK
    DiskFull,   \* whether writing or creating a file may fail
    Accidents   \* the accidents, named at the end, that an execution may meet

AccidentKinds ==
    {"uncleared", "gap", "stale", "overtaken", "unmarked", "vouched"}

ASSUME BrokenAreReleases == Broken \subseteq Releases
ASSUME DiskFullIsBoolean == DiskFull \in BOOLEAN
ASSUME AccidentsAreNamed == Accidents \subseteq AccidentKinds

VARIABLES
    state,         \* state.json, replaced atomically
    mountMarker,   \* mount.marker exists
    crashMarker,   \* crash.marker: absent, torn, or with isAutoRollback
    bundles,       \* releases whose releases/<id>/bundle.js exists
    main,          \* the bootstrap: its step and the crash marker it read
    loaded,        \* the bundle JavaScript runs, None for the embedded one
    task,          \* what the serial queue is executing
    reverting,     \* rollbackToPrevious, per thread that may be inside it
    signal,        \* the POSIX signal handler
    acknowledged   \* history: notifyAppReady marked the current release

disk == <<state, mountMarker, crashMarker, bundles>>
process == <<main, loaded, task, reverting, signal>>
vars == <<disk, process, acknowledged>>

\* The bootstrap, and whichever hook a fatal error reaches: both end in one call.
Reverters == {"boot", "handler"}
AtRest == [pc |-> "idle", seen |-> Empty]
NoTask == [pc |-> "idle", release |-> None, seen |-> Empty]
NoSignal == [pc |-> "idle", auto |-> FALSE]
Down == [pc |-> "down", auto |-> FALSE]

InstallSteps == {"stage", "remove", "move", "read", "promote", "clear", "prune"}
ConfirmSteps == {"mark", "reread", "confirm"}

TypeOK ==
    /\ state \in Pointer
    /\ mountMarker \in BOOLEAN
    /\ crashMarker \in {"absent", "torn", "auto", "manual"}
    /\ bundles \subseteq Releases
    /\ main \in [pc : {"down", "read", "delete", "resolve", "up"}, auto : BOOLEAN]
    /\ loaded \in Ids
    /\ task \in [pc : {"idle"} \cup InstallSteps \cup ConfirmSteps,
                 release : Ids, seen : Pointer]
    /\ task.pc \in InstallSteps => task.release \in Releases
    /\ reverting \in [Reverters -> [pc : {"idle", "read", "write", "trust"},
                                    seen : Pointer]]
    /\ signal \in [pc : {"idle", "open", "write", "raise"}, auto : BOOLEAN]
    /\ acknowledged \in BOOLEAN

Init ==
    /\ state = Empty
    /\ mountMarker = FALSE
    /\ crashMarker = "absent"
    /\ bundles = {}
    /\ main = Down
    /\ loaded = None
    /\ task = NoTask
    /\ reverting = [t \in Reverters |-> AtRest]
    /\ signal = NoSignal
    /\ acknowledged = FALSE

-----------------------------------------------------------------------------
(* resolveBundlePath, on the main thread before JavaScript boots.          *)

Launch ==
    /\ main.pc = "down"
    /\ main' = [main EXCEPT !.pc = "read"]
    /\ UNCHANGED <<disk, loaded, task, reverting, signal, acknowledged>>

ReadMarker ==
    /\ main.pc = "read"
    /\ main' = IF crashMarker = "absent"
                 THEN [pc |-> "resolve", auto |-> FALSE]
                 ELSE [pc |-> "delete", auto |-> crashMarker = "auto"]
    /\ UNCHANGED <<disk, loaded, task, reverting, signal, acknowledged>>

\* Variant: the marker is deleted and its request forgotten.
DeleteMarkerOnly ==
    /\ main.pc = "delete"
    /\ crashMarker' = "absent"
    /\ main' = [pc |-> "resolve", auto |-> FALSE]
    /\ UNCHANGED <<state, mountMarker, bundles, loaded, task, reverting, signal,
                   acknowledged>>

\* The marker is gone before the rollback it asks for begins.
DeleteMarker ==
    /\ main.pc = "delete"
    /\ crashMarker' = "absent"
    /\ main' = [pc |-> "resolve", auto |-> FALSE]
    /\ reverting' = IF main.auto
                      THEN [reverting EXCEPT !["boot"].pc = "read"]
                      ELSE reverting
    /\ UNCHANGED <<state, mountMarker, bundles, loaded, task, signal, acknowledged>>

Resolve ==
    /\ main.pc = "resolve"
    /\ reverting["boot"].pc = "idle"
    /\ loaded' = IF state.current \in bundles THEN state.current ELSE None
    /\ main' = [main EXCEPT !.pc = "up"]
    /\ UNCHANGED <<disk, task, reverting, signal, acknowledged>>

-----------------------------------------------------------------------------
(* rollbackToPrevious, entered by the bootstrap or by the error handler.   *)

\* Variant: a rollback with nothing to go back to is not given up.
RevertReadAlways(t) ==
    /\ reverting[t].pc = "read"
    /\ reverting' = [reverting EXCEPT ![t] = [pc |-> "write", seen |-> state]]
    /\ UNCHANGED <<disk, main, loaded, task, signal, acknowledged>>

RevertRead(t) ==
    /\ reverting[t].pc = "read"
    /\ reverting' = [reverting EXCEPT ![t] =
                       IF state.previous = None
                         THEN AtRest
                         ELSE [pc |-> "write", seen |-> state]]
    /\ UNCHANGED <<disk, main, loaded, task, signal, acknowledged>>

\* try? writeState: a failed write is not noticed.
RevertWrite(t) ==
    /\ reverting[t].pc = "write"
    /\ reverting' = [reverting EXCEPT ![t].pc = "trust"]
    /\ \/ state' = RolledBack(reverting[t].seen)
       \/ DiskFull /\ UNCHANGED state
    /\ UNCHANGED <<mountMarker, crashMarker, bundles>>
    /\ UNCHANGED <<main, loaded, task, signal, acknowledged>>

RevertTrust(t) ==
    /\ reverting[t].pc = "trust"
    /\ reverting' = [reverting EXCEPT ![t] = AtRest]
    /\ \/ mountMarker' = TRUE
       \/ DiskFull /\ UNCHANGED mountMarker
    /\ UNCHANGED <<state, crashMarker, bundles>>
    /\ UNCHANGED <<main, loaded, task, signal, acknowledged>>

-----------------------------------------------------------------------------
(* installUpdate and confirmBoot, one at a time on the serial queue.       *)

\* A release that crashes before it can call the SDK asks for nothing.
QueueFree == main.pc = "up" /\ task.pc = "idle" /\ loaded \notin Broken

StartInstall(release) ==
    /\ QueueFree
    /\ task' = [task EXCEPT !.pc = "stage", !.release = release]
    /\ UNCHANGED <<disk, main, loaded, reverting, signal, acknowledged>>

\* createDirectory and the write of bundle.js.tmp, a file nothing else reads.
Stage ==
    /\ task.pc = "stage"
    /\ task' = [task EXCEPT !.pc = "remove"]
    /\ UNCHANGED <<disk, main, loaded, reverting, signal, acknowledged>>

RemoveOld ==
    /\ task.pc = "remove"
    /\ bundles' = bundles \ {task.release}
    /\ task' = [task EXCEPT !.pc = "move"]
    /\ UNCHANGED <<state, mountMarker, crashMarker>>
    /\ UNCHANGED <<main, loaded, reverting, signal, acknowledged>>

MoveIn ==
    /\ task.pc = "move"
    /\ bundles' = bundles \cup {task.release}
    /\ task' = [task EXCEPT !.pc = "read"]
    /\ UNCHANGED <<state, mountMarker, crashMarker>>
    /\ UNCHANGED <<main, loaded, reverting, signal, acknowledged>>

\* Variant: the marker is cleared before the new release is promoted.
ReadAndClear ==
    /\ task.pc = "read"
    /\ mountMarker' = FALSE
    /\ task' = [task EXCEPT !.pc = "promote", !.seen = state]
    /\ UNCHANGED <<state, crashMarker, bundles>>
    /\ UNCHANGED <<main, loaded, reverting, signal, acknowledged>>

ReadForInstall ==
    /\ task.pc = "read"
    /\ task' = [task EXCEPT !.pc = "promote", !.seen = state]
    /\ UNCHANGED <<disk, main, loaded, reverting, signal, acknowledged>>

Promote ==
    /\ task.pc = "promote"
    /\ state' = Promoted(task.seen, task.release)
    /\ task' = [task EXCEPT !.pc = "clear"]
    /\ acknowledged' = FALSE
    /\ UNCHANGED <<mountMarker, crashMarker, bundles>>
    /\ UNCHANGED <<main, loaded, reverting, signal>>

\* Variant: the marker of the release before is left where it is.
LeaveMarker ==
    /\ task.pc = "clear"
    /\ task' = [task EXCEPT !.pc = "prune"]
    /\ UNCHANGED <<disk, main, loaded, reverting, signal, acknowledged>>

ClearMarker ==
    /\ task.pc = "clear"
    /\ mountMarker' = FALSE
    /\ task' = [task EXCEPT !.pc = "prune"]
    /\ UNCHANGED <<state, crashMarker, bundles>>
    /\ UNCHANGED <<main, loaded, reverting, signal, acknowledged>>

\* Variant: only the release installed survives the pruning.
KeptAlone == {task.release}

\* keep: the release installed and the one current when it was promoted.
Kept == {task.release, task.seen.current}

PruneEntry ==
    /\ task.pc = "prune"
    /\ \E stale \in bundles \ Kept : bundles' = bundles \ {stale}
    /\ UNCHANGED <<state, mountMarker, crashMarker, process, acknowledged>>

FinishInstall ==
    /\ task.pc = "prune"
    /\ bundles \subseteq Kept
    /\ task' = NoTask
    /\ UNCHANGED <<disk, main, loaded, reverting, signal, acknowledged>>

StartConfirm ==
    /\ QueueFree
    /\ task' = [task EXCEPT !.pc = "mark"]
    /\ UNCHANGED <<disk, main, loaded, reverting, signal, acknowledged>>

\* The result of createFile is discarded.
MarkMounted ==
    /\ task.pc = "mark"
    /\ \/ mountMarker' = TRUE
       \/ DiskFull /\ UNCHANGED mountMarker
    /\ task' = [task EXCEPT !.pc = "reread"]
    /\ acknowledged' = TRUE
    /\ UNCHANGED <<state, crashMarker, bundles>>
    /\ UNCHANGED <<main, loaded, reverting, signal>>

ReadForConfirm ==
    /\ task.pc = "reread"
    /\ task' = [task EXCEPT !.pc = "confirm", !.seen = state]
    /\ UNCHANGED <<disk, main, loaded, reverting, signal, acknowledged>>

Confirm ==
    /\ task.pc = "confirm"
    /\ state' = Confirmed(task.seen)
    /\ task' = NoTask
    /\ UNCHANGED <<mountMarker, crashMarker, bundles>>
    /\ UNCHANGED <<main, loaded, reverting, signal, acknowledged>>

\* A write that fails rejects the promise; what was done before it stays done.
TaskThrows ==
    /\ DiskFull
    /\ task.pc \in {"stage", "promote", "confirm"}
    /\ task' = NoTask
    /\ UNCHANGED <<disk, main, loaded, reverting, signal, acknowledged>>

-----------------------------------------------------------------------------
(* Crashes.                                                                *)

\* Variant: mount.marker is not consulted.
FatalErrorUnchecked ==
    /\ main.pc = "up"
    /\ reverting["handler"].pc = "idle"
    /\ reverting' = [reverting EXCEPT !["handler"].pc = "read"]
    /\ UNCHANGED <<disk, main, loaded, task, signal, acknowledged>>

\* An uncaught exception or a fatal JavaScript error, on the thread it struck.
\* With the boot confirmed the handler does nothing.
FatalError ==
    /\ main.pc = "up"
    /\ reverting["handler"].pc = "idle"
    /\ ~mountMarker
    /\ reverting' = [reverting EXCEPT !["handler"].pc = "read"]
    /\ UNCHANGED <<disk, main, loaded, task, signal, acknowledged>>

\* handleSignal runs on the thread that got the signal; the others go on.
SignalArrives ==
    /\ main.pc # "down"
    /\ signal.pc = "idle"
    /\ signal' = [pc |-> "open", auto |-> ~mountMarker]
    /\ UNCHANGED <<disk, main, loaded, task, reverting, acknowledged>>

\* O_TRUNC leaves the file empty until it is written.
OpenMarker ==
    /\ signal.pc = "open"
    /\ \/ /\ crashMarker' = "torn"
          /\ signal' = [signal EXCEPT !.pc = "write"]
       \/ /\ DiskFull
          /\ signal' = [signal EXCEPT !.pc = "raise"]
          /\ UNCHANGED crashMarker
    /\ UNCHANGED <<state, mountMarker, bundles>>
    /\ UNCHANGED <<main, loaded, task, reverting, acknowledged>>

\* The bootstrap may have unlinked the open file: then nobody sees the write.
WriteMarker ==
    /\ signal.pc = "write"
    /\ signal' = [signal EXCEPT !.pc = "raise"]
    /\ \/ crashMarker' = IF crashMarker = "absent" THEN "absent"
                         ELSE IF signal.auto THEN "auto" ELSE "manual"
       \/ DiskFull /\ UNCHANGED crashMarker
    /\ UNCHANGED <<state, mountMarker, bundles>>
    /\ UNCHANGED <<main, loaded, task, reverting, acknowledged>>

Die ==
    /\ main' = Down
    /\ loaded' = None
    /\ task' = NoTask
    /\ reverting' = [t \in Reverters |-> AtRest]
    /\ signal' = NoSignal
    /\ UNCHANGED <<disk, acknowledged>>

Raise == signal.pc = "raise" /\ Die

\* The system or the user ends the process, or power fails.
Kill == main.pc # "down" /\ Die

-----------------------------------------------------------------------------
(***************************************************************************)
(* Accidents: circumstances in which a step of the code breaks what it     *)
(* means to keep: an ordering of two actors, or a death or a failure at    *)
(* one place.  A step taken in such circumstances is taken only if they    *)
(* are admitted, so that a run can say which ones a property survives.     *)
(* With all of them admitted an execution is any execution of the code.    *)
(***************************************************************************)

\* A rollback has been decided on the absence of mount.marker, and is to come.
RollbackDecided ==
    \/ \E t \in Reverters : reverting[t].pc \in {"read", "write"}
    \/ signal.pc \in {"open", "write"} /\ signal.auto
    \/ crashMarker = "auto"

\* "uncleared": after the new release is promoted, before the old marker is gone.
\* "gap": with the bundle of a release in use removed and not yet moved in.
MayDie ==
    /\ task.pc = "clear" => "uncleared" \in Accidents
    /\ task.pc = "move" /\ task.release \in {state.current, state.previous}
         => "gap" \in Accidents

\* "stale": state.json is no longer what the writer read.
MayWrite(seen) == state # seen => "stale" \in Accidents

\* "overtaken": a rollback was decided before the confirmation.
\* "unmarked": the confirmation fails to create mount.marker.
MayMark ==
    /\ RollbackDecided => "overtaken" \in Accidents
    /\ ~mountMarker' => "unmarked" \in Accidents

\* "vouched": a rollback marks a boot confirmed, and its state is not on disk.
MayTrust(seen) == state # RolledBack(seen) => "vouched" \in Accidents

Task ==
    \/ \E release \in Releases : StartInstall(release)
    \/ Stage \/ RemoveOld \/ MoveIn \/ ReadForInstall
    \/ Promote /\ MayWrite(task.seen)
    \/ ClearMarker \/ PruneEntry \/ FinishInstall
    \/ StartConfirm
    \/ MarkMounted /\ MayMark
    \/ ReadForConfirm
    \/ Confirm /\ MayWrite(task.seen)
    \/ TaskThrows

Next ==
    \/ Launch \/ ReadMarker \/ DeleteMarker \/ Resolve
    \/ \E t \in Reverters :
         \/ RevertRead(t)
         \/ RevertWrite(t) /\ MayWrite(reverting[t].seen)
         \/ RevertTrust(t) /\ MayTrust(reverting[t].seen)
    \/ Task
    \/ FatalError
    \/ SignalArrives \/ OpenMarker \/ WriteMarker
    \/ Raise /\ MayDie
    \/ Kill /\ MayDie

Spec == Init /\ [][Next]_vars

-----------------------------------------------------------------------------
(* Safety.                                                                 *)

\* Pruning never outruns the pointers: the bundle of the current release and
\* of the one a rollback would restore is on disk, except while installUpdate
\* is replacing that very bundle (pruneOldReleases, ADR 0004 section 2).
Retained ==
    {state.current, state.previous} \ {None} \subseteq
        bundles \cup IF task.pc = "move" THEN {task.release} ELSE {}

\* A release on trial has no mount.marker until notifyAppReady put one there,
\* so a crash before that is seen as a failed update (markMounted and
\* clearMountedMarker against state.json).
PendingIsUnmounted ==
    state.status = "pending" /\ mountMarker =>
        acknowledged \/ task.pc = "clear"

\* A confirmed release that could be rolled back has its mount.marker, the only
\* thing the crash handlers look at (confirmBoot, isMounted).
ConfirmedIsMounted ==
    state.status = "confirmed" /\ state.previous # None => mountMarker

\* A rollback decided on the absence of mount.marker is still due when it is
\* carried out, by the thread that decided it or, through crash.marker, by the
\* next launch: the release has not been confirmed meanwhile
\* (rollbackToPreviousIfUnconfirmed, handleSignal, processCrashMarkerIfPresent).
RollbackIsDue ==
    RollbackDecided \/ main.auto =>
        state.status = "pending" \/ state.previous = None

ReleasePointerOfState == INSTANCE ReleasePointer WITH pointer <- state

\* Every write of state.json is an installation, a confirmation, or the
\* rollback of a release still on trial (readState/writeState pairs of the
\* queue and of the crash handlers).
PointerPromise == ReleasePointerOfState!Spec

\* A release that has confirmed its boot stays current until an installation
\* replaces it (rollbackToPreviousIfUnconfirmed, processCrashMarkerIfPresent).
ConfirmedStays ==
    [][state.status = "confirmed" /\ state'.current # state.current
         => state'.status = "pending"]_state

\* What was installed on the embedded bundle has nothing behind it: no crash
\* takes it away, however rollbacks, installations and deaths interleave; only
\* the next installation does (guard let previous in rollbackToPrevious).
FirstIsKept ==
    [][state.previous = None /\ state'.current # state.current
         => state'.status = "pending"]_state

-----------------------------------------------------------------------------
(* Liveness.                                                               *)

\* A broken bundle does crash; the other steps are taken by running threads,
\* and the user opens the app again.
BrokenCrashes == loaded \in Broken /\ SignalArrives

Fairness ==
    /\ WF_vars(Launch) /\ WF_vars(ReadMarker) /\ WF_vars(DeleteMarker)
    /\ WF_vars(Resolve)
    /\ \A t \in Reverters :
         WF_vars(RevertRead(t)) /\ WF_vars(RevertWrite(t)) /\ WF_vars(RevertTrust(t))
    /\ WF_vars(OpenMarker) /\ WF_vars(WriteMarker) /\ WF_vars(Raise)
    /\ WF_vars(BrokenCrashes)

\* From some point on nothing but a broken bundle ends the process.
OthersSpareIt ==
    <>[][(Kill => Raise) /\ (SignalArrives => BrokenCrashes)]_vars

FairSpec == Spec /\ Fairness /\ OthersSpareIt

\* A broken release on trial, with a sound release to go back to, is left: the
\* app ends up running something else (the crash handlers, the marker and the
\* next launch together).
Recovers ==
    /\ main.pc = "up" /\ loaded \in Broken /\ loaded = state.current
    /\ ~mountMarker
    /\ state.previous \in bundles \ Broken
    ~> main.pc = "up" /\ loaded \notin Broken

=============================================================================
