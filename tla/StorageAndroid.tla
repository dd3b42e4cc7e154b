--------------------------- MODULE StorageAndroid ---------------------------
(***************************************************************************)
(* SalvePushStorage on Android: as on iOS, but installations and           *)
(* confirmations run on a pool of threads with nothing between them, and a *)
(* file is replaced by hand: opened and truncated under a temporary name   *)
(* that all writers share, written, and renamed with the result ignored.   *)
(* A thread writes to the file it has opened, whatever that is called by   *)
(* then.  The signal handler is CrashHandlers, here in two steps.          *)
(***************************************************************************)
EXTENDS PointerState

CONSTANTS
    Pool,       \* the threads of Promise.parallel
    DiskFull,   \* whether creating, writing or renaming a file may fail
    Accidents   \* the accidents, named at the end, that an execution may meet

Rollbacks == {"boot", "handler"}
Threads == Pool \cup Rollbacks

AccidentKinds == {"shared", "stale", "twins", "pruned", "crossed", "overtaken",
                  "vouched", "gap", "uncleared", "unmoved"}

ASSUME DiskFullIsBoolean == DiskFull \in BOOLEAN
ASSUME AccidentsAreNamed == Accidents \subseteq AccidentKinds
ASSUME PoolIsApart == Pool \cap Rollbacks = {}
ASSUME StateIsNoRelease == "state" \notin Releases

VARIABLES
    files,         \* each file, and the temporary one that is to replace it
    mountMarker,   \* mount.marker exists
    crashMarker,   \* absent, or what crash.marker asks for; torn asks for nothing
    main,          \* the bootstrap
    thread,        \* what a thread is doing
    signal,        \* the signal handler, and what isMounted told it
    acknowledged   \* history: notifyAppReady marked the current release

disk == <<files, mountMarker, crashMarker>>
vars == <<disk, main, thread, signal, acknowledged>>

\* state.json, and releases/<id>/bundle.js.
State == "state"
Names == Releases \cup {State}

Torn == [Empty EXCEPT !.status = "torn"]
Absent == [Empty EXCEPT !.status = "absent"]
Whole == [Empty EXCEPT !.status = "whole"]
File == [tmp : Pointer \cup {Torn, Absent, Whole},
         live : Pointer \cup {Torn, Absent, Whole}]
NoFile == [tmp |-> Absent, live |-> Absent]

\* readState: what cannot be read or parsed is the empty state.
Read(content) == IF content \in {Torn, Absent} THEN Empty ELSE content
state == Read(files[State].live)

BundleSteps == {"stage", "fill", "remove", "move"}
StateSteps == {"open", "write", "rename"}
Steps == {"idle", "mark", "read", "clear", "list", "prune", "trust"}
         \cup BundleSteps \cup StateSteps

\* fd: by which name, if any, the file the thread has open can be found.
Thread == [job : {"none", "install", "confirm", "rollback"}, pc : Steps,
           release : Ids, seen : Pointer, fd : {"none", "tmp", "live", "gone"},
           stale : SUBSET Releases]
AtRest == [job |-> "none", pc |-> "idle", release |-> None, seen |-> Empty,
           fd |-> "none", stale |-> {}]

TypeOK ==
    /\ files \in [Names -> File]
    /\ mountMarker \in BOOLEAN
    /\ crashMarker \in {"absent", "auto", "manual"}
    /\ main \in {"down", "boot", "up", "failed"}
    /\ thread \in [Threads -> Thread]
    /\ signal \in {"idle", "auto", "manual"}
    /\ acknowledged \in BOOLEAN

Init ==
    /\ files = [n \in Names |-> NoFile]
    /\ mountMarker = FALSE
    /\ crashMarker = "absent"
    /\ main = "down"
    /\ thread = [t \in Threads |-> AtRest]
    /\ signal = "idle"
    /\ acknowledged = FALSE

-----------------------------------------------------------------------------
(* Files.                                                                  *)

\* The file a thread is replacing, and what it is to hold.
Target(t) == IF thread[t].pc \in BundleSteps THEN thread[t].release ELSE State

Value(t) ==
    IF thread[t].pc \in BundleSteps THEN Whole
    ELSE CASE thread[t].job = "install" -> Promoted(thread[t].seen, thread[t].release)
           [] thread[t].job = "confirm" -> Confirmed(thread[t].seen)
           [] OTHER -> RolledBack(thread[t].seen)

Goes(t, pc) == thread' = [thread EXCEPT ![t].pc = pc]

\* Opening truncates the temporary file, whoever has left or is writing it.
Opens(t, next) ==
    /\ files' = [files EXCEPT ![Target(t)].tmp = Torn]
    /\ thread' = [thread EXCEPT ![t].pc = next, ![t].fd = "tmp"]

Writes(t, next) ==
    /\ files' = IF thread[t].fd = "tmp" THEN [files EXCEPT ![Target(t)].tmp = Value(t)]
                ELSE IF thread[t].fd = "live" THEN [files EXCEPT ![Target(t)].live = Value(t)]
                ELSE files
    /\ Goes(t, next)

\* Those who have the moved file open, and those who have the replaced one.
Moved(n, t) ==
    [thread[t] EXCEPT !.fd =
       IF Target(t) # n \/ @ \in {"none", "gone"} THEN @
       ELSE IF @ = "tmp" THEN "live" ELSE "gone"]

\* There may be no temporary file left to move: nobody looks.
Renames(t, next) ==
    LET n == Target(t)
        others == [u \in Threads |->
                     IF files[n].tmp = Absent THEN thread[u] ELSE Moved(n, u)]
    IN  /\ files' = IF files[n].tmp = Absent THEN files
                    ELSE [files EXCEPT ![n] = [tmp |-> Absent, live |-> files[n].tmp]]
        /\ thread' = [others EXCEPT ![t] = next]

\* What was deleted and is still open can be written to, and is gone.
Orphaned(n, name) ==
    [t \in Threads |->
       [thread[t] EXCEPT !.fd = IF Target(t) = n /\ @ \in name THEN "gone" ELSE @]]

-----------------------------------------------------------------------------
(* installUpdate and confirmBoot, on any thread of the pool.               *)

Starts(t, job, pc, release) ==
    /\ main = "up"
    /\ thread[t] = AtRest
    /\ thread' = [thread EXCEPT ![t].job = job, ![t].pc = pc, ![t].release = release]
    /\ UNCHANGED <<disk, main, signal>>

StartInstall(t, release) == Starts(t, "install", "stage", release)
StartConfirm(t) == Starts(t, "confirm", "mark", None)

At(t, pc) == thread[t].pc = pc /\ UNCHANGED <<main, crashMarker, signal>>

StageBundle(t) == At(t, "stage") /\ Opens(t, "fill") /\ UNCHANGED mountMarker

FillBundle(t) == At(t, "fill") /\ Writes(t, "remove") /\ UNCHANGED mountMarker

RemoveOld(t) ==
    /\ At(t, "remove")
    /\ files' = [files EXCEPT ![thread[t].release].live = Absent]
    /\ thread' = [Orphaned(thread[t].release, {"live"}) EXCEPT ![t].pc = "move"]
    /\ UNCHANGED mountMarker

MoveIn(t) ==
    /\ At(t, "move")
    /\ Renames(t, [thread[t] EXCEPT !.pc = "read", !.fd = "none"])
    /\ UNCHANGED mountMarker

MarkMounted(t) ==
    /\ At(t, "mark")
    /\ mountMarker' = TRUE
    /\ Goes(t, "read")
    /\ UNCHANGED files

\* Variant: the marker is cleared before the new release is promoted.
ReadAndClear(t) ==
    /\ At(t, "read")
    /\ thread' = [thread EXCEPT ![t] =
                    IF thread[t].job = "rollback" /\ state.previous = None THEN AtRest
                    ELSE [thread[t] EXCEPT !.pc = "open", !.seen = state]]
    /\ mountMarker' = (mountMarker /\ thread[t].job # "install")
    /\ UNCHANGED files

\* A rollback with nothing to go back to ends here.
ReadState(t) ==
    /\ At(t, "read")
    /\ thread' = [thread EXCEPT ![t] =
                    IF thread[t].job = "rollback" /\ state.previous = None THEN AtRest
                    ELSE [thread[t] EXCEPT !.pc = "open", !.seen = state]]
    /\ UNCHANGED <<files, mountMarker>>

\* Variant: state.json is written in place.
OpenInPlace(t) ==
    /\ At(t, "open")
    /\ files' = [files EXCEPT ![State].live = Torn]
    /\ thread' = [thread EXCEPT ![t].pc = "write", ![t].fd = "live"]
    /\ UNCHANGED mountMarker

OpenState(t) == At(t, "open") /\ Opens(t, "write") /\ UNCHANGED mountMarker

WriteState(t) == At(t, "write") /\ Writes(t, "rename") /\ UNCHANGED mountMarker

AfterWrite(t) ==
    CASE thread[t].job = "install" -> [thread[t] EXCEPT !.pc = "clear", !.fd = "none"]
      [] thread[t].job = "confirm" -> AtRest
      [] OTHER -> [thread[t] EXCEPT !.pc = "trust", !.fd = "none"]

RenameState(t) ==
    At(t, "rename") /\ Renames(t, AfterWrite(t)) /\ UNCHANGED mountMarker

\* renameTo answers false, the temporary file stays, and the task goes on.
RenameFails(t) ==
    /\ DiskFull
    /\ \/ At(t, "move") /\ thread' = [thread EXCEPT ![t].pc = "read", ![t].fd = "none"]
       \/ At(t, "rename") /\ thread' = [thread EXCEPT ![t] = AfterWrite(t)]
    /\ UNCHANGED <<files, mountMarker>>

\* Variant: the marker of the release before is left where it is.
LeaveMarker(t) == At(t, "clear") /\ Goes(t, "list") /\ UNCHANGED <<files, mountMarker>>

ClearMarker(t) ==
    /\ At(t, "clear")
    /\ mountMarker' = FALSE
    /\ Goes(t, "list")
    /\ UNCHANGED files

\* Variant: only the release installed survives the pruning.
KeptAlone(t) == {thread[t].release}

Kept(t) == {thread[t].release, thread[t].seen.current}

\* listFiles answers once; what is staged later is not in it.
ListReleases(t) ==
    /\ At(t, "list")
    /\ thread' = [thread EXCEPT ![t].pc = "prune",
                    ![t].stale = {r \in Releases \ Kept(t) : files[r] # NoFile}]
    /\ UNCHANGED <<files, mountMarker>>

DeleteRelease(t, r) ==
    /\ At(t, "prune")
    /\ r \in thread[t].stale
    /\ files' = [files EXCEPT ![r] = NoFile]
    /\ thread' = [Orphaned(r, {"tmp", "live"}) EXCEPT ![t].stale = @ \ {r}]
    /\ UNCHANGED mountMarker

FinishInstall(t) ==
    /\ At(t, "prune")
    /\ thread[t].stale = {}
    /\ thread' = [thread EXCEPT ![t] = AtRest]
    /\ UNCHANGED <<files, mountMarker>>

\* The end of a rollback.
TrustPrevious(t) ==
    /\ At(t, "trust")
    /\ mountMarker' = TRUE
    /\ thread' = [thread EXCEPT ![t] = AtRest]
    /\ UNCHANGED files

\* An exception ends the task, or the handler, where it was thrown; nobody
\* catches one in the bootstrap, and the app goes down with it.
Throws(t) ==
    /\ DiskFull
    /\ thread[t].pc \in {"stage", "fill", "mark", "open", "write", "trust"}
    /\ thread' = [thread EXCEPT ![t] = AtRest]
    /\ main' = IF t = "boot" THEN "failed" ELSE main
    /\ UNCHANGED <<disk, signal>>

-----------------------------------------------------------------------------
(* The bootstrap, crashes and death.                                       *)

RollsBack(t) == thread' = [thread EXCEPT ![t].job = "rollback", ![t].pc = "read"]

\* The marker is read, deleted, and then acted upon.
Launch ==
    /\ main = "down"
    /\ main' = "boot"
    /\ crashMarker' = "absent"
    /\ IF crashMarker = "auto" THEN RollsBack("boot") ELSE UNCHANGED thread
    /\ UNCHANGED <<files, mountMarker, signal>>

Resolve ==
    /\ main = "boot"
    /\ thread["boot"] = AtRest
    /\ main' = "up"
    /\ UNCHANGED <<disk, thread, signal>>

\* Variant: the exception handler does not look at mount.marker.
UncaughtUnchecked ==
    /\ main \in {"up", "failed"}
    /\ thread["handler"] = AtRest
    /\ RollsBack("handler")
    /\ UNCHANGED <<disk, main, signal>>

UncaughtException ==
    /\ main \in {"up", "failed"}
    /\ thread["handler"] = AtRest
    /\ ~mountMarker
    /\ RollsBack("handler")
    /\ UNCHANGED <<disk, main, signal>>

SignalArrives ==
    /\ main # "down"
    /\ signal = "idle"
    /\ signal' = IF mountMarker THEN "manual" ELSE "auto"
    /\ UNCHANGED <<disk, main, thread>>

Dies ==
    /\ main # "down"
    /\ main' = "down"
    /\ thread' = [t \in Threads |-> AtRest]
    /\ signal' = "idle"
    /\ UNCHANGED <<files, mountMarker>>

Raise == signal # "idle" /\ crashMarker' = signal /\ Dies
Kill == Dies /\ UNCHANGED crashMarker

-----------------------------------------------------------------------------
(* Accidents, as in StorageIos: orderings of two actors, or a death, in    *)
(* which a step breaks what it means to keep.                              *)

Holds(t, n) == Target(t) = n /\ thread[t].fd # "none"

\* "shared": two threads have the temporary file of state.json open.
MayOpen(t) ==
    (\E u \in Threads \ {t} : Holds(u, State)) => "shared" \in Accidents

\* "stale": state.json is no longer what the writer read.  "crossed": a
\* confirmation finishes for a release installed since it began.
MayReplace(t) ==
    /\ state # thread[t].seen => "stale" \in Accidents
    /\ thread[t].job = "confirm"
         /\ (~mountMarker \/ \E u \in Pool : thread[u].pc = "clear")
         => "crossed" \in Accidents

\* "twins": two tasks install the same release.
MayStart(release) ==
    (\E t \in Pool : thread[t].job = "install" /\ thread[t].release = release)
        => "twins" \in Accidents

\* "pruned": a release is deleted while it is being installed, or when another
\* installation has replaced what the list of those to keep was drawn up from.
MayDelete(t, r) ==
    \/ \E u \in Pool : thread[u].release = r
    \/ ~({state.current, state.previous}
            \subseteq {Value(t).current, Value(t).previous, None})
    => "pruned" \in Accidents

\* "overtaken": a rollback was decided before the confirmation.
RollbackDecided ==
    \/ \E t \in Rollbacks : thread[t].job = "rollback" /\ thread[t].pc # "trust"
    \/ signal = "auto"
    \/ crashMarker = "auto"
MayMark == RollbackDecided => "overtaken" \in Accidents

\* "unmoved": an installation goes on with its bundle not moved in, or with
\* state.json not replaced, and clears the marker of, and prunes beside, a
\* release it has not promoted.
MayFail(t) == thread[t].job = "install" => "unmoved" \in Accidents

\* "vouched": a rollback marks a boot confirmed that is not the one it restored,
\* also because it restored none: its own rename failed.
MayTrust(t) == state # RolledBack(thread[t].seen) => "vouched" \in Accidents

\* "gap": with the bundle of a release in use removed and not yet moved in.
\* "uncleared": after a new release is promoted, before the old marker is gone.
MayDie ==
    /\ (\E t \in Pool : thread[t].pc = "move"
          /\ thread[t].release \in {state.current, state.previous})
         => "gap" \in Accidents
    /\ (\E t \in Pool : thread[t].pc = "clear") => "uncleared" \in Accidents

Task(t) ==
    \/ \E release \in Releases : StartInstall(t, release) /\ MayStart(release)
    \/ StartConfirm(t)
    \/ StageBundle(t) \/ FillBundle(t) \/ RemoveOld(t) \/ MoveIn(t)
    \/ MarkMounted(t) /\ MayMark
    \/ ClearMarker(t)
    \/ ListReleases(t)
    \/ \E r \in Releases : DeleteRelease(t, r) /\ MayDelete(t, r)
    \/ FinishInstall(t)

Step ==
    \/ \E t \in Pool : Task(t)
    \/ \E t \in Threads :
         \/ ReadState(t)
         \/ OpenState(t) /\ MayOpen(t)
         \/ WriteState(t)
         \/ RenameState(t) /\ MayReplace(t)
         \/ RenameFails(t) /\ MayFail(t)
         \/ TrustPrevious(t) /\ MayTrust(t)
         \/ Throws(t)
    \/ Launch \/ Resolve
    \/ UncaughtException \/ SignalArrives
    \/ Raise /\ MayDie
    \/ Kill /\ MayDie

\* A confirmation marks the release that is current; an installation, if its
\* rename succeeds, puts another in its place.
Remembers ==
    acknowledged' =
        \/ \E t \in Pool : thread[t].pc = "mark" /\ thread'[t].pc = "read"
        \/ /\ acknowledged
           /\ ~\E t \in Pool : /\ thread[t].pc = "rename" /\ thread'[t].pc = "clear"
                               /\ files' # files

Next == Step /\ Remembers

Spec == Init /\ [][Next]_vars

-----------------------------------------------------------------------------
(* Safety.                                                                 *)

\* state.json is never found half written, at whatever step the process dies,
\* or the device would forget its releases (writeState, readState).
NeverTorn == files[State].live # Torn

\* The bundles state.json names are on disk and whole, except while
\* installUpdate is replacing that very bundle, also when two installations
\* overlap (pruneOldReleases, installUpdate).
Retained ==
    \A r \in {state.current, state.previous} \ {None} :
        \/ files[r].live = Whole
        \/ \E t \in Pool : thread[t].pc = "move" /\ thread[t].release = r

\* A release on trial has no mount.marker until notifyAppReady put one there,
\* so a crash before that is seen as a failed update: no task of the pool and
\* no rollback marks a release that another has just promoted (markMounted and
\* clearMountedMarker against state.json).
PendingIsUnmounted ==
    state.status = "pending" /\ mountMarker =>
        acknowledged \/ \E t \in Pool : thread[t].pc = "clear"

\* A confirmed release that could be rolled back has its mount.marker, also
\* when tasks overlap on the pool (confirmBoot, isMounted).
ConfirmedIsMounted ==
    state.status = "confirmed" /\ state.previous # None => mountMarker

\* A rollback decided on the absence of mount.marker is still due when it is
\* carried out, in this process or, through crash.marker, in the next one: no
\* task has confirmed the release meanwhile (uncaughtException, handleSignal,
\* processCrashMarkerIfPresent).
RollbackIsDue ==
    RollbackDecided => state.status = "pending" \/ state.previous = None

ReleasePointerOfState == INSTANCE ReleasePointer WITH pointer <- state

\* What can be read from state.json changes as ReleasePointer promises.
PointerPromise == ReleasePointerOfState!Spec
=============================================================================
