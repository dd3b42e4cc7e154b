# Salve Push in TLA+

Salve Push updates the JavaScript of React Native apps over the air. A publisher signs a bundle
and uploads it to a Go server; the SDK in the app asks the server for the newest release, checks
its hash and its Ed25519 signature, writes it to the device's storage and makes it the bundle the
next launch loads. A release is on trial until the app calls `notifyAppReady()`. If the app crashes
before that, native code restores the release before it.

This directory models the on-device storage of both platforms, the signal handlers, the JavaScript
facade, the generated glue between JavaScript and native code, and the server with its devices.
The order in which things happen is what decides whether they are right, and the order is chosen
by threads, signals, crashes and networks: that is what the models keep. The bytes are left out.

## 1. Inventory

| Component | Source | State | Operations | Interacts with | Hard behaviour | What makes it correct |
|---|---|---|---|---|---|---|
| Storage, iOS | `packages/sdk-react-native/ios/SalvePushStorage.swift`, `HybridSalvePushNative.swift`, `SalvePushBundleResolver.swift` | `state.json`, `mount.marker`, `crash.marker`, `releases/<id>/bundle.js`; a serial queue | `installUpdate`, `confirmBoot`, `resolveBundlePath`, pruning | called by the SDK; shares files with the crash handlers | death between two file operations, full disk, read-modify-write on two threads | pointed-to bundles exist; the marker tells the truth about the trial; a confirmed release stays |
| Crash handling | `cpp/salve_push_crash_handler.cpp` on both platforms, `ios/SalvePushCrashHandlerBridge.mm`, `SalvePushRollback.swift` | marker paths, previously installed handlers | signal handler, uncaught exception, fatal JavaScript error, `rollbackToPreviousIfUnconfirmed` | reads `mount.marker`, writes `crash.marker` and `state.json` | runs beside the queue at any point; torn marker; chaining | a crash on trial reverts, a crash after it does not; a broken release is left in the end |
| Storage and crash handling, Android | `android/.../SalvePushStorage.kt`, `SalvePushCrashHandler.kt`, `HybridSalvePushNative.kt` | same layout | same | same | a thread pool with no queue, one shared `state.json.tmp`, ignored results | as on iOS, and no torn state |
| SDK facade | `src/SalvePush.ts`, `src/update.ts` | `config`, `verifiedBundle`, `verifiedBundleReleaseId` | configure, check, download, install, sync | HTTP to the server, native storage | module state read and cleared across awaits | what is installed is what was verified under the same identifier |
| Server: releases | `server/internal/releases`, `server/internal/api` | rows of `releases`, `published_at` | Create, Publish, ListUpdates, OpenBundle, List, Get | database, bundle store, devices, publishers | concurrent uploads, partial failure, truncated answers | rows have their bundles; offers never go back |
| Bundle storage | `server/internal/storage` | blobs by key | Put, Get (Exists, Delete have no caller) | server | local store writes in place | a key of a row is whole |
| Database and migrations | `server/internal/database`, `server/migrations` | schema, `schema_migrations` | migrate at start | PostgreSQL advisory lock | several instances starting at once | each migration runs once, and nobody waits for ever |
| Signing protocol | `packages/protocol/src/signing.ts` | none | canonical message, sign, verify | CLI and SDK | field boundaries of the message | two different releases never share a message |
| CLI | `packages/cli/src` | key file, environment | generate, load, release | server | check, then write | a key is not overwritten unasked |
| Server process | `server/cmd/server`, `server/internal/config` | configuration | start | everything on the server | none | none worth a model |
| Nitro glue | `src/specs`, `nitrogen/generated`, `android/src/main/cpp/cpp-adapter.cpp` | the hybrid object and its Kotlin or Swift part, promises in flight | registration, construction, three methods, destruction | JavaScript, native storage, the collector | listeners added while the work settles; memory lent for one call; disposal with work under way | the native part lives exactly as long as needed; each call is answered once, after its work, as the work ended |
| Demo | `examples/` | none | one button per operation | the SDK | none | none |

`PROJECT.json` has the same list with the status of each part, and the hazards, each at the line
where it bites.

## 2. Plan

In this order, so that the most important behaviour came first:

1. `PointerState`, `ReleasePointer`: the content of `state.json` and the abstract promise about it.
2. `StorageIos` with `MCStorageIos`: the detailed storage, crash handlers and deaths, shown to
   implement `ReleasePointer`; `StorageIosProofs`.
3. `UpdateFeed`, the promise of a server to its devices; `ReleaseServer`, shown to keep it;
   `ReleaseServerProofs`.
4. `CrashHandlers`: chains of `sigaction` handlers, installation twice, crashes on two threads;
   `CrashHandlersProofs`. `StorageIos` and `StorageAndroid` use its outcome, a marker or none.
5. `AsyncCalls`, `NitroBridge`: the promise of an asynchronous call, and the glue shown to implement
   it; `NitroBridgeProofs`.
6. `SalvePushSdk` with `MCSalvePushSdk`: the facade over the pointer that `ReleasePointer` promises,
   between the server that `UpdateFeed` promises and sessions that crash; `SalvePushSdkProofs`.
7. `StorageAndroid` with `MCStorageAndroid`: the same promise with a pool of threads for a queue and
   files replaced by hand; `StorageAndroidProofs`.

The modules stand on each other by what they promise, not by inclusion: the facade composes the
two abstract specifications that the storage and the server are proved to implement, `ReleasePointer`
and `UpdateFeed`. That `StorageIos` has a single task, the others waiting in order, is the serial
`DispatchQueue` of `HybridSalvePushNative.swift`, taken as Apple documents it. Still worth doing:
a composition of `SalvePushSdk` with the detailed storage in place of the pointer.

## 3. Modules and how they correspond to the code

### PointerState and ReleasePointer

`Pointer` is the record in `state.json` (`SalvePushState`); `boot_status` keeps its two values. The
code writes exactly four values there, each a function of the value it read: `Empty` (an
unreadable file reads so), `Promoted`, `Confirmed` and `RolledBack`. `ReleasePointer` is the
abstract specification: a pointer that is atomically installed into, confirmed, or rolled back,
the last only while on trial and with something to go back to.

### StorageIos

A step is one file operation, so that a death or another thread can come between any two. The
variables:

| Variable | In the code |
|---|---|
| `state`, `mountMarker`, `crashMarker`, `bundles` | the four kinds of file; `crashMarker` is absent, torn (opened with `O_TRUNC`, not yet written), or holds `isAutoRollback` |
| `main` | `resolveBundlePath` on the main thread: read the marker, delete it, resolve, then JavaScript is up |
| `loaded` | the bundle the running JavaScript came from |
| `task` | the closure on the serial `DispatchQueue`, with the state it read |
| `reverting` | `rollbackToPrevious` in each of the two threads that call it, with the state each read |
| `signal` | `handleSignal`, with the answer `isMounted` gave it |
| `acknowledged` | history only: `notifyAppReady` reached `markMounted` for the current release |

Death (`Die`) keeps the files and loses the rest. `Raise` is the end of the signal handler, `Kill`
everything else that ends a process.

**Accidents.** Written from the code, the storage breaks several of its own promises, each along
one kind of interleaving. Section "Accidents" of the module names the circumstances (`MayDie`,
`MayWrite`, `MayMark`, `MayTrust`, conjoined in `Next` to the steps they concern), and the constant
`Accidents` says in which of them a step may be taken. With all six, an execution is any execution of the code.
A run admits only accidents that break none of its properties, and there may be others that it could admit for
one of them: `ios_trial` leaves `vouched` and `uncleared` out although only `PendingIsUnmounted` needs that. It is
the theorems that cover each property together with *every* accident but those that break it. Each accident
in the table breaks the property by itself. Where the repository's documents promise otherwise, a
`bug_` run shows it.

| Accident | What happens | Breaks |
|---|---|---|
| `uncleared` | death between `writeState` and `clearMountedMarker` of an installation | `PendingIsUnmounted` |
| `gap` | death between `removeItem` and `moveItem` of a bundle in use | `Retained` |
| `stale` | a writer of `state.json` overwrites one it did not read | `Retained`, `FirstIsKept`, `PointerPromise` |
| `overtaken` | `markMounted` comes after a rollback was decided on the marker's absence | `RollbackIsDue`, `ConfirmedStays`, `PointerPromise` |
| `unmarked` | `createFile` of the marker fails unnoticed | `ConfirmedIsMounted`, `RollbackIsDue`, `ConfirmedStays`, `PointerPromise` |
| `vouched` | a rollback whose own write failed or was overwritten marks the boot confirmed | `PendingIsUnmounted` |

`ConfirmedStays` and `RollbackIsDue` survive `stale`: a stale write can undo a confirmation, or restore
an earlier release *on trial*, but a rollback writes only while the release it leaves is on trial, and
so never takes a confirmed one away. `FirstIsKept` says that a release with nothing behind it is left
by an installation only; nothing but `stale` breaks it.

What is abstracted: the bytes of a bundle and of `bundle.js.tmp` (nothing else reads the temporary
file); identifiers beyond equality; removing and renaming files does not fail, creating and writing
may (`DiskFull`); `.atomic` writes and renames are atomic, and what was written survives a death of
the process (no loss of what the kernel had not flushed); one signal handler at a time and one fatal
error at a time; a fatal error strikes once JavaScript is up, while a signal may come at any time,
during the bootstrap too. An Objective-C handler that ends in `abort` is a rollback followed by
`SignalArrives`. What is on the queue is any task the app may ask for once JavaScript runs a bundle
that is not `Broken`; a bundle that is `Broken` crashes before it can call the SDK.

### ReleaseServer

| Variable | In the code |
|---|---|
| `uploads` | each `POST /releases`: its step in `Service.Create` and the form it sent. `intact`: the bytes have the declared hash. `signed`: the signature is the publisher's (the server does not verify it) |
| `blobs` | `releases/<id>/bundle` in the store; `partial` while `io.Copy` runs and after it failed |
| `rows`, `published` | the `releases` table and `published_at` |
| `clock` | `time.Now()`, read where the code reads it |
| `devices` | `fetchLatestUpdate` and `downloadAndVerifyBundle` with the handlers behind them; `answer` is what the server has listed and the device has not received |

`Receive` is `handleCreate` up to the store: a form that is incomplete or whose percentage is none, and
bytes that have another hash than declared, are refused with a 400. A check is two steps: the server
lists (`ListUpdates`), and the answer arrives (`Check`) or is lost (`LoseAnswer`), while rows are published in
between. A device here asks only when its last check has ended, since one flow of the app awaits it: an app
whose two flows check at once, and take up their answers in either order, is `SalvePushSdk`.
Every upload gets a fresh uuid, so an upload names its release. `Insert` may commit and still be
reported as failed. `Crash` ends the requests in progress and keeps the stores. `CutShort` is the
dropped error of `io.Copy` in `handleBundle`: part of the body, status 200. A device accepts what
hashes to the digest it was offered and carries a valid signature; SHA-256 and Ed25519 are ideal.
Channel, platform and runtime version are one value, `Channels`; `rollout_percentage` is none, some, or one that is refused.
The S3 store, where an object appears whole, has only the outcomes of the local store in which
`CreateBlob` and `CopyBlob` follow each other. The clock is strictly increasing: releases of equal
`created_at` are in no order the code defines. `List` and `Get` change nothing.

`UpdateFeed` is what devices may rely on: a channel has one release on offer, or none yet, and what
replaces it was never on offer before. `ReleaseServer` implements it (`FeedPromise`) with `OnOffer`, the
newest published row, for what is on offer, and `HadTheirTurn`, the published rows that were the
newest of their channel when they were published, for what has been: a release published
late, behind a newer one, never gets its turn. It is the order of `created_at` that makes the promise:
were the oldest listed first, what has been replaced could come back.

### CrashHandlers

One process, which ends with the first deadly signal (`death`), and a step is one system call.

| Variable | In the code |
|---|---|
| `install`, `installs`, `armed` | `salve_push_install_crash_handlers`: between its two calls of `sigaction` for a signal, the signals left, how often it was called |
| `disposition` | what the kernel holds for each signal: default, ignored, `handleSignal`, or a crash reporter's |
| `previous` | `g_previous_handlers` |
| `reporter` | what a crash reporter has saved when it installed its own handler: it may come before ours, after it, or in between |
| `crash` | what a thread is doing about its signal, how many of our frames are on its stack, which signals are blocked on it |
| `marker` | `crash.marker`, torn from `O_TRUNC` to the end of the write |
| `reported` | history: the signals for which the reporter was called |
| `met` | history: which of five circumstances has occurred |

A signal that is being handled is blocked on its thread, so `raise` takes effect when the handler
returns. No handler here ever returns to what it interrupted, so a second signal on the same thread
replaces the first. What follows `chainToPreviousHandler` depends on who is called: the reporter
hands on to whom it replaced, returns, or ends the process; our own handler, installed twice, is its
own previous one and nests until the stack is full: where in its last frame, before the marker is
written again or after, is left open (`StackFills`), for every frame truncates the marker before it
formats the new one. A stack overflow of the app leaves no room for a handler installed without
`SA_ONSTACK`. The answer of `isMounted` is left to the storage modules.

The circumstances: `again` (installed twice: the reporter is not heard, and in the end `overflow`),
`between` (the reporter installs itself between our two calls), `together` (two threads are in handlers
at once: one truncates what the other has written, and the process dies of either), `overflow` (no room
on the stack for the handler, or for another frame of it: no marker, or an empty one), `disk` (the
marker cannot be opened or written). A second installation may so cost both the reporter's call and the
marker.

`CrashAdvances` is the safety behind "a crash ends": each step of a thread in a handler, whoever
installs what meanwhile, leaves less of a measure (`LeftToDo`: installations that may still replace
`SIG_DFL`, frames the stack has room for, steps of the handler), compared in this order. Only another
signal on the thread sets it back. `CrashEnds` adds fairness.

### AsyncCalls and NitroBridge

`AsyncCalls` is what JavaScript may rely on: a call throws and nothing is done, or its work is done
once and it is answered once, after the work and as the work ended. `NitroBridge` is the generated
code of both platforms, chosen by `platform` once and for all.

| Variable | In the code |
|---|---|
| `library` | `JNI_OnLoad`, `registerAllNatives`; `+load` on iOS |
| `object`, `owners` | the hybrid object from its constructor to its destructor, and who holds a strong reference to its Kotlin or Swift part: the constructing scope, the retained pointer of `toUnsafe`, `_javaPart` or `_swiftPart`, and on Android each closure given to `Promise.parallel`, which asks the part for `context` (`ClosureHolds`) |
| `step` | where a call is on the thread of JavaScript: in the native method, creating the C++ promise, adding the one listener, the other, returning |
| `queue`, `work` | the closures given to `Promise.parallel`, and what became of each |
| `heard`, `promise`, `answer` | the listeners on the native promise, the C++ promise, what JavaScript was told |
| `buffer`, `bytes` | whether JavaScript has used the bundle's memory again, and which memory the work was given |
| `runtime` | it may end, between two calls |

The work may settle at any point among the listeners: one added late is called at once (`Settles`,
Nitro's promise, external). `OutcomeHeard`: whenever it settles, the call that has returned has the
outcome in its promise. `MayStart` is what the queue of each platform lets begin, and `QueueMoves` that
it always lets something: no failure and no order of arrival blocks it. JavaScript runs one call's
synchronous part at a time (`Idle`). The object may be given up and destroyed with work under way: the
promise and its listeners outlive it, and so does the Kotlin part, until the last closure has ended (`PartIsOwned`).
On iOS the closures call a type, and the Swift part goes with the object. The order of work on the queue of
iOS is assumed (`MayStart`), not shown.
Equality, memory size and text of an object, the unused conversion of a C++ object back into its
Swift part, and closures passed as arguments are left out.

### SalvePushSdk

| Variable | In the code |
|---|---|
| `config`, `verifiedBundle`, `verifiedBundleReleaseId` | the variables of `SalvePush.ts`; a bundle is named by the release its bytes are of |
| `call` | at which `await` each flow of the app is, and its local variables |
| `published`, `offered` | what the server has had, and its newest release for each configuration |
| `pointer`, `contents` | `state.json` as `ReleasePointer` promises it, and whose bytes are stored under each identifier |
| `up`, `running` | the session and the release it was loaded from |
| `proven`, `met` | history: the releases that ran and confirmed themselves; the circumstances `twice` (installed over a release on trial) and `early` (a release confirmed one it had just installed) |

Between two awaits JavaScript runs undivided, so an action is the code from one await to the next.
`undisturbed` says that nobody else has used the SDK since a call began: the condition of
`SyncInstallsWhatItFound`, which two overlapping calls do break. The configuration is read again after
each await, so a bundle may be verified with another key than that of the server it was found on;
it is always some configured key (`InstalledAsVerified`).

A `Broken` release crashes before it confirms itself, but may use the SDK before it crashes. A rolled-back release is still the newest the server offers, and `sync` installs
it again, any number of times: the code has no limit of attempts.

### StorageAndroid

As `StorageIos`, with these differences in the code and so in the model: `Promise.parallel` has a
pool of threads, so any number of installations and confirmations run at once (`Pool`); a file is
replaced by open, write and rename, three steps each, with one `state.json.tmp` for all writers; a
thread goes on writing to the file it has opened, whatever that is called by then or if it was
deleted (`fd`, `Moved`, `Orphaned`); the result of `renameTo` is ignored, so that a task goes on
after a rename that did nothing (`RenameFails`); and exceptions end the task
in which they are thrown, or the app when it is the bootstrap. `signal` and `crashMarker` reduce
`CrashHandlers` to its decision and its outcome; a torn marker asks for nothing and reads as none.
`acknowledged` is history, as on iOS: `Remembers` says how each step of the code (`Step`) changes it.

| Accident | What happens | Breaks |
|---|---|---|
| `shared` | two threads have `state.json.tmp` open at once | every property but `TypeOK` |
| `stale` | a writer replaces a state it did not read | `Retained`, `RollbackIsDue`, `PointerPromise` |
| `twins` | two tasks install the same release | `Retained` |
| `pruned` | a release is deleted while it is being installed, or on a list that another installation has overtaken | `Retained` |
| `crossed` | a confirmation finishes for a release installed since it began | `ConfirmedIsMounted`, `RollbackIsDue`, `PointerPromise` |
| `overtaken` | a boot is confirmed although a rollback has been decided | `RollbackIsDue`, `PointerPromise` |
| `vouched` | a rollback marks a boot confirmed that is not the one it restored, also because its own rename failed | `PendingIsUnmounted`, `RollbackIsDue`, `PointerPromise` |
| `unmoved` | an installation goes on although the rename of its bundle or of `state.json` failed | `Retained`, `ConfirmedIsMounted`, `RollbackIsDue`, `PointerPromise` |
| `gap` | the process dies with the bundle of a release in use removed and the new one not yet renamed | `Retained` |
| `uncleared` | the process dies after a new release is promoted and before the marker of the one before is removed | `PendingIsUnmounted` |

The run `android` admits none of them, since each breaks one of its properties, but it does have confirmations and
rollbacks whose rename fails, and failing writes. What each property survives is the matter of its theorem.

## 4. Runs

| Run | Question | Bounds |
|---|---|---|
| `ios_trial` | are the bundles `state.json` names on disk (`Retained`), is a release on trial unmarked until acknowledged (`PendingIsUnmounted`), and is one with nothing behind it left by installations only (`FirstIsKept`)? | 3 releases, full disk; accidents `overtaken`, `unmarked` |
| `ios_pointer` | does the storage implement `ReleasePointer` (`PointerPromise`), is a decided rollback still due when it is carried out (`RollbackIsDue`), does a confirmed release with a fallback have its marker (`ConfirmedIsMounted`) and stay until an installation (`ConfirmedStays`)? | 3 releases, full disk; accidents `uncleared`, `gap`, `vouched` |
| `ios_recovery` | is a broken release with a sound predecessor left (`Recovers`)? | 3 releases, one broken, all accidents |
| `android` | is `state.json` never torn (`NeverTorn`), are its bundles whole (`Retained`), is a confirmed release marked (`ConfirmedIsMounted`) and one on trial not until acknowledged (`PendingIsUnmounted`), a rollback due (`RollbackIsDue`), does it implement `ReleasePointer`? | 2 releases, 2 threads of the pool besides the bootstrap and the exception handler, full disk, no accidents |
| `crash` | does a guarded death leave its marker, is the reporter heard, does every step bring a crash closer to its end, does it end? | 2 signals, one ignored before and one watched by a reporter; 2 threads; 2 installations, 2 frames, 2 strikes |
| `bridge` | is the native part owned, the bundle read as given, the work never stuck, no outcome lost between two listeners; is each call answered once and in the end? | 2 installations, 1 confirmation, 1 read; both platforms |
| `sdk` | is what is stored what was verified, does an undisturbed sync install what it found, is a fallback proven, does a sound release arrive? | 2 releases, one broken and accepted by only one of 2 configurations; 2 callers |
| `server` | do rows have whole bundles, and devices only published and verified ones; does an offer never go back; does a channel's offer move as `UpdateFeed` promises; does the newest signed release arrive? | 2 uploads, 1 device, 2 channels |
| `bug_*` | one run per finding, each with one property that a comment or document states | the smallest instance that shows it |

The storage, the facade, the glue and the server are finite without an artificial bound: there are
finitely many files, a call is made once, each upload and publication happens once. `MaxInstalls`,
`MaxFrames` and `MaxStrikes` bound `CrashHandlers`: two installations reach the handler that is its
own previous one, two frames let it nest before the stack is full, and two signals are struck on one
thread or on two. Three releases are enough for the storage of iOS because it tells apart only the
current release, the previous one and the one being installed; a fourth can only be a bundle that
is pruned, and each of the others is pruned in some behaviour. On Android the run has two, for
the file descriptors of four threads multiply the states, and admits no accident: the theorems about it
hold for any number of releases and threads, and each excludes only the accidents that break its
property. Two uploads can be stamped, stored and published in every order, so that one overtakes the other; devices only read, so a second one
would see what the first one sees. Two callers are enough to overlap at every await, and a third
could only do to the shared variables what the second does. Two installations, a confirmation and a
read let every pair of the three methods overlap.

Releases are only ever compared for equality, and threads of the pool likewise, so symmetry among
them is sound; it is used only where no liveness is checked. Deadlock is checked for the storage,
which never stops. It is not checked where the system really stops: a process that has died of its
signal, calls that have all been made, a device up to date that nobody opens, a server with nothing
left to do.

The mutants, one per property, are ordinary mistakes in the same code: a marker left behind, a prune
that keeps one release instead of two, an unchecked marker, a hash not compared, an ORDER BY
reversed, the last offer not repeated, a retained pointer not taken over, bytes not copied, a previous
handler not saved. They are the definitions commented "Variant" in the modules; no specification uses them.

## 5. Fairness

`Recovers` assumes that the bootstrap, a rollback and a signal handler that have begun go on (they
are straight-line code on running threads), that the user opens the app again, and that a broken
bundle does crash. `OthersSpareIt` says that from some point on nothing *else* ends the process: a
user who kills the app for ever before the handler has written its marker can keep any handler from
finishing. No fairness is assumed of the queue, the app's calls, errors, or the disk; and the disk is not full,
since a marker that can never be written asks for no rollback.

`Delivered` assumes that a device which is used asks again and downloads what it was offered, that
the server answers, and that crashes, lost and truncated answers stop (`NetworkSettles`). Nothing is
assumed of publishers: the property speaks of a release that stays the newest and carries a valid signature. With
an unverifiable newest release nothing arrives, for the SDK looks at no other: that is listed as a hazard.

`CrashEnds` assumes only that a thread in a signal handler goes on: the handlers are straight-line
code. Nothing is assumed of other threads or of the reporter, which may do any of what `Report` and
`ReportAndEnd` say, but does something.

`EveryCallAnswered` assumes that the synchronous part of a call, once begun, goes on; that a thread is
found for each closure and the closure ends (file operations do); and that JavaScript returns to its
event loop. A runtime that ends owes nobody an answer.

`UpdatesArrive` assumes that the app is opened again, configures the SDK, that its calls of `sync` go
on and that it is closed when it is done (strongly fair: what is done may be undone by a
new call); that a broken release crashes; and that from some point on requests succeed and nothing
else ends a session (`OthersSpareIt`). Its premises: the release stays the newest for a configuration that
stays the app's, and again and again a release runs that is not broken. The last is what the
storage cannot give: a release that crashes at every start and has nothing before it is never left.

## 6. Proofs

Every theorem is for any values of the constants: any releases, uploads, devices, callers, signals,
threads and calls, any `Broken`, any `DiskFull`, and any `Accidents` except those it excludes by
name as its assumptions. No exclusion is there for the convenience of a proof: for each accident and
each circumstance a theorem excludes, TLC finds a behaviour that meets it and breaks the property.

`StorageIosProofs`

- `TypeCorrect`: types, with all accidents.
- `RetentionHolds` (no `gap`, no `stale`). `Retained` alone is not inductive: nothing in it says
  that the release about to be promoted is on disk, or that pruning keeps all that the state names.
  `RetentionInv` adds both: past the move the release is there, and while pruning the pointers are
  within `Kept`, although a rollback may have moved them since it was computed.
- `TrialIsUnmounted` (no `uncleared`, no `vouched`): `PendingIsUnmounted` is inductive as it stands.
- `ConfirmedHasMarker` (no `unmarked`): `MarkerInv` adds that between promotion and clearing the
  release is on trial (or has nothing to return to), and that a confirmation under way has its marker.
- `RollbackAlwaysDue` (no `overtaken`, `unmarked`). A rollback is decided on `mount.marker`, and
  carried out later, perhaps in the next process. `DecisionInv` carries the decision through
  `reverting`, `signal`, `crashMarker` and `main.auto`: while one is pending, the release is on trial or
  has nothing to return to, and no confirmation is under way. One lemma per group of actions
  (`BootStep`, `CrashStep`, `RevertStep`, `TaskStep`) preserves it, stale writes included.
- `FirstAlwaysKept` (no `stale`): `FallbackSeen`, a rollback about to write has read a fallback; the rest
  is `StateSteps`, the four things that can happen to `state.json`.
- `ImplementsReleasePointer` (no `stale`, `overtaken`, `unmarked`). The refinement mapping is the
  identity on `state`; what needs proof is the guard of the abstract `RollBack`, and that is
  `DecisionInv` with `FallbackSeen`.
- `ConfirmedAlwaysStays` (no `overtaken`, `unmarked`). With stale writes it does not follow from the
  refinement. `StayInv`: one thread rolls back at a time (`OneReverts`: the bootstrap is over before
  the handler can begin), it writes only while the state is on trial, though perhaps not the trial it
  read, and a confirmation writes the state it has read, since no rollback runs beside it.

`StorageAndroidProofs`

- `TypeCorrect`: types, with all accidents. `Kinds` adds that state and bundle files are never mixed up.
- `StateNeverTorn` (no `shared`). `WritesAlone`: one thread at a time is between open and rename, the
  file it has open is the one the rename will move, and at the rename that file is whole.
- `RetentionHolds` (no `shared`, `stale`, `twins`, `pruned`, `gap`, `unmoved`). `Sound` follows an installation:
  its staged bytes are whole before the move, its release is on disk past it, what it renames is the
  state it computed, and its list of what to delete spares what it must keep. No property of one
  thread is enough: the invariant is of all threads together, with `NoTwins`.
- `RollbackAlwaysDue` and `ImplementsReleasePointer` (no `shared`, `stale`, `crossed`, `overtaken`,
  `vouched`, `unmoved`): only `RenameState` moves the pointer, and it installs, confirms or rolls back what is there
  (`ReplaceStep`). `Roles` says who does what and that the file about to be renamed holds what its
  writer meant; `Lifecycle` that nobody confirms while the bootstrap rolls back or is yet to;
  `TrialInv` that a decided rollback finds the release still on trial: in a running process the
  marker stays absent, or an installation that will clear it has started another trial.
- `ConfirmedHasMarker` (no `shared`, `crossed`, `unmoved`). `MountInv`: the marker is missing, or about to be
  cleared, on trial only. Most steps are `Quiet`: they change neither state nor marker and bring
  no thread to the one step that clears it, which is proved once (`QuietThreadStep`) for three invariants.
- `TrialIsUnmounted` (no `shared`, `vouched`, `uncleared`). `UnmountInv`: a promotion hands the marker to
  the thread that clears it, a confirmation that puts one there is remembered, and whatever else
  writes leaves no release on trial.
- A rename that fails (`RenameFails`) touches no file and no marker. `AfterWriteLeaves` and `QuietFailure` say
  once what it does to the invariants; `NeverTorn` and `PendingIsUnmounted` hold with those of installations too.

`CrashHandlersProofs`

- `TypeCorrect`.
- `DeathAlwaysLeavesMarker` (outside `together`, `overflow`, `disk`): `MarkerInv` says that whoever is past `WriteMarker` has left it whole, as
  long as no other thread has been struck; the circumstances only grow (`MetGrows`), so their absence
  at the death says they never were.
- `ReporterAlwaysHears`: installed once and with nothing in between, our handler has saved a reporter
  that was there before it (`ReporterParts`); so a thread whose signal the reporter expects has
  reported it, is about to, or is on the way to chain to it (`ReporterIsNext`).
- `CrashAlwaysAdvances`: one lemma per group of steps says which component of the measure decreases
  while those before it stay (`InstallationSpends` and its like); `SwapIsToDo` that an installation under way is counted
  among those to come. `LeftIsNatural` says the measure is of natural numbers, so that it cannot
  decrease for ever.

`NitroBridgeProofs`

- `TypeCorrect`; `OneStep` first reduces the generated methods to the steps they have in common.
- `PartAlwaysOwned`: `HeldAtStage` names the owners at each stage of the object's life; on Android the
  closures of the work under way are among them, and no others.
- `BytesAlwaysAsGiven` from `CallInv`: nothing is done for a call before it is handed
  over, its memory is lent until it returns and the work has a copy from then, what is queued has
  work, and the C++ promise is settled only as the work was.
- `QueueNeverStuck`: `QueueInv` (each call is in the queue once, and all work is of a call in it) gives
  the first position whose work has not ended, by the well-foundedness of the natural numbers
  (`FirstPosition`); what stands there runs or may begin.
- `OutcomeAlwaysHeard`: `ListenInv` says which listeners a call has added by each of its steps, and that
  an outcome with a listener is in the promise.
- `ImplementsAsyncCalls`: the refinement forgets listeners, promise and queue. The answer is tied to
  the work through the C++ promise, which is settled only as the work was (`CallInv`).

`SalvePushSdkProofs`

- `TypeCorrect`, `AlwaysInstalledAsVerified`: neither is inductive alone, since an installation reads
  the configuration and the two module variables of others. `Inv` adds that a call under way has a
  configuration and that bytes and identifier are always of the same release, verified and signed.
- `AlwaysFallbackIsProven`: current and previous release are proven while confirmed, the previous one also on trial.
- `UndisturbedSyncInstalls`: `FoundIsKept`, at every await of an undisturbed call.

`ReleaseServerProofs`

- `TypeCorrect`.
- `RowsAlwaysHaveBundles`: `UploadInv` ties what each step of an upload has already put on disk to
  its program counter.
- `VerifiedAlwaysReleased`: what a device verified was whole, signed and offered, and an offer is of a
  published row; none of these is ever taken back.
- `OffersNeverOlder`: what was on offer to a device stays on offer (`OffersGrow`: forms, channels
  and rows never change under it), so its last offer is among those the next one is the newest of.
  `OfferInv` carries that over to the answer on its way, which may be outdated when it arrives but is
  no older than the offer it replaces.
- `ImplementsUpdateFeed`. The mapping makes a step of the feed of a publication that is the newest of
  its channel (`PublishedInTime`), and a stutter of one that comes too late (`PublishedTooLate`) and of
  all else (`FeedStays`, with `FormsStay`). `ClockInv` gives what both rest on: stamps and publications
  are at distinct times, none in the future, so that "the newest" and "before" are each of one release.

The assumptions of the proofs are those on constants (`None` is no release, `Broken` are releases,
and so on), which every run evaluates.

Only model-checked: `Recovers`, `Delivered`, `CrashEnds`, `EveryCallAnswered` and `UpdatesArrive`,
since liveness under fairness is out of the prover's reach.

## 7. Findings

Each is a run that finds a violation of a property quoted from the repository.

- `bug_ios_uncleared`: death between `state.json` and the removal of `mount.marker` leaves a new,
  unconfirmed release that the crash handlers take for a confirmed one. Android has the same order
  of steps (`SalvePushStorage.kt:67-75`, accident `uncleared` there).
- `bug_ios_gap`: reinstalling the current release and dying in between loses the active bundle.
- `bug_ios_stale`: the fatal-error handler writes a state it read before the queue promoted and
  pruned; the current release then has no bundle.
- `bug_sdk_again`: `checkForUpdate` answers the newest release also when it is the one running;
  `sync` installs it over itself, so that it is its own previous release, and the rollback after its
  crash brings it back.

Disagreements between documents and code that need no run, or that the models above contain as the code has
them:

- `SalvePush.ts:43` says that `notifyAppReady` confirms the running release; `confirmBoot` confirms
  the one `state.json` names, also one just installed (`early` in `SalvePushSdk`).
- `docs/MVP.txt:611` asks for the last stable release to be kept; a second installation before the
  first is confirmed makes the unproven release the fallback and prunes the stable one (`twice`).
- `docs/MVP.txt:628` asks for a limit of attempts at a failing release; there is none.
- `docs/MVP.txt:647` puts devices in rollout buckets; `ListUpdates` (`releases.go:159`) offers a
  release to every device as soon as its percentage is above zero, and the SDK has no bucket.
- `docs/adr/0004-sdk-install-update.md:280` asks that signal and exception handlers be chained;
  `SalvePushCrashHandlerBridge.mm:24` replaces the Objective-C exception handler without calling it.
- The comment at `salve_push_crash_handler.cpp:24` says `mount.marker` is deleted once
  `notifyAppReady` is called; both platforms create it then, and `isMounted` reads it so.
- `salve_push_crash_handler.h:15` says the handlers must be installed once. Kotlin sees to it
  (`didInstallNative`), Swift does not; `CrashHandlers` shows what a second installation costs
  (`again`, and with it `overflow`).

## 8. Not modelled

- Migrations: one file of idempotent statements in a transaction behind PostgreSQL's advisory lock.
  What could go wrong is in the database, and a model of it would check the model.
- The signing protocol and the CLI: sequential formatting, file access and library cryptography; ideal
  wherever other modules use it.
- Server start and configuration read the environment once; telemetry and challenge endpoints answer 501.
- The demo has one button for each operation of the facade; `SalvePushSdk` admits any order of them.
- Of the glue: what section 3 leaves out.

Within the modelled parts, the abstractions are those of section 3.
