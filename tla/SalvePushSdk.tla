---------------------------- MODULE SalvePushSdk ----------------------------
(***************************************************************************)
(* SalvePush.ts on a device: its module variables, read and written by     *)
(* calls that overlap at every await, between a server that offers its     *)
(* newest release and the on-device storage, here the atomic pointer that  *)
(* ReleasePointer promises; and the sessions of the app, which end by a    *)
(* crash, with the rollback that follows it, or otherwise.                 *)
(***************************************************************************)
EXTENDS PointerState

CONSTANTS
    Broken,     \* releases that crash before they call notifyAppReady
    Configs,    \* arguments of configure
    Accepts,    \* for each, the releases that carry a signature of its key
    Callers     \* the flows of the app that may call the SDK at the same time

ASSUME BrokenAreReleases == Broken \subseteq Releases
ASSUME AcceptsReleases == Accepts \in [Configs -> SUBSET Releases]
ASSUME NoneIsNoConfig == None \notin Configs

VARIABLES
    published,                \* the releases the server has offered
    offered,                  \* the one it offers, for each config
    config,                   \* module variable
    verifiedBundle,           \* module variable: the release these bytes are of
    verifiedBundleReleaseId,  \* module variable
    call,                     \* what a caller is in, at an await
    pointer,                  \* state.json
    contents,                 \* the release the bytes stored for a release are of
    up,                       \* JavaScript is running
    running,                  \* the release it was loaded from
    proven,                   \* history: releases that ran and confirmed themselves
    met                       \* history: the circumstances, named below

server == <<published, offered>>
facade == <<config, verifiedBundle, verifiedBundleReleaseId>>
device == <<pointer, contents>>
session == <<up, running>>
vars == <<server, facade, call, device, session, proven, met>>

Steps == {"idle", "checking", "offered", "downloading", "verified", "installing",
          "installed"}
Circumstances == {"twice", "early"}

\* with: the config the request was made with.  given: what native code was
\* handed.  undisturbed: nobody else has used the SDK since the call began.
Call == [pc : Steps, with : Configs \cup {None}, update : Ids,
         id : Ids, bytes : Ids, undisturbed : BOOLEAN]
NoCall == [pc |-> "idle", with |-> None, update |-> None, id |-> None,
           bytes |-> None, undisturbed |-> FALSE]

TypeOK ==
    /\ published \subseteq Releases
    /\ offered \in [Configs -> Ids]
    /\ config \in Configs \cup {None}
    /\ verifiedBundle \in Ids
    /\ verifiedBundleReleaseId \in Ids
    /\ call \in [Callers -> Call]
    /\ pointer \in Pointer
    /\ contents \in [Releases -> Ids]
    /\ up \in BOOLEAN
    /\ running \in Ids
    /\ proven \subseteq Ids
    /\ met \subseteq Circumstances

Feed == INSTANCE UpdateFeed WITH Channels <- Configs

Init ==
    /\ Feed!Init
    /\ config = None
    /\ verifiedBundle = None
    /\ verifiedBundleReleaseId = None
    /\ call = [k \in Callers |-> NoCall]
    /\ pointer = Empty
    /\ contents = [r \in Releases |-> None]
    /\ up = FALSE
    /\ running = None
    /\ proven = {None}
    /\ met = {}

Meets(circumstance, condition) ==
    met' = IF condition THEN met \cup {circumstance} ELSE met

\* The server is what UpdateFeed promises; ReleaseServer implements it.
Publish(c, release) ==
    /\ Feed!Publish(c, release)
    /\ UNCHANGED <<facade, call, device, session, proven, met>>

-----------------------------------------------------------------------------
(* The facade.  Between two awaits JavaScript runs undivided.              *)

configure(c) ==
    /\ up
    /\ config' = c
    /\ call' = IF c = config THEN call
               ELSE [k \in Callers |-> [call[k] EXCEPT !.undisturbed = FALSE]]
    /\ UNCHANGED <<server, verifiedBundle, verifiedBundleReleaseId>>
    /\ UNCHANGED <<device, session, proven, met>>

\* A caller leaves its await, or begins; the others notice in what they share.
Enters(k, next) ==
    call' = [j \in Callers |->
               IF j = k THEN next
               ELSE [call[j] EXCEPT !.undisturbed = FALSE]]

\* checkForUpdate, alone or from sync.
checkForUpdate(k) ==
    /\ up
    /\ call[k].pc = "idle"
    /\ config # None
    /\ Enters(k, [NoCall EXCEPT !.pc = "checking", !.with = config,
                    !.undisturbed = \A j \in Callers \ {k} : call[j].pc = "idle"])
    /\ UNCHANGED <<server, facade, device, session, proven, met>>

Proceeds(k, from, next) ==
    /\ call[k].pc = from
    /\ call' = [call EXCEPT ![k] = next]

\* The answer lists releases, the newest first, or none.
fetchLatestUpdate(k) ==
    /\ Proceeds(k, "checking",
         IF offered[call[k].with] = None THEN NoCall
         ELSE [call[k] EXCEPT !.pc = "offered", !.with = None,
                              !.update = offered[call[k].with]])
    /\ UNCHANGED <<server, facade, device, session, proven, met>>

\* Variant: a bundle that is already there is not downloaded again.
DownloadOnce(k) ==
    /\ Proceeds(k, "offered",
         [call[k] EXCEPT !.pc = IF verifiedBundle = None THEN "downloading" ELSE "verified",
                         !.with = config])
    /\ UNCHANGED <<server, facade, device, session, proven, met>>

\* Variant: the identifier is kept before the download has been awaited.
KeepIdFirst(k) ==
    /\ Proceeds(k, "offered", [call[k] EXCEPT !.pc = "downloading", !.with = config])
    /\ verifiedBundleReleaseId' = call[k].update
    /\ UNCHANGED <<server, config, verifiedBundle, device, session, proven, met>>

\* The config is read again: it may not be the one the update was found with.
downloadUpdate(k) ==
    /\ Proceeds(k, "offered", [call[k] EXCEPT !.pc = "downloading", !.with = config])
    /\ UNCHANGED <<server, facade, device, session, proven, met>>

\* Hash and signature hold: bundle and identifier are kept together.
downloadAndVerifyBundle(k) ==
    /\ call[k].pc = "downloading"
    /\ call[k].update \in Accepts[call[k].with]
    /\ Proceeds(k, "downloading", [call[k] EXCEPT !.pc = "verified", !.with = None])
    /\ verifiedBundle' = call[k].update
    /\ verifiedBundleReleaseId' = call[k].update
    /\ UNCHANGED <<server, config, device, session, proven, met>>

Native(k, from) ==
    /\ verifiedBundle # None /\ verifiedBundleReleaseId # None
    /\ call[k].pc = from
    /\ Enters(k, [call[k] EXCEPT !.pc = "installing", !.id = verifiedBundleReleaseId,
                                 !.bytes = verifiedBundle])

\* From sync, or on its own for what an earlier call has verified.
installUpdate(k) ==
    /\ up
    /\ config # None
    /\ \E from \in {"verified", "idle"} : Native(k, from)
    /\ UNCHANGED <<server, facade, device, session, proven, met>>

\* The native promise: atomic, by what ReleasePointer promises.
NativeInstalls(k) ==
    /\ Proceeds(k, "installing", [call[k] EXCEPT !.pc = "installed", !.id = None,
                                                  !.bytes = None])
    /\ pointer' = Promoted(pointer, call[k].id)
    /\ contents' = [contents EXCEPT ![call[k].id] = call[k].bytes]
    /\ Meets("twice", pointer.status = "pending")
    /\ UNCHANGED <<server, facade, session, proven>>

\* What another caller has verified meanwhile is forgotten with it.
InstallReturns(k) ==
    /\ Proceeds(k, "installed", NoCall)
    /\ verifiedBundle' = None
    /\ verifiedBundleReleaseId' = None
    /\ UNCHANGED <<server, config, device, session, proven, met>>

\* Variant: an error is swallowed, and its promise never settles.
NeverSettles(k) ==
    /\ call[k].pc = "verified" /\ verifiedBundle = None
    /\ Proceeds(k, "verified", NoCall)
    /\ UNCHANGED <<server, facade, device, session, proven, met>>

\* Hash or signature do not hold; there is nothing to install.
Throws(k) ==
    /\ \/ call[k].pc = "downloading" /\ call[k].update \notin Accepts[call[k].with]
       \/ call[k].pc = "verified" /\ verifiedBundle = None
    /\ Proceeds(k, call[k].pc, NoCall)
    /\ UNCHANGED <<server, facade, device, session, proven, met>>

\* A request or the installation fails, or the caller wanted no more.
Ends(k) ==
    /\ call[k].pc \notin {"idle", "installed"}
    /\ Proceeds(k, call[k].pc, NoCall)
    /\ UNCHANGED <<server, facade, device, session, proven, met>>

\* confirmBoot confirms what state.json names, run or not.
notifyAppReady ==
    /\ up
    /\ running \notin Broken
    /\ pointer' = Confirmed(pointer)
    /\ proven' = IF running = pointer.current THEN proven \cup {running} ELSE proven
    /\ Meets("early", pointer.status = "pending" /\ running # pointer.current)
    /\ UNCHANGED <<server, facade, call, contents, session>>

-----------------------------------------------------------------------------
(* Sessions.                                                               *)

Start ==
    /\ ~up
    /\ up' = TRUE
    /\ running' = pointer.current
    /\ UNCHANGED <<server, facade, call, device, proven, met>>

Stop ==
    /\ up
    /\ up' = FALSE
    /\ running' = None
    /\ config' = None
    /\ verifiedBundle' = None
    /\ verifiedBundleReleaseId' = None
    /\ call' = [k \in Callers |-> NoCall]

\* On trial, and with something to go back to, a crash brings it back.
Crash ==
    /\ Stop
    /\ pointer' = IF pointer.status = "pending" /\ pointer.previous # None
                    THEN RolledBack(pointer)
                    ELSE pointer
    /\ UNCHANGED <<server, contents, proven, met>>

Close ==
    /\ Stop
    /\ UNCHANGED <<server, device, proven, met>>

Step(k) ==
    \/ checkForUpdate(k) \/ fetchLatestUpdate(k)
    \/ downloadUpdate(k) \/ downloadAndVerifyBundle(k)
    \/ installUpdate(k) \/ NativeInstalls(k) \/ InstallReturns(k)
    \/ Throws(k)

Next ==
    \/ \E c \in Configs, release \in Releases : Publish(c, release)
    \/ \E c \in Configs : configure(c)
    \/ \E k \in Callers : Step(k) \/ Ends(k)
    \/ notifyAppReady
    \/ Start \/ Crash \/ Close

Spec == Init /\ [][Next]_vars

-----------------------------------------------------------------------------
(* Safety.                                                                 *)

\* Stored under the identifier of a release are its own bytes, and bytes that
\* a configured key has signed, however the calls of the app overlap and
\* whatever it configures between them (downloadUpdate, installUpdate).
InstalledAsVerified ==
    \A r \in Releases :
        contents[r] # None =>
            contents[r] = r /\ \E c \in Configs : r \in Accepts[c]

\* A sync() nobody has disturbed makes current what it found, not what an
\* earlier call left behind (verifiedBundle).
SyncInstallsWhatItFound ==
    \A k \in Callers :
        call[k].pc = "installed" /\ call[k].undisturbed /\ call[k].update # None
            => pointer.current = call[k].update

\* A rollback brings back the embedded bundle or a release that has run and
\* has confirmed itself.  Except: one was installed over another that was still on
\* trial, or a release confirmed one that it had itself just installed
\* (installUpdate, confirmBoot, sync).
FallbackIsProven ==
    met = {} => pointer.previous \in proven

\* The comment of notifyAppReady (SalvePushNative.nitro.ts) says that a crash
\* before it restores the previous release.  Installed over itself, the release
\* that crashed is its own previous one.
CrashLeavesTheRelease ==
    [][up /\ running = pointer.current /\ ~up' /\ pointer' # pointer
         => pointer'.current # running]_vars

-----------------------------------------------------------------------------
(* Liveness.                                                               *)

\* What was installed waits for the next start, and no call is under way.
Done ==
    /\ running # pointer.current
    /\ \A k \in Callers : call[k].pc = "idle"

\* The app is opened, configures the SDK, calls sync, and is closed when it is
\* done; a broken release crashes.
Fairness ==
    /\ WF_vars(Start)
    /\ WF_vars(config = None /\ \E c \in Configs : configure(c))
    /\ WF_vars(Crash /\ running \in Broken)
    /\ SF_vars(Close /\ Done)
    /\ \A k \in Callers : WF_vars(Step(k))

\* From some point on requests succeed, and a session ends only by a broken
\* release or when it is done.
OthersSpareIt ==
    <>[][/\ Stop => running \in Broken \/ (Done /\ UNCHANGED pointer)
         /\ \A k \in Callers : Ends(k) => Throws(k)]_vars

FairSpec == Spec /\ Fairness /\ OthersSpareIt

\* A sound, signed release that stays the newest becomes current and stays so,
\* through failed requests, overlapping calls and rollbacks, on every device
\* that is not caught in a release which crashes at every start.
UpdatesArrive ==
    \A c \in Configs : \A r \in Accepts[c] \ Broken :
        /\ <>[](offered[c] = r /\ config \in {None, c})
        /\ []<>(up /\ running \notin Broken)
        => <>[](pointer.current = r)
=============================================================================
