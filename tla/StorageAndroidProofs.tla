------------------------ MODULE StorageAndroidProofs ------------------------
(***************************************************************************)
(* Theorems about StorageAndroid, for any releases and any pool.           *)
(***************************************************************************)
EXTENDS StorageAndroid, TLAPS

\* state.json and its temporary file hold no bundle, and a bundle is replaced
\* only by who installs its release.
Kinds ==
    /\ files[State].tmp \in Pointer \cup {Torn, Absent}
    /\ files[State].live \in Pointer \cup {Torn, Absent}
    /\ \A t \in Threads : thread[t].pc \in BundleSteps => thread[t].release \in Releases

TypeInv == TypeOK /\ Kinds

(* The contents of a file can be told apart.                               *)
LEMMA Contents ==
    /\ Torn \notin Pointer /\ Absent \notin Pointer /\ Whole \notin Pointer
    /\ Torn # Absent /\ Torn # Whole /\ Absent # Whole
    /\ Empty \in Pointer
<1>1. /\ Torn.status = "torn" /\ Absent.status = "absent" /\ Whole.status = "whole"
  BY DEF Torn, Absent, Whole, Empty
<1>2. Empty \in Pointer
  BY DEF Empty, Pointer, Ids
<1> QED
  BY <1>1, <1>2 DEF Pointer

LEMMA StateIsPointer == TypeInv => state \in Pointer
  BY Contents DEF TypeInv, Kinds, state, Read

LEMMA AtRestIsThread == AtRest \in Thread /\ AtRest.pc = "idle" /\ AtRest.fd = "none"
  BY Contents DEF AtRest, Thread, Steps, Ids

(* What a thread writes is what belongs into the file.                     *)
LEMMA ValueOfKind ==
    ASSUME TypeInv, NEW t \in Threads
    PROVE  IF thread[t].pc \in BundleSteps
             THEN Target(t) \in Releases /\ Value(t) = Whole
             ELSE Target(t) = State /\ Value(t) \in Pointer
<1>1. thread[t] \in Thread
  BY DEF TypeInv, TypeOK
<1>2. CASE thread[t].pc \in BundleSteps
  BY <1>2 DEF TypeInv, Kinds, Target, Value
<1>3. CASE thread[t].pc \notin BundleSteps
  <2>1. /\ Promoted(thread[t].seen, thread[t].release) \in Pointer
        /\ Confirmed(thread[t].seen) \in Pointer
        /\ RolledBack(thread[t].seen) \in Pointer
    BY <1>1 DEF Thread, Pointer, Promoted, Confirmed, RolledBack, Ids
  <2> QED
    BY <1>3, <2>1, Zenon DEF Target, Value
<1> QED
  BY <1>2, <1>3

(* Only the state of one file changes, and to what belongs into it.        *)
LEMMA FilesKeepKind ==
    ASSUME TypeInv, NEW n \in Names, NEW f \in File, files' = [files EXCEPT ![n] = f],
           n = State => /\ f.tmp \in Pointer \cup {Torn, Absent}
                        /\ f.live \in Pointer \cup {Torn, Absent}
    PROVE  /\ files' \in [Names -> File]
           /\ files'[State].tmp \in Pointer \cup {Torn, Absent}
           /\ files'[State].live \in Pointer \cup {Torn, Absent}
  BY DEF TypeInv, TypeOK, Kinds, Names

LEMMA OpensKeepsType ==
    ASSUME TypeInv, NEW t \in Threads, NEW next \in {"fill", "write"}, Opens(t, next),
           next = "fill" <=> thread[t].pc = "stage",
           next = "write" <=> thread[t].pc = "open"
    PROVE  /\ files' \in [Names -> File] /\ thread' \in [Threads -> Thread]
           /\ Kinds'
<1> DEFINE f == [files[Target(t)] EXCEPT !.tmp = Torn]
<1>1. /\ Target(t) \in Names /\ (next = "fill" => thread[t].release \in Releases)
      /\ f \in File
      /\ Target(t) = State => /\ f.tmp \in Pointer \cup {Torn, Absent}
                              /\ f.live \in Pointer \cup {Torn, Absent}
  BY DEF TypeInv, TypeOK, Kinds, Names, File, Target, BundleSteps
<1>2. files' = [files EXCEPT ![Target(t)] = f]
  BY DEF Opens
<1>3. /\ files' \in [Names -> File]
      /\ files'[State].tmp \in Pointer \cup {Torn, Absent}
      /\ files'[State].live \in Pointer \cup {Torn, Absent}
  BY <1>1, <1>2, FilesKeepKind
<1>4. thread' \in [Threads -> Thread]
  <2> DEFINE r == [thread[t] EXCEPT !.pc = next, !.fd = "tmp"]
  <2>1. r \in Thread
    BY DEF TypeInv, TypeOK, Thread, Steps, BundleSteps, StateSteps
  <2>2. thread' = [thread EXCEPT ![t] = r]
    BY DEF Opens, TypeInv, TypeOK
  <2> QED
    BY <2>1, <2>2 DEF TypeInv, TypeOK
<1>5. \A u \in Threads : thread'[u].pc \in BundleSteps => thread'[u].release \in Releases
  BY <1>1 DEF Opens, TypeInv, TypeOK, Kinds, Thread, BundleSteps
<1> QED
  BY <1>3, <1>4, <1>5 DEF Kinds

LEMMA WritesKeepsType ==
    ASSUME TypeInv, NEW t \in Threads, NEW next \in {"remove", "rename"}, Writes(t, next),
           next = "remove" <=> thread[t].pc = "fill",
           next = "rename" <=> thread[t].pc = "write"
    PROVE  /\ files' \in [Names -> File] /\ thread' \in [Threads -> Thread]
           /\ Kinds'
<1>1. /\ Target(t) \in Names /\ Value(t) \in Pointer \cup {Whole}
      /\ Target(t) = State => Value(t) \in Pointer
      /\ next = "remove" => thread[t].release \in Releases
  <2>1. CASE thread[t].pc \in BundleSteps
    BY <2>1, ValueOfKind, StateIsNoRelease DEF Names, State, TypeInv, Kinds
  <2>2. CASE thread[t].pc \notin BundleSteps
    BY <2>2, ValueOfKind DEF Names, BundleSteps
  <2> QED
    BY <2>1, <2>2
<1>2. /\ files' \in [Names -> File]
      /\ files'[State].tmp \in Pointer \cup {Torn, Absent}
      /\ files'[State].live \in Pointer \cup {Torn, Absent}
  <2>1. CASE files' = files
    BY <2>1 DEF TypeInv, TypeOK, Kinds
  <2>2. CASE files' = [files EXCEPT ![Target(t)].tmp = Value(t)]
    <3> DEFINE f == [files[Target(t)] EXCEPT !.tmp = Value(t)]
    <3>1. f \in File /\ (Target(t) = State => /\ f.tmp \in Pointer \cup {Torn, Absent}
                                              /\ f.live \in Pointer \cup {Torn, Absent})
      BY <1>1 DEF TypeInv, TypeOK, Kinds, File
    <3> QED
      BY <1>1, <2>2, <3>1, FilesKeepKind
  <2>3. CASE files' = [files EXCEPT ![Target(t)].live = Value(t)]
    <3> DEFINE f == [files[Target(t)] EXCEPT !.live = Value(t)]
    <3>1. f \in File /\ (Target(t) = State => /\ f.tmp \in Pointer \cup {Torn, Absent}
                                              /\ f.live \in Pointer \cup {Torn, Absent})
      BY <1>1 DEF TypeInv, TypeOK, Kinds, File
    <3> QED
      BY <1>1, <2>3, <3>1, FilesKeepKind
  <2> QED
    BY <2>1, <2>2, <2>3 DEF Writes
<1>3. thread' \in [Threads -> Thread]
  BY DEF Writes, Goes, TypeInv, TypeOK, Thread, Steps, BundleSteps, StateSteps
<1>4. \A u \in Threads : thread'[u].pc \in BundleSteps => thread'[u].release \in Releases
  BY <1>1 DEF Writes, Goes, TypeInv, TypeOK, Kinds, Thread, BundleSteps
<1> QED
  BY <1>2, <1>3, <1>4 DEF Kinds

LEMMA RenamesKeepsType ==
    ASSUME TypeInv, NEW t \in Threads, thread[t].pc \in {"move", "rename"},
           NEW next \in Thread, Renames(t, next), next.pc \notin BundleSteps
    PROVE  /\ files' \in [Names -> File] /\ thread' \in [Threads -> Thread]
           /\ Kinds'
<1> DEFINE n == Target(t)
           f == [tmp |-> Absent, live |-> files[n].tmp]
<1>1. n \in Names
  BY ValueOfKind DEF Names
<1>2. /\ files' \in [Names -> File]
      /\ files'[State].tmp \in Pointer \cup {Torn, Absent}
      /\ files'[State].live \in Pointer \cup {Torn, Absent}
  <2>1. CASE files' = files
    BY <2>1 DEF TypeInv, TypeOK, Kinds
  <2>2. CASE files' = [files EXCEPT ![n] = f]
    <3>1. f \in File /\ (n = State => /\ f.tmp \in Pointer \cup {Torn, Absent}
                                      /\ f.live \in Pointer \cup {Torn, Absent})
      BY <1>1 DEF TypeInv, TypeOK, Kinds, File
    <3> QED
      BY <1>1, <2>2, <3>1, FilesKeepKind
  <2> QED
    BY <2>1, <2>2 DEF Renames
<1> DEFINE others == [u \in Threads |->
                        IF files[n].tmp = Absent THEN thread[u] ELSE Moved(n, u)]
<1>3. \A u \in Threads :
         /\ Moved(n, u) \in Thread
         /\ Moved(n, u).pc = thread[u].pc /\ Moved(n, u).release = thread[u].release
  BY DEF Moved, Thread, TypeInv, TypeOK
<1>4. thread' = [others EXCEPT ![t] = next]
  BY DEF Renames
<1>5. \A u \in Threads : /\ thread'[u] \in Thread
                         /\ u # t => /\ thread'[u].pc = thread[u].pc
                                     /\ thread'[u].release = thread[u].release
  BY <1>3, <1>4 DEF TypeInv, TypeOK
<1>6. thread' \in [Threads -> Thread]
  BY <1>4, <1>5
<1>7. thread'[t] = next
  BY <1>4
<1> QED
  BY <1>2, <1>5, <1>6, <1>7 DEF Kinds, TypeInv

(* A thread moves on, and replaces a bundle only for a release.            *)
LEMMA ThreadMoves ==
    ASSUME TypeInv, NEW t \in Threads, NEW r \in Thread, thread' = [thread EXCEPT ![t] = r],
           r.pc \in BundleSteps => r.release \in Releases, UNCHANGED files
    PROVE  thread' \in [Threads -> Thread] /\ Kinds'
  BY DEF TypeInv, TypeOK, Kinds

(* What AfterWrite leaves a thread to do depends on its job.               *)
LEMMA AfterWriteLeaves ==
    ASSUME TypeInv, NEW t \in Threads, NEW r, r = AfterWrite(t)
    PROVE  /\ r \in Thread /\ r.pc \notin BundleSteps
           /\ thread[t].job = "install" => r = [thread[t] EXCEPT !.pc = "clear", !.fd = "none"]
           /\ thread[t].job = "confirm" => r = AtRest
           /\ thread[t].job \notin {"install", "confirm"}
                => r = [thread[t] EXCEPT !.pc = "trust", !.fd = "none"]
<1>1. thread[t] \in Thread /\ AtRest \in Thread /\ AtRest.pc = "idle"
  BY AtRestIsThread DEF TypeInv, TypeOK
<1>2. thread[t].job = "install" => r = [thread[t] EXCEPT !.pc = "clear", !.fd = "none"]
  BY DEF AfterWrite
<1>3. thread[t].job = "confirm" => r = AtRest
  BY DEF AfterWrite
<1>4. thread[t].job \notin {"install", "confirm"}
        => r = [thread[t] EXCEPT !.pc = "trust", !.fd = "none"]
  BY Zenon DEF AfterWrite
<1>5. ASSUME NEW pc \in {"clear", "trust"}
      PROVE  /\ [thread[t] EXCEPT !.pc = pc, !.fd = "none"] \in Thread
             /\ [thread[t] EXCEPT !.pc = pc, !.fd = "none"].pc \notin BundleSteps
  BY <1>1 DEF Thread, Steps, BundleSteps
<1>6. r \in Thread /\ r.pc \notin BundleSteps
  <2>1. CASE r = AtRest
    BY <1>1, <2>1 DEF BundleSteps
  <2>2. CASE \E pc \in {"clear", "trust"} : r = [thread[t] EXCEPT !.pc = pc, !.fd = "none"]
    BY <1>5, <2>2
  <2> QED
    BY <1>2, <1>3, <1>4, <2>1, <2>2
<1> QED
  BY <1>2, <1>3, <1>4, <1>6

(* A rename that fails changes no file, and what only its thread does.     *)
LEMMA RenameFailsAlone ==
    ASSUME TypeInv, NEW t \in Threads, RenameFails(t)
    PROVE  /\ UNCHANGED <<disk, main, signal>>
           /\ thread[t].pc \in {"move", "rename"}
           /\ \E r \in Thread :
                /\ thread' = [thread EXCEPT ![t] = r] /\ r.pc \notin BundleSteps
                /\ thread[t].pc = "move" => r = [thread[t] EXCEPT !.pc = "read", !.fd = "none"]
                /\ thread[t].pc = "rename" => r = AfterWrite(t)
<1>0. thread[t] \in Thread /\ thread \in [Threads -> Thread]
  BY DEF TypeInv, TypeOK
<1>1. UNCHANGED <<disk, main, signal>>
  BY DEF RenameFails, At, disk
<1>2. CASE At(t, "move") /\ thread' = [thread EXCEPT ![t].pc = "read", ![t].fd = "none"]
  <2> DEFINE r == [thread[t] EXCEPT !.pc = "read", !.fd = "none"]
  <2>1. r \in Thread /\ r.pc \notin BundleSteps
    BY <1>0 DEF Thread, Steps, BundleSteps
  <2>2. thread' = [thread EXCEPT ![t] = r] /\ thread[t].pc = "move"
    BY <1>0, <1>2 DEF At
  <2> QED
    BY <1>1, <2>1, <2>2
<1>3. CASE At(t, "rename") /\ thread' = [thread EXCEPT ![t] = AfterWrite(t)]
  <2>1. thread[t].pc = "rename"
    BY <1>3 DEF At
  <2> QED
    BY <1>1, <1>3, <2>1, AfterWriteLeaves
<1> QED
  BY <1>2, <1>3 DEF RenameFails

(* Files of a release may go, and with them the descriptors of threads.    *)
LEMMA ReleaseGoes ==
    ASSUME TypeInv, NEW t \in Threads, NEW n \in Releases, NEW name, NEW r \in Thread,
           NEW f \in File, files' = [files EXCEPT ![n] = f],
           thread' = [Orphaned(n, name) EXCEPT ![t] = r],
           r.pc \in BundleSteps => r.release \in Releases
    PROVE  /\ files' \in [Names -> File] /\ thread' \in [Threads -> Thread]
           /\ Kinds'
<1>1. /\ files' \in [Names -> File]
      /\ files'[State].tmp \in Pointer \cup {Torn, Absent}
      /\ files'[State].live \in Pointer \cup {Torn, Absent}
  BY FilesKeepKind, StateIsNoRelease DEF Names, State
<1>2. \A u \in Threads :
         /\ Orphaned(n, name)[u] \in Thread
         /\ Orphaned(n, name)[u].pc = thread[u].pc
         /\ Orphaned(n, name)[u].release = thread[u].release
  BY DEF Orphaned, Thread, TypeInv, TypeOK
<1>3. Orphaned(n, name) = [u \in Threads |-> Orphaned(n, name)[u]]
  BY DEF Orphaned
<1>4. thread' \in [Threads -> Thread]
  BY <1>2, <1>3
<1>5. \A u \in Threads : thread'[u].pc \in BundleSteps => thread'[u].release \in Releases
  BY <1>2, <1>3 DEF TypeInv, Kinds
<1> QED
  BY <1>1, <1>4, <1>5 DEF Kinds

(* One step of one thread.                                                 *)
LEMMA ThreadTypeStep ==
    ASSUME TypeInv, NEW t \in Threads,
           \/ \E release \in Releases : StartInstall(t, release)
           \/ StartConfirm(t) \/ StageBundle(t) \/ FillBundle(t) \/ RemoveOld(t)
           \/ MoveIn(t) \/ MarkMounted(t) \/ ClearMarker(t) \/ ListReleases(t)
           \/ \E r \in Releases : DeleteRelease(t, r)
           \/ FinishInstall(t) \/ ReadState(t) \/ OpenState(t) \/ WriteState(t)
           \/ RenameState(t) \/ RenameFails(t) \/ TrustPrevious(t) \/ Throws(t),
           acknowledged' \in BOOLEAN
    PROVE  TypeInv'
<1> USE DEF disk
<1>0. thread[t] \in Thread /\ AtRest \in Thread /\ AtRest.pc = "idle" /\ state \in Pointer
      /\ thread \in [Threads -> Thread]
  BY AtRestIsThread, StateIsPointer DEF TypeInv, TypeOK
<1>1. ASSUME NEW release \in Releases, StartInstall(t, release) PROVE TypeInv'
  <2> DEFINE r == [thread[t] EXCEPT !.job = "install", !.pc = "stage", !.release = release]
  <2>1. r \in Thread /\ r.release \in Releases
    BY <1>0 DEF Thread, Steps, BundleSteps, Ids
  <2>2. thread' = [thread EXCEPT ![t] = r]
    BY <1>0, <1>1 DEF StartInstall, Starts
  <2> QED
    BY <1>1, <2>1, <2>2, ThreadMoves DEF StartInstall, Starts, TypeInv, TypeOK
<1>2. CASE StartConfirm(t)
  <2> DEFINE r == [thread[t] EXCEPT !.job = "confirm", !.pc = "mark", !.release = None]
  <2>1. r \in Thread /\ r.pc \notin BundleSteps
    BY <1>0 DEF Thread, Steps, BundleSteps, Ids
  <2>2. thread' = [thread EXCEPT ![t] = r]
    BY <1>0, <1>2 DEF StartConfirm, Starts
  <2> QED
    BY <1>2, <2>1, <2>2, ThreadMoves DEF StartConfirm, Starts, TypeInv, TypeOK
<1>3. CASE StageBundle(t)
  <2>1. Opens(t, "fill") /\ thread[t].pc = "stage" /\ UNCHANGED <<mountMarker, main, crashMarker, signal>>
    BY <1>3 DEF StageBundle, At
  <2> QED
    BY <2>1, OpensKeepsType DEF TypeInv, TypeOK
<1>4. CASE OpenState(t)
  <2>1. Opens(t, "write") /\ thread[t].pc = "open" /\ UNCHANGED <<mountMarker, main, crashMarker, signal>>
    BY <1>4 DEF OpenState, At
  <2> QED
    BY <2>1, OpensKeepsType DEF TypeInv, TypeOK
<1>5. CASE FillBundle(t)
  <2>1. Writes(t, "remove") /\ thread[t].pc = "fill" /\ UNCHANGED <<mountMarker, main, crashMarker, signal>>
    BY <1>5 DEF FillBundle, At
  <2> QED
    BY <2>1, WritesKeepsType DEF TypeInv, TypeOK
<1>6. CASE WriteState(t)
  <2>1. Writes(t, "rename") /\ thread[t].pc = "write" /\ UNCHANGED <<mountMarker, main, crashMarker, signal>>
    BY <1>6 DEF WriteState, At
  <2> QED
    BY <2>1, WritesKeepsType DEF TypeInv, TypeOK
<1>7. CASE RemoveOld(t)
  <2> DEFINE n == thread[t].release
             f == [files[n] EXCEPT !.live = Absent]
             r == [Orphaned(n, {"live"})[t] EXCEPT !.pc = "move"]
  <2>1. n \in Releases
    BY <1>7 DEF RemoveOld, At, TypeInv, Kinds, BundleSteps
  <2>2. f \in File
    BY <2>1 DEF TypeInv, TypeOK, File, Names
  <2>3. r \in Thread /\ r.release = n
    BY <1>0 DEF Orphaned, Thread, Steps, BundleSteps
  <2>4. /\ files' = [files EXCEPT ![n] = f]
        /\ thread' = [Orphaned(n, {"live"}) EXCEPT ![t] = r]
        /\ UNCHANGED <<mountMarker, main, crashMarker, signal>>
    BY <1>7 DEF RemoveOld, At
  <2> QED
    BY <2>1, <2>2, <2>3, <2>4, ReleaseGoes DEF TypeInv, TypeOK
<1>8. CASE MoveIn(t)
  <2> DEFINE next == [thread[t] EXCEPT !.pc = "read", !.fd = "none"]
  <2>1. next \in Thread /\ next.pc \notin BundleSteps
    BY <1>0 DEF Thread, Steps, BundleSteps
  <2>2. /\ Renames(t, next) /\ thread[t].pc = "move"
        /\ UNCHANGED <<mountMarker, main, crashMarker, signal>>
    BY <1>8 DEF MoveIn, At
  <2> HIDE DEF next
  <2> QED
    BY <2>1, <2>2, RenamesKeepsType DEF TypeInv, TypeOK
<1>9. CASE RenameState(t)
  <2>1. AfterWrite(t) \in Thread /\ AfterWrite(t).pc \notin BundleSteps
    BY AfterWriteLeaves
  <2>2. /\ Renames(t, AfterWrite(t)) /\ thread[t].pc = "rename"
        /\ UNCHANGED <<mountMarker, main, crashMarker, signal>>
    BY <1>9 DEF RenameState, At
  <2> QED
    BY <2>1, <2>2, RenamesKeepsType DEF TypeInv, TypeOK
<1>10. CASE MarkMounted(t) \/ ClearMarker(t)
  <2>1. PICK pc \in {"read", "list"} : thread' = [thread EXCEPT ![t].pc = pc]
    BY <1>10 DEF MarkMounted, ClearMarker, Goes
  <2> DEFINE r == [thread[t] EXCEPT !.pc = pc]
  <2>2. r \in Thread /\ r.pc \notin BundleSteps /\ thread' = [thread EXCEPT ![t] = r]
    BY <1>0, <2>1 DEF Thread, Steps, BundleSteps
  <2> HIDE DEF r
  <2>3. UNCHANGED <<files, main, crashMarker, signal>> /\ mountMarker' \in BOOLEAN
    BY <1>10 DEF MarkMounted, ClearMarker, At
  <2> QED
    BY <2>2, <2>3, ThreadMoves DEF TypeInv, TypeOK
<1>11. CASE ListReleases(t)
  <2> DEFINE stale == {r \in Releases \ Kept(t) : files[r] # NoFile}
             r == [thread[t] EXCEPT !.pc = "prune", !.stale = stale]
  <2>1. r \in Thread /\ r.pc \notin BundleSteps
    BY <1>0 DEF Thread, Steps, BundleSteps
  <2>2. thread' = [thread EXCEPT ![t] = r] /\ UNCHANGED <<files, mountMarker, main, crashMarker, signal>>
    BY <1>0, <1>11 DEF ListReleases, At
  <2> HIDE DEF r
  <2> QED
    BY <2>1, <2>2, ThreadMoves DEF TypeInv, TypeOK
<1>12. ASSUME NEW n \in Releases, DeleteRelease(t, n) PROVE TypeInv'
  <2> DEFINE name == {"tmp", "live"}
             r == [Orphaned(n, name)[t] EXCEPT !.stale = @ \ {n}]
  <2>1. r \in Thread /\ r.pc = "prune"
    BY <1>0, <1>12 DEF Orphaned, Thread, Steps, DeleteRelease, At
  <2>2. NoFile \in File
    BY DEF NoFile, File
  <2>3. /\ files' = [files EXCEPT ![n] = NoFile]
        /\ thread' = [Orphaned(n, name) EXCEPT ![t] = r]
        /\ UNCHANGED <<mountMarker, main, crashMarker, signal>>
    BY <1>12 DEF DeleteRelease, At
  <2> HIDE DEF r, name
  <2> QED
    BY <2>1, <2>2, <2>3, ReleaseGoes DEF TypeInv, TypeOK, BundleSteps
<1>13. CASE ReadState(t)
  <2>1. [thread[t] EXCEPT !.pc = "open", !.seen = state] \in Thread
    BY <1>0 DEF Thread, Steps, StateSteps
  <2>2. PICK r \in {AtRest, [thread[t] EXCEPT !.pc = "open", !.seen = state]} :
          thread' = [thread EXCEPT ![t] = r]
    BY <1>13 DEF ReadState
  <2>3. r \in Thread /\ r.pc \notin BundleSteps
    BY <1>0, <2>1, <2>2 DEF BundleSteps, Thread
  <2> QED
    BY <1>13, <2>2, <2>3, ThreadMoves DEF ReadState, At, TypeInv, TypeOK
<1>14. CASE FinishInstall(t) \/ TrustPrevious(t) \/ Throws(t)
  <2>1. /\ thread' = [thread EXCEPT ![t] = AtRest] /\ UNCHANGED <<files, crashMarker, signal>>
        /\ mountMarker' \in BOOLEAN /\ main' \in {"down", "boot", "up", "failed"}
    BY <1>14 DEF FinishInstall, TrustPrevious, Throws, At, TypeInv, TypeOK
  <2> QED
    BY <1>0, <2>1, ThreadMoves DEF TypeInv, TypeOK, BundleSteps
<1>15. CASE RenameFails(t)
  <2>1. /\ UNCHANGED <<disk, main, signal>>
        /\ \E r \in Thread : thread' = [thread EXCEPT ![t] = r] /\ r.pc \notin BundleSteps
    BY <1>15, RenameFailsAlone
  <2> QED
    BY <2>1, ThreadMoves DEF TypeInv, TypeOK
<1> QED
  BY <1>1, <1>2, <1>3, <1>4, <1>5, <1>6, <1>7, <1>8, <1>9, <1>10, <1>11, <1>12, <1>13, <1>14,
     <1>15

LEMMA TypeStep == TypeInv /\ [Next]_vars => TypeInv'
<1> SUFFICES ASSUME TypeInv, [Next]_vars PROVE TypeInv'
  OBVIOUS
<1> USE DEF disk
<1>0. acknowledged' \in BOOLEAN
  BY DEF Next, Remembers, vars, TypeInv, TypeOK
<1>1. ASSUME NEW t \in Pool, Task(t) PROVE TypeInv'
  BY <1>0, <1>1, ThreadTypeStep DEF Task, Threads
<1>2. ASSUME NEW t \in Threads,
             ReadState(t) \/ OpenState(t) \/ WriteState(t) \/ RenameState(t)
               \/ RenameFails(t) \/ TrustPrevious(t) \/ Throws(t)
      PROVE  TypeInv'
  BY <1>0, <1>2, ThreadTypeStep
<1>3. CASE Launch \/ UncaughtException
  <2>1. PICK t \in Rollbacks : thread' = thread \/ RollsBack(t)
    BY <1>3 DEF Launch, UncaughtException, Rollbacks
  <2>2. t \in Threads /\ thread[t] \in Thread
    BY DEF Threads, TypeInv, TypeOK
  <2> DEFINE r == [thread[t] EXCEPT !.job = "rollback", !.pc = "read"]
  <2>3. r \in Thread /\ r.pc \notin BundleSteps
    BY <2>2 DEF Thread, Steps, BundleSteps
  <2>4. thread' = thread \/ thread' = [thread EXCEPT ![t] = r]
    BY <2>1, <2>2 DEF RollsBack, TypeInv, TypeOK
  <2>5. UNCHANGED files
    BY <1>3 DEF Launch, UncaughtException
  <2>6. thread' \in [Threads -> Thread] /\ Kinds'
    <3>1. CASE thread' = thread
      BY <2>5, <3>1 DEF TypeInv, TypeOK, Kinds
    <3>2. CASE thread' = [thread EXCEPT ![t] = r]
      <4> HIDE DEF r
      <4> QED
        BY <2>2, <2>3, <2>5, <3>2, ThreadMoves
    <3> QED
      BY <2>4, <3>1, <3>2
  <2> QED
    BY <1>0, <1>3, <2>6 DEF Launch, UncaughtException, TypeInv, TypeOK
<1>4. CASE Raise \/ Kill
  <2>1. /\ thread' = [t \in Threads |-> AtRest] /\ UNCHANGED <<files, mountMarker>>
        /\ main' = "down" /\ signal' = "idle" /\ crashMarker' \in {"absent", "auto", "manual"}
    BY <1>4 DEF Raise, Kill, Dies, TypeInv, TypeOK
  <2> QED
    BY <1>0, <2>1, AtRestIsThread DEF TypeInv, TypeOK, Kinds, BundleSteps
<1>5. CASE Resolve \/ SignalArrives \/ UNCHANGED vars
  BY <1>0, <1>5 DEF Resolve, SignalArrives, vars, TypeInv, TypeOK, Kinds
<1> QED
  BY <1>1, <1>2, <1>3, <1>4, <1>5 DEF Next, Step

LEMMA TypeHolds == Spec => []TypeInv
<1>1. Init => TypeInv
  <2>1. NoFile \in File /\ NoFile.tmp = Absent /\ NoFile.live = Absent /\ State \in Names
    BY DEF NoFile, File, Names
  <2> QED
    BY <2>1, AtRestIsThread DEF Init, TypeInv, TypeOK, Kinds, BundleSteps
<1> QED
  BY <1>1, TypeStep, PTL DEF Spec

(* Every variable keeps its type, whatever accident happens.               *)
THEOREM TypeCorrect == Spec => []TypeOK
<1>1. TypeInv => TypeOK
  BY DEF TypeInv
<1> QED
  BY <1>1, TypeHolds, PTL

-----------------------------------------------------------------------------
(***************************************************************************)
(* Without two writers at once, the one that writes has the temporary file *)
(* to itself from open to rename, and what it renames is whole.            *)
(***************************************************************************)
Writing(t) == thread[t].pc \in {"write", "rename"}

WritesAlone ==
    /\ \A t \in Threads : Writing(t) => thread[t].fd = "tmp"
    /\ \A t, u \in Threads : Writing(t) /\ Writing(u) => t = u
    /\ \A t \in Threads : thread[t].pc = "rename" => files[State].tmp \in Pointer
    /\ NeverTorn

LEMMA OthersWrite ==
    ASSUME WritesAlone, files'[State] = files[State],
           \A t \in Threads : Writing(t)' =>
               thread'[t].pc = thread[t].pc /\ thread'[t].fd = thread[t].fd
    PROVE  WritesAlone'
  BY DEF WritesAlone, Writing, NeverTorn

LEMMA WritesAloneStep ==
    ASSUME TypeInv, WritesAlone, [Next]_vars, "shared" \notin Accidents
    PROVE  WritesAlone'
<1> USE DEF disk
<1>0. /\ thread \in [Threads -> Thread] /\ files \in [Names -> File] /\ State \in Names
      /\ \A t \in Threads : thread[t].pc \in BundleSteps =>
            Target(t) = thread[t].release /\ Target(t) \in Releases /\ Target(t) # State
  BY ValueOfKind, StateIsNoRelease DEF TypeInv, TypeOK, Names, State, Target
<1>1. ASSUME NEW t \in Threads, NEW r, thread' = [thread EXCEPT ![t] = r],
             r.pc \notin {"write", "rename"}, files'[State] = files[State]
      PROVE  WritesAlone'
  BY <1>0, <1>1, OthersWrite DEF Writing
<1>2. ASSUME NEW t \in Threads, OpenState(t), MayOpen(t) PROVE WritesAlone'
  <2>1. thread[t].pc = "open" /\ Target(t) = State
    BY <1>2 DEF OpenState, At, Target, BundleSteps
  <2>2. \A u \in Threads \ {t} : ~Writing(u)
    BY <1>2 DEF MayOpen, Holds, Writing, WritesAlone, Target, BundleSteps
  <2>3. /\ thread'[t].pc = "write" /\ thread'[t].fd = "tmp"
        /\ \A u \in Threads \ {t} : thread'[u] = thread[u]
        /\ files'[State].live = files[State].live
    BY <1>0, <1>2, <2>1 DEF OpenState, Opens, Thread, File
  <2> QED
    BY <2>2, <2>3 DEF WritesAlone, Writing, NeverTorn
<1>3. ASSUME NEW t \in Threads, WriteState(t) PROVE WritesAlone'
  <2>1. thread[t].pc = "write" /\ Target(t) = State /\ Value(t) \in Pointer /\ Writing(t)
    BY <1>3, ValueOfKind DEF WriteState, At, BundleSteps, Writing
  <2>2. thread[t].fd = "tmp"
    BY <2>1 DEF WritesAlone
  <2>3. /\ files'[State].tmp = Value(t) /\ files'[State].live = files[State].live
        /\ thread'[t].pc = "rename" /\ thread'[t].fd = "tmp"
        /\ \A u \in Threads \ {t} : thread'[u] = thread[u]
    BY <1>0, <1>3, <2>1, <2>2 DEF WriteState, Writes, Goes, Thread, File
  <2> QED
    BY <2>1, <2>3 DEF WritesAlone, Writing, NeverTorn
<1>4. ASSUME NEW t \in Threads, RenameState(t) PROVE WritesAlone'
  <2>1. thread[t].pc = "rename" /\ Target(t) = State /\ Writing(t)
        /\ files[State].tmp \in Pointer
    BY <1>4 DEF RenameState, At, Target, BundleSteps, Writing, WritesAlone
  <2>2. files'[State].live = files[State].tmp
    BY <1>0, <1>4, <2>1, Contents DEF RenameState, Renames
  <2>3. AfterWrite(t).pc \in {"clear", "idle", "trust"}
    <3>1. \A pc \in {"clear", "trust"} : [thread[t] EXCEPT !.pc = pc, !.fd = "none"].pc = pc
      BY <1>0 DEF Thread
    <3>2. \/ AfterWrite(t) = AtRest
          \/ \E pc \in {"clear", "trust"} :
                AfterWrite(t) = [thread[t] EXCEPT !.pc = pc, !.fd = "none"]
      BY Zenon DEF AfterWrite
    <3> QED
      BY <3>1, <3>2, AtRestIsThread
  <2>4. ~Writing(t)' /\ \A u \in Threads \ {t} : thread'[u].pc = thread[u].pc
    BY <1>0, <1>4, <2>3 DEF RenameState, Renames, Moved, Writing, Thread
  <2>5. \A u \in Threads : ~Writing(u)'
    BY <2>1, <2>4 DEF Writing, WritesAlone
  <2> QED
    BY <2>1, <2>2, <2>5, Contents DEF WritesAlone, Writing, NeverTorn
<1>5. ASSUME NEW t \in Threads, MoveIn(t) PROVE WritesAlone'
  <2>1. thread[t].pc = "move" /\ Target(t) # State /\ Target(t) \in Names
    BY <1>0, <1>5 DEF MoveIn, At, BundleSteps, Names
  <2>2. files'[State] = files[State]
    BY <1>0, <1>5, <2>1 DEF MoveIn, Renames
  <2>3. ~Writing(t)' /\ \A u \in Threads \ {t} :
          thread'[u].pc = thread[u].pc /\ (Target(u) = State => thread'[u].fd = thread[u].fd)
    BY <1>0, <1>5, <2>1 DEF MoveIn, Renames, Moved, Writing, Thread
  <2>4. \A u \in Threads : Writing(u) => Target(u) = State
    BY DEF Writing, Target, BundleSteps
  <2> QED
    BY <2>2, <2>3, <2>4, OthersWrite DEF Writing
<1>6. ASSUME NEW t \in Threads, NEW n \in Releases, NEW name, NEW f,
             NEW r, r.pc \notin {"write", "rename"},
             files' = [files EXCEPT ![n] = f], thread' = [Orphaned(n, name) EXCEPT ![t] = r]
      PROVE  WritesAlone'
  <2>1. files'[State] = files[State]
    BY <1>0, <1>6, StateIsNoRelease DEF State
  <2>2. ~Writing(t)' /\ \A u \in Threads \ {t} :
          thread'[u].pc = thread[u].pc /\ (Target(u) = State => thread'[u].fd = thread[u].fd)
    BY <1>0, <1>6, StateIsNoRelease DEF Orphaned, Writing, Thread, State
  <2>3. \A u \in Threads : Writing(u) => Target(u) = State
    BY DEF Writing, Target, BundleSteps
  <2> QED
    BY <2>1, <2>2, <2>3, OthersWrite DEF Writing
<1>7. ASSUME NEW t \in Threads, RemoveOld(t) PROVE WritesAlone'
  <2>1. thread[t].release \in Releases
    BY <1>0, <1>7 DEF RemoveOld, At, BundleSteps
  <2> DEFINE r == [Orphaned(thread[t].release, {"live"})[t] EXCEPT !.pc = "move"]
  <2>2. r.pc = "move"
    BY <1>0 DEF Orphaned, Thread
  <2>3. /\ files' = [files EXCEPT ![thread[t].release] =
                       [files[thread[t].release] EXCEPT !.live = Absent]]
        /\ thread' = [Orphaned(thread[t].release, {"live"}) EXCEPT ![t] = r]
    BY <1>0, <1>7 DEF RemoveOld, Orphaned
  <2> HIDE DEF r
  <2> QED
    BY <1>6, <2>1, <2>2, <2>3
<1>8. ASSUME NEW t \in Threads, NEW n \in Releases, DeleteRelease(t, n) PROVE WritesAlone'
  <2> DEFINE r == [Orphaned(n, {"tmp", "live"})[t] EXCEPT !.stale = @ \ {n}]
  <2>1. r.pc = "prune"
    BY <1>0, <1>8 DEF Orphaned, Thread, DeleteRelease, At
  <2>2. /\ files' = [files EXCEPT ![n] = NoFile]
        /\ thread' = [Orphaned(n, {"tmp", "live"}) EXCEPT ![t] = r]
    BY <1>0, <1>8 DEF DeleteRelease, Orphaned
  <2> HIDE DEF r
  <2> QED
    BY <1>6, <2>1, <2>2
<1>9. ASSUME NEW t \in Threads, StageBundle(t) \/ FillBundle(t) PROVE WritesAlone'
  <2>1. thread[t].pc \in BundleSteps /\ Target(t) \in Names
    BY <1>0, <1>9 DEF StageBundle, FillBundle, At, BundleSteps, Names
  <2>2. files'[State] = files[State]
    BY <1>0, <1>9, <2>1 DEF StageBundle, FillBundle, Opens, Writes
  <2>3. PICK r : thread' = [thread EXCEPT ![t] = r] /\ r.pc \in {"fill", "remove"}
    <3>1. [thread[t] EXCEPT !.pc = "fill", !.fd = "tmp"].pc = "fill"
          /\ [thread[t] EXCEPT !.pc = "remove"].pc = "remove"
      BY <1>0 DEF Thread
    <3>2. \/ thread' = [thread EXCEPT ![t] = [thread[t] EXCEPT !.pc = "fill", !.fd = "tmp"]]
          \/ thread' = [thread EXCEPT ![t] = [thread[t] EXCEPT !.pc = "remove"]]
      BY <1>0, <1>9 DEF StageBundle, FillBundle, Opens, Writes, Goes
    <3> QED
      BY <3>1, <3>2
  <2> QED
    BY <1>1, <2>2, <2>3
<1>10. ASSUME NEW t \in Threads, NEW pc, pc \notin {"write", "rename"},
              thread'[t].pc = pc, \A u \in Threads \ {t} : thread'[u] = thread[u],
              UNCHANGED files
       PROVE  WritesAlone'
  BY <1>10, OthersWrite DEF Writing
<1>11. ASSUME NEW t \in Threads,
              \/ \E release \in Releases : StartInstall(t, release)
              \/ StartConfirm(t) \/ MarkMounted(t) \/ ClearMarker(t) \/ ListReleases(t)
              \/ FinishInstall(t) \/ ReadState(t) \/ TrustPrevious(t) \/ Throws(t)
       PROVE  WritesAlone'
  <2>1. UNCHANGED files
    BY <1>11 DEF StartInstall, StartConfirm, Starts, MarkMounted, ClearMarker,
       ListReleases, FinishInstall, ReadState, TrustPrevious, Throws, At
  <2>2. CASE thread' = [thread EXCEPT ![t] = AtRest]
    BY <1>1, <2>1, <2>2, AtRestIsThread
  <2>3. ASSUME NEW release \in Releases, StartInstall(t, release) PROVE WritesAlone'
    <3>1. thread'[t].pc = "stage" /\ \A u \in Threads \ {t} : thread'[u] = thread[u]
      BY <1>0, <2>3 DEF StartInstall, Starts, Thread
    <3> QED
      BY <1>10, <2>1, <3>1
  <2>4. CASE StartConfirm(t)
    <3>1. thread'[t].pc = "mark" /\ \A u \in Threads \ {t} : thread'[u] = thread[u]
      BY <1>0, <2>4 DEF StartConfirm, Starts, Thread
    <3> QED
      BY <1>10, <2>1, <3>1
  <2>5. CASE MarkMounted(t) \/ ClearMarker(t) \/ ListReleases(t)
    <3>1. /\ thread'[t].pc \in {"read", "list", "prune"}
          /\ \A u \in Threads \ {t} : thread'[u] = thread[u]
      BY <1>0, <2>5 DEF MarkMounted, ClearMarker, Goes, ListReleases, Thread
    <3> QED
      BY <1>10, <2>1, <3>1
  <2>6. CASE ReadState(t)
    <3>1. /\ thread'[t].pc \in {"idle", "open"}
          /\ \A u \in Threads \ {t} : thread'[u] = thread[u]
      BY <1>0, <2>6, AtRestIsThread DEF ReadState, Thread
    <3> QED
      BY <1>10, <2>1, <3>1
  <2>7. CASE FinishInstall(t) \/ TrustPrevious(t) \/ Throws(t)
    BY <2>2, <2>7 DEF FinishInstall, TrustPrevious, Throws
  <2> QED
    BY <1>11, <2>3, <2>4, <2>5, <2>6, <2>7
<1>12. CASE Launch \/ UncaughtException
  <2>1. PICK t \in Threads : thread' = thread \/ RollsBack(t)
    BY <1>12 DEF Launch, UncaughtException, Threads, Rollbacks
  <2>2. UNCHANGED files
    BY <1>12 DEF Launch, UncaughtException
  <2>3. CASE thread' = thread
    BY <2>2, <2>3, OthersWrite DEF Writing
  <2>4. CASE RollsBack(t)
    <3>1. thread'[t].pc = "read" /\ \A u \in Threads \ {t} : thread'[u] = thread[u]
      BY <1>0, <2>4 DEF RollsBack, Thread
    <3> QED
      BY <1>10, <2>2, <3>1
  <2> QED
    BY <2>1, <2>3, <2>4
<1>13. CASE Raise \/ Kill
  <2>1. UNCHANGED files /\ \A t \in Threads : thread'[t] = AtRest
    BY <1>13 DEF Raise, Kill, Dies
  <2> QED
    BY <2>1, AtRestIsThread, OthersWrite DEF Writing
<1>14. CASE Resolve \/ SignalArrives \/ UNCHANGED vars
  <2>1. UNCHANGED <<files, thread>>
    BY <1>14 DEF Resolve, SignalArrives, vars
  <2> QED
    BY <2>1, OthersWrite DEF Writing
<1>14a. ASSUME NEW t \in Threads, RenameFails(t) PROVE WritesAlone'
  <2>1. PICK r \in Thread :
          /\ thread' = [thread EXCEPT ![t] = r] /\ thread[t].pc \in {"move", "rename"}
          /\ thread[t].pc = "move" => r = [thread[t] EXCEPT !.pc = "read", !.fd = "none"]
          /\ thread[t].pc = "rename" => r = AfterWrite(t)
    BY <1>14a, RenameFailsAlone
  <2>2. \A pc \in {"read", "clear", "trust"} :
           [thread[t] EXCEPT !.pc = pc, !.fd = "none"].pc = pc
    BY <1>0 DEF Thread
  <2>3. r.pc \in {"read", "clear", "trust", "idle"}
    BY <2>1, <2>2, AfterWriteLeaves, AtRestIsThread
  <2>4. UNCHANGED files
    BY <1>14a, RenameFailsAlone
  <2> QED
    BY <1>1, <2>1, <2>3, <2>4
<1>15. ASSUME NEW t \in Pool, Task(t) PROVE WritesAlone'
  BY <1>15, <1>5, <1>7, <1>8, <1>9, <1>11 DEF Task, Threads
<1>16. ASSUME NEW t \in Threads,
              \/ ReadState(t)
              \/ OpenState(t) /\ MayOpen(t)
              \/ WriteState(t) \/ RenameState(t) \/ RenameFails(t)
              \/ TrustPrevious(t) \/ Throws(t)
       PROVE  WritesAlone'
  BY <1>16, <1>2, <1>3, <1>4, <1>11, <1>14a
<1>17. \/ \E t \in Pool : Task(t)
       \/ \E t \in Threads :
             \/ ReadState(t)
             \/ OpenState(t) /\ MayOpen(t)
             \/ WriteState(t) \/ RenameState(t) \/ RenameFails(t)
             \/ TrustPrevious(t) \/ Throws(t)
       \/ Launch \/ UncaughtException \/ Raise \/ Kill
       \/ Resolve \/ SignalArrives \/ UNCHANGED vars
  BY DEF Next, Step
<1> QED
  BY <1>12, <1>13, <1>14, <1>15, <1>16, <1>17

(* Unless two threads write it at once, state.json is never half written,  *)
(* whenever the process dies and whichever file could not be written.      *)
THEOREM StateNeverTorn ==
    ASSUME "shared" \notin Accidents
    PROVE  Spec => []NeverTorn
<1>1. Init => WritesAlone
  <2> SUFFICES ASSUME Init PROVE WritesAlone
    OBVIOUS
  <2>1. files[State].live = Absent /\ \A t \in Threads : thread[t].pc = "idle"
    BY AtRestIsThread DEF Init, NoFile, Names
  <2> QED
    BY <2>1, Contents DEF WritesAlone, Writing, NeverTorn
<1>2. TypeInv /\ WritesAlone /\ [Next]_vars => WritesAlone'
  BY WritesAloneStep
<1>3. WritesAlone => NeverTorn
  BY DEF WritesAlone
<1> QED
  BY <1>1, <1>2, <1>3, TypeHolds, PTL DEF Spec

-----------------------------------------------------------------------------
(***************************************************************************)
(* Without the accidents of two installations, a bundle is there from the  *)
(* time it is moved in, through the time state.json names it, until no     *)
(* task and neither side of state.json needs it.                           *)
(***************************************************************************)
Sound(t) ==
    /\ thread[t].pc \in BundleSteps \cup {"clear", "list", "prune"}
         => thread[t].job = "install"
    /\ thread[t].pc = "mark" => thread[t].job = "confirm"
    /\ thread[t].job = "install" => t \in Pool /\ thread[t].release \in Releases
    /\ thread[t].pc = "fill" => thread[t].fd = "tmp"
    /\ thread[t].pc \in {"remove", "move"} => files[thread[t].release].tmp = Whole
    /\ thread[t].job = "install" /\ thread[t].pc \in {"read"} \cup StateSteps
         => files[thread[t].release].live = Whole
    /\ thread[t].pc = "rename" => files[State].tmp = Value(t)
    /\ thread[t].pc = "prune" => thread[t].stale \cap Kept(t) = {}

NoTwins ==
    \A t, u \in Threads :
        /\ thread[t].job = "install" /\ thread[u].job = "install"
        /\ thread[t].release = thread[u].release
        => t = u

InstallInv == (\A t \in Threads : Sound(t)) /\ NoTwins /\ Retained

(* A thread moves on, and the files stay.                                  *)
LEMMA ThreadMovesSoundly ==
    ASSUME TypeInv, InstallInv, NEW t \in Threads, UNCHANGED files,
           \A u \in Threads \ {t} : thread'[u] = thread[u],
           thread[t].pc # "move", Sound(t)',
           thread'[t].job = "install" =>
             \A u \in Threads \ {t} :
                 thread[u].job = "install" => thread[u].release # thread'[t].release
    PROVE  InstallInv'
<1>1. \A u \in Threads \ {t} : Sound(u)'
  BY DEF InstallInv, Sound, Value, Kept
<1>2. NoTwins'
  BY DEF InstallInv, NoTwins
<1>3. Retained'
  <2>1. UNCHANGED state
    BY DEF state
  <2>2. ASSUME NEW u \in Pool, thread[u].pc = "move" PROVE thread'[u] = thread[u]
    BY <2>2 DEF Threads
  <2> QED
    BY <2>1, <2>2 DEF Retained, InstallInv
<1> QED
  BY <1>1, <1>2, <1>3 DEF InstallInv

(* A task changes the files of the release that it installs.               *)
LEMMA ReleaseReplacedSoundly ==
    ASSUME TypeInv, InstallInv, NEW t \in Threads, thread[t].job = "install",
           NEW n \in Releases, n = thread[t].release,
           thread'[t].job = "install", thread'[t].release = n,
           \A m \in Names \ {n} : files'[m] = files[m],
           \A u \in Threads \ {t} :
             /\ thread'[u].pc = thread[u].pc /\ thread'[u].job = thread[u].job
             /\ thread'[u].release = thread[u].release /\ thread'[u].seen = thread[u].seen
             /\ thread'[u].stale = thread[u].stale
             /\ Target(u) # n => thread'[u].fd = thread[u].fd,
           Sound(t)',
           \/ thread[t].pc # "move" /\ files'[n].live = files[n].live
           \/ thread'[t].pc = "move"
           \/ files'[n].live = Whole
    PROVE  InstallInv'
<1>1. State \in Names /\ n # State /\ files'[State] = files[State] /\ UNCHANGED state
  BY StateIsNoRelease DEF Names, State, state
<1>2. ASSUME NEW u \in Threads \ {t} PROVE Sound(u)'
  <2>1. thread[u].job = "install" =>
          thread[u].release # n /\ thread[u].release \in Names
    BY DEF InstallInv, Sound, NoTwins, Names
  <2>2. thread[u].pc = "fill" => Target(u) # n
    BY <2>1 DEF InstallInv, Sound, Target, BundleSteps
  <2>3. Value(u)' = Value(u) /\ Kept(u)' = Kept(u)
    BY DEF Value, Kept
  <2> QED
    BY <1>1, <2>1, <2>2, <2>3 DEF InstallInv, Sound, BundleSteps
<1>3. NoTwins'
  BY DEF InstallInv, NoTwins
<1>4. Retained'
  <2> SUFFICES ASSUME NEW r \in {state.current, state.previous} \ {None}
               PROVE  \/ files'[r].live = Whole
                      \/ \E u \in Pool : thread'[u].pc = "move" /\ thread'[u].release = r
    BY <1>1 DEF Retained
  <2>1. t \in Pool /\ Pool \subseteq Threads
    BY DEF InstallInv, Sound, Threads
  <2>2. r \in Names
    BY StateIsPointer DEF Pointer, Ids, Names
  <2>3. \/ files[r].live = Whole
        \/ \E u \in Pool : thread[u].pc = "move" /\ thread[u].release = r
    BY DEF InstallInv, Retained
  <2> QED
    BY <2>1, <2>2, <2>3
<1> QED
  BY <1>2, <1>3, <1>4, <1>1 DEF InstallInv

(* The steps of an installation that concern its own bundle.               *)
LEMMA InstallTaskStep ==
    ASSUME TypeInv, InstallInv, NEW t \in Pool,
           StageBundle(t) \/ FillBundle(t) \/ RemoveOld(t) \/ MoveIn(t)
    PROVE  InstallInv'
<1> DEFINE n == thread[t].release
<1>0. /\ thread \in [Threads -> Thread] /\ files \in [Names -> File] /\ t \in Threads
      /\ thread[t].pc \in BundleSteps /\ thread[t].job = "install"
      /\ n \in Releases /\ n \in Names /\ Target(t) = n /\ Value(t) = Whole
      /\ t \in Pool /\ Sound(t)
  BY DEF TypeInv, TypeOK, Threads, StageBundle, FillBundle, RemoveOld, MoveIn, At,
     BundleSteps, InstallInv, Sound, Names, Target, Value
<1>1. CASE StageBundle(t)
  <2>1. /\ files' = [files EXCEPT ![n].tmp = Torn]
        /\ thread' = [thread EXCEPT ![t].pc = "fill", ![t].fd = "tmp"]
        /\ thread[t].pc = "stage"
    BY <1>0, <1>1 DEF StageBundle, Opens, At
  <2>2. /\ thread'[t].pc = "fill" /\ thread'[t].fd = "tmp" /\ thread'[t].job = "install"
        /\ thread'[t].release = n
        /\ files'[n].live = files[n].live
    BY <1>0, <2>1 DEF Thread, File
  <2>3. Sound(t)'
    BY <1>0, <2>2 DEF Sound, StateSteps
  <2> QED
    BY <1>0, <2>1, <2>2, <2>3, ReleaseReplacedSoundly
<1>2. CASE FillBundle(t)
  <2>1. /\ files' = [files EXCEPT ![n].tmp = Whole]
        /\ thread' = [thread EXCEPT ![t].pc = "remove"]
        /\ thread[t].pc = "fill"
    BY <1>0, <1>2 DEF FillBundle, Writes, Goes, At, Sound
  <2>2. /\ thread'[t].pc = "remove" /\ thread'[t].job = "install"
        /\ thread'[t].release = n
        /\ files'[n].live = files[n].live /\ files'[n].tmp = Whole
    BY <1>0, <2>1 DEF Thread, File
  <2>3. Sound(t)'
    BY <1>0, <2>2 DEF Sound, StateSteps
  <2> QED
    BY <1>0, <2>1, <2>2, <2>3, ReleaseReplacedSoundly
<1>3. CASE RemoveOld(t)
  <2>1. /\ files' = [files EXCEPT ![n].live = Absent] /\ thread[t].pc = "remove"
        /\ thread' = [Orphaned(n, {"live"}) EXCEPT ![t].pc = "move"]
    BY <1>0, <1>3 DEF RemoveOld, At
  <2>2. /\ thread'[t].pc = "move" /\ thread'[t].job = "install"
        /\ thread'[t].release = n /\ files'[n].tmp = Whole
    BY <1>0, <2>1 DEF Orphaned, Thread, File, Sound
  <2>3. \A u \in Threads \ {t} :
          /\ thread'[u].pc = thread[u].pc /\ thread'[u].job = thread[u].job
          /\ thread'[u].release = thread[u].release /\ thread'[u].seen = thread[u].seen
          /\ thread'[u].stale = thread[u].stale
          /\ Target(u) # n => thread'[u].fd = thread[u].fd
    BY <1>0, <2>1 DEF Orphaned, Thread
  <2>4. Sound(t)'
    BY <1>0, <2>2 DEF Sound, StateSteps
  <2> QED
    BY <1>0, <2>1, <2>2, <2>3, <2>4, ReleaseReplacedSoundly
<1>4. CASE MoveIn(t)
  <2>1. files[n].tmp = Whole /\ thread[t].pc = "move" /\ files[n].tmp # Absent
    BY <1>0, <1>4, Contents DEF MoveIn, At, Sound
  <2>2. /\ files' = [files EXCEPT ![n] = [tmp |-> Absent, live |-> Whole]]
        /\ thread' = [[u \in Threads |-> Moved(n, u)] EXCEPT
                         ![t] = [thread[t] EXCEPT !.pc = "read", !.fd = "none"]]
    BY <1>0, <1>4, <2>1 DEF MoveIn, Renames
  <2>3. /\ thread'[t].pc = "read" /\ thread'[t].job = "install"
        /\ thread'[t].release = n /\ files'[n].live = Whole
    BY <1>0, <2>2 DEF Thread
  <2>4. \A u \in Threads \ {t} :
          /\ thread'[u].pc = thread[u].pc /\ thread'[u].job = thread[u].job
          /\ thread'[u].release = thread[u].release /\ thread'[u].seen = thread[u].seen
          /\ thread'[u].stale = thread[u].stale
          /\ Target(u) # n => thread'[u].fd = thread[u].fd
    BY <1>0, <2>2 DEF Moved, Thread
  <2>5. Sound(t)'
    BY <1>0, <2>3 DEF Sound, BundleSteps
  <2> QED
    BY <1>0, <2>2, <2>3, <2>4, <2>5, ReleaseReplacedSoundly
<1> QED
  BY <1>1, <1>2, <1>3, <1>4

(* The steps that write no file.                                           *)
LEMMA QuietTaskStep ==
    ASSUME TypeInv, InstallInv, NEW t \in Threads, "twins" \notin Accidents,
           \/ \E release \in Releases : t \in Pool /\ StartInstall(t, release) /\ MayStart(release)
           \/ StartConfirm(t) \/ MarkMounted(t) \/ ClearMarker(t) \/ ListReleases(t)
           \/ FinishInstall(t) \/ ReadState(t) \/ TrustPrevious(t) \/ Throws(t)
    PROVE  InstallInv'
<1>0. /\ thread \in [Threads -> Thread] /\ Sound(t) /\ AtRest.job = "none" /\ AtRest.pc = "idle"
      /\ thread[t] \in Thread
  BY DEF TypeInv, TypeOK, InstallInv, AtRest
<1>1. ASSUME UNCHANGED files, thread' = [thread EXCEPT ![t] = AtRest], thread[t].pc # "move"
      PROVE  InstallInv'
  <2>1. Sound(t)'
    BY <1>0, <1>1 DEF Sound, BundleSteps, StateSteps
  <2> QED
    BY <1>0, <1>1, <2>1, ThreadMovesSoundly
<1>2. ASSUME UNCHANGED files, \A u \in Threads \ {t} : thread'[u] = thread[u],
             thread[t].pc # "move", Sound(t)', thread'[t].job = thread[t].job,
             thread'[t].release = thread[t].release
      PROVE  InstallInv'
  <2>1. thread'[t].job = "install" =>
          \A u \in Threads \ {t} :
              thread[u].job = "install" => thread[u].release # thread'[t].release
    BY <1>2 DEF InstallInv, NoTwins
  <2> QED
    BY <1>2, <2>1, ThreadMovesSoundly
<1>3. ASSUME NEW release \in Releases, t \in Pool, StartInstall(t, release), MayStart(release)
      PROVE  InstallInv'
  <2>1. /\ thread'[t].pc = "stage" /\ thread'[t].job = "install"
        /\ thread'[t].release = release /\ thread[t].pc = "idle"
        /\ UNCHANGED files /\ \A u \in Threads \ {t} : thread'[u] = thread[u]
    BY <1>0, <1>3 DEF StartInstall, Starts, Thread, disk
  <2>2. \A u \in Threads \ {t} : thread[u].job = "install" => thread[u].release # release
    BY <1>3 DEF MayStart, InstallInv, Sound
  <2>3. Sound(t)'
    BY <1>3, <2>1 DEF Sound, StateSteps
  <2> QED
    BY <2>1, <2>2, <2>3, ThreadMovesSoundly
<1>4. CASE StartConfirm(t)
  <2>1. /\ thread'[t].pc = "mark" /\ thread'[t].job = "confirm" /\ thread[t].pc = "idle"
        /\ UNCHANGED files /\ \A u \in Threads \ {t} : thread'[u] = thread[u]
    BY <1>0, <1>4 DEF StartConfirm, Starts, Thread, disk
  <2>2. Sound(t)'
    BY <2>1 DEF Sound, BundleSteps
  <2> QED
    BY <2>1, <2>2, ThreadMovesSoundly
<1>5. CASE MarkMounted(t)
  <2>1. /\ thread[t].pc = "mark" /\ thread'[t].pc = "read" /\ thread'[t].job = thread[t].job
        /\ thread'[t].release = thread[t].release
        /\ UNCHANGED files /\ \A u \in Threads \ {t} : thread'[u] = thread[u]
    BY <1>0, <1>5 DEF MarkMounted, At, Goes, Thread
  <2>2. Sound(t)'
    BY <1>0, <2>1 DEF Sound, BundleSteps
  <2> QED
    BY <1>2, <2>1, <2>2
<1>6. CASE ClearMarker(t)
  <2>1. /\ thread[t].pc = "clear" /\ thread'[t].pc = "list" /\ thread'[t].job = thread[t].job
        /\ thread'[t].release = thread[t].release
        /\ UNCHANGED files /\ \A u \in Threads \ {t} : thread'[u] = thread[u]
    BY <1>0, <1>6 DEF ClearMarker, At, Goes, Thread
  <2>2. Sound(t)'
    BY <1>0, <2>1 DEF Sound, StateSteps
  <2> QED
    BY <1>2, <2>1, <2>2
<1>7. CASE ListReleases(t)
  <2>1. /\ thread[t].pc = "list" /\ thread'[t].pc = "prune" /\ thread'[t].job = thread[t].job
        /\ thread'[t].release = thread[t].release /\ thread'[t].seen = thread[t].seen
        /\ thread'[t].stale \cap Kept(t) = {}
        /\ UNCHANGED files /\ \A u \in Threads \ {t} : thread'[u] = thread[u]
    BY <1>0, <1>7 DEF ListReleases, At, Thread
  <2>2. Sound(t)'
    BY <1>0, <2>1 DEF Sound, StateSteps, Kept
  <2> QED
    BY <1>2, <2>1, <2>2
<1>8. CASE ReadState(t)
  <2>1. thread[t].pc = "read" /\ UNCHANGED files
    BY <1>8 DEF ReadState, At
  <2>2. CASE thread' = [thread EXCEPT ![t] = AtRest]
    BY <1>1, <2>1, <2>2
  <2>3. CASE thread' = [thread EXCEPT ![t] = [thread[t] EXCEPT !.pc = "open", !.seen = state]]
    <3>1. /\ thread'[t].pc = "open" /\ thread'[t].job = thread[t].job
          /\ thread'[t].release = thread[t].release
          /\ \A u \in Threads \ {t} : thread'[u] = thread[u]
      BY <1>0, <2>3 DEF Thread
    <3>2. Sound(t)'
      BY <1>0, <2>1, <3>1 DEF Sound, BundleSteps, StateSteps
    <3> QED
      BY <1>2, <2>1, <3>1, <3>2
  <2> QED
    BY <1>8, <2>2, <2>3 DEF ReadState
<1>9. CASE FinishInstall(t) \/ TrustPrevious(t) \/ Throws(t)
  <2>1. /\ UNCHANGED files /\ thread' = [thread EXCEPT ![t] = AtRest]
        /\ thread[t].pc # "move"
    BY <1>9 DEF FinishInstall, TrustPrevious, Throws, At, disk
  <2> QED
    BY <1>1, <2>1
<1> QED
  BY <1>3, <1>4, <1>5, <1>6, <1>7, <1>8, <1>9

(* A rename that fails for who installs nothing ends what it was to write. *)
LEMMA RenameFailsSoundly ==
    ASSUME TypeInv, InstallInv, NEW t \in Threads, RenameFails(t), MayFail(t),
           "unmoved" \notin Accidents
    PROVE  InstallInv'
<1>0. /\ thread \in [Threads -> Thread] /\ Sound(t) /\ thread[t] \in Thread
      /\ AtRest.job = "none" /\ AtRest.pc = "idle"
  BY DEF TypeInv, TypeOK, InstallInv, AtRest
<1>1. thread[t].job # "install" /\ thread[t].pc = "rename"
  BY <1>0, RenameFailsAlone DEF MayFail, Sound, BundleSteps
<1>2. /\ UNCHANGED files
      /\ \E r \in Thread : thread' = [thread EXCEPT ![t] = r] /\ r = AfterWrite(t)
  BY <1>1, RenameFailsAlone DEF disk
<1>3. /\ thread'[t] \in {AtRest, [thread[t] EXCEPT !.pc = "trust", !.fd = "none"]}
      /\ \A u \in Threads \ {t} : thread'[u] = thread[u]
  BY <1>0, <1>1, <1>2, AfterWriteLeaves
<1>4. thread'[t].pc \in {"idle", "trust"} /\ thread'[t].job # "install"
  <2>1. /\ [thread[t] EXCEPT !.pc = "trust", !.fd = "none"].pc = "trust"
        /\ [thread[t] EXCEPT !.pc = "trust", !.fd = "none"].job = thread[t].job
    BY <1>0 DEF Thread
  <2> QED
    BY <1>0, <1>1, <1>3, <2>1
<1>5. Sound(t)'
  BY <1>4 DEF Sound, BundleSteps, StateSteps
<1> QED
  BY <1>1, <1>2, <1>3, <1>4, <1>5, ThreadMovesSoundly

(* What is deleted, nobody installs and state.json does not name.          *)
LEMMA DeleteReleaseStep ==
    ASSUME TypeInv, InstallInv, NEW t \in Pool, NEW n \in Releases,
           DeleteRelease(t, n), MayDelete(t, n), "pruned" \notin Accidents
    PROVE  InstallInv'
<1>0. /\ thread \in [Threads -> Thread] /\ files \in [Names -> File]
      /\ t \in Threads /\ n \in Names /\ n # State
  BY StateIsNoRelease DEF TypeInv, TypeOK, Names, Threads, State
<1>1. /\ thread[t].pc = "prune" /\ n \in thread[t].stale /\ thread[t].job = "install"
      /\ thread[t].stale \cap Kept(t) = {}
  BY <1>0 DEF DeleteRelease, At, InstallInv, Sound
<1>2. Value(t) = Promoted(thread[t].seen, thread[t].release)
  BY <1>1 DEF Value, BundleSteps
<1>3. n \notin {state.current, state.previous}
  BY <1>1, <1>2, NoneIsNoRelease DEF MayDelete, Promoted, Kept
<1>4. \A u \in Pool : thread[u].release # n
  BY DEF MayDelete
<1>5. files' = [files EXCEPT ![n] = NoFile]
  BY DEF DeleteRelease
<1>6. \A u \in Threads :
        /\ thread'[u].pc = thread[u].pc /\ thread'[u].job = thread[u].job
        /\ thread'[u].release = thread[u].release /\ thread'[u].seen = thread[u].seen
        /\ thread'[u].stale \subseteq thread[u].stale
        /\ Target(u) # n => thread'[u].fd = thread[u].fd
  BY <1>0 DEF DeleteRelease, Orphaned, Thread
<1>7. UNCHANGED state /\ files'[State] = files[State]
  BY <1>0, <1>5 DEF state
<1>8. ASSUME NEW u \in Threads PROVE Sound(u)'
  <2>1. thread[u].job = "install" =>
          u \in Pool /\ thread[u].release # n /\ thread[u].release \in Names
    BY <1>4 DEF InstallInv, Sound, Names
  <2>2. thread[u].pc = "fill" => Target(u) # n
    BY <2>1 DEF InstallInv, Sound, Target, BundleSteps
  <2>3. Value(u)' = Value(u) /\ Kept(u)' = Kept(u)
    BY <1>6 DEF Value, Kept
  <2>4. thread[u].job = "install" => files'[thread[u].release] = files[thread[u].release]
    BY <1>0, <1>5, <2>1
  <2> QED
    BY <1>6, <1>7, <2>1, <2>2, <2>3, <2>4 DEF InstallInv, Sound, BundleSteps
<1>9. NoTwins'
  BY <1>6 DEF InstallInv, NoTwins
<1>10. Retained'
  <2>1. \A r \in {state.current, state.previous} \ {None} : files'[r].live = files[r].live
    BY <1>0, <1>3, <1>5, StateIsPointer DEF Pointer, Ids, Names
  <2> QED
    BY <1>0, <1>6, <1>7, <2>1 DEF InstallInv, Retained, Threads
<1> QED
  BY <1>8, <1>9, <1>10 DEF InstallInv

(* Whoever writes state.json names only bundles that are there.            *)
LEMMA StateTaskStep ==
    ASSUME TypeInv, InstallInv, WritesAlone, WritesAlone', NEW t \in Threads,
           OpenState(t) \/ WriteState(t) \/ (RenameState(t) /\ MayReplace(t)),
           "stale" \notin Accidents
    PROVE  InstallInv'
<1>0. /\ thread \in [Threads -> Thread] /\ files \in [Names -> File] /\ Sound(t)
      /\ State \in Names /\ thread[t].pc \notin BundleSteps /\ Target(t) = State
      /\ Pool \subseteq Threads
  BY DEF TypeInv, TypeOK, Names, InstallInv, OpenState, WriteState, RenameState, At,
     BundleSteps, Target, Threads
<1>1. ASSUME \A u \in Threads \ {t} :
               /\ thread'[u].pc = thread[u].pc /\ thread'[u].job = thread[u].job
               /\ thread'[u].release = thread[u].release /\ thread'[u].seen = thread[u].seen
               /\ thread'[u].stale = thread[u].stale
               /\ Target(u) # State => thread'[u].fd = thread[u].fd,
             \A m \in Releases : files'[m] = files[m],
             Sound(t)', thread'[t].pc # "move",
             thread'[t].job = "install" =>
               thread[t].job = "install" /\ thread'[t].release = thread[t].release,
             \A u \in Threads \ {t} : thread[u].pc # "rename",
             Retained'
      PROVE  InstallInv'
  <2>1. ASSUME NEW u \in Threads \ {t} PROVE Sound(u)'
    <3>1. thread[u].pc = "fill" => Target(u) # State
      BY StateIsNoRelease DEF InstallInv, Sound, Target, BundleSteps, State
    <3>2. Kept(u)' = Kept(u)
      BY <1>1 DEF Kept
    <3> QED
      BY <1>1, <3>1, <3>2 DEF InstallInv, Sound, BundleSteps
  <2>2. NoTwins'
    BY <1>1 DEF InstallInv, NoTwins
  <2> QED
    BY <1>1, <2>1, <2>2 DEF InstallInv
<1>2. CASE OpenState(t) \/ WriteState(t)
  <2>1. PICK pc \in {"write", "rename"} :
          /\ thread'[t].pc = pc /\ thread'[t].job = thread[t].job
          /\ thread'[t].release = thread[t].release /\ thread'[t].seen = thread[t].seen
          /\ \A u \in Threads \ {t} : thread'[u] = thread[u]
          /\ thread[t].pc \in {"open", "write"}
    BY <1>0, <1>2 DEF OpenState, WriteState, Opens, Writes, Goes, At, Thread
  <2>2. \A m \in Releases : files'[m] = files[m]
    BY <1>0, <1>2, StateIsNoRelease DEF OpenState, WriteState, Opens, Writes, Names, State
  <2>3. files'[State].live = files[State].live /\ UNCHANGED state
    <3>1. thread[t].pc = "write" => thread[t].fd = "tmp"
      BY <1>0 DEF WritesAlone, Writing
    <3> QED
      BY <1>0, <1>2, <3>1 DEF OpenState, WriteState, Opens, Writes, At, state, File
  <2>4. thread'[t].pc = "rename" => files'[State].tmp = Value(t)'
    <3>1. ASSUME WriteState(t)
          PROVE  files'[State].tmp = Value(t)
      BY <1>0, <3>1 DEF WriteState, Writes, At, WritesAlone, Writing, File
    <3>2. OpenState(t) => thread'[t].pc # "rename"
      BY <1>0 DEF OpenState, Opens, Thread
    <3>3. Value(t)' = Value(t)
      BY <1>0, <2>1 DEF Value, BundleSteps
    <3> QED
      BY <1>2, <3>1, <3>2, <3>3
  <2>5. Sound(t)'
    BY <1>0, <2>1, <2>2, <2>4 DEF Sound, BundleSteps, StateSteps
  <2>6. \A u \in Threads \ {t} : thread[u].pc # "rename"
    BY <2>1 DEF WritesAlone, Writing
  <2>7. Retained'
    <3>1. \A r \in {state.current, state.previous} \ {None} : files'[r] = files[r]
      BY <2>2, StateIsPointer DEF Pointer, Ids
    <3>2. \A u \in Pool : thread[u].pc = "move" => thread'[u] = thread[u]
      BY <1>0, <2>1
    <3> QED
      BY <2>3, <3>1, <3>2 DEF InstallInv, Retained
  <2> QED
    BY <1>1, <2>1, <2>2, <2>5, <2>6, <2>7
<1>3. CASE RenameState(t) /\ MayReplace(t)
  <2>1. /\ thread[t].pc = "rename" /\ files[State].tmp = Value(t) /\ Writing(t)
        /\ Value(t) \in Pointer /\ Value(t) # Absent /\ Value(t) # Torn
        /\ thread[t].seen = state
    BY <1>0, <1>3, ValueOfKind, Contents
       DEF RenameState, At, Sound, Writing, MayReplace
  <2>2. /\ files' = [files EXCEPT ![State] = [tmp |-> Absent, live |-> Value(t)]]
        /\ thread' = [[u \in Threads |-> Moved(State, u)] EXCEPT ![t] = AfterWrite(t)]
    BY <1>0, <1>3, <2>1 DEF RenameState, Renames
  <2>3. state' = Value(t)
    BY <1>0, <2>1, <2>2 DEF state, Read
  <2>4. \A u \in Threads \ {t} :
          /\ thread'[u].pc = thread[u].pc /\ thread'[u].job = thread[u].job
          /\ thread'[u].release = thread[u].release /\ thread'[u].seen = thread[u].seen
          /\ thread'[u].stale = thread[u].stale
          /\ Target(u) # State => thread'[u].fd = thread[u].fd
    BY <1>0, <2>2 DEF Moved, Thread
  <2>5. \A m \in Releases : files'[m] = files[m]
    BY <1>0, <2>2, StateIsNoRelease DEF Names, State
  <2>6. /\ thread'[t].pc \in {"clear", "idle", "trust"}
        /\ thread'[t].job = "install" =>
             thread[t].job = "install" /\ thread'[t].release = thread[t].release
        /\ thread'[t].pc = "clear" => thread'[t].job = "install"
    <3>1. thread'[t] = AfterWrite(t)
      BY <1>0, <2>2
    <3>2. AtRest.pc = "idle" /\ AtRest.job = "none"
      BY DEF AtRest
    <3>3. ASSUME NEW pc \in {"clear", "trust"}
          PROVE  thread'[t] = [thread[t] EXCEPT !.pc = pc, !.fd = "none"]
                 => /\ thread'[t].pc = pc /\ thread'[t].job = thread[t].job
                    /\ thread'[t].release = thread[t].release
      BY <1>0 DEF Thread
    <3>4. CASE thread[t].job = "install"
      <4>1. AfterWrite(t) = [thread[t] EXCEPT !.pc = "clear", !.fd = "none"]
        BY <3>4 DEF AfterWrite
      <4> QED
        BY <3>1, <3>3, <3>4, <4>1
    <3>5. CASE thread[t].job # "install"
      <4>1. \/ thread'[t] = AtRest
            \/ thread'[t] = [thread[t] EXCEPT !.pc = "trust", !.fd = "none"]
        BY <3>1, <3>5, Zenon DEF AfterWrite
      <4>2. CASE thread'[t] = AtRest
        BY <3>2, <4>2
      <4>3. CASE thread'[t] = [thread[t] EXCEPT !.pc = "trust", !.fd = "none"]
        <5>1. thread'[t].pc = "trust" /\ thread'[t].job = thread[t].job
          BY <3>3, <4>3
        <5> QED
          BY <3>5, <5>1
      <4> QED
        BY <4>1, <4>2, <4>3
    <3> QED
      BY <3>4, <3>5
  <2>7. Sound(t)'
    BY <1>0, <2>6 DEF Sound, BundleSteps, StateSteps
  <2>8. \A u \in Threads \ {t} : thread[u].pc # "rename"
    BY <2>1 DEF WritesAlone, Writing
  <2>9. Retained'
    <3>1. /\ {Value(t).current, Value(t).previous} \subseteq
               {state.current, state.previous, None, thread[t].release}
          /\ thread[t].job # "install" =>
               {Value(t).current, Value(t).previous} \subseteq
                 {state.current, state.previous, None}
      <4>1. CASE thread[t].job = "install"
        <5>1. Value(t) = Promoted(thread[t].seen, thread[t].release)
          BY <1>0, <4>1 DEF Value
        <5> QED
          BY <2>1, <4>1, <5>1 DEF Promoted
      <4>2. CASE thread[t].job # "install"
        <5>1. Value(t) = Confirmed(thread[t].seen) \/ Value(t) = RolledBack(thread[t].seen)
          BY <1>0, <4>2, Zenon DEF Value
        <5> QED
          BY <2>1, <4>2, <5>1, StateIsPointer DEF Confirmed, RolledBack, Pointer
      <4> QED
        BY <4>1, <4>2
    <3>2. thread[t].job = "install" =>
            thread[t].release \in Releases /\ files[thread[t].release].live = Whole
      BY <1>0, <2>1 DEF Sound, StateSteps
    <3>3. \A u \in Pool : thread[u].pc = "move" =>
            thread'[u].pc = "move" /\ thread'[u].release = thread[u].release
      BY <1>0, <2>1, <2>4
    <3>4. ASSUME NEW r \in {Value(t).current, Value(t).previous} \ {None}
          PROVE  \/ files'[r].live = Whole
                 \/ \E u \in Pool : thread'[u].pc = "move" /\ thread'[u].release = r
      <4>1. CASE r \in {state.current, state.previous} \ {None}
        <5>1. r \in Releases
          BY <4>1, StateIsPointer DEF Pointer, Ids
        <5> QED
          BY <2>5, <3>3, <4>1, <5>1 DEF InstallInv, Retained
      <4>2. CASE thread[t].job = "install" /\ r = thread[t].release
        BY <2>5, <3>2, <4>2
      <4> QED
        BY <3>1, <3>4, <4>1, <4>2
    <3> QED
      BY <2>3, <3>4 DEF Retained
  <2> QED
    BY <1>1, <2>4, <2>5, <2>6, <2>7, <2>8, <2>9
<1> QED
  BY <1>2, <1>3

(* A process that dies, or decides on a rollback, takes no bundle along.   *)
LEMMA ProcessStep ==
    ASSUME TypeInv, InstallInv, "gap" \notin Accidents,
           \/ Launch \/ Resolve \/ UncaughtException \/ SignalArrives
           \/ (Raise \/ Kill) /\ MayDie
           \/ UNCHANGED vars
    PROVE  InstallInv'
<1>0. AtRest.pc = "idle" /\ AtRest.job = "none"
  BY DEF AtRest
<1>1. ASSUME UNCHANGED <<files, thread>> PROVE InstallInv'
  BY <1>1 DEF InstallInv, Sound, NoTwins, Retained, state, Value, Kept
<1>2. CASE (Raise \/ Kill) /\ MayDie
  <2>1. /\ UNCHANGED files /\ \A t \in Threads : thread'[t] = AtRest
        /\ \A t \in Pool : thread[t].pc = "move"
              => thread[t].release \notin {state.current, state.previous}
    BY <1>2 DEF Raise, Kill, Dies, MayDie
  <2>2. (\A t \in Threads : Sound(t)') /\ NoTwins'
    BY <1>0, <2>1 DEF Sound, NoTwins, BundleSteps, StateSteps
  <2>3. Retained'
    BY <2>1 DEF InstallInv, Retained, state
  <2> QED
    BY <2>2, <2>3 DEF InstallInv
<1>3. CASE Launch \/ UncaughtException
  <2>1. UNCHANGED files
    BY <1>3 DEF Launch, UncaughtException, disk
  <2>2. PICK t \in Rollbacks : UNCHANGED thread \/ RollsBack(t)
    BY <1>3 DEF Launch, UncaughtException, Rollbacks
  <2>3. /\ t \in Threads /\ thread[t] \in Thread /\ thread \in [Threads -> Thread]
        /\ Sound(t) /\ t \notin Pool
    BY PoolIsApart DEF Threads, TypeInv, TypeOK, InstallInv
  <2>4. CASE RollsBack(t)
    <3>1. /\ thread'[t].pc = "read" /\ thread'[t].job = "rollback" /\ thread[t].pc # "move"
          /\ \A u \in Threads \ {t} : thread'[u] = thread[u]
      BY <2>3, <2>4 DEF RollsBack, Thread, Sound, BundleSteps
    <3>2. Sound(t)'
      BY <3>1 DEF Sound, BundleSteps
    <3> QED
      BY <2>1, <2>3, <3>1, <3>2, ThreadMovesSoundly
  <2> QED
    BY <1>1, <2>1, <2>2, <2>4
<1>4. CASE Resolve \/ SignalArrives \/ UNCHANGED vars
  BY <1>1, <1>4 DEF Resolve, SignalArrives, vars, disk
<1> QED
  BY <1>2, <1>3, <1>4

(* The bundles state.json names stay on disk, whole, through failing       *)
(* writes, crashes and rollbacks, unless installations get in each other's *)
(* way, one goes on with a file it could not move, or the process dies     *)
(* between removing a bundle in use and moving the new one in.             *)
THEOREM RetentionHolds ==
    ASSUME "shared" \notin Accidents, "stale" \notin Accidents, "twins" \notin Accidents,
           "pruned" \notin Accidents, "gap" \notin Accidents, "unmoved" \notin Accidents
    PROVE  Spec => []Retained
<1>1. Init => WritesAlone /\ InstallInv
  <2> SUFFICES ASSUME Init PROVE WritesAlone /\ InstallInv
    OBVIOUS
  <2>1. /\ files[State].live = Absent
        /\ \A t \in Threads : thread[t].pc = "idle" /\ thread[t].job = "none"
    BY DEF Init, NoFile, Names, AtRest
  <2>2. state = Empty
    BY <2>1 DEF state, Read
  <2> QED
    BY <2>1, <2>2, Contents DEF WritesAlone, Writing, NeverTorn, InstallInv, Sound, NoTwins,
       Retained, Empty, BundleSteps, StateSteps
<1>2. TypeInv /\ WritesAlone /\ InstallInv /\ [Next]_vars => WritesAlone' /\ InstallInv'
  <2> SUFFICES ASSUME TypeInv, WritesAlone, InstallInv, [Next]_vars
               PROVE  WritesAlone' /\ InstallInv'
    OBVIOUS
  <2>1. WritesAlone'
    BY WritesAloneStep
  <2>2. ASSUME NEW t \in Pool, Task(t) PROVE InstallInv'
    <3>1. t \in Threads
      BY DEF Threads
    <3> QED
      BY <2>2, <3>1, InstallTaskStep, QuietTaskStep, DeleteReleaseStep DEF Task
  <2>3. ASSUME NEW t \in Threads,
               \/ ReadState(t) \/ TrustPrevious(t) \/ Throws(t)
               \/ OpenState(t) \/ WriteState(t) \/ (RenameState(t) /\ MayReplace(t))
               \/ (RenameFails(t) /\ MayFail(t))
        PROVE  InstallInv'
    BY <2>1, <2>3, QuietTaskStep, StateTaskStep, RenameFailsSoundly
  <2>4. ASSUME \/ Launch \/ Resolve \/ UncaughtException \/ SignalArrives
               \/ (Raise \/ Kill) /\ MayDie
               \/ UNCHANGED vars
        PROVE  InstallInv'
    BY <2>4, ProcessStep
  <2>5. CASE \E t \in Pool : Task(t)
    BY <2>1, <2>2, <2>5
  <2>6. CASE \E t \in Threads :
               \/ ReadState(t)
               \/ OpenState(t) /\ MayOpen(t)
               \/ WriteState(t)
               \/ RenameState(t) /\ MayReplace(t)
               \/ RenameFails(t) /\ MayFail(t)
               \/ TrustPrevious(t) /\ MayTrust(t)
               \/ Throws(t)
    BY <2>1, <2>3, <2>6
  <2>7. CASE Launch \/ Resolve \/ UncaughtException \/ SignalArrives
               \/ (Raise /\ MayDie) \/ (Kill /\ MayDie) \/ UNCHANGED vars
    BY <2>1, <2>4, <2>7
  <2> QED
    BY <2>5, <2>6, <2>7 DEF Next, Step
<1>3. InstallInv => Retained
  BY DEF InstallInv
<1> QED
  BY <1>1, <1>2, <1>3, TypeHolds, PTL DEF Spec

-----------------------------------------------------------------------------
(***************************************************************************)
(* What a thread is doing, and when: installations and confirmations run   *)
(* on the pool, while the app is up; the bootstrap rolls back before that; *)
(* and who is about to replace state.json has put there what it means to.  *)
(***************************************************************************)
Role(t) ==
    /\ thread[t].pc \in BundleSteps \cup {"clear"} => thread[t].job = "install"
    /\ thread[t].pc = "mark" => thread[t].job = "confirm"
    /\ thread[t].pc = "trust" => thread[t].job = "rollback"
    /\ thread[t].pc \in {"read"} \cup StateSteps => thread[t].job # "none"
    /\ thread[t].job = "install" => thread[t].release \in Releases
    /\ thread[t].job \in {"install", "confirm"} => t \in Pool
    /\ thread[t].job = "rollback" => t \in Rollbacks
    /\ thread[t].job = "rollback" /\ thread[t].pc \in StateSteps
         => thread[t].seen.previous # None
    /\ thread[t].pc = "rename" => files[State].tmp = Value(t)

Roles == \A t \in Threads : Role(t)

Lifecycle ==
    /\ crashMarker = "auto" => main = "down"
    /\ thread["boot"].job # "none" => main = "boot"
    /\ \A t \in Pool : thread[t].job # "none" => main = "up"

(***************************************************************************)
(* A rollback is decided only for a release on trial, and while it is not  *)
(* carried out the release remains on trial, because no confirmation marks *)
(* the boot, and an installation about to clear the marker starts another. *)
(***************************************************************************)
OnTrial == state.status = "pending" \/ state.previous = None
Clearing == \E t \in Pool : thread[t].pc = "clear"

\* Decided in a process that is running.
Hooked ==
    \/ thread["handler"].job = "rollback" /\ thread["handler"].pc # "trust"
    \/ signal = "auto"

TrialInv ==
    /\ ~mountMarker => OnTrial
    /\ Clearing => OnTrial
    /\ RollbackDecided => OnTrial
    /\ Hooked /\ mountMarker => state.previous = None \/ Clearing

PointerInv == Roles /\ Lifecycle /\ TrialInv

(* How a step of a thread changes what that thread, and another, is doing. *)
Stays(u) ==
    /\ thread'[u].pc = thread[u].pc /\ thread'[u].job = thread[u].job
    /\ thread'[u].release = thread[u].release /\ thread'[u].seen = thread[u].seen

OthersStay(t) == \A u \in Threads \ {t} : Stays(u)

Moves(t, pc) ==
    /\ thread'[t].pc = pc /\ thread'[t].job = thread[t].job
    /\ thread'[t].release = thread[t].release /\ thread'[t].seen = thread[t].seen
    /\ OthersStay(t)

Rests(t) == thread'[t].pc = "idle" /\ thread'[t].job = "none" /\ OthersStay(t)

LEMMA BundleMoves ==
    ASSUME TypeInv, NEW t \in Threads
    PROVE  /\ StageBundle(t) => Moves(t, "fill")
           /\ FillBundle(t) => Moves(t, "remove")
           /\ RemoveOld(t) => Moves(t, "move")
           /\ MoveIn(t) => Moves(t, "read")
           /\ \A r \in Releases : DeleteRelease(t, r) => Moves(t, "prune")
<1>0. thread \in [Threads -> Thread]
  BY DEF TypeInv, TypeOK
<1>1. StageBundle(t) => Moves(t, "fill")
  BY <1>0 DEF StageBundle, Opens, Moves, OthersStay, Stays, Thread
<1>2. ASSUME FillBundle(t) PROVE Moves(t, "remove")
  <2>1. thread' = [thread EXCEPT ![t].pc = "remove"]
    BY <1>2 DEF FillBundle, Writes, Goes
  <2> QED
    BY <1>0, <2>1 DEF Moves, OthersStay, Stays, Thread
<1>3. ASSUME RemoveOld(t) PROVE Moves(t, "move")
  <2>1. thread' = [Orphaned(thread[t].release, {"live"}) EXCEPT ![t].pc = "move"]
    BY <1>3 DEF RemoveOld
  <2> QED
    BY <1>0, <2>1 DEF Orphaned, Moves, OthersStay, Stays, Thread
<1>4. ASSUME MoveIn(t) PROVE Moves(t, "read")
  <2> DEFINE next == [thread[t] EXCEPT !.pc = "read", !.fd = "none"]
             n == Target(t)
             others == [u \in Threads |->
                          IF files[n].tmp = Absent THEN thread[u] ELSE Moved(n, u)]
  <2>1. thread' = [others EXCEPT ![t] = next]
    BY <1>4 DEF MoveIn, Renames
  <2>2. ASSUME NEW u \in Threads
        PROVE  /\ others[u].pc = thread[u].pc /\ others[u].job = thread[u].job
               /\ others[u].release = thread[u].release /\ others[u].seen = thread[u].seen
    BY <1>0 DEF Moved, Thread
  <2> HIDE DEF others
  <2>3. OthersStay(t)
    BY <2>1, <2>2 DEF OthersStay, Stays, others
  <2> QED
    BY <1>0, <2>1, <2>3 DEF Moves, Thread, others
<1>5. ASSUME NEW r \in Releases, DeleteRelease(t, r) PROVE Moves(t, "prune")
  <2>1. /\ thread[t].pc = "prune"
        /\ thread' = [Orphaned(r, {"tmp", "live"}) EXCEPT ![t].stale = @ \ {r}]
    BY <1>5 DEF DeleteRelease, At
  <2> DEFINE orphaned == Orphaned(r, {"tmp", "live"})
  <2>2. ASSUME NEW u \in Threads
        PROVE  /\ orphaned[u] \in Thread
               /\ orphaned[u].pc = thread[u].pc /\ orphaned[u].job = thread[u].job
               /\ orphaned[u].release = thread[u].release
               /\ orphaned[u].seen = thread[u].seen
    BY <1>0 DEF Orphaned, Thread
  <2>3. orphaned = [u \in Threads |-> orphaned[u]]
    BY DEF Orphaned
  <2>4. thread' = [orphaned EXCEPT ![t].stale = @ \ {r}]
    BY <2>1
  <2> HIDE DEF orphaned
  <2>5. OthersStay(t)
    BY <2>2, <2>3, <2>4 DEF OthersStay, Stays
  <2>6. thread'[t] = [orphaned[t] EXCEPT !.stale = @ \ {r}]
    BY <2>3, <2>4
  <2> QED
    BY <2>1, <2>2, <2>5, <2>6 DEF Moves, Thread
<1> QED
  BY <1>1, <1>2, <1>3, <1>4, <1>5

LEMMA StateMoves ==
    ASSUME TypeInv, NEW t \in Threads
    PROVE  /\ MarkMounted(t) => Moves(t, "read")
           /\ ClearMarker(t) => Moves(t, "list")
           /\ ListReleases(t) => Moves(t, "prune")
           /\ OpenState(t) => Moves(t, "write")
           /\ WriteState(t) => Moves(t, "rename")
           /\ FinishInstall(t) \/ TrustPrevious(t) \/ Throws(t) => Rests(t)
           /\ ReadState(t) => \/ Rests(t)
                              \/ /\ thread'[t].pc = "open" /\ thread'[t].seen = state
                                 /\ thread'[t].job = thread[t].job
                                 /\ thread'[t].release = thread[t].release
                                 /\ thread[t].job = "rollback" => state.previous # None
                                 /\ OthersStay(t)
<1>0. thread \in [Threads -> Thread] /\ AtRest.pc = "idle" /\ AtRest.job = "none"
  BY DEF TypeInv, TypeOK, AtRest
<1>1. MarkMounted(t) \/ ClearMarker(t) \/ WriteState(t) =>
        \A u \in Threads \ {t} : thread'[u] = thread[u]
  BY <1>0 DEF MarkMounted, ClearMarker, WriteState, Writes, Goes
<1>2. MarkMounted(t) => Moves(t, "read")
  BY <1>0, <1>1 DEF MarkMounted, Goes, Moves, OthersStay, Stays, Thread
<1>3. ClearMarker(t) => Moves(t, "list")
  BY <1>0, <1>1 DEF ClearMarker, Goes, Moves, OthersStay, Stays, Thread
<1>4. ListReleases(t) => Moves(t, "prune")
  BY <1>0 DEF ListReleases, Moves, OthersStay, Stays, Thread
<1>5. OpenState(t) => Moves(t, "write")
  BY <1>0 DEF OpenState, Opens, Moves, OthersStay, Stays, Thread
<1>6. WriteState(t) => Moves(t, "rename")
  BY <1>0, <1>1 DEF WriteState, Writes, Goes, Moves, OthersStay, Stays, Thread
<1>7. ASSUME thread' = [thread EXCEPT ![t] = AtRest] PROVE Rests(t)
  BY <1>0, <1>7 DEF Rests, OthersStay, Stays
<1>8. FinishInstall(t) \/ TrustPrevious(t) \/ Throws(t) => Rests(t)
  BY <1>7 DEF FinishInstall, TrustPrevious, Throws
<1>9. ASSUME ReadState(t), ~(thread[t].job = "rollback" /\ state.previous = None)
      PROVE  /\ thread'[t].pc = "open" /\ thread'[t].seen = state
             /\ thread'[t].job = thread[t].job
             /\ thread'[t].release = thread[t].release
             /\ OthersStay(t)
  BY <1>0, <1>9 DEF ReadState, OthersStay, Stays, Thread
<1>10. ASSUME ReadState(t), thread[t].job = "rollback" /\ state.previous = None
       PROVE  Rests(t)
  BY <1>7, <1>10 DEF ReadState
<1> QED
  BY <1>2, <1>3, <1>4, <1>5, <1>6, <1>8, <1>9, <1>10

LEMMA RenameFailsMoves ==
    ASSUME TypeInv, NEW t \in Threads, RenameFails(t)
    PROVE  /\ UNCHANGED <<files, state, mountMarker, crashMarker, main, signal>>
           /\ \/ thread[t].pc = "move" /\ Moves(t, "read")
              \/ thread[t].pc = "rename" /\ thread[t].job = "install" /\ Moves(t, "clear")
              \/ thread[t].pc = "rename" /\ thread[t].job = "confirm" /\ Rests(t)
              \/ /\ thread[t].pc = "rename" /\ thread[t].job \notin {"install", "confirm"}
                 /\ Moves(t, "trust")
<1>0. thread \in [Threads -> Thread] /\ AtRest.pc = "idle" /\ AtRest.job = "none"
  BY DEF TypeInv, TypeOK, AtRest
<1>1. UNCHANGED <<files, state, mountMarker, crashMarker, main, signal>>
  BY RenameFailsAlone DEF disk, state
<1>2. ASSUME NEW pc \in {"read", "clear", "trust"},
             thread' = [thread EXCEPT ![t] = [thread[t] EXCEPT !.pc = pc, !.fd = "none"]]
      PROVE  Moves(t, pc)
  BY <1>0, <1>2 DEF Moves, OthersStay, Stays, Thread
<1>3. ASSUME thread' = [thread EXCEPT ![t] = AtRest] PROVE Rests(t)
  BY <1>0, <1>3 DEF Rests, OthersStay, Stays
<1>4. PICK r \in Thread :
        /\ thread' = [thread EXCEPT ![t] = r] /\ thread[t].pc \in {"move", "rename"}
        /\ thread[t].pc = "move" => r = [thread[t] EXCEPT !.pc = "read", !.fd = "none"]
        /\ thread[t].pc = "rename" => r = AfterWrite(t)
  BY RenameFailsAlone
<1>5. CASE thread[t].pc = "move"
  BY <1>1, <1>2, <1>4, <1>5
<1>6. CASE thread[t].pc = "rename"
  BY <1>1, <1>2, <1>3, <1>4, <1>6, AfterWriteLeaves
<1> QED
  BY <1>4, <1>5, <1>6

(* A step that is no replacement of state.json leaves what can be read     *)
(* from it, and, unless it writes its temporary file, that too.            *)
LEMMA StateFileStays ==
    ASSUME TypeInv, WritesAlone, NEW t \in Threads,
           \/ \E release \in Releases : StartInstall(t, release)
           \/ StartConfirm(t) \/ StageBundle(t) \/ FillBundle(t) \/ RemoveOld(t)
           \/ MoveIn(t) \/ MarkMounted(t) \/ ClearMarker(t) \/ ListReleases(t)
           \/ \E r \in Releases : DeleteRelease(t, r)
           \/ FinishInstall(t) \/ ReadState(t) \/ OpenState(t) \/ WriteState(t)
           \/ TrustPrevious(t) \/ Throws(t)
    PROVE  /\ UNCHANGED state
           /\ ~(OpenState(t) \/ WriteState(t)) => files'[State] = files[State]
<1>0. files \in [Names -> File] /\ State \in Names
  BY DEF TypeInv, TypeOK, Names
<1>1. ASSUME files'[State].live = files[State].live PROVE UNCHANGED state
  BY <1>1 DEF state
<1>2. ASSUME NEW n \in Releases, NEW f, files' = [files EXCEPT ![n] = f]
      PROVE  files'[State] = files[State]
  BY <1>0, <1>2, StateIsNoRelease DEF State
<1>3. CASE StageBundle(t) \/ FillBundle(t) \/ RemoveOld(t) \/ MoveIn(t)
  <2> DEFINE n == thread[t].release
  <2>1. n \in Releases /\ Target(t) = n /\ n # State
    BY <1>3, StateIsNoRelease DEF TypeInv, Kinds, StageBundle, FillBundle, RemoveOld, MoveIn,
       At, BundleSteps, Target, State
  <2>2. files'[State] = files[State]
    BY <1>0, <1>3, <2>1 DEF StageBundle, FillBundle, RemoveOld, MoveIn, Opens, Writes, Renames
  <2> QED
    BY <1>1, <1>3, <2>2 DEF StageBundle, FillBundle, RemoveOld, MoveIn, OpenState, WriteState, At
<1>4. ASSUME NEW r \in Releases, DeleteRelease(t, r)
      PROVE  UNCHANGED state /\ files'[State] = files[State]
  BY <1>1, <1>2, <1>4 DEF DeleteRelease
<1>5. CASE OpenState(t) \/ WriteState(t)
  <2>1. Target(t) = State /\ (thread[t].pc = "write" => thread[t].fd = "tmp")
    BY <1>5 DEF OpenState, WriteState, At, Target, BundleSteps, WritesAlone, Writing
  <2>2. files'[State].live = files[State].live
    BY <1>0, <1>5, <2>1 DEF OpenState, WriteState, Opens, Writes, At, File
  <2> QED
    BY <1>1, <1>5, <2>2
<1>6. ASSUME \/ \E release \in Releases : StartInstall(t, release)
             \/ StartConfirm(t) \/ MarkMounted(t) \/ ClearMarker(t) \/ ListReleases(t)
             \/ FinishInstall(t) \/ ReadState(t) \/ TrustPrevious(t) \/ Throws(t)
      PROVE  UNCHANGED state /\ files'[State] = files[State]
  <2>1. UNCHANGED files
    BY <1>6 DEF StartInstall, StartConfirm, Starts, MarkMounted, ClearMarker,
       ListReleases, FinishInstall, ReadState, TrustPrevious, Throws, At, disk
  <2> QED
    BY <1>1, <2>1
<1> QED
  BY <1>3, <1>4, <1>5, <1>6

(* Who replaces state.json puts there what it made of what it had read.    *)
LEMMA StateReplaced ==
    ASSUME TypeInv, Roles, NEW t \in Threads, RenameState(t)
    PROVE  /\ OthersStay(t) /\ state' = Value(t)
           /\ files'[State] = [tmp |-> Absent, live |-> Value(t)]
           /\ thread[t].job = "install" =>
                Moves(t, "clear") /\ Value(t) = Promoted(thread[t].seen, thread[t].release)
           /\ thread[t].job = "confirm" =>
                Rests(t) /\ Value(t) = Confirmed(thread[t].seen)
           /\ thread[t].job = "rollback" =>
                Moves(t, "trust") /\ Value(t) = RolledBack(thread[t].seen)
           /\ thread[t].job \in {"install", "confirm", "rollback"}
<1>0. /\ thread \in [Threads -> Thread] /\ files \in [Names -> File] /\ State \in Names
      /\ thread[t].pc = "rename" /\ thread[t] \in Thread
      /\ AtRest.pc = "idle" /\ AtRest.job = "none"
  BY DEF TypeInv, TypeOK, Names, RenameState, At, AtRest
<1>1. /\ files[State].tmp = Value(t) /\ Value(t) \in Pointer /\ Value(t) # Absent
      /\ Value(t) # Torn /\ Target(t) = State
  BY <1>0, ValueOfKind, Contents DEF Roles, Role, BundleSteps
<1>2. /\ files' = [files EXCEPT ![State] = [tmp |-> Absent, live |-> Value(t)]]
      /\ thread' = [[u \in Threads |-> Moved(State, u)] EXCEPT ![t] = AfterWrite(t)]
  BY <1>0, <1>1 DEF RenameState, Renames
<1>3. files'[State] = [tmp |-> Absent, live |-> Value(t)] /\ state' = Value(t)
  BY <1>0, <1>1, <1>2 DEF state, Read
<1>4. OthersStay(t) /\ thread'[t] = AfterWrite(t)
  BY <1>0, <1>2 DEF Moved, OthersStay, Stays, Thread
<1>5. ASSUME NEW pc \in {"clear", "trust"},
             AfterWrite(t) = [thread[t] EXCEPT !.pc = pc, !.fd = "none"]
      PROVE  Moves(t, pc)
  BY <1>0, <1>4, <1>5 DEF Moves, Thread
<1>6. ASSUME thread[t].job = "install"
      PROVE  Moves(t, "clear") /\ Value(t) = Promoted(thread[t].seen, thread[t].release)
  <2>1. AfterWrite(t) = [thread[t] EXCEPT !.pc = "clear", !.fd = "none"]
    BY <1>6 DEF AfterWrite
  <2> QED
    BY <1>0, <1>5, <1>6, <2>1 DEF Value, BundleSteps
<1>7. ASSUME thread[t].job = "confirm"
      PROVE  Rests(t) /\ Value(t) = Confirmed(thread[t].seen)
  <2>1. AfterWrite(t) = AtRest
    BY <1>7 DEF AfterWrite
  <2>2. Value(t) = Confirmed(thread[t].seen)
    BY <1>0, <1>7 DEF Value, BundleSteps
  <2> QED
    BY <1>0, <1>4, <2>1, <2>2 DEF Rests
<1>8. ASSUME thread[t].job = "rollback"
      PROVE  Moves(t, "trust") /\ Value(t) = RolledBack(thread[t].seen)
  <2>1. thread[t].job # "install" /\ thread[t].job # "confirm"
    BY <1>8
  <2>2. AfterWrite(t) = [thread[t] EXCEPT !.pc = "trust", !.fd = "none"]
    BY <2>1, Zenon DEF AfterWrite
  <2>3. thread[t].pc \notin BundleSteps
    BY <1>0 DEF BundleSteps
  <2>4. Value(t) = RolledBack(thread[t].seen)
    BY <2>1, <2>3, Zenon DEF Value
  <2> QED
    BY <1>5, <2>2, <2>4
<1>9. thread[t].job \in {"install", "confirm", "rollback"}
  BY <1>0 DEF Roles, Role, StateSteps, Thread
<1> QED
  BY <1>3, <1>4, <1>6, <1>7, <1>8, <1>9

(* Another thread's role is not touched by a step that leaves state.json's *)
(* temporary file, or writes it alone.                                     *)
LEMMA RolesKept ==
    ASSUME TypeInv, Roles, NEW t \in Threads, OthersStay(t), Role(t)',
           \/ files'[State] = files[State]
           \/ \A u \in Threads \ {t} : thread[u].pc # "rename"
    PROVE  Roles'
<1>1. ASSUME NEW u \in Threads \ {t} PROVE Role(u)'
  <2>1. Stays(u) /\ Role(u)
    BY DEF OthersStay, Roles
  <2>2. Value(u)' = Value(u)
    BY <2>1 DEF Stays, Value
  <2> QED
    BY <2>1, <2>2 DEF Stays, Role
<1> QED
  BY <1>1 DEF Roles

LEMMA RolesStep ==
    ASSUME TypeInv, WritesAlone, WritesAlone', Roles, [Next]_vars
    PROVE  Roles'
<1> USE DEF BundleSteps, StateSteps
<1>0. /\ thread \in [Threads -> Thread] /\ AtRest.pc = "idle" /\ AtRest.job = "none"
      /\ Pool \subseteq Threads /\ \A t \in Threads : Role(t)
  BY DEF TypeInv, TypeOK, AtRest, Threads, Roles
<1>1. ASSUME NEW t \in Threads, Rests(t), files'[State] = files[State] PROVE Roles'
  <2>1. Role(t)'
    BY <1>1 DEF Rests, Role
  <2> QED
    BY <1>1, <2>1, RolesKept DEF Rests
<1>2. ASSUME NEW t \in Threads, NEW pc \in {"fill", "remove", "move", "read", "list", "prune"},
             Moves(t, pc), files'[State] = files[State],
             pc \in BundleSteps => thread[t].pc \in BundleSteps,
             pc = "read" => thread[t].pc \in {"move", "mark"}
      PROVE  Roles'
  <2>1. Role(t)'
    BY <1>0, <1>2 DEF Moves, Role
  <2> QED
    BY <1>2, <2>1, RolesKept DEF Moves
<1>3. ASSUME NEW t \in Pool, NEW release \in Releases, StartInstall(t, release) PROVE Roles'
  <2>1. /\ thread'[t].pc = "stage" /\ thread'[t].job = "install"
        /\ thread'[t].release = release /\ OthersStay(t)
    BY <1>0, <1>3 DEF StartInstall, Starts, Thread, OthersStay, Stays
  <2>2. Role(t)'
    BY <2>1 DEF Role
  <2> QED
    BY <1>0, <1>3, <2>1, <2>2, RolesKept DEF StartInstall, Starts, disk
<1>4. ASSUME NEW t \in Pool, StartConfirm(t) PROVE Roles'
  <2>1. thread'[t].pc = "mark" /\ thread'[t].job = "confirm" /\ OthersStay(t)
    BY <1>0, <1>4 DEF StartConfirm, Starts, Thread, OthersStay, Stays
  <2>2. Role(t)'
    BY <2>1 DEF Role
  <2> QED
    BY <1>0, <1>4, <2>1, <2>2, RolesKept DEF StartConfirm, Starts, disk
<1>5. ASSUME NEW t \in Threads, StageBundle(t) \/ FillBundle(t) \/ RemoveOld(t) \/ MoveIn(t)
      PROVE  Roles'
  <2>1. thread[t].pc \in BundleSteps
    BY <1>5 DEF StageBundle, FillBundle, RemoveOld, MoveIn, At
  <2>2. ~OpenState(t) /\ ~WriteState(t)
    BY <2>1 DEF OpenState, WriteState, At
  <2>3. files'[State] = files[State]
    BY <1>5, <2>2, StateFileStays
  <2>4. StageBundle(t) => Roles'
    BY <1>2, <2>1, <2>3, BundleMoves
  <2>5. FillBundle(t) => Roles'
    BY <1>2, <2>1, <2>3, BundleMoves
  <2>6. RemoveOld(t) => Roles'
    BY <1>2, <2>1, <2>3, BundleMoves
  <2>7. MoveIn(t) => thread[t].pc = "move"
    BY DEF MoveIn, At
  <2>8. MoveIn(t) => Roles'
    BY <1>2, <2>3, <2>7, BundleMoves
  <2> QED
    BY <1>5, <2>4, <2>5, <2>6, <2>8
<1>6. ASSUME NEW t \in Threads,
             \/ MarkMounted(t) \/ ClearMarker(t) \/ ListReleases(t)
             \/ \E r \in Releases : DeleteRelease(t, r)
      PROVE  Roles'
  <2>1. files'[State] = files[State]
    BY <1>6, StateFileStays DEF MarkMounted, ClearMarker, ListReleases, DeleteRelease,
       OpenState, WriteState, At
  <2>2. PICK pc \in {"read", "list", "prune"} :
          /\ Moves(t, pc)
          /\ pc = "read" => thread[t].pc = "mark"
    BY <1>6, BundleMoves, StateMoves DEF MarkMounted, At
  <2> QED
    BY <1>2, <2>1, <2>2
<1>7. ASSUME NEW t \in Threads, FinishInstall(t) \/ TrustPrevious(t) \/ Throws(t) PROVE Roles'
  <2>1. files'[State] = files[State]
    BY <1>7 DEF FinishInstall, TrustPrevious, Throws, disk
  <2> QED
    BY <1>1, <1>7, <2>1, StateMoves
<1>8. ASSUME NEW t \in Threads, ReadState(t) PROVE Roles'
  <2>1. files'[State] = files[State] /\ thread[t].pc = "read"
    BY <1>8 DEF ReadState, At
  <2>2. ASSUME thread'[t].pc = "open", thread'[t].seen = state, thread'[t].job = thread[t].job,
               thread'[t].release = thread[t].release,
               thread[t].job = "rollback" => state.previous # None, OthersStay(t)
        PROVE  Roles'
    <3>1. Role(t)'
      BY <1>0, <2>1, <2>2 DEF Role
    <3> QED
      BY <2>1, <2>2, <3>1, RolesKept
  <2> QED
    BY <1>1, <1>8, <2>1, <2>2, StateMoves
<1>9. ASSUME NEW t \in Threads, OpenState(t) \/ WriteState(t) PROVE Roles'
  <2>1. PICK pc \in {"write", "rename"} :
          Moves(t, pc) /\ (pc = "rename" <=> WriteState(t)) /\ thread[t].pc \in {"open", "write"}
    BY <1>9, StateMoves DEF OpenState, WriteState, At
  <2>2. pc = "rename" => files'[State].tmp = Value(t)
    <3>1. WriteState(t) => thread[t].fd = "tmp" /\ Target(t) = State
      BY DEF WriteState, At, WritesAlone, Writing, Target
    <3>2. files \in [Names -> File] /\ State \in Names
      BY DEF TypeInv, TypeOK, Names
    <3> QED
      BY <2>1, <3>1, <3>2 DEF WriteState, Writes, File
  <2>3. Value(t)' = Value(t)
    BY <2>1 DEF Moves, Value
  <2>4. Role(t)'
    BY <1>0, <2>1, <2>2, <2>3 DEF Moves, Role
  <2>5. \A u \in Threads \ {t} : thread[u].pc # "rename"
    BY <2>1 DEF WritesAlone, Writing, Moves, OthersStay, Stays
  <2> QED
    BY <2>1, <2>4, <2>5, RolesKept DEF Moves
<1>10. ASSUME NEW t \in Threads, RenameState(t) PROVE Roles'
  <2>1. /\ OthersStay(t)
        /\ \/ Rests(t)
           \/ Moves(t, "clear") /\ thread[t].job = "install"
           \/ Moves(t, "trust") /\ thread[t].job = "rollback"
    <3>1. CASE thread[t].job = "install"
      BY <1>10, <3>1, StateReplaced
    <3>2. CASE thread[t].job = "confirm"
      BY <1>10, <3>2, StateReplaced
    <3>3. CASE thread[t].job = "rollback"
      BY <1>10, <3>3, StateReplaced
    <3> QED
      BY <1>10, <3>1, <3>2, <3>3, StateReplaced
  <2>2. Role(t)'
    BY <1>0, <2>1 DEF Rests, Moves, Role
  <2>3. \A u \in Threads \ {t} : thread[u].pc # "rename"
    BY <1>10 DEF RenameState, At, WritesAlone, Writing
  <2> QED
    BY <2>1, <2>2, <2>3, RolesKept
<1>11. CASE Launch \/ UncaughtException
  <2>1. UNCHANGED files
    BY <1>11 DEF Launch, UncaughtException, disk
  <2>2. PICK t \in Rollbacks : UNCHANGED thread \/ RollsBack(t)
    BY <1>11 DEF Launch, UncaughtException, Rollbacks
  <2>3. CASE UNCHANGED thread
    BY <2>1, <2>3 DEF Roles, Role, Value
  <2>4. CASE RollsBack(t)
    <3>1. t \in Threads /\ thread'[t].pc = "read" /\ thread'[t].job = "rollback" /\ OthersStay(t)
      BY <1>0, <2>4 DEF RollsBack, Thread, Threads, OthersStay, Stays
    <3>2. Role(t)'
      BY <3>1 DEF Role
    <3> QED
      BY <2>1, <3>1, <3>2, RolesKept
  <2> QED
    BY <2>2, <2>3, <2>4
<1>12. CASE Raise \/ Kill
  <2>1. \A t \in Threads : thread'[t] = AtRest
    BY <1>12 DEF Raise, Kill, Dies
  <2> QED
    BY <1>0, <2>1 DEF Roles, Role
<1>13. CASE Resolve \/ SignalArrives \/ UNCHANGED vars
  <2>1. UNCHANGED <<files, thread>>
    BY <1>13 DEF Resolve, SignalArrives, vars, disk
  <2> QED
    BY <2>1 DEF Roles, Role, Value
<1>14. ASSUME NEW t \in Pool, Task(t) PROVE Roles'
  BY <1>0, <1>14, <1>3, <1>4, <1>5, <1>6, <1>7 DEF Task
<1>13a. ASSUME NEW t \in Threads, RenameFails(t) PROVE Roles'
  <2>1. files'[State] = files[State] /\ OthersStay(t)
    BY <1>13a, RenameFailsMoves DEF Moves, Rests
  <2>2. thread[t].pc = "rename" => thread[t].job \in {"install", "confirm", "rollback"}
    BY <1>0 DEF Role, Thread
  <2>3. Role(t)'
    BY <1>0, <1>13a, <2>2, RenameFailsMoves DEF Rests, Moves, Role
  <2> QED
    BY <2>1, <2>3, RolesKept
<1>15. ASSUME NEW t \in Threads,
              \/ ReadState(t) \/ OpenState(t) \/ WriteState(t) \/ RenameState(t)
              \/ RenameFails(t) \/ TrustPrevious(t) \/ Throws(t)
       PROVE  Roles'
  BY <1>15, <1>7, <1>8, <1>9, <1>10, <1>13a
<1> QED
  BY <1>11, <1>12, <1>13, <1>14, <1>15 DEF Next, Step

LEMMA LifecycleStep ==
    ASSUME TypeInv, Roles, Lifecycle, [Next]_vars
    PROVE  Lifecycle'
<1>0. /\ thread \in [Threads -> Thread] /\ AtRest.job = "none" /\ Pool \subseteq Threads
      /\ \A t \in Threads : Role(t)
      /\ "boot" \in Threads /\ "boot" \notin Pool /\ "handler" \notin Pool /\ "handler" # "boot"
  BY PoolIsApart DEF TypeInv, TypeOK, AtRest, Threads, Rollbacks, Roles
<1>1. ASSUME NEW t \in Threads, OthersStay(t), UNCHANGED <<main, crashMarker>>,
             thread'[t].job \in {thread[t].job, "none"}
      PROVE  Lifecycle'
  BY <1>0, <1>1 DEF Lifecycle, OthersStay, Stays
<1>2. ASSUME NEW t \in Pool,
             StartConfirm(t) \/ \E release \in Releases : StartInstall(t, release)
      PROVE  Lifecycle'
  <2>1. /\ main = "up" /\ UNCHANGED <<main, crashMarker>>
        /\ \A u \in Threads \ {t} : thread'[u] = thread[u]
    BY <1>0, <1>2 DEF StartConfirm, StartInstall, Starts, disk
  <2> QED
    BY <1>0, <2>1 DEF Lifecycle
<1>3. ASSUME NEW t \in Threads,
             \/ StageBundle(t) \/ FillBundle(t) \/ RemoveOld(t) \/ MoveIn(t)
             \/ MarkMounted(t) \/ ClearMarker(t) \/ ListReleases(t)
             \/ \E r \in Releases : DeleteRelease(t, r)
             \/ FinishInstall(t) \/ ReadState(t) \/ OpenState(t) \/ WriteState(t)
             \/ RenameState(t) \/ TrustPrevious(t)
      PROVE  Lifecycle'
  <2>1. UNCHANGED <<main, crashMarker>>
    BY <1>3 DEF StageBundle, FillBundle, RemoveOld, MoveIn, MarkMounted, ClearMarker,
       ListReleases, DeleteRelease, FinishInstall, ReadState, OpenState, WriteState,
       RenameState, TrustPrevious, At
  <2>2. CASE RenameState(t)
    BY <1>1, <2>1, <2>2, StateReplaced DEF Moves, Rests
  <2>3. CASE ~RenameState(t)
    <3>1. OthersStay(t) /\ thread'[t].job \in {thread[t].job, "none"}
      BY <1>3, <2>3, BundleMoves, StateMoves DEF Moves, Rests
    <3> QED
      BY <1>1, <2>1, <3>1
  <2> QED
    BY <2>2, <2>3
<1>4. ASSUME NEW t \in Threads, Throws(t) PROVE Lifecycle'
  <2>1. /\ Rests(t) /\ UNCHANGED crashMarker /\ main' = IF t = "boot" THEN "failed" ELSE main
        /\ thread[t].pc \in {"stage", "fill", "mark", "open", "write", "trust"}
    BY <1>4, StateMoves DEF Throws, disk
  <2>2. thread[t].job # "none"
    BY <1>0, <2>1 DEF Role, BundleSteps, StateSteps
  <2> QED
    BY <1>0, <2>1, <2>2 DEF Lifecycle, Rests, OthersStay, Stays
<1>5. CASE Launch
  <2>1. /\ main = "down" /\ main' = "boot" /\ crashMarker' = "absent"
        /\ \A t \in Pool : thread'[t] = thread[t]
    BY <1>0, <1>5 DEF Launch, RollsBack
  <2> QED
    BY <2>1 DEF Lifecycle
<1>6. CASE UncaughtException
  <2>1. UNCHANGED <<main, crashMarker>> /\ \A t \in Threads \ {"handler"} : thread'[t] = thread[t]
    BY <1>0, <1>6 DEF UncaughtException, RollsBack, disk
  <2> QED
    BY <1>0, <2>1 DEF Lifecycle
<1>7. CASE Resolve
  BY <1>0, <1>7 DEF Resolve, Lifecycle, disk
<1>8. CASE Raise \/ Kill
  <2>1. main' = "down" /\ \A t \in Threads : thread'[t] = AtRest
    BY <1>8 DEF Raise, Kill, Dies
  <2> QED
    BY <1>0, <2>1 DEF Lifecycle
<1>9. CASE SignalArrives \/ UNCHANGED vars
  BY <1>9 DEF SignalArrives, vars, disk, Lifecycle
<1>9a. ASSUME NEW t \in Threads, RenameFails(t) PROVE Lifecycle'
  BY <1>1, <1>9a, RenameFailsMoves DEF Moves, Rests
<1>10. ASSUME NEW t \in Pool, Task(t) PROVE Lifecycle'
  BY <1>0, <1>10, <1>2, <1>3 DEF Task
<1>11. ASSUME NEW t \in Threads,
              \/ ReadState(t) \/ OpenState(t) \/ WriteState(t) \/ RenameState(t)
              \/ RenameFails(t) \/ TrustPrevious(t) \/ Throws(t)
       PROVE  Lifecycle'
  BY <1>11, <1>3, <1>4, <1>9a
<1> QED
  BY <1>5, <1>6, <1>7, <1>8, <1>9, <1>10, <1>11 DEF Next, Step

(* Nothing of a trial changes but that a rollback is no longer decided.    *)
LEMMA TrialKept ==
    ASSUME TrialInv, UNCHANGED <<state, mountMarker>>, Clearing' <=> Clearing,
           RollbackDecided' => RollbackDecided, Hooked' => Hooked
    PROVE  TrialInv'
  BY DEF TrialInv, OnTrial

(* A step of a thread decides on no rollback.                              *)
LEMMA NothingDecided ==
    ASSUME NEW t \in Threads, OthersStay(t), UNCHANGED <<crashMarker, signal>>,
           thread'[t].job = "rollback" /\ thread'[t].pc # "trust"
             => thread[t].job = "rollback" /\ thread[t].pc # "trust"
    PROVE  (RollbackDecided' => RollbackDecided) /\ (Hooked' => Hooked)
<1>1. ASSUME NEW u \in Rollbacks, thread'[u].job = "rollback", thread'[u].pc # "trust"
      PROVE  thread[u].job = "rollback" /\ thread[u].pc # "trust"
  BY <1>1 DEF OthersStay, Stays, Threads
<1>2. "handler" \in Rollbacks
  BY DEF Rollbacks
<1> QED
  BY <1>1, <1>2 DEF RollbackDecided, Hooked

LEMMA ClearingKept ==
    ASSUME NEW t \in Threads, OthersStay(t), thread'[t].pc = "clear" <=> thread[t].pc = "clear"
    PROVE  Clearing' <=> Clearing
  BY DEF OthersStay, Stays, Clearing, Threads

(* A step that neither decides on a rollback nor is about to clear the     *)
(* marker, before or after.                                                *)
Quiet(t) ==
    /\ OthersStay(t)
    /\ thread[t].pc # "clear" /\ thread'[t].pc # "clear"
    /\ thread'[t].job = "rollback" /\ thread'[t].pc # "trust"
         => thread[t].job = "rollback" /\ thread[t].pc # "trust"

(* The steps of a thread that concern neither the pointer nor the marker.  *)
LEMMA QuietThreadStep ==
    ASSUME TypeInv, WritesAlone, Roles, NEW t \in Threads,
           \/ \E release \in Releases : StartInstall(t, release)
           \/ StartConfirm(t) \/ StageBundle(t) \/ FillBundle(t) \/ RemoveOld(t)
           \/ MoveIn(t) \/ ListReleases(t)
           \/ \E r \in Releases : DeleteRelease(t, r)
           \/ FinishInstall(t) \/ ReadState(t) \/ OpenState(t) \/ WriteState(t) \/ Throws(t)
    PROVE  Quiet(t) /\ UNCHANGED <<state, mountMarker, crashMarker, signal>>
<1>0. thread \in [Threads -> Thread] /\ Role(t) /\ AtRest.pc = "idle" /\ AtRest.job = "none"
  BY DEF TypeInv, TypeOK, Roles, AtRest
<1>1. UNCHANGED <<state, mountMarker, crashMarker, signal>>
  <2>1. UNCHANGED state
    BY StateFileStays
  <2>2. UNCHANGED <<mountMarker, crashMarker, signal>>
    BY DEF StartInstall, StartConfirm, Starts, StageBundle, FillBundle, RemoveOld, MoveIn,
       ListReleases, DeleteRelease, FinishInstall, ReadState, OpenState, WriteState, Throws,
       At, disk
  <2> QED
    BY <2>1, <2>2
<1> USE DEF Quiet
<1>2. ASSUME NEW pc \in {"fill", "remove", "move", "read", "prune", "write", "rename"},
             Moves(t, pc), thread[t].pc \notin {"clear", "trust"}
      PROVE  Quiet(t)
  BY <1>2 DEF Moves
<1>3. ASSUME Rests(t), thread[t].pc # "clear" PROVE Quiet(t)
  BY <1>3 DEF Rests
<1>4. ASSUME StageBundle(t) \/ FillBundle(t) \/ RemoveOld(t) \/ MoveIn(t)
      PROVE  Quiet(t)
  <2>1. thread[t].pc \notin {"clear", "trust"}
    BY <1>4 DEF StageBundle, FillBundle, RemoveOld, MoveIn, At
  <2> QED
    BY <1>2, <1>4, <2>1, BundleMoves
<1>5. ASSUME ListReleases(t) \/ OpenState(t) \/ WriteState(t)
      PROVE  Quiet(t)
  <2>1. thread[t].pc \notin {"clear", "trust"}
    BY <1>5 DEF ListReleases, OpenState, WriteState, At
  <2> QED
    BY <1>2, <1>5, <2>1, StateMoves
<1>6. ASSUME NEW r \in Releases, DeleteRelease(t, r) PROVE Quiet(t)
  <2>1. thread[t].pc \notin {"clear", "trust"}
    BY <1>6 DEF DeleteRelease, At
  <2> QED
    BY <1>2, <1>6, <2>1, BundleMoves
<1>7. ASSUME FinishInstall(t) \/ Throws(t)
      PROVE  Quiet(t)
  <2>1. thread[t].pc # "clear"
    BY <1>7 DEF FinishInstall, Throws, At
  <2> QED
    BY <1>3, <1>7, <2>1, StateMoves
<1>8. ASSUME ReadState(t)
      PROVE  Quiet(t)
  <2>1. thread[t].pc = "read"
    BY <1>8 DEF ReadState, At
  <2> QED
    BY <1>3, <1>8, <2>1, StateMoves
<1>9. ASSUME StartConfirm(t) \/ \E release \in Releases : StartInstall(t, release)
      PROVE  Quiet(t)
  <2>1. /\ thread'[t].pc \in {"mark", "stage"} /\ thread'[t].job \in {"confirm", "install"}
        /\ OthersStay(t) /\ thread[t].pc = "idle"
    BY <1>0, <1>9 DEF StartConfirm, StartInstall, Starts, OthersStay, Stays, Thread
  <2> QED
    BY <2>1
<1>10. Quiet(t)
  BY <1>4, <1>5, <1>6, <1>7, <1>8, <1>9
<1> QED
  BY <1>1, <1>10

(* So does a rename that fails, but for an installation.                   *)
LEMMA QuietFailure ==
    ASSUME TypeInv, Roles, NEW t \in Threads, RenameFails(t), MayFail(t),
           "unmoved" \notin Accidents
    PROVE  Quiet(t) /\ UNCHANGED <<state, mountMarker, crashMarker, signal>>
<1>1. thread[t].job # "install" /\ thread[t].pc # "move"
  BY DEF MayFail, Roles, Role, BundleSteps
<1> QED
  BY <1>1, RenameFailsMoves DEF Quiet, Moves, Rests

LEMMA QuietTrialStep ==
    ASSUME TypeInv, WritesAlone, PointerInv, NEW t \in Threads,
           \/ \E release \in Releases : StartInstall(t, release)
           \/ StartConfirm(t) \/ StageBundle(t) \/ FillBundle(t) \/ RemoveOld(t)
           \/ MoveIn(t) \/ ListReleases(t)
           \/ \E r \in Releases : DeleteRelease(t, r)
           \/ FinishInstall(t) \/ ReadState(t) \/ OpenState(t) \/ WriteState(t) \/ Throws(t)
           \/ RenameFails(t) /\ MayFail(t),
           "unmoved" \notin Accidents
    PROVE  TrialInv' /\ UNCHANGED state
<1>1. Quiet(t) /\ UNCHANGED <<state, mountMarker, crashMarker, signal>>
  BY QuietThreadStep, QuietFailure DEF PointerInv
<1> QED
  BY <1>1, TrialKept, NothingDecided, ClearingKept DEF Quiet, PointerInv

(* A boot is marked confirmed only when no rollback has been decided, or   *)
(* by the rollback, which leaves nothing to go back to.                    *)
LEMMA MarkerStep ==
    ASSUME TypeInv, WritesAlone, PointerInv, NEW t \in Threads,
           \/ MarkMounted(t) /\ MayMark
           \/ t \in Pool /\ ClearMarker(t)
           \/ TrustPrevious(t) /\ MayTrust(t),
           "overtaken" \notin Accidents, "vouched" \notin Accidents
    PROVE  TrialInv' /\ UNCHANGED state
<1>0. Role(t) /\ TrialInv
  BY DEF PointerInv, Roles
<1>1. UNCHANGED state
  BY StateFileStays
<1>2. CASE MarkMounted(t) /\ MayMark
  <2>1. /\ ~RollbackDecided /\ mountMarker' = TRUE /\ Moves(t, "read")
        /\ thread[t].pc = "mark" /\ thread[t].job = "confirm"
        /\ UNCHANGED <<crashMarker, signal>>
    BY <1>0, <1>2, StateMoves DEF MarkMounted, MayMark, At, Role
  <2>2. /\ RollbackDecided' => RollbackDecided
        /\ Hooked' => Hooked
    BY <2>1, NothingDecided DEF Moves
  <2>3. Hooked => RollbackDecided
    BY DEF Hooked, RollbackDecided, Rollbacks
  <2>4. Clearing' <=> Clearing
    BY <2>1, ClearingKept DEF Moves
  <2> QED
    BY <1>0, <1>1, <2>1, <2>2, <2>3, <2>4 DEF TrialInv, OnTrial
<1>3. CASE t \in Pool /\ ClearMarker(t)
  <2>1. OnTrial /\ mountMarker' = FALSE
    BY <1>0, <1>3 DEF ClearMarker, At, TrialInv, Clearing
  <2> QED
    BY <1>1, <2>1 DEF TrialInv, OnTrial
<1>4. CASE TrustPrevious(t) /\ MayTrust(t)
  <2>1. state.previous = None
    BY <1>4 DEF MayTrust, RolledBack
  <2> QED
    BY <1>1, <2>1 DEF TrialInv, OnTrial
<1> QED
  BY <1>1, <1>2, <1>3, <1>4

(* Who replaces state.json installs, confirms or rolls back what is there. *)
LEMMA ReplaceStep ==
    ASSUME TypeInv, PointerInv, NEW t \in Threads, RenameState(t), MayReplace(t),
           "stale" \notin Accidents, "crossed" \notin Accidents
    PROVE  TrialInv' /\ ReleasePointerOfState!Next
<1>0. /\ Roles /\ Role(t) /\ TrialInv /\ Lifecycle /\ thread[t].seen = state
      /\ state \in Pointer /\ thread[t].pc = "rename"
      /\ UNCHANGED <<mountMarker, crashMarker, signal>>
  BY StateIsPointer DEF PointerInv, Roles, MayReplace, RenameState, At
<1>1. CASE thread[t].job = "install"
  <2>1. /\ state' = Promoted(state, thread[t].release) /\ Moves(t, "clear")
        /\ t \in Pool /\ thread[t].release \in Releases
    BY <1>0, <1>1, StateReplaced DEF Role
  <2>2. state'.status = "pending" /\ Clearing'
    BY <2>1 DEF Promoted, Moves, Clearing
  <2>3. TrialInv'
    BY <2>2 DEF TrialInv, OnTrial
  <2>4. ReleasePointerOfState!Install(thread[t].release)
    BY <2>1 DEF Promoted, ReleasePointerOfState!Install, ReleasePointerOfState!Promoted
  <2> QED
    BY <2>1, <2>3, <2>4 DEF ReleasePointerOfState!Next
<1>2. CASE thread[t].job = "confirm"
  <2>1. state' = Confirmed(state) /\ Rests(t) /\ t \in Pool
    BY <1>0, <1>2, StateReplaced DEF Role
  <2>2. mountMarker /\ ~Clearing /\ state'.previous = state.previous
    BY <1>0, <1>2, <2>1 DEF MayReplace, Clearing, Confirmed, Pointer
  <2>3. RollbackDecided => Hooked
    <3>1. main = "up"
      BY <1>2, <2>1, <1>0 DEF Lifecycle
    <3> QED
      BY <1>0, <3>1 DEF Lifecycle, RollbackDecided, Hooked, Rollbacks
  <2>4. (RollbackDecided' => RollbackDecided) /\ (Hooked' => Hooked)
    BY <1>0, <2>1, NothingDecided DEF Rests
  <2>5. ~Clearing'
    BY <1>0, <2>1, <2>2, ClearingKept DEF Rests
  <2>6. TrialInv'
    BY <1>0, <2>2, <2>3, <2>4, <2>5 DEF TrialInv, OnTrial
  <2>7. ReleasePointerOfState!Confirm
    BY <2>1 DEF Confirmed, ReleasePointerOfState!Confirm, ReleasePointerOfState!Confirmed
  <2> QED
    BY <2>6, <2>7 DEF ReleasePointerOfState!Next
<1>3. CASE thread[t].job = "rollback"
  <2>1. state' = RolledBack(state) /\ state.previous # None
    BY <1>0, <1>3, StateReplaced DEF Role, StateSteps
  <2>2. t \in Rollbacks
    BY <1>0, <1>3 DEF TypeInv, TypeOK, Threads, Role, RenameState
  <2>3. state.status = "pending"
    BY <1>0, <1>3, <2>1, <2>2 DEF RollbackDecided, TrialInv, OnTrial
  <2>4. state'.previous = None
    BY <2>1 DEF RolledBack
  <2>5. TrialInv'
    BY <2>4 DEF TrialInv, OnTrial
  <2>6. ReleasePointerOfState!RollBack
    BY <2>1, <2>3 DEF RolledBack, ReleasePointerOfState!RollBack,
                      ReleasePointerOfState!RolledBack
  <2> QED
    BY <2>5, <2>6 DEF ReleasePointerOfState!Next
<1> QED
  BY <1>0, <1>1, <1>2, <1>3, StateReplaced

(* A rollback is decided when the marker is absent, and carried over a     *)
(* restart by crash.marker.                                                *)
LEMMA DecisionStep ==
    ASSUME TypeInv, PointerInv,
           \/ Launch \/ Resolve \/ UncaughtException \/ SignalArrives
           \/ Raise \/ Kill
           \/ UNCHANGED vars
    PROVE  TrialInv' /\ UNCHANGED state
<1>0. /\ thread \in [Threads -> Thread] /\ TrialInv
      /\ "boot" \in Threads /\ "handler" \in Threads
      /\ "boot" \notin Pool /\ "handler" \notin Pool /\ AtRest.pc = "idle"
      /\ AtRest.job = "none" /\ Pool \subseteq Threads
  BY PoolIsApart DEF TypeInv, TypeOK, PointerInv, Threads, Rollbacks, AtRest
<1>1. UNCHANGED <<state, mountMarker>>
  BY DEF Launch, Resolve, UncaughtException, SignalArrives, Raise, Kill, Dies, vars, disk,
     state
<1>2. CASE Launch
  <2>1. /\ UNCHANGED signal /\ crashMarker' = "absent"
        /\ \A t \in Threads \ {"boot"} : thread'[t] = thread[t]
        /\ crashMarker = "auto" \/ thread' = thread
    BY <1>0, <1>2 DEF Launch, RollsBack
  <2>2. Clearing' <=> Clearing
    BY <1>0, <2>1 DEF Clearing
  <2>3. (RollbackDecided' => RollbackDecided) /\ (Hooked' => Hooked)
    BY <1>0, <2>1 DEF RollbackDecided, Hooked, Rollbacks
  <2> QED
    BY <1>0, <1>1, <2>2, <2>3, TrialKept
<1>3. CASE UncaughtException
  <2>1. ~mountMarker /\ \A t \in Threads \ {"handler"} : thread'[t] = thread[t]
    BY <1>0, <1>3 DEF UncaughtException, RollsBack
  <2>2. OnTrial
    BY <1>0, <2>1 DEF TrialInv
  <2> QED
    BY <1>1, <2>1, <2>2 DEF TrialInv, OnTrial
<1>4. CASE SignalArrives
  <2>1. /\ UNCHANGED <<thread, crashMarker>>
        /\ signal' = IF mountMarker THEN "manual" ELSE "auto"
    BY <1>4 DEF SignalArrives, disk
  <2>2. CASE ~mountMarker
    <3>1. OnTrial
      BY <1>0, <2>2 DEF TrialInv
    <3> QED
      BY <1>1, <2>2, <3>1 DEF TrialInv, OnTrial
  <2>3. CASE mountMarker
    BY <1>0, <1>1, <2>1, <2>3, TrialKept DEF RollbackDecided, Hooked, Clearing
  <2> QED
    BY <2>2, <2>3
<1>5. CASE Raise \/ Kill
  <2>1. /\ signal' = "idle" /\ \A t \in Threads : thread'[t] = AtRest
        /\ crashMarker' \in {crashMarker, signal}
    BY <1>5 DEF Raise, Kill, Dies
  <2>2. ~Clearing' /\ ~Hooked' /\ (RollbackDecided' => RollbackDecided)
    BY <1>0, <2>1 DEF Clearing, Hooked, RollbackDecided, Rollbacks
  <2> QED
    BY <1>0, <1>1, <2>2 DEF TrialInv, OnTrial
<1>6. CASE Resolve \/ UNCHANGED vars
  <2>1. UNCHANGED <<thread, crashMarker, signal>>
    BY <1>6 DEF Resolve, vars, disk
  <2> QED
    BY <1>0, <1>1, <2>1, TrialKept DEF RollbackDecided, Hooked, Clearing
<1> QED
  BY <1>1, <1>2, <1>3, <1>4, <1>5, <1>6

LEMMA PointerStep ==
    ASSUME TypeInv, WritesAlone, PointerInv, [Next]_vars,
           "shared" \notin Accidents, "stale" \notin Accidents, "crossed" \notin Accidents,
           "overtaken" \notin Accidents, "vouched" \notin Accidents,
           "unmoved" \notin Accidents
    PROVE  WritesAlone' /\ PointerInv' /\ [ReleasePointerOfState!Next]_state
<1>1. WritesAlone' /\ Roles' /\ Lifecycle'
  BY WritesAloneStep, RolesStep, LifecycleStep DEF PointerInv
<1>2. ASSUME NEW t \in Pool, Task(t) PROVE TrialInv' /\ UNCHANGED state
  <2>1. t \in Threads
    BY DEF Threads
  <2> QED
    BY <1>2, <2>1, QuietTrialStep, MarkerStep DEF Task
<1>3. ASSUME NEW t \in Threads,
             \/ ReadState(t) \/ OpenState(t) \/ WriteState(t) \/ Throws(t)
             \/ RenameFails(t) /\ MayFail(t)
             \/ TrustPrevious(t) /\ MayTrust(t)
      PROVE  TrialInv' /\ UNCHANGED state
  BY <1>3, QuietTrialStep, MarkerStep
<1>4. ASSUME NEW t \in Threads, RenameState(t), MayReplace(t)
      PROVE  TrialInv' /\ ReleasePointerOfState!Next
  BY <1>4, ReplaceStep
<1>5. CASE \/ Launch \/ Resolve \/ UncaughtException \/ SignalArrives
           \/ Raise \/ Kill
           \/ UNCHANGED vars
  BY <1>1, <1>5, DecisionStep DEF PointerInv
<1>6. CASE \E t \in Threads :
             \/ ReadState(t)
             \/ OpenState(t) /\ MayOpen(t)
             \/ WriteState(t)
             \/ RenameState(t) /\ MayReplace(t)
             \/ RenameFails(t) /\ MayFail(t)
             \/ TrustPrevious(t) /\ MayTrust(t)
             \/ Throws(t)
  BY <1>1, <1>3, <1>4, <1>6 DEF PointerInv
<1>7. CASE \E t \in Pool : Task(t)
  BY <1>1, <1>2, <1>7 DEF PointerInv
<1> QED
  BY <1>5, <1>6, <1>7 DEF Next, Step

LEMMA PointerHolds ==
    ASSUME "shared" \notin Accidents, "stale" \notin Accidents, "crossed" \notin Accidents,
           "overtaken" \notin Accidents, "vouched" \notin Accidents,
           "unmoved" \notin Accidents
    PROVE  Spec => /\ [](TypeInv /\ WritesAlone /\ PointerInv)
                   /\ ReleasePointerOfState!Init
<1>1. Init => WritesAlone /\ PointerInv /\ ReleasePointerOfState!Init
  <2> SUFFICES ASSUME Init PROVE WritesAlone /\ PointerInv /\ ReleasePointerOfState!Init
    OBVIOUS
  <2>1. /\ files[State].live = Absent /\ "boot" \in Threads /\ "handler" \in Threads
        /\ Pool \subseteq Threads
        /\ \A t \in Threads : thread[t].pc = "idle" /\ thread[t].job = "none"
    BY DEF Init, NoFile, Names, AtRest, Threads, Rollbacks
  <2>2. state = Empty /\ Empty.status = "confirmed" /\ Empty.previous = None
    BY <2>1 DEF state, Read, Empty
  <2>3. WritesAlone
    BY <2>1, Contents DEF WritesAlone, Writing, NeverTorn
  <2>4. Roles
    BY <2>1 DEF Roles, Role, BundleSteps, StateSteps
  <2>5. Lifecycle /\ TrialInv
    BY <2>1, <2>2 DEF Init, Lifecycle, TrialInv, OnTrial, Clearing
  <2>6. ReleasePointerOfState!Init
    BY <2>2 DEF Empty, ReleasePointerOfState!Init, ReleasePointerOfState!Empty
  <2> QED
    BY <2>3, <2>4, <2>5, <2>6 DEF PointerInv
<1> QED
  BY <1>1, PointerStep, TypeHolds, PTL DEF Spec

(* A rollback that was decided is still due when it is carried out, also   *)
(* by the next launch, however many tasks overlap on the pool and also     *)
(* when a confirmation's or a rollback's rename fails.                     *)
THEOREM RollbackAlwaysDue ==
    ASSUME "shared" \notin Accidents, "stale" \notin Accidents, "crossed" \notin Accidents,
           "overtaken" \notin Accidents, "vouched" \notin Accidents,
           "unmoved" \notin Accidents
    PROVE  Spec => []RollbackIsDue
<1>1. PointerInv => RollbackIsDue
  BY DEF PointerInv, TrialInv, OnTrial, RollbackIsDue
<1> QED
  BY <1>1, PointerHolds, PTL

(* What can be read from state.json goes through installations,            *)
(* confirmations and rollbacks of releases on trial, and nothing else,     *)
(* however many tasks overlap, unless two write it at once, a state read   *)
(* earlier is written back, a boot is confirmed that is not the one, or an *)
(* installation goes on with a file it could not move.                     *)
THEOREM ImplementsReleasePointer ==
    ASSUME "shared" \notin Accidents, "stale" \notin Accidents, "crossed" \notin Accidents,
           "overtaken" \notin Accidents, "vouched" \notin Accidents,
           "unmoved" \notin Accidents
    PROVE  Spec => PointerPromise
<1> QED
  BY PointerHolds, PointerStep, PTL DEF Spec, PointerPromise, ReleasePointerOfState!Spec

-----------------------------------------------------------------------------
(***************************************************************************)
(* The marker of a confirmed release.  It is missing only on trial, and    *)
(* who is about to clear it has put a release on trial: that stays so      *)
(* until it is cleared, because no confirmation finishes meanwhile.        *)
(***************************************************************************)
MountInv == (~mountMarker => OnTrial) /\ (Clearing => OnTrial)

LEMMA MountStep ==
    ASSUME TypeInv, WritesAlone, Roles, MountInv, [Next]_vars, "crossed" \notin Accidents,
           "unmoved" \notin Accidents
    PROVE  MountInv'
<1>0. thread \in [Threads -> Thread] /\ Pool \subseteq Threads /\ AtRest.pc = "idle"
  BY DEF TypeInv, TypeOK, Threads, AtRest
<1>1. ASSUME UNCHANGED <<state, mountMarker>>, Clearing' => Clearing PROVE MountInv'
  BY <1>1 DEF MountInv, OnTrial
<1>2. ASSUME NEW t \in Threads,
             \/ \E release \in Releases : StartInstall(t, release)
             \/ StartConfirm(t) \/ StageBundle(t) \/ FillBundle(t) \/ RemoveOld(t)
             \/ MoveIn(t) \/ ListReleases(t)
             \/ \E r \in Releases : DeleteRelease(t, r)
             \/ FinishInstall(t) \/ ReadState(t) \/ OpenState(t) \/ WriteState(t)
             \/ Throws(t)
             \/ RenameFails(t) /\ MayFail(t)
      PROVE  MountInv'
  <2>1. Quiet(t) /\ UNCHANGED <<state, mountMarker>>
    BY <1>2, QuietThreadStep, QuietFailure
  <2> QED
    BY <1>1, <2>1, ClearingKept DEF Quiet
<1>3. ASSUME NEW t \in Threads, MarkMounted(t) \/ TrustPrevious(t) PROVE MountInv'
  <2>1. UNCHANGED state /\ mountMarker' = TRUE /\ thread[t].pc # "clear"
    BY <1>3, StateFileStays DEF MarkMounted, TrustPrevious, At
  <2>2. OthersStay(t) /\ thread'[t].pc # "clear"
    BY <1>3, StateMoves DEF Moves, Rests
  <2> QED
    BY <2>1, <2>2, ClearingKept DEF MountInv, OnTrial
<1>4. ASSUME NEW t \in Pool, ClearMarker(t) PROVE MountInv'
  <2>1. UNCHANGED state /\ OnTrial
    BY <1>0, <1>4, StateFileStays DEF ClearMarker, At, MountInv, Clearing
  <2> QED
    BY <2>1 DEF MountInv, OnTrial
<1>5. ASSUME NEW t \in Threads, RenameState(t), MayReplace(t) PROVE MountInv'
  <2>1. UNCHANGED mountMarker /\ thread[t].pc = "rename"
    BY <1>5 DEF RenameState, At
  <2>2. CASE thread[t].job = "install"
    <3>1. state' = Promoted(thread[t].seen, thread[t].release)
      BY <1>5, <2>2, StateReplaced
    <3>2. state'.status = "pending"
      BY <3>1 DEF Promoted
    <3> QED
      BY <3>2 DEF MountInv, OnTrial
  <2>3. CASE thread[t].job = "rollback"
    <3>1. state' = RolledBack(thread[t].seen)
      BY <1>5, <2>3, StateReplaced
    <3>2. state'.previous = None
      BY <3>1 DEF RolledBack
    <3> QED
      BY <3>2 DEF MountInv, OnTrial
  <2>4. CASE thread[t].job = "confirm"
    <3>1. mountMarker /\ ~Clearing
      BY <1>5, <2>4 DEF MayReplace, Clearing
    <3>2. ~Clearing'
      BY <1>5, <2>1, <2>4, <3>1, StateReplaced, ClearingKept DEF Rests
    <3> QED
      BY <2>1, <3>1, <3>2 DEF MountInv
  <2> QED
    BY <1>5, <2>2, <2>3, <2>4, StateReplaced
<1>6. ASSUME \/ Launch \/ Resolve \/ UncaughtException \/ SignalArrives
             \/ Raise \/ Kill
             \/ UNCHANGED vars
      PROVE  MountInv'
  <2>1. UNCHANGED <<state, mountMarker>>
    BY <1>6 DEF Launch, Resolve, UncaughtException, SignalArrives, Raise, Kill, Dies,
       vars, disk, state
  <2>2. \A t \in Pool : thread'[t].pc \in {thread[t].pc, "idle"}
    <3>1. \A t \in Pool : t \in Threads /\ t \notin Rollbacks
      BY PoolIsApart DEF Threads
    <3> QED
      BY <1>0, <1>6, <3>1 DEF Launch, RollsBack, Resolve, UncaughtException, SignalArrives,
         Raise, Kill, Dies, vars, Rollbacks
  <2> QED
    BY <1>1, <2>1, <2>2 DEF Clearing
<1>7. CASE \E t \in Pool : Task(t)
  BY <1>0, <1>2, <1>3, <1>4, <1>7 DEF Task
<1>8. CASE \E t \in Threads :
             \/ ReadState(t)
             \/ OpenState(t) /\ MayOpen(t)
             \/ WriteState(t)
             \/ RenameState(t) /\ MayReplace(t)
             \/ RenameFails(t) /\ MayFail(t)
             \/ TrustPrevious(t) /\ MayTrust(t)
             \/ Throws(t)
  BY <1>2, <1>3, <1>5, <1>8
<1> QED
  BY <1>6, <1>7, <1>8 DEF Next, Step

(* A confirmed release with a fallback has its marker, also under stale    *)
(* writes and overtaken confirmations, unless two threads have the         *)
(* temporary file open, a confirmation and an installation cross, or an    *)
(* installation goes on with a file it could not move.                     *)
THEOREM ConfirmedHasMarker ==
    ASSUME "shared" \notin Accidents, "crossed" \notin Accidents,
           "unmoved" \notin Accidents
    PROVE  Spec => []ConfirmedIsMounted
<1>1. Init => WritesAlone /\ Roles /\ MountInv
  <2> SUFFICES ASSUME Init PROVE WritesAlone /\ Roles /\ MountInv
    OBVIOUS
  <2>1. /\ files[State].live = Absent
        /\ \A t \in Threads : thread[t].pc = "idle" /\ thread[t].job = "none"
    BY DEF Init, NoFile, Names, AtRest
  <2>2. state = Empty /\ Empty.previous = None
    BY <2>1 DEF state, Read, Empty
  <2>3. WritesAlone
    BY <2>1, Contents DEF WritesAlone, Writing, NeverTorn
  <2>4. Roles
    BY <2>1 DEF Roles, Role, BundleSteps, StateSteps
  <2>5. MountInv
    BY <2>2 DEF MountInv, OnTrial
  <2> QED
    BY <2>3, <2>4, <2>5
<1>2. TypeInv /\ WritesAlone /\ Roles /\ MountInv /\ [Next]_vars
        => WritesAlone' /\ Roles' /\ MountInv'
  BY WritesAloneStep, RolesStep, MountStep
<1>3. TypeInv /\ MountInv => ConfirmedIsMounted
  <2> SUFFICES ASSUME TypeInv, MountInv PROVE ConfirmedIsMounted
    OBVIOUS
  <2> QED
    BY DEF MountInv, OnTrial, ConfirmedIsMounted
<1> QED
  BY <1>1, <1>2, <1>3, TypeHolds, PTL DEF Spec

-----------------------------------------------------------------------------
(***************************************************************************)
(* The marker of a release on trial.  An installation makes it a matter of *)
(* the thread that is to clear the marker; a confirmation puts one there   *)
(* and is remembered; a rollback marks what is no longer on trial.         *)
(***************************************************************************)
UnmountInv == state.status = "pending" /\ mountMarker => acknowledged \/ Clearing

LEMMA UnmountStep ==
    ASSUME TypeInv, WritesAlone, Roles, UnmountInv, [Next]_vars,
           "vouched" \notin Accidents, "uncleared" \notin Accidents
    PROVE  UnmountInv'
<1>0. thread \in [Threads -> Thread] /\ Pool \subseteq Threads /\ AtRest.pc = "idle"
  BY DEF TypeInv, TypeOK, Threads, AtRest
<1>1. ASSUME acknowledged,
             \/ UNCHANGED files
             \/ \A t \in Pool : thread[t].pc = "rename" => thread'[t].pc # "clear"
      PROVE  acknowledged'
  BY <1>1 DEF Next, Remembers, vars
<1>2. ASSUME NEW t \in Threads, OthersStay(t), UNCHANGED <<state, mountMarker>>,
             thread[t].pc # "clear", thread'[t].pc # "clear"
      PROVE  UnmountInv'
  <2>1. Clearing' <=> Clearing
    BY <1>2, ClearingKept
  <2>2. \A u \in Pool : thread[u].pc = "rename" => thread'[u].pc # "clear"
    BY <1>0, <1>2 DEF OthersStay, Stays
  <2> QED
    BY <1>1, <1>2, <2>1, <2>2 DEF UnmountInv
<1>3. ASSUME NEW t \in Threads,
             \/ \E release \in Releases : StartInstall(t, release)
             \/ StartConfirm(t) \/ StageBundle(t) \/ FillBundle(t) \/ RemoveOld(t)
             \/ MoveIn(t) \/ ListReleases(t)
             \/ \E r \in Releases : DeleteRelease(t, r)
             \/ FinishInstall(t) \/ ReadState(t) \/ OpenState(t) \/ WriteState(t)
             \/ Throws(t)
      PROVE  UnmountInv'
  <2>1. Quiet(t) /\ UNCHANGED <<state, mountMarker>>
    BY <1>3, QuietThreadStep
  <2> QED
    BY <1>2, <2>1 DEF Quiet
<1>4. ASSUME NEW t \in Pool, MarkMounted(t) PROVE UnmountInv'
  <2>1. thread[t].pc = "mark" /\ Moves(t, "read")
    BY <1>0, <1>4, StateMoves DEF MarkMounted, At
  <2>2. acknowledged'
    BY <2>1 DEF Next, Remembers, vars, Moves
  <2> QED
    BY <2>2 DEF UnmountInv
<1>5. ASSUME NEW t \in Pool, ClearMarker(t) PROVE UnmountInv'
  BY <1>5 DEF ClearMarker, UnmountInv
<1>6. ASSUME NEW t \in Threads, RenameState(t) PROVE UnmountInv'
  <2>1. CASE thread[t].job = "install"
    <3>1. t \in Pool /\ Moves(t, "clear")
      BY <1>6, <2>1, StateReplaced DEF RenameState, At, Roles, Role, Threads, Rollbacks
    <3>2. Clearing'
      BY <3>1 DEF Moves, Clearing
    <3> QED
      BY <3>2 DEF UnmountInv
  <2>2. CASE thread[t].job \in {"confirm", "rollback"}
    <3>1. state' \in {Confirmed(thread[t].seen), RolledBack(thread[t].seen)}
      BY <1>6, <2>2, StateReplaced
    <3>2. thread[t].seen \in Pointer
      BY <1>0 DEF Thread
    <3>3. state'.status = "confirmed"
      BY <3>1, <3>2 DEF Confirmed, RolledBack, Pointer
    <3> QED
      BY <3>3 DEF UnmountInv
  <2> QED
    BY <1>6, <2>1, <2>2, StateReplaced
<1>7. ASSUME NEW t \in Threads, TrustPrevious(t), MayTrust(t) PROVE UnmountInv'
  <2>1. UNCHANGED state
    BY <1>7, StateFileStays
  <2>2. state.status = "confirmed"
    BY <1>7 DEF MayTrust, RolledBack
  <2> QED
    BY <2>1, <2>2 DEF UnmountInv
<1>8. CASE Launch \/ Resolve \/ UncaughtException \/ SignalArrives
  <2>1. UNCHANGED <<state, mountMarker>>
    BY <1>8 DEF Launch, Resolve, UncaughtException, SignalArrives, disk, state
  <2>2. \A t \in Pool : thread'[t] = thread[t]
    <3>1. \A t \in Pool : t \in Threads /\ t \notin Rollbacks
      BY PoolIsApart DEF Threads
    <3> QED
      BY <1>0, <1>8, <3>1 DEF Launch, RollsBack, Resolve, UncaughtException, SignalArrives,
         Rollbacks
  <2>3. Clearing' <=> Clearing
    BY <2>2 DEF Clearing
  <2> QED
    BY <1>1, <2>1, <2>2, <2>3 DEF UnmountInv
<1>9. CASE (Raise \/ Kill) /\ MayDie
  <2>1. /\ UNCHANGED <<state, mountMarker>> /\ ~Clearing
        /\ \A t \in Threads : thread'[t] = AtRest
    BY <1>9 DEF Raise, Kill, Dies, MayDie, Clearing, state
  <2> QED
    BY <1>0, <1>1, <2>1 DEF UnmountInv
<1>10. CASE UNCHANGED vars
  BY <1>10 DEF vars, disk, UnmountInv, Clearing, state
<1>10a. ASSUME NEW t \in Threads, RenameFails(t) PROVE UnmountInv'
  <2>1. UNCHANGED <<files, state, mountMarker>> /\ OthersStay(t) /\ thread[t].pc # "clear"
    BY <1>10a, RenameFailsMoves DEF Moves, Rests
  <2>2. Clearing => Clearing'
    BY <2>1 DEF Clearing, OthersStay, Stays, Threads
  <2> QED
    BY <1>1, <2>1, <2>2 DEF UnmountInv
<1>11. CASE \E t \in Pool : Task(t)
  BY <1>0, <1>3, <1>4, <1>5, <1>11 DEF Task
<1>12. CASE \E t \in Threads :
             \/ ReadState(t)
             \/ OpenState(t) /\ MayOpen(t)
             \/ WriteState(t)
             \/ RenameState(t) /\ MayReplace(t)
             \/ RenameFails(t) /\ MayFail(t)
             \/ TrustPrevious(t) /\ MayTrust(t)
             \/ Throws(t)
  BY <1>3, <1>6, <1>7, <1>12, <1>10a
<1> QED
  BY <1>8, <1>9, <1>10, <1>11, <1>12 DEF Next, Step

(* The marker of a release on trial was put there by notifyAppReady, also  *)
(* when states are written back late, confirmations and installations      *)
(* cross, renames fail and a rollback is overtaken: unless two threads     *)
(* have the temporary file open, a rollback vouches for a boot that is not *)
(* the one it restored, or the process dies between the promotion of a     *)
(* release and the removal of the marker before it.                        *)
THEOREM TrialIsUnmounted ==
    ASSUME "shared" \notin Accidents, "vouched" \notin Accidents,
           "uncleared" \notin Accidents
    PROVE  Spec => []PendingIsUnmounted
<1>1. Init => WritesAlone /\ Roles /\ UnmountInv
  <2> SUFFICES ASSUME Init PROVE WritesAlone /\ Roles /\ UnmountInv
    OBVIOUS
  <2>1. /\ files[State].live = Absent
        /\ \A t \in Threads : thread[t].pc = "idle" /\ thread[t].job = "none"
    BY DEF Init, NoFile, Names, AtRest
  <2>2. WritesAlone
    BY <2>1, Contents DEF WritesAlone, Writing, NeverTorn
  <2>3. Roles
    BY <2>1 DEF Roles, Role, BundleSteps, StateSteps
  <2>4. UnmountInv
    BY DEF Init, UnmountInv
  <2> QED
    BY <2>2, <2>3, <2>4
<1>2. TypeInv /\ WritesAlone /\ Roles /\ UnmountInv /\ [Next]_vars
        => WritesAlone' /\ Roles' /\ UnmountInv'
  BY WritesAloneStep, RolesStep, UnmountStep
<1>3. UnmountInv => PendingIsUnmounted
  BY DEF UnmountInv, Clearing, PendingIsUnmounted
<1> QED
  BY <1>1, <1>2, <1>3, TypeHolds, PTL DEF Spec
=============================================================================
