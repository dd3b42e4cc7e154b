------------------------- MODULE SalvePushSdkProofs -------------------------
(***************************************************************************)
(* Theorems about SalvePushSdk, for any releases, configs and callers.     *)
(***************************************************************************)
EXTENDS SalvePushSdk, TLAPS

\* A request knows its config, and a call lives no longer than the config.
CallsConfigured ==
    \A k \in Callers :
        /\ call[k].pc \in {"checking", "downloading"} => call[k].with # None
        /\ call[k].pc # "idle" => config # None
        /\ call[k].pc \in {"offered", "downloading"} => call[k].update # None

\* Signed by the key of one of the configs.
Signed(release) ==
    release \in Releases /\ \E c \in Configs : release \in Accepts[c]

\* Bytes and identifier are kept, and handed on, together.
KeptTogether ==
    /\ verifiedBundleReleaseId = verifiedBundle
    /\ verifiedBundle # None => Signed(verifiedBundle)
    /\ \A k \in Callers : call[k].pc = "installing" =>
         call[k].id = call[k].bytes /\ Signed(call[k].id)

Inv == TypeOK /\ CallsConfigured /\ KeptTogether /\ InstalledAsVerified

LEMMA NoCallIsCall == NoCall \in Call /\ NoCall.pc = "idle" /\ NoCall.undisturbed = FALSE
  BY DEF NoCall, Call, Steps, Ids

LEMMA NoCallIsUndisturbed == [NoCall EXCEPT !.undisturbed = FALSE] = NoCall
<1>1. ASSUME NEW c \in Call, c.undisturbed = FALSE
      PROVE  [c EXCEPT !.undisturbed = FALSE] = c
  BY <1>1 DEF Call
<1> QED
  BY <1>1, NoCallIsCall

LEMMA StepOfCaller ==
    ASSUME Inv, NEW k \in Callers, Step(k) \/ Ends(k)
    PROVE  Inv'
<1> USE DEF Inv, TypeOK, server, facade, device, session
<1>1. CASE checkForUpdate(k)
  <2>0. NoCall \in Call
    BY NoCallIsCall
  <2>1. call' \in [Callers -> Call]
    <3> DEFINE next == [NoCall EXCEPT !.pc = "checking", !.with = config,
                    !.undisturbed = \A j \in Callers \ {k} : call[j].pc = "idle"]
    <3>1. next \in Call
      BY <1>1 DEF checkForUpdate, NoCall, Call, Steps, Ids
    <3>2. \A j \in Callers : [call[j] EXCEPT !.undisturbed = FALSE] \in Call
      BY DEF Call
    <3>3. Enters(k, next)
      BY <1>1 DEF checkForUpdate
    <3> HIDE DEF next
    <3> QED
      BY <3>1, <3>2, <3>3 DEF Enters
  <2>2. CallsConfigured'
    BY <1>1, <2>0 DEF CallsConfigured, checkForUpdate, Enters, Call
  <2>3. \A j \in Callers : call'[j].pc = "installing" =>
          call[j].pc = "installing" /\ call'[j].id = call[j].id /\ call'[j].bytes = call[j].bytes
    BY <1>1 DEF checkForUpdate, Enters, NoCall, Call
  <2>4. KeptTogether' /\ InstalledAsVerified'
    BY <1>1, <2>3 DEF KeptTogether, InstalledAsVerified, checkForUpdate, Signed
  <2> QED
    BY <1>1, <2>1, <2>2, <2>4 DEF checkForUpdate
<1>2. CASE fetchLatestUpdate(k)
  <2>0. call[k].with \in Configs /\ offered[call[k].with] \in Ids
    BY <1>2 DEF fetchLatestUpdate, Proceeds, CallsConfigured, Call
  <2>1. call' \in [Callers -> Call]
    BY <1>2, <2>0, NoCallIsCall DEF fetchLatestUpdate, Proceeds, Call, Steps
  <2>2. CallsConfigured'
    BY <1>2, <2>0, NoCallIsCall DEF CallsConfigured, fetchLatestUpdate, Proceeds, Call
  <2>3. KeptTogether' /\ InstalledAsVerified'
    BY <1>2, NoCallIsCall
       DEF KeptTogether, InstalledAsVerified, fetchLatestUpdate, Proceeds, Signed
  <2> QED
    BY <1>2, <2>1, <2>2, <2>3 DEF fetchLatestUpdate
<1>3. CASE downloadUpdate(k)
  <2>1. call' \in [Callers -> Call]
    BY <1>3 DEF downloadUpdate, Proceeds, Call, Steps
  <2>2. CallsConfigured'
    BY <1>3 DEF CallsConfigured, downloadUpdate, Proceeds, Call
  <2>3. KeptTogether' /\ InstalledAsVerified'
    BY <1>3 DEF KeptTogether, InstalledAsVerified, downloadUpdate, Proceeds, Signed
  <2> QED
    BY <1>3, <2>1, <2>2, <2>3 DEF downloadUpdate
<1>4. CASE downloadAndVerifyBundle(k)
  <2>0. Signed(call[k].update)
    BY <1>4, AcceptsReleases DEF downloadAndVerifyBundle, CallsConfigured, Signed, Call
  <2>1. call' \in [Callers -> Call] /\ call[k].update \in Ids
    BY <1>4 DEF downloadAndVerifyBundle, Proceeds, Call, Steps
  <2>2. CallsConfigured'
    BY <1>4 DEF CallsConfigured, downloadAndVerifyBundle, Proceeds, Call
  <2>3. KeptTogether' /\ InstalledAsVerified'
    BY <1>4, <2>0 DEF KeptTogether, InstalledAsVerified, downloadAndVerifyBundle,
                      Proceeds, Signed
  <2> QED
    BY <1>4, <2>1, <2>2, <2>3 DEF downloadAndVerifyBundle
<1>5. CASE installUpdate(k)
  <2>1. call' \in [Callers -> Call]
    <3> DEFINE next == [call[k] EXCEPT !.pc = "installing", !.id = verifiedBundleReleaseId,
                                       !.bytes = verifiedBundle]
    <3>1. next \in Call /\ \A j \in Callers : [call[j] EXCEPT !.undisturbed = FALSE] \in Call
      BY DEF Call, Steps
    <3>2. Enters(k, next)
      BY <1>5 DEF installUpdate, Native
    <3> QED
      BY <3>1, <3>2 DEF Enters
  <2>2. CallsConfigured'
    BY <1>5 DEF CallsConfigured, installUpdate, Native, Enters, Call
  <2>3. /\ call'[k].id = verifiedBundle /\ call'[k].bytes = verifiedBundle
        /\ verifiedBundle # None
    BY <1>5 DEF KeptTogether, installUpdate, Native, Enters, Call
  <2>4. \A j \in Callers : j # k => /\ call'[j].pc = call[j].pc
                                    /\ call'[j].id = call[j].id
                                    /\ call'[j].bytes = call[j].bytes
    BY <1>5 DEF installUpdate, Native, Enters, Call
  <2>5. KeptTogether'
    BY <1>5, <2>3, <2>4 DEF KeptTogether, installUpdate, Signed
  <2>6. InstalledAsVerified'
    BY <1>5 DEF InstalledAsVerified, installUpdate
  <2> QED
    BY <1>5, <2>1, <2>2, <2>5, <2>6 DEF installUpdate
<1>6. CASE NativeInstalls(k)
  <2>0. Signed(call[k].id) /\ call[k].id = call[k].bytes /\ call[k].id \in Releases
    BY <1>6 DEF NativeInstalls, Proceeds, KeptTogether, Signed
  <2>1. call' \in [Callers -> Call]
    <3>1. [call[k] EXCEPT !.pc = "installed", !.id = None, !.bytes = None] \in Call
      BY DEF Call, Steps, Ids
    <3> QED
      BY <1>6, <3>1 DEF NativeInstalls, Proceeds
  <2>2. pointer' \in Pointer /\ contents' \in [Releases -> Ids]
    BY <1>6, <2>0 DEF NativeInstalls, Promoted, Pointer, Ids
  <2>3. met' \subseteq Circumstances
    BY <1>6 DEF NativeInstalls, Meets, Circumstances
  <2>4. CallsConfigured'
    BY <1>6 DEF CallsConfigured, NativeInstalls, Proceeds, Call
  <2>5. KeptTogether'
    BY <1>6 DEF KeptTogether, NativeInstalls, Proceeds, Signed
  <2>6. InstalledAsVerified'
    BY <1>6, <2>0 DEF InstalledAsVerified, NativeInstalls, Signed
  <2> QED
    BY <1>6, <2>1, <2>2, <2>3, <2>4, <2>5, <2>6 DEF NativeInstalls
<1>7. CASE InstallReturns(k)
  <2>1. call' \in [Callers -> Call]
    BY <1>7, NoCallIsCall DEF InstallReturns, Proceeds
  <2>2. CallsConfigured' /\ KeptTogether' /\ InstalledAsVerified'
    BY <1>7, NoCallIsCall
       DEF CallsConfigured, KeptTogether, InstalledAsVerified, InstallReturns,
           Proceeds, Signed
  <2> QED
    BY <1>7, <2>1, <2>2 DEF InstallReturns, Ids
<1>8. CASE Throws(k) \/ Ends(k)
  <2>0. call' = [call EXCEPT ![k] = NoCall] /\ UNCHANGED <<server, facade, device, session, proven, met>>
    BY <1>8 DEF Throws, Ends, Proceeds
  <2>1. call' \in [Callers -> Call]
    BY <2>0, NoCallIsCall
  <2>2. CallsConfigured' /\ KeptTogether' /\ InstalledAsVerified'
    BY <2>0, NoCallIsCall
       DEF CallsConfigured, KeptTogether, InstalledAsVerified, Signed
  <2> QED
    BY <2>0, <2>1, <2>2
<1> QED
  BY <1>1, <1>2, <1>3, <1>4, <1>5, <1>6, <1>7, <1>8 DEF Step

LEMMA InvStep == Inv /\ [Next]_vars => Inv'
<1> SUFFICES ASSUME Inv, [Next]_vars PROVE Inv'
  OBVIOUS
<1> USE DEF Inv, TypeOK, server, facade, device, session
<1>1. ASSUME NEW c \in Configs, NEW r \in Releases, Publish(c, r) PROVE Inv'
  BY <1>1 DEF Publish, Feed!Publish, CallsConfigured, KeptTogether, InstalledAsVerified, Signed, Ids
<1>2. ASSUME NEW c \in Configs, configure(c) PROVE Inv'
  <2>1. /\ call' \in [Callers -> Call]
        /\ \A k \in Callers : /\ call'[k].pc = call[k].pc
                              /\ call'[k].with = call[k].with
                              /\ call'[k].update = call[k].update
                              /\ call'[k].id = call[k].id
                              /\ call'[k].bytes = call[k].bytes
    BY <1>2 DEF configure, Call
  <2>2. CallsConfigured'
    BY <1>2, <2>1, NoneIsNoConfig DEF CallsConfigured, configure
  <2>3. KeptTogether' /\ InstalledAsVerified'
    BY <1>2, <2>1 DEF KeptTogether, InstalledAsVerified, configure, Signed
  <2> QED
    BY <1>2, <2>1, <2>2, <2>3 DEF configure
<1>3. ASSUME NEW k \in Callers, Step(k) \/ Ends(k) PROVE Inv'
  BY <1>3, StepOfCaller
<1>4. CASE notifyAppReady
  <2>1. pointer' \in Pointer /\ proven' \subseteq Ids /\ met' \subseteq Circumstances
    BY <1>4 DEF notifyAppReady, Confirmed, Pointer, Meets, Circumstances
  <2>2. CallsConfigured' /\ KeptTogether' /\ InstalledAsVerified'
    BY <1>4 DEF notifyAppReady, CallsConfigured, KeptTogether, InstalledAsVerified, Signed
  <2> QED
    BY <1>4, <2>1, <2>2 DEF notifyAppReady
<1>5. CASE Start
  BY <1>5 DEF Start, CallsConfigured, KeptTogether, InstalledAsVerified, Signed, Pointer
<1>6. CASE Crash \/ Close
  <2>1. Stop /\ UNCHANGED <<server, contents, proven, met>>
    BY <1>6 DEF Crash, Close
  <2>2. pointer' \in Pointer
    BY <1>6 DEF Crash, Close, RolledBack, Pointer, Ids
  <2>3. call' \in [Callers -> Call] /\ \A k \in Callers : call'[k].pc = "idle"
    BY <2>1, NoCallIsCall DEF Stop
  <2>4. CallsConfigured' /\ KeptTogether' /\ InstalledAsVerified'
    BY <2>1, <2>3 DEF Stop, CallsConfigured, KeptTogether, InstalledAsVerified, Signed
  <2> QED
    BY <2>1, <2>2, <2>3, <2>4 DEF Stop, Ids
<1>7. CASE UNCHANGED vars
  BY <1>7 DEF vars, CallsConfigured, KeptTogether, InstalledAsVerified, Signed
<1> QED
  BY <1>1, <1>2, <1>3, <1>4, <1>5, <1>6, <1>7 DEF Next

LEMMA InvHolds == Spec => []Inv
<1>1. Init => Inv
  <2> SUFFICES ASSUME Init PROVE Inv
    OBVIOUS
  <2>1. call \in [Callers -> Call] /\ \A k \in Callers : call[k].pc = "idle"
    BY NoCallIsCall DEF Init
  <2>2. TypeOK
    BY <2>1 DEF Init, Feed!Init, TypeOK, Ids, Pointer, Empty
  <2>3. CallsConfigured /\ KeptTogether /\ InstalledAsVerified
    BY <2>1 DEF Init, CallsConfigured, KeptTogether, InstalledAsVerified
  <2> QED
    BY <2>2, <2>3 DEF Inv
<1> QED
  BY <1>1, InvStep, PTL DEF Spec

(* Every variable keeps its type.                                          *)
THEOREM TypeCorrect == Spec => []TypeOK
<1>1. Inv => TypeOK
  BY DEF Inv
<1> QED
  BY <1>1, InvHolds, PTL

(* Only signed bytes are stored, and under their own identifier, however   *)
(* many calls overlap and however often the SDK is configured anew.        *)
THEOREM AlwaysInstalledAsVerified == Spec => []InstalledAsVerified
<1>1. Inv => InstalledAsVerified
  BY DEF Inv
<1> QED
  BY <1>1, InvHolds, PTL

-----------------------------------------------------------------------------
(* What a rollback brings back.                                            *)

\* Until an exception has happened, what is confirmed has proven itself.
ConfirmedIsProven ==
    /\ None \in proven
    /\ met = {} => /\ pointer.status = "confirmed" => pointer.current \in proven
                   /\ pointer.previous \in proven

(* A rollback always brings back the embedded bundle or a release that has *)
(* run and confirmed itself, but for the two exceptions.                   *)
THEOREM AlwaysFallbackIsProven == Spec => []FallbackIsProven
<1>1. Init => ConfirmedIsProven
  BY DEF Init, ConfirmedIsProven, Empty
<1>2. Inv /\ ConfirmedIsProven /\ [Next]_vars => ConfirmedIsProven'
  <2> SUFFICES ASSUME Inv, ConfirmedIsProven, [Next]_vars PROVE ConfirmedIsProven'
    OBVIOUS
  <2> USE DEF ConfirmedIsProven, device, session
  <2>0. pointer \in Pointer
    BY DEF Inv, TypeOK
  <2>1. ASSUME UNCHANGED <<pointer, proven, met>> PROVE ConfirmedIsProven'
    BY <2>1
  <2>2. ASSUME NEW k \in Callers, NativeInstalls(k) PROVE ConfirmedIsProven'
    BY <2>0, <2>2 DEF NativeInstalls, Meets, Promoted, Pointer
  <2>3. CASE notifyAppReady
    BY <2>0, <2>3 DEF notifyAppReady, Meets, Confirmed, Pointer
  <2>4. CASE Crash
    BY <2>0, <2>4 DEF Crash, RolledBack, Pointer
  <2>5. ASSUME NEW k \in Callers, Step(k) \/ Ends(k), ~NativeInstalls(k)
        PROVE  ConfirmedIsProven'
    BY <2>5, <2>1 DEF Step, Ends, checkForUpdate, fetchLatestUpdate, downloadUpdate,
       downloadAndVerifyBundle, installUpdate, InstallReturns, Throws
  <2>6. CASE Start \/ Close \/ UNCHANGED vars
    BY <2>6, <2>1 DEF Start, Close, vars
  <2>7. ASSUME NEW c \in Configs, NEW r \in Releases, Publish(c, r)
        PROVE  ConfirmedIsProven'
    BY <2>7, <2>1 DEF Publish
  <2>8. ASSUME NEW c \in Configs, configure(c)
        PROVE  ConfirmedIsProven'
    BY <2>8, <2>1 DEF configure
  <2> HIDE DEF ConfirmedIsProven
  <2> QED
    BY <2>2, <2>3, <2>4, <2>5, <2>6, <2>7, <2>8 DEF Next
<1>3. ConfirmedIsProven => FallbackIsProven
  BY DEF ConfirmedIsProven, FallbackIsProven
<1> QED
  BY <1>1, <1>2, <1>3, InvHolds, PTL DEF Spec

-----------------------------------------------------------------------------
(* What an undisturbed sync installs.                                      *)

\* An idle caller remembers nothing; an undisturbed one is alone, and what the
\* module variables and the native call hold is what it found.
FoundIsKept(k) ==
    /\ call[k].pc = "idle" => call[k] = NoCall
    /\ call[k].undisturbed =>
         /\ \A j \in Callers \ {k} : call[j].pc = "idle"
         /\ call[k].pc = "verified" => verifiedBundle = call[k].update
         /\ call[k].pc = "installing" /\ call[k].update # None
              => call[k].id = call[k].update
         /\ call[k].pc = "installed" /\ call[k].update # None
              => pointer.current = call[k].update

SyncInv == \A k \in Callers : FoundIsKept(k)

LEMMA FoundIsKeptByStep ==
    ASSUME Inv, SyncInv, NEW k \in Callers, Step(k) \/ Ends(k)
    PROVE  SyncInv'
<1> USE DEF SyncInv, device
<1>0. /\ call \in [Callers -> Call] /\ pointer \in Pointer
      /\ verifiedBundleReleaseId = verifiedBundle
      /\ \A j \in Callers : FoundIsKept(j)
  BY DEF Inv, TypeOK, KeptTogether
<1>1. ASSUME NEW j \in Callers, j # k, call[k].pc # "idle",
             call' = [call EXCEPT ![k] = call'[k]]
      PROVE  FoundIsKept(j)'
  <2>1. call'[j] = call[j] /\ ~call[j].undisturbed
    BY <1>0, <1>1 DEF FoundIsKept
  <2> QED
    BY <1>0, <2>1 DEF FoundIsKept, NoCall
<1>2. ASSUME NEW j \in Callers, call'[j] = [call[j] EXCEPT !.undisturbed = FALSE]
      PROVE  FoundIsKept(j)'
  <2>1. ~call'[j].undisturbed /\ call'[j].pc = call[j].pc
    BY <1>0, <1>2 DEF Call
  <2>2. call[j].pc = "idle" => call'[j] = NoCall
    BY <1>0, <1>2, NoCallIsUndisturbed DEF FoundIsKept
  <2> QED
    BY <2>1, <2>2 DEF FoundIsKept, NoCall
<1>3. CASE checkForUpdate(k)
  <2>1. FoundIsKept(k)'
    BY <1>0, <1>3 DEF checkForUpdate, Enters, FoundIsKept, NoCall, Call
  <2>2. \A j \in Callers \ {k} : call'[j] = [call[j] EXCEPT !.undisturbed = FALSE]
    BY <1>3 DEF checkForUpdate, Enters
  <2> QED
    BY <1>2, <2>1, <2>2
<1>4. CASE installUpdate(k)
  <2>1. /\ call'[k].pc = "installing" /\ call'[k].id = verifiedBundle
        /\ call'[k].update = call[k].update
        /\ call'[k].undisturbed = call[k].undisturbed
        /\ call[k].pc \in {"verified", "idle"}
    BY <1>0, <1>4 DEF installUpdate, Native, Enters, Call
  <2>2. \A j \in Callers \ {k} : call'[j] = [call[j] EXCEPT !.undisturbed = FALSE]
    BY <1>4 DEF installUpdate, Native, Enters
  <2>3. \A j \in Callers \ {k} : call'[j].pc = call[j].pc
    BY <1>0, <2>2 DEF Call
  <2>4. call[k].undisturbed /\ call[k].update # None => verifiedBundle = call[k].update
    BY <1>0, <2>1, NoCallIsCall DEF FoundIsKept, NoCall
  <2>5. FoundIsKept(k)'
    BY <1>0, <2>1, <2>3, <2>4 DEF FoundIsKept
  <2> QED
    BY <1>2, <2>2, <2>5
<1>5. ASSUME fetchLatestUpdate(k) \/ downloadUpdate(k) \/ downloadAndVerifyBundle(k)
               \/ NativeInstalls(k) \/ InstallReturns(k) \/ Throws(k) \/ Ends(k)
      PROVE  SyncInv'
  <2>1. call[k].pc # "idle" /\ call' = [call EXCEPT ![k] = call'[k]]
    BY <1>0, <1>5 DEF fetchLatestUpdate, downloadUpdate, downloadAndVerifyBundle,
       NativeInstalls, InstallReturns, Throws, Ends, Proceeds
  <2>2. CASE call'[k] = NoCall
    BY <1>1, <2>1, <2>2, NoCallIsCall DEF FoundIsKept
  <2>3. ASSUME call'[k] # NoCall
        PROVE  FoundIsKept(k)'
    <3>1. \A j \in Callers \ {k} : call'[j].pc = call[j].pc
      BY <1>0, <2>1
    <3>2. CASE fetchLatestUpdate(k) \/ downloadUpdate(k)
      <4>1. /\ call'[k].pc \in {"offered", "downloading"}
            /\ call'[k].undisturbed = call[k].undisturbed
        <5>1. ASSUME fetchLatestUpdate(k)
              PROVE  call'[k] = [call[k] EXCEPT !.pc = "offered", !.with = None,
                                                !.update = offered[call[k].with]]
          BY <1>0, <2>3, <5>1 DEF fetchLatestUpdate, Proceeds
        <5>2. ASSUME downloadUpdate(k)
              PROVE  call'[k] = [call[k] EXCEPT !.pc = "downloading", !.with = config]
          BY <1>0, <5>2 DEF downloadUpdate, Proceeds
        <5>3. call[k] \in Call
          BY <1>0
        <5> QED
          BY <3>2, <5>1, <5>2, <5>3 DEF Call
      <4> QED
        BY <1>0, <3>1, <4>1 DEF FoundIsKept
    <3>3. CASE downloadAndVerifyBundle(k)
      BY <1>0, <3>1, <3>3 DEF downloadAndVerifyBundle, Proceeds, FoundIsKept, Call
    <3>4. CASE NativeInstalls(k)
      BY <1>0, <3>1, <3>4 DEF NativeInstalls, Proceeds, FoundIsKept, Call, Promoted
    <3>5. CASE InstallReturns(k) \/ Throws(k) \/ Ends(k)
      BY <1>0, <2>3, <3>5 DEF InstallReturns, Throws, Ends, Proceeds
    <3> QED
      BY <1>5, <3>2, <3>3, <3>4, <3>5
  <2> QED
    BY <1>1, <2>1, <2>2, <2>3
<1> QED
  BY <1>3, <1>4, <1>5 DEF Step

(* A sync nobody disturbs always makes current what it found.              *)
THEOREM UndisturbedSyncInstalls == Spec => []SyncInstallsWhatItFound
<1>1. Init => SyncInv
  BY NoCallIsCall DEF Init, SyncInv, FoundIsKept
<1>2. Inv /\ SyncInv /\ [Next]_vars => SyncInv'
  <2> SUFFICES ASSUME Inv, SyncInv, [Next]_vars PROVE SyncInv'
    OBVIOUS
  <2> USE DEF device
  <2>1. call \in [Callers -> Call] /\ pointer \in Pointer
    BY DEF Inv, TypeOK
  <2>2. ASSUME UNCHANGED <<call, facade, pointer>> PROVE SyncInv'
    BY <2>2 DEF SyncInv, FoundIsKept, NoCall, facade
  <2>3. ASSUME NEW c \in Configs, configure(c) PROVE SyncInv'
    <3>1. CASE call' = call
      BY <2>3, <3>1 DEF configure, SyncInv, FoundIsKept, NoCall
    <3>2. CASE \A k \in Callers : call'[k] = [call[k] EXCEPT !.undisturbed = FALSE]
      <4>1. \A k \in Callers : ~call'[k].undisturbed /\ call'[k].pc = call[k].pc
        BY <2>1, <3>2 DEF Call
      <4>2. \A k \in Callers : call[k].pc = "idle" => call'[k] = NoCall
        BY <3>2, NoCallIsUndisturbed DEF SyncInv, FoundIsKept
      <4> QED
        BY <4>1, <4>2 DEF SyncInv, FoundIsKept, NoCall
    <3> QED
      BY <2>3, <3>1, <3>2 DEF configure
  <2>4. CASE notifyAppReady
    BY <2>1, <2>4 DEF notifyAppReady, Confirmed, Pointer, SyncInv, FoundIsKept, NoCall, facade
  <2>5. CASE Crash \/ Close
    BY <2>5, NoCallIsCall DEF Crash, Close, Stop, SyncInv, FoundIsKept
  <2>6. ASSUME NEW k \in Callers, Step(k) \/ Ends(k) PROVE SyncInv'
    BY <2>6, FoundIsKeptByStep
  <2>7. ASSUME NEW c \in Configs, NEW r \in Releases, Publish(c, r)
        PROVE  UNCHANGED <<call, facade, pointer>>
    BY <2>7 DEF Publish
  <2>8. ASSUME Start \/ UNCHANGED vars
        PROVE  UNCHANGED <<call, facade, pointer>>
    BY <2>8 DEF Start, vars
  <2> QED
    BY <2>2, <2>3, <2>4, <2>5, <2>6, <2>7, <2>8 DEF Next
<1>3. SyncInv => SyncInstallsWhatItFound
  BY DEF SyncInv, FoundIsKept, SyncInstallsWhatItFound
<1> QED
  BY <1>1, <1>2, <1>3, InvHolds, PTL DEF Spec
=============================================================================
