------------------------- MODULE CrashHandlersProofs -------------------------
(***************************************************************************)
(* Theorems about CrashHandlers, for any signals, any threads, any depth   *)
(* of stack and any number of installations.                               *)
(***************************************************************************)
EXTENDS CrashHandlers, TLAPS

(* A process that is gone, or not there yet, has nothing in memory.        *)
LEMMA FreshProcess ==
    /\ Idle \in [pc : {"idle", "save", "swap"}, todo : SUBSET Signals,
                 sig : Signals \cup {NoSignal}]
    /\ Idle.pc # "swap"
    /\ Running \in Crash /\ Running.pc = "run"
    /\ Living \in Death
  BY MaxFramesIsPositive DEF Idle, Running, Living, Crash, Death, Steps

LEMMA EndsKeepsTypes ==
    ASSUME TypeOK, NEW d \in Death, Ends(d), marker' = marker,
           reported' \subseteq Signals, met' \subseteq Circumstances
    PROVE  TypeOK'
  BY FreshProcess, MaxInstallsIsPositive DEF TypeOK, Ends, Handlers

LEMMA BlowsAreDeaths ==
    ASSUME TypeOK
    PROVE  /\ \A s \in Signals : Blow(s) \in Death
           /\ \A t \in Threads : BlowOf(t) \in Death
  BY DEF TypeOK, Blow, BlowOf, Death, Crash

(* Every step of a thread in a handler keeps the types.                    *)
LEMMA TypeOfHandle ==
    ASSUME TypeOK, NEW t \in Threads, Handle(t)
    PROVE  TypeOK'
<1> USE MaxFramesIsPositive DEF installation, Goes, Crash, Steps, Handlers, Circumstances
<1>1. CASE Report(t)
  <2>1. crash' \in [Threads -> Crash]
    BY <1>1 DEF TypeOK, Report, Nest
  <2>2. \A u \in Threads : crash'[u].pc # "run" => crash'[u].sig \in Signals
    BY <1>1 DEF TypeOK, Report, Nest
  <2>3. reported' \subseteq Signals
    BY <1>1 DEF TypeOK, Report
  <2> QED
    BY <1>1, <2>1, <2>2, <2>3 DEF TypeOK, Report
<1>2. CASE ReportAndEnd(t)
  <2>1. reported' \subseteq Signals
    BY <1>2 DEF TypeOK, ReportAndEnd
  <2> QED
    BY <1>2, <2>1, EndsKeepsTypes, BlowsAreDeaths DEF TypeOK, ReportAndEnd
<1>3. CASE StackFills(t)
  <2>1. met' \subseteq Circumstances
    BY <1>3 DEF TypeOK, StackFills
  <2> QED
    BY <1>3, <2>1, EndsKeepsTypes, BlowsAreDeaths DEF TypeOK, StackFills
<1>4. CASE OpenMarker(t)
  BY <1>4 DEF TypeOK, OpenMarker
<1>5. CASE WriteMarker(t)
  BY <1>5 DEF TypeOK, WriteMarker
<1>6. CASE Chain(t)
  <2>1. crash' \in [Threads -> Crash]
    BY <1>6 DEF TypeOK, Chain, Nest
  <2>2. \A u \in Threads : crash'[u].pc # "run" => crash'[u].sig \in Signals
    BY <1>6 DEF TypeOK, Chain, Nest
  <2> QED
    BY <1>6, <2>1, <2>2 DEF TypeOK, Chain
<1>7. CASE Reset(t)
  BY <1>7 DEF TypeOK, Reset
<1>8. CASE Raise(t)
  BY <1>8, EndsKeepsTypes, BlowsAreDeaths DEF TypeOK, Raise
<1>9. CASE RaiseAgain(t)
  <2>1. crash' \in [Threads -> Crash]
    <3>1. crash[t] \in Crash /\ 1 \in 0..MaxFrames /\ 0 \in 0..MaxFrames
      BY DEF TypeOK
    <3>2. CASE disposition[crash[t].sig] = "ours"
      BY <1>9, <3>1, <3>2 DEF TypeOK, RaiseAgain
    <3>3. CASE disposition[crash[t].sig] # "ours"
      BY <1>9, <3>1, <3>3 DEF TypeOK, RaiseAgain
    <3> QED
      BY <3>2, <3>3
  <2>2. \A u \in Threads : crash'[u].pc # "run" => crash'[u].sig \in Signals
    BY <1>9 DEF TypeOK, RaiseAgain
  <2> QED
    BY <1>9, <2>1, <2>2 DEF TypeOK, RaiseAgain
<1> QED
  BY <1>1, <1>2, <1>3, <1>4, <1>5, <1>6, <1>7, <1>8, <1>9 DEF Handle

LEMMA TypeStep == TypeOK /\ [Next]_vars => TypeOK'
<1> SUFFICES ASSUME TypeOK, [Next]_vars PROVE TypeOK'
  OBVIOUS
<1> USE DEF installation, Circumstances
<1>1. CASE CallInstall
  BY <1>1, MaxInstallsIsPositive DEF TypeOK, CallInstall, Installing, Meets
<1>2. ASSUME NEW s \in Signals, Save(s) PROVE TypeOK'
  BY <1>2 DEF TypeOK, Save
<1>3. ASSUME NEW s \in Signals, StackOverflows(s) PROVE TypeOK'
  BY <1>3, EndsKeepsTypes, BlowsAreDeaths DEF TypeOK, StackOverflows
<1>4. ASSUME NEW s \in Watched, ReporterInstalls(s) PROVE TypeOK'
  BY <1>4, WatchedAreSignals DEF TypeOK, ReporterInstalls, Meets, Handlers
<1>5. CASE Swap
  <2>1. install' \in [pc : {"idle", "save", "swap"}, todo : SUBSET Signals,
                      sig : Signals \cup {NoSignal}]
    BY <1>5, FreshProcess DEF TypeOK, Swap
  <2>2. install'.pc # "swap"
    BY <1>5, FreshProcess DEF TypeOK, Swap
  <2> QED
    BY <1>5, <2>1, <2>2 DEF TypeOK, Swap, Handlers
<1>6. ASSUME NEW t \in Threads, NEW s \in Signals, SignalArrives(t, s) PROVE TypeOK'
  <2>1. crash' \in [Threads -> Crash]
    BY <1>6, MaxFramesIsPositive DEF TypeOK, SignalArrives, Crash, Steps
  <2>2. \A u \in Threads : crash'[u].pc # "run" => crash'[u].sig \in Signals
    BY <1>6 DEF TypeOK, SignalArrives
  <2>3. met' \subseteq Circumstances
    BY <1>6 DEF TypeOK, SignalArrives, CanStrike, Meets
  <2> QED
    BY <1>6, <2>1, <2>2, <2>3 DEF TypeOK, SignalArrives
<1>7. ASSUME NEW t \in Threads, NEW s \in Signals, Unhandled(t, s) PROVE TypeOK'
  <2>1. met' \subseteq Circumstances
    BY <1>7 DEF TypeOK, Unhandled, CanStrike, Meets
  <2> QED
    BY <1>7, <2>1, EndsKeepsTypes, BlowsAreDeaths DEF TypeOK, Unhandled
<1>8. ASSUME NEW t \in Threads, Handle(t) PROVE TypeOK'
  BY <1>8, TypeOfHandle
<1>9. CASE UNCHANGED vars
  BY <1>9 DEF TypeOK, vars
<1> QED
  BY <1>1, <1>2, <1>3, <1>4, <1>5, <1>6, <1>7, <1>8, <1>9 DEF Next

(* Every variable keeps its type, the frames on a stack their bound.       *)
THEOREM TypeCorrect == Spec => []TypeOK
<1>1. Init => TypeOK
  BY FreshProcess, MaxInstallsIsPositive, IgnoredAreSignals
     DEF Init, TypeOK, Handlers
<1>2. TypeOK /\ [Next]_vars => TypeOK'
  BY TypeStep
<1> QED
  BY <1>1, <1>2, PTL DEF Spec

-----------------------------------------------------------------------------
(***************************************************************************)
(* What both arguments need of the threads: a thread that is in a handler  *)
(* has its signal blocked, and only one thread is.                         *)
(***************************************************************************)
Shielded ==
    \A t \in Threads :
        /\ crash[t].blocked # {} => crash[t].pc # "run"
        /\ crash[t].pc # "run" => crash[t].sig \in crash[t].blocked

AloneInHandler ==
    \A t, u \in Threads : crash[t].pc # "run" /\ crash[u].pc # "run" => t = u

LEMMA EndsShielded ==
    ASSUME NEW d, Ends(d)
    PROVE  Shielded' /\ AloneInHandler'
  BY DEF Ends, Shielded, AloneInHandler, Running

LEMMA ShieldedStep ==
    ASSUME TypeOK, Shielded, [Next]_vars
    PROVE  Shielded'
<1> USE DEF Shielded, TypeOK, Crash
<1>1. CASE UNCHANGED crash
  BY <1>1
<1>2. ASSUME NEW t \in Threads, NEW s \in Signals, SignalArrives(t, s) PROVE Shielded'
  BY <1>2 DEF SignalArrives
<1>3. ASSUME NEW d, Ends(d) PROVE Shielded'
  BY <1>3, EndsShielded
<1>4. ASSUME NEW t \in Threads, Handle(t) PROVE Shielded'
  <2> USE DEF Goes
  <2>1. CASE Report(t)
    BY <1>4, <2>1 DEF Report, Nest
  <2>2. CASE OpenMarker(t) \/ WriteMarker(t)
    BY <1>4, <2>2 DEF OpenMarker, WriteMarker
  <2>3. CASE Chain(t) \/ Reset(t)
    BY <1>4, <2>3 DEF Chain, Nest, Reset
  <2>4. CASE RaiseAgain(t)
    BY <1>4, <2>4 DEF RaiseAgain
  <2>5. CASE ReportAndEnd(t) \/ StackFills(t) \/ Raise(t)
    BY <1>3, <2>5 DEF ReportAndEnd, StackFills, Raise
  <2> QED
    BY <1>4, <2>1, <2>2, <2>3, <2>4, <2>5 DEF Handle
<1> QED
  BY <1>1, <1>2, <1>3, <1>4
     DEF Next, StackOverflows, Unhandled, CallInstall, Save, ReporterInstalls, Swap, vars

LEMMA AloneStep ==
    ASSUME TypeOK, AloneInHandler, [Next]_vars, "together" \notin met'
    PROVE  AloneInHandler'
<1> USE DEF AloneInHandler, TypeOK, Crash
<1>1. CASE UNCHANGED crash
  BY <1>1
<1>2. ASSUME NEW t \in Threads, NEW s \in Signals, SignalArrives(t, s)
      PROVE  AloneInHandler'
  BY <1>2 DEF SignalArrives, CanStrike, Meets
<1>3. ASSUME NEW d, Ends(d) PROVE AloneInHandler'
  BY <1>3, EndsShielded
<1>4. ASSUME NEW t \in Threads, Handle(t) PROVE AloneInHandler'
  <2> USE DEF Goes
  <2>1. CASE Report(t)
    BY <1>4, <2>1 DEF Report, Nest
  <2>2. CASE OpenMarker(t) \/ WriteMarker(t)
    BY <1>4, <2>2 DEF OpenMarker, WriteMarker
  <2>3. CASE Chain(t) \/ Reset(t)
    BY <1>4, <2>3 DEF Chain, Nest, Reset
  <2>4. CASE RaiseAgain(t)
    BY <1>4, <2>4 DEF RaiseAgain
  <2>5. CASE ReportAndEnd(t) \/ StackFills(t) \/ Raise(t)
    BY <1>3, <2>5 DEF ReportAndEnd, StackFills, Raise
  <2> QED
    BY <1>4, <2>1, <2>2, <2>3, <2>4, <2>5 DEF Handle
<1> QED
  BY <1>1, <1>2, <1>3, <1>4
     DEF Next, StackOverflows, Unhandled, CallInstall, Save, ReporterInstalls, Swap, vars

\* Reset by a thread that still has it blocked.
Disarmed(s) == \E u \in Threads : s \in crash[u].blocked

-----------------------------------------------------------------------------
(* The marker.                                                             *)

Undisturbed == met \cap {"together", "overflow", "disk"} = {}

\* Past writeCrashMarker the marker is whole, in between it is torn.
MarkerFollows ==
    \A t \in Threads :
        /\ crash[t].pc = "write" => marker = "torn"
        /\ crash[t].pc \in {"chain", "reset", "raise"} => marker = "whole"
        /\ crash[t].pc = "report" /\ crash[t].frames > 0 => marker = "whole"

\* A reporter that was called first calls our handler, or was called after it.
ReporterHandsOn ==
    \A t \in Threads :
        crash[t].pc = "report" /\ crash[t].frames = 0 /\ crash[t].guarded
            => reporter[crash[t].sig] = "ours" \/ marker = "whole"

ArmedIsOurs ==
    \A s \in armed :
        \/ disposition[s] = "ours"
        \/ disposition[s] = "reporter" /\ reporter[s] = "ours"
        \/ Disarmed(s)

MarkerInv ==
    /\ TypeOK
    /\ Shielded
    /\ Undisturbed =>
         AloneInHandler /\ MarkerFollows /\ ReporterHandsOn /\ ArmedIsOurs
    /\ DeathLeavesMarker

(* Nothing that has happened is forgotten.                                 *)
LEMMA MetGrows ==
    ASSUME TypeOK, [Next]_vars
    PROVE  met \subseteq met'
<1>1. ASSUME NEW t \in Threads, Handle(t) PROVE met \subseteq met'
  BY <1>1 DEF Handle, Report, ReportAndEnd, StackFills, OpenMarker, WriteMarker,
              Chain, Reset, Raise, RaiseAgain
<1> QED
  BY <1>1 DEF Next, CallInstall, Save, StackOverflows, ReporterInstalls, Swap,
              SignalArrives, Unhandled, CanStrike, Meets, vars

(* A process that ends takes with it all that is said of its threads.      *)
LEMMA EndsQuietly ==
    ASSUME NEW d, Ends(d)
    PROVE  MarkerFollows' /\ ReporterHandsOn' /\ ArmedIsOurs'
  BY DEF Ends, MarkerFollows, ReporterHandsOn, ArmedIsOurs, Running

LEMMA MarkerPartsOfHandle ==
    ASSUME TypeOK, Shielded, AloneInHandler, MarkerFollows, ReporterHandsOn,
           ArmedIsOurs, Undisturbed', NEW t \in Threads, Handle(t)
    PROVE  MarkerFollows' /\ ReporterHandsOn' /\ ArmedIsOurs'
<1> USE DEF TypeOK, Crash, Goes, installation
<1>1. CASE Report(t)
  <2>1. MarkerFollows'
    BY <1>1 DEF MarkerFollows, Report, Nest
  <2>2. ReporterHandsOn'
    <3>1. crash'[t].pc # "report"
      BY <1>1 DEF Report, Nest
    <3>2. \A u \in Threads \ {t} : crash'[u] = crash[u]
      BY <1>1 DEF Report, Nest
    <3> QED
      BY <1>1, <3>1, <3>2 DEF ReporterHandsOn, Report
  <2>3. ArmedIsOurs'
    <3>1. CASE Goes(t, "reset")
      BY <1>1, <3>1 DEF ArmedIsOurs, Disarmed, Report
    <3>2. CASE Nest(t)
      BY <1>1, <3>2 DEF ArmedIsOurs, Disarmed, Report, Nest
    <3> QED
      BY <1>1, <3>1, <3>2 DEF Report
  <2> QED
    BY <2>1, <2>2, <2>3
<1>2. CASE OpenMarker(t)
  <2>0. crash[t].pc = "open" /\ "disk" \notin met'
    BY <1>2 DEF OpenMarker, Undisturbed
  <2>1. MarkerFollows'
    BY <1>2, <2>0 DEF MarkerFollows, OpenMarker, AloneInHandler
  <2>2. ReporterHandsOn'
    BY <1>2, <2>0 DEF ReporterHandsOn, OpenMarker, AloneInHandler
  <2>3. ArmedIsOurs'
    <3>1. crash' = [crash EXCEPT ![t].pc = "write"] /\ UNCHANGED <<disposition, reporter, armed>>
      BY <1>2, <2>0 DEF OpenMarker
    <3> QED
      BY <3>1 DEF ArmedIsOurs, Disarmed
  <2> QED
    BY <2>1, <2>2, <2>3
<1>3. CASE WriteMarker(t)
  <2>0. crash[t].pc = "write" /\ "disk" \notin met'
    BY <1>3 DEF WriteMarker, Undisturbed
  <2>1. marker' = "whole"
    BY <1>3, <2>0 DEF WriteMarker, MarkerFollows
  <2>2. MarkerFollows'
    BY <1>3, <2>0, <2>1 DEF MarkerFollows, WriteMarker, AloneInHandler
  <2>3. ReporterHandsOn'
    BY <2>1 DEF ReporterHandsOn
  <2>4. ArmedIsOurs'
    BY <1>3 DEF ArmedIsOurs, Disarmed, WriteMarker
  <2> QED
    BY <2>2, <2>3, <2>4
<1>4. CASE Chain(t)
  <2>1. MarkerFollows'
    BY <1>4 DEF MarkerFollows, Chain, Nest
  <2>2. ReporterHandsOn'
    BY <1>4 DEF ReporterHandsOn, Chain, Nest, MarkerFollows
  <2>3. ArmedIsOurs'
    BY <1>4 DEF ArmedIsOurs, Disarmed, Chain, Nest
  <2> QED
    BY <2>1, <2>2, <2>3
<1>5. CASE Reset(t)
  <2>1. MarkerFollows'
    BY <1>5 DEF MarkerFollows, Reset
  <2>2. ReporterHandsOn'
    BY <1>5 DEF ReporterHandsOn, Reset
  <2>3. ArmedIsOurs'
    BY <1>5 DEF ArmedIsOurs, Disarmed, Reset, Shielded
  <2> QED
    BY <2>1, <2>2, <2>3
<1>6. CASE RaiseAgain(t)
  <2>1. MarkerFollows'
    BY <1>6 DEF MarkerFollows, RaiseAgain
  <2>2. ReporterHandsOn'
    BY <1>6 DEF ReporterHandsOn, RaiseAgain, MarkerFollows
  <2>3. ArmedIsOurs'
    BY <1>6 DEF ArmedIsOurs, Disarmed, RaiseAgain
  <2> QED
    BY <2>1, <2>2, <2>3
<1>7. CASE ReportAndEnd(t) \/ StackFills(t) \/ Raise(t)
  BY <1>7, EndsQuietly DEF ReportAndEnd, StackFills, Raise
<1> QED
  BY <1>1, <1>2, <1>3, <1>4, <1>5, <1>6, <1>7 DEF Handle

LEMMA MarkerParts ==
    ASSUME MarkerInv, [Next]_vars, Undisturbed'
    PROVE  AloneInHandler' /\ MarkerFollows' /\ ReporterHandsOn' /\ ArmedIsOurs'
<1>1. TypeOK /\ Shielded /\ "together" \notin met'
  BY DEF MarkerInv, Undisturbed
<1>2. AloneInHandler /\ MarkerFollows /\ ReporterHandsOn /\ ArmedIsOurs
  BY MetGrows DEF MarkerInv, Undisturbed
<1>3. AloneInHandler'
  BY <1>1, <1>2, AloneStep
<1> USE DEF installation
<1>4. ASSUME NEW s \in Signals, Save(s)
      PROVE  MarkerFollows' /\ ReporterHandsOn' /\ ArmedIsOurs'
  BY <1>2, <1>4 DEF MarkerFollows, ReporterHandsOn, ArmedIsOurs, Disarmed, Save
<1>5. CASE CallInstall \/ UNCHANGED vars
  BY <1>2, <1>3, <1>5
     DEF MarkerFollows, ReporterHandsOn, ArmedIsOurs, Disarmed, CallInstall, vars
<1>6. ASSUME NEW s \in Signals, ReporterInstalls(s)
      PROVE  MarkerFollows' /\ ReporterHandsOn' /\ ArmedIsOurs'
  <2>1. MarkerFollows'
    BY <1>2, <1>6 DEF MarkerFollows, ReporterInstalls
  <2>2. ReporterHandsOn'
    BY <1>1, <1>2, <1>6 DEF ReporterHandsOn, ReporterInstalls, TypeOK
  <2>3. ArmedIsOurs'
    BY <1>1, <1>2, <1>6 DEF ArmedIsOurs, Disarmed, ReporterInstalls, TypeOK
  <2> QED
    BY <2>1, <2>2, <2>3
<1>7. CASE Swap
  <2>1. MarkerFollows' /\ ReporterHandsOn'
    BY <1>2, <1>7 DEF MarkerFollows, ReporterHandsOn, Swap
  <2>2. ArmedIsOurs'
    BY <1>1, <1>2, <1>7 DEF ArmedIsOurs, Disarmed, Swap, TypeOK
  <2> QED
    BY <1>3, <2>1, <2>2
<1>8. ASSUME NEW t \in Threads, NEW s \in Signals, SignalArrives(t, s)
      PROVE  MarkerFollows' /\ ReporterHandsOn' /\ ArmedIsOurs'
  <2> USE DEF TypeOK, Crash
  <2>0. \A u \in Threads \ {t} : crash[u].pc = "run"
    BY <1>1, <1>8 DEF SignalArrives, CanStrike, Meets
  <2>1. MarkerFollows'
    BY <1>1, <1>2, <1>8 DEF MarkerFollows, SignalArrives
  <2>2. ReporterHandsOn'
    <3>1. ~Disarmed(s)
      BY <1>1, <1>8, <2>0 DEF Disarmed, Shielded, SignalArrives, CanStrike
    <3> QED
      BY <1>1, <1>2, <1>8, <3>1 DEF ReporterHandsOn, ArmedIsOurs, SignalArrives
  <2>3. ArmedIsOurs'
    BY <1>1, <1>2, <1>8 DEF ArmedIsOurs, Disarmed, SignalArrives
  <2> QED
    BY <2>1, <2>2, <2>3
<1>9. ASSUME NEW t \in Threads, NEW s \in Signals, Unhandled(t, s)
      PROVE  MarkerFollows' /\ ReporterHandsOn' /\ ArmedIsOurs'
  BY <1>9, EndsQuietly DEF Unhandled
<1>10. ASSUME NEW t \in Threads, Handle(t)
      PROVE  MarkerFollows' /\ ReporterHandsOn' /\ ArmedIsOurs'
  BY <1>1, <1>2, <1>10, MarkerPartsOfHandle
<1>11. ASSUME NEW s \in Signals, StackOverflows(s)
      PROVE  MarkerFollows' /\ ReporterHandsOn' /\ ArmedIsOurs'
  BY <1>11, EndsQuietly DEF StackOverflows
<1> QED
  BY <1>3, <1>4, <1>5, <1>6, <1>7, <1>8, <1>9, <1>10, <1>11, WatchedAreSignals
     DEF Next

(* The process can only die where the marker is whole.                     *)
LEMMA MarkerAtDeath ==
    ASSUME MarkerInv, [Next]_vars
    PROVE  DeathLeavesMarker'
<1>1. TypeOK /\ Shielded /\ met \subseteq met'
  BY MetGrows DEF MarkerInv
<1>2. CASE UNCHANGED <<death, marker>>
  BY <1>1, <1>2 DEF MarkerInv, DeathLeavesMarker
<1>3. CASE Alive /\ UNCHANGED death
  BY <1>3 DEF DeathLeavesMarker, Alive, Living
<1>4. ASSUME NEW t \in Threads, NEW s \in Signals, Unhandled(t, s)
      PROVE  DeathLeavesMarker'
  <2>1. ASSUME s \in armed, Undisturbed' PROVE FALSE
    <3>1. Disarmed(s)
      BY <1>1, <1>4, <2>1 DEF MarkerInv, Undisturbed, ArmedIsOurs, Unhandled
    <3> QED
      BY <1>1, <1>4, <2>1, <3>1
         DEF Disarmed, Shielded, Unhandled, CanStrike, Meets, Undisturbed
  <2> QED
    BY <1>4, <2>1 DEF Unhandled, Ends, Blow, DeathLeavesMarker, Undisturbed
<1>5. ASSUME NEW s \in Signals, StackOverflows(s) PROVE DeathLeavesMarker'
  BY <1>5 DEF StackOverflows, DeathLeavesMarker
<1>6. ASSUME NEW t \in Threads, ReportAndEnd(t) \/ StackFills(t) \/ Raise(t)
      PROVE  DeathLeavesMarker'
  <2>1. ASSUME Undisturbed', crash[t].guarded PROVE marker = "whole"
    <3>1. MarkerFollows /\ ReporterHandsOn
      BY <1>1, <2>1 DEF MarkerInv, Undisturbed
    <3>2. CASE ReportAndEnd(t)
      <4>1. crash[t].frames \in 0..MaxFrames /\ MaxFrames > 0
        BY <1>1, MaxFramesIsPositive DEF TypeOK, Crash
      <4> QED
        BY <2>1, <3>1, <3>2, <4>1 DEF MarkerFollows, ReporterHandsOn, ReportAndEnd
    <3>3. CASE StackFills(t)
      BY <2>1, <3>3 DEF StackFills, Undisturbed
    <3>4. CASE Raise(t)
      BY <3>1, <3>4 DEF MarkerFollows, Raise
    <3> QED
      BY <1>6, <3>2, <3>3, <3>4
  <2>2. death' = BlowOf(t) /\ UNCHANGED marker
    BY <1>6 DEF ReportAndEnd, StackFills, Raise, Ends
  <2> QED
    BY <2>1, <2>2 DEF BlowOf, DeathLeavesMarker, Undisturbed
<1>7. ASSUME NEW t \in Threads, Handle(t) PROVE DeathLeavesMarker'
  BY <1>2, <1>3, <1>6, <1>7
     DEF Handle, Report, OpenMarker, WriteMarker, Chain, Reset, RaiseAgain
<1> QED
  BY <1>2, <1>4, <1>5, <1>7
     DEF Next, CallInstall, Save, ReporterInstalls, Swap, SignalArrives, vars

(* A process that dies of a guarded signal leaves a whole crash.marker,    *)
(* whatever is chained to whom, barring two threads struck at once, a full *)
(* disk, and a full stack, which is also what handlers installed twice may *)
(* come to by calling themselves.                                          *)
THEOREM DeathAlwaysLeavesMarker == Spec => []DeathLeavesMarker
<1>1. Init => MarkerInv
  <2> SUFFICES ASSUME Init PROVE MarkerInv
    OBVIOUS
  <2>1. TypeOK
    BY FreshProcess, MaxInstallsIsPositive, IgnoredAreSignals DEF Init, TypeOK, Handlers
  <2>2. Shielded /\ AloneInHandler /\ MarkerFollows /\ ReporterHandsOn
    BY DEF Init, Running, Shielded, AloneInHandler, MarkerFollows, ReporterHandsOn
  <2>3. ArmedIsOurs /\ DeathLeavesMarker
    BY DEF Init, ArmedIsOurs, DeathLeavesMarker, Living
  <2> QED
    BY <2>1, <2>2, <2>3 DEF MarkerInv
<1>2. MarkerInv /\ [Next]_vars => MarkerInv'
  <2> SUFFICES ASSUME MarkerInv, [Next]_vars PROVE MarkerInv'
    OBVIOUS
  <2>1. TypeOK' /\ Shielded'
    BY TypeStep, ShieldedStep DEF MarkerInv
  <2> QED
    BY <2>1, MarkerParts, MarkerAtDeath DEF MarkerInv
<1>3. MarkerInv => DeathLeavesMarker
  BY DEF MarkerInv
<1> QED
  BY <1>1, <1>2, <1>3, PTL DEF Spec

-----------------------------------------------------------------------------
(* The reporter.                                                           *)

Calm == met \cap {"again", "between", "together", "overflow"} = {}

\* One installation, and what it has still to do is not yet done.
InstalledOnce ==
    /\ installs = 0 => armed = {} /\ install = Idle
    /\ install.todo \cap armed = {}
    /\ install.pc = "swap" => install.sig \in install.todo
    /\ \A s \in Signals : previous[s] # "ours"

\* Before its installation a signal is not ours, nor handed to us.
UnarmedIsTheirs ==
    \A s \in Signals \ armed :
        /\ disposition[s] # "ours"
        /\ reporter[s] # "ours"
        /\ reporter[s] # "none" => disposition[s] = "reporter"

\* Our handler runs only for what has been installed.
OursIsArmed ==
    \A t \in Threads :
        crash[t].pc \in {"open", "write", "chain", "reset", "raise"}
        \/ crash[t].frames > 0
        => crash[t].sig \in armed

\* Whoever has displaced the reporter has saved it.
ReporterIsSaved ==
    \A s \in Signals : reporter[s] # "none" =>
        /\ disposition[s] = "ours" => previous[s] = "reporter"
        /\ install.pc = "swap" /\ install.sig = s => previous[s] = "reporter"
        /\ disposition[s] = "default" => Disarmed(s)

ReporterIsNext ==
    \A t \in Threads :
        crash[t].expected /\ crash[t].pc # "run" =>
            \/ crash[t].sig \in reported
            \/ crash[t].pc = "report"
            \/ /\ crash[t].pc \in {"open", "write", "chain"}
               /\ previous[crash[t].sig] = "reporter"

ReporterParts == InstalledOnce /\ UnarmedIsTheirs /\ OursIsArmed /\ ReporterIsSaved

ReporterInv ==
    /\ TypeOK
    /\ Shielded
    /\ Calm => ReporterParts /\ ReporterIsNext
    /\ ReporterHears

(* What is said of the installations, of the threads, and of who is saved. *)
LEMMA ReporterPartsOfHandle ==
    ASSUME TypeOK, Shielded, ReporterParts, NEW t \in Threads, Handle(t)
    PROVE  ReporterParts'
<1> USE DEF TypeOK, Crash, Goes, installation, ReporterParts
<1>1. CASE Report(t)
  <2>1. InstalledOnce' /\ UnarmedIsTheirs'
    BY <1>1 DEF InstalledOnce, UnarmedIsTheirs, Report
  <2>2. OursIsArmed'
    BY <1>1 DEF OursIsArmed, UnarmedIsTheirs, Report, Nest
  <2>3. ReporterIsSaved'
    BY <1>1 DEF ReporterIsSaved, Disarmed, Report, Nest
  <2> QED
    BY <2>1, <2>2, <2>3
<1>2. CASE OpenMarker(t) \/ WriteMarker(t)
  <2>1. InstalledOnce' /\ UnarmedIsTheirs'
    BY <1>2 DEF InstalledOnce, UnarmedIsTheirs, OpenMarker, WriteMarker
  <2>2. OursIsArmed'
    BY <1>2 DEF OursIsArmed, OpenMarker, WriteMarker
  <2>3. ReporterIsSaved'
    BY <1>2 DEF ReporterIsSaved, Disarmed, OpenMarker, WriteMarker
  <2> QED
    BY <2>1, <2>2, <2>3
<1>3. CASE Chain(t)
  <2>1. InstalledOnce' /\ UnarmedIsTheirs'
    BY <1>3 DEF InstalledOnce, UnarmedIsTheirs, Chain
  <2>2. OursIsArmed'
    BY <1>3 DEF OursIsArmed, Chain, Nest
  <2>3. ReporterIsSaved'
    BY <1>3 DEF ReporterIsSaved, Disarmed, Chain, Nest
  <2> QED
    BY <2>1, <2>2, <2>3
<1>4. CASE Reset(t)
  <2>0. crash[t].sig \in armed
    BY <1>4 DEF OursIsArmed, Reset
  <2>1. InstalledOnce' /\ UnarmedIsTheirs'
    BY <1>4, <2>0 DEF InstalledOnce, UnarmedIsTheirs, Reset
  <2>2. OursIsArmed'
    BY <1>4 DEF OursIsArmed, Reset
  <2>3. ReporterIsSaved'
    BY <1>4 DEF ReporterIsSaved, Disarmed, Reset, Shielded
  <2> QED
    BY <2>1, <2>2, <2>3
<1>5. CASE RaiseAgain(t)
  <2>1. InstalledOnce' /\ UnarmedIsTheirs'
    BY <1>5 DEF InstalledOnce, UnarmedIsTheirs, RaiseAgain
  <2>2. OursIsArmed'
    BY <1>5 DEF OursIsArmed, RaiseAgain
  <2>3. ReporterIsSaved'
    BY <1>5 DEF ReporterIsSaved, Disarmed, RaiseAgain
  <2> QED
    BY <2>1, <2>2, <2>3
<1>6. ASSUME NEW d, Ends(d) PROVE ReporterParts'
  BY <1>6 DEF Ends, InstalledOnce, UnarmedIsTheirs, OursIsArmed, ReporterIsSaved,
              Running, Idle
<1>7. CASE ReportAndEnd(t) \/ StackFills(t) \/ Raise(t)
  BY <1>6, <1>7 DEF ReportAndEnd, StackFills, Raise
<1> QED
  BY <1>1, <1>2, <1>3, <1>4, <1>5, <1>7 DEF Handle

LEMMA ReporterPartsStep ==
    ASSUME TypeOK, Shielded, ReporterParts, [Next]_vars, Calm'
    PROVE  ReporterParts'
<1> USE DEF TypeOK, Crash, installation, ReporterParts
<1>1. CASE CallInstall
  <2>1. armed = {}
    BY <1>1 DEF InstalledOnce, CallInstall, CalledOnce, Meets, Calm
  <2>2. InstalledOnce'
    BY <1>1, <2>1 DEF InstalledOnce, CallInstall, Installing
  <2>3. UnarmedIsTheirs' /\ OursIsArmed'
    BY <1>1 DEF UnarmedIsTheirs, OursIsArmed, CallInstall
  <2>4. ReporterIsSaved'
    BY <1>1 DEF ReporterIsSaved, Disarmed, CallInstall, Installing
  <2> QED
    BY <2>2, <2>3, <2>4
<1>2. ASSUME NEW s \in Signals, Save(s) PROVE ReporterParts'
  <2>0. s \notin armed /\ disposition[s] # "ours"
    BY <1>2 DEF InstalledOnce, UnarmedIsTheirs, Save
  <2>1. InstalledOnce'
    BY <1>2, <2>0 DEF InstalledOnce, Save, Idle
  <2>2. UnarmedIsTheirs' /\ OursIsArmed'
    BY <1>2 DEF UnarmedIsTheirs, OursIsArmed, Save
  <2>3. ReporterIsSaved'
    BY <1>2, <2>0 DEF ReporterIsSaved, UnarmedIsTheirs, Disarmed, Save
  <2> QED
    BY <2>1, <2>2, <2>3
<1>3. ASSUME NEW s \in Signals, ReporterInstalls(s) PROVE ReporterParts'
  <2>0. ~(install.pc = "swap" /\ install.sig = s)
    BY <1>3 DEF ReporterInstalls, Meets, Calm
  <2>1. InstalledOnce' /\ OursIsArmed'
    BY <1>3 DEF InstalledOnce, OursIsArmed, ReporterInstalls
  <2>2. UnarmedIsTheirs'
    BY <1>3 DEF UnarmedIsTheirs, ReporterInstalls
  <2>3. ReporterIsSaved'
    BY <1>3, <2>0 DEF ReporterIsSaved, Disarmed, ReporterInstalls
  <2> QED
    BY <2>1, <2>2, <2>3
<1>4. CASE Swap
  <2>0. install.sig \in Signals /\ install.sig \in install.todo
    BY <1>4 DEF InstalledOnce, Swap
  <2>1. InstalledOnce'
    BY <1>4, <2>0 DEF InstalledOnce, Swap, Idle
  <2>2. UnarmedIsTheirs' /\ OursIsArmed'
    BY <1>4, <2>0 DEF UnarmedIsTheirs, OursIsArmed, Swap
  <2>3. ReporterIsSaved'
    BY <1>4, <2>0 DEF ReporterIsSaved, Disarmed, Swap, Idle
  <2> QED
    BY <2>1, <2>2, <2>3
<1>5. ASSUME NEW t \in Threads, NEW s \in Signals, SignalArrives(t, s)
      PROVE  ReporterParts'
  <2>1. InstalledOnce' /\ UnarmedIsTheirs'
    BY <1>5 DEF InstalledOnce, UnarmedIsTheirs, SignalArrives
  <2>2. OursIsArmed'
    BY <1>5 DEF OursIsArmed, UnarmedIsTheirs, SignalArrives
  <2>3. ReporterIsSaved'
    BY <1>5 DEF ReporterIsSaved, Disarmed, SignalArrives
  <2> QED
    BY <2>1, <2>2, <2>3
<1>6. ASSUME NEW t \in Threads, NEW s \in Signals, Unhandled(t, s) PROVE ReporterParts'
  BY <1>6 DEF Unhandled, Ends, InstalledOnce, UnarmedIsTheirs, OursIsArmed,
              ReporterIsSaved, Running, Idle
<1>7. ASSUME NEW s \in Signals, StackOverflows(s) PROVE ReporterParts'
  BY <1>7 DEF StackOverflows, Ends, InstalledOnce, UnarmedIsTheirs, OursIsArmed,
              ReporterIsSaved, Running, Idle
<1>8. ASSUME NEW t \in Threads, Handle(t) PROVE ReporterParts'
  BY <1>8, ReporterPartsOfHandle
<1>9. CASE UNCHANGED vars
  BY <1>9 DEF vars, InstalledOnce, UnarmedIsTheirs, OursIsArmed, ReporterIsSaved, Disarmed
<1> QED
  BY <1>1, <1>2, <1>3, <1>4, <1>5, <1>6, <1>7, <1>8, <1>9, WatchedAreSignals DEF Next

(* On the way from the signal to the end the reporter's turn comes.        *)
LEMMA ReporterNextStep ==
    ASSUME TypeOK, ReporterParts, ReporterIsNext, [Next]_vars
    PROVE  ReporterIsNext'
<1> USE DEF TypeOK, Crash, Goes, installation, ReporterParts, ReporterIsNext
<1>1. ASSUME NEW t \in Threads, Handle(t) PROVE ReporterIsNext'
  <2>1. CASE Report(t)
    BY <1>1, <2>1 DEF Report, Nest
  <2>2. CASE OpenMarker(t) \/ WriteMarker(t)
    BY <1>1, <2>2 DEF OpenMarker, WriteMarker
  <2>3. CASE Chain(t)
    <3>1. previous[crash[t].sig] # "ours"
      BY <2>3 DEF InstalledOnce, Chain
    <3> QED
      BY <1>1, <2>3, <3>1 DEF Chain
  <2>4. CASE Reset(t)
    BY <1>1, <2>4 DEF Reset
  <2>5. CASE RaiseAgain(t)
    BY <1>1, <2>5 DEF RaiseAgain
  <2>6. CASE ReportAndEnd(t) \/ StackFills(t) \/ Raise(t)
    BY <2>6 DEF ReportAndEnd, StackFills, Raise, Ends, Running
  <2> QED
    BY <1>1, <2>1, <2>2, <2>3, <2>4, <2>5, <2>6 DEF Handle
<1>2. ASSUME NEW t \in Threads, NEW s \in Signals, SignalArrives(t, s)
      PROVE  ReporterIsNext'
  BY <1>2 DEF SignalArrives, ReporterIsSaved
<1>3. ASSUME NEW s \in Signals, Save(s) PROVE ReporterIsNext'
  <2>1. s \notin armed
    BY <1>3 DEF InstalledOnce, Save
  <2> QED
    BY <1>3, <2>1 DEF Save, OursIsArmed
<1>4. CASE CallInstall \/ Swap \/ UNCHANGED vars
  BY <1>4 DEF CallInstall, Swap, vars
<1>5. ASSUME NEW s \in Signals, ReporterInstalls(s) PROVE ReporterIsNext'
  BY <1>5 DEF ReporterInstalls
<1>6. ASSUME NEW t \in Threads, NEW s \in Signals, Unhandled(t, s) PROVE ReporterIsNext'
  BY <1>6 DEF Unhandled, Ends, Running
<1>7. ASSUME NEW s \in Signals, StackOverflows(s) PROVE ReporterIsNext'
  BY <1>7 DEF StackOverflows, Ends, Running
<1> QED
  BY <1>1, <1>2, <1>3, <1>4, <1>5, <1>6, <1>7, WatchedAreSignals DEF Next

LEMMA ReporterAtDeath ==
    ASSUME ReporterInv, [Next]_vars
    PROVE  ReporterHears'
<1>1. TypeOK /\ Shielded /\ met \subseteq met'
  BY MetGrows DEF ReporterInv
<1>2. CASE UNCHANGED <<death, reported>>
  BY <1>1, <1>2 DEF ReporterInv, ReporterHears
<1>3. CASE Alive /\ UNCHANGED death
  BY <1>3 DEF ReporterHears, Alive, Living
<1>4. ASSUME NEW t \in Threads, NEW s \in Signals, Unhandled(t, s) PROVE ReporterHears'
  <2>1. ASSUME reporter[s] # "none", Calm' PROVE FALSE
    <3>1. Disarmed(s)
      BY <1>1, <1>4, <2>1 DEF ReporterInv, ReporterParts, Calm, ReporterIsSaved, Unhandled
    <3> QED
      BY <1>1, <1>4, <2>1, <3>1
         DEF Disarmed, Shielded, Unhandled, CanStrike, Meets, Calm
  <2> QED
    BY <1>4, <2>1 DEF Unhandled, Ends, Blow, ReporterHears, Calm
<1>5. ASSUME NEW s \in Signals, StackOverflows(s) PROVE ReporterHears'
  BY <1>5 DEF StackOverflows, ReporterHears
<1>6. ASSUME NEW t \in Threads, ReportAndEnd(t) \/ StackFills(t) \/ Raise(t)
      PROVE  ReporterHears'
  <2>1. ASSUME Calm', crash[t].expected PROVE crash[t].sig \in reported'
    <3>1. InstalledOnce /\ ReporterIsNext
      BY <1>1, <2>1 DEF ReporterInv, ReporterParts, Calm
    <3>2. CASE ReportAndEnd(t)
      BY <3>2 DEF ReportAndEnd
    <3>3. CASE StackFills(t)
      BY <2>1, <3>3 DEF StackFills, Calm
    <3>4. CASE Raise(t)
      BY <2>1, <3>1, <3>4 DEF ReporterIsNext, Raise
    <3> QED
      BY <1>6, <3>2, <3>3, <3>4
  <2>2. death' = BlowOf(t)
    BY <1>6 DEF ReportAndEnd, StackFills, Raise, Ends
  <2> QED
    BY <2>1, <2>2 DEF BlowOf, ReporterHears, Calm
<1>7. ASSUME NEW t \in Threads, Handle(t) PROVE ReporterHears'
  BY <1>2, <1>3, <1>6, <1>7
     DEF Handle, Report, OpenMarker, WriteMarker, Chain, Reset, RaiseAgain
<1> QED
  BY <1>2, <1>4, <1>5, <1>7
     DEF Next, CallInstall, Save, ReporterInstalls, Swap, SignalArrives, vars

(* A reporter that was there when the signal came is called before the     *)
(* process dies, also without a place for the marker, barring a second     *)
(* installation, one slipped in between the two system calls, two threads  *)
(* struck at once, and a full stack.                                       *)
THEOREM ReporterAlwaysHears == Spec => []ReporterHears
<1>1. Init => ReporterInv
  <2> SUFFICES ASSUME Init PROVE ReporterInv
    OBVIOUS
  <2>1. TypeOK
    BY FreshProcess, MaxInstallsIsPositive, IgnoredAreSignals DEF Init, TypeOK, Handlers
  <2>2. Shielded /\ OursIsArmed /\ ReporterIsNext
    BY DEF Init, Running, Shielded, OursIsArmed, ReporterIsNext
  <2>3. InstalledOnce /\ UnarmedIsTheirs /\ ReporterIsSaved /\ ReporterHears
    BY DEF Init, Idle, Living, InstalledOnce, UnarmedIsTheirs, ReporterIsSaved,
           ReporterHears
  <2> QED
    BY <2>1, <2>2, <2>3 DEF ReporterInv, ReporterParts
<1>2. ReporterInv /\ [Next]_vars => ReporterInv'
  <2> SUFFICES ASSUME ReporterInv, [Next]_vars PROVE ReporterInv'
    OBVIOUS
  <2>1. TypeOK' /\ Shielded'
    BY TypeStep, ShieldedStep DEF ReporterInv
  <2>2. ASSUME Calm'
        PROVE  ReporterParts' /\ ReporterIsNext'
    <3>1. TypeOK /\ Shielded /\ ReporterParts /\ ReporterIsNext
      BY <2>2, MetGrows DEF ReporterInv, Calm
    <3> QED
      BY <2>2, <3>1, ReporterPartsStep, ReporterNextStep
  <2> QED
    BY <2>1, <2>2, ReporterAtDeath DEF ReporterInv
<1>3. ReporterInv => ReporterHears
  BY DEF ReporterInv
<1> QED
  BY <1>1, <1>2, <1>3, PTL DEF Spec

-----------------------------------------------------------------------------
(***************************************************************************)
(* No step leads a crash away from its end.  Laps count the installations  *)
(* still to come for a signal, which only ever happen, and are used up by  *)
(* the thread that finds its SIG_DFL undone.                               *)
(***************************************************************************)
SwapIsToDo == install.pc = "swap" => install.sig \in install.todo

LEMMA SwapStep ==
    ASSUME TypeOK, SwapIsToDo, [Next]_vars
    PROVE  SwapIsToDo'
<1>1. ASSUME NEW s \in Signals, Save(s) PROVE SwapIsToDo'
  BY <1>1 DEF SwapIsToDo, Save, TypeOK
<1>2. CASE CallInstall \/ Swap
  BY <1>2 DEF SwapIsToDo, CallInstall, Installing, Swap, Idle
<1>3. ASSUME NEW d, Ends(d) PROVE SwapIsToDo'
  BY <1>3 DEF SwapIsToDo, Ends, Idle
<1>4. CASE UNCHANGED install
  BY <1>4 DEF SwapIsToDo
<1>5. ASSUME NEW t \in Threads, Handle(t) PROVE SwapIsToDo'
  BY <1>3, <1>4, <1>5 DEF Handle, Report, ReportAndEnd, StackFills, OpenMarker, WriteMarker,
     Chain, Reset, Raise, RaiseAgain, installation
<1> QED
  BY <1>1, <1>2, <1>3, <1>4, <1>5 DEF Next, StackOverflows, ReporterInstalls,
     SignalArrives, Unhandled, vars, installation

LEMMA StepNumbers ==
    /\ StepsLeft["open"] = 6 /\ StepsLeft["write"] = 5 /\ StepsLeft["chain"] = 4
    /\ StepsLeft["report"] = 3 /\ StepsLeft["reset"] = 2 /\ StepsLeft["raise"] = 1
    /\ StepsLeft["run"] = 0
  BY DEF StepsLeft

(* What is left is counted in natural numbers: it cannot decrease for ever. *)
LEMMA LeftIsNatural ==
    ASSUME TypeOK, NEW t \in Threads, crash[t].pc # "run"
    PROVE  LeftToDo(t) \in Nat \X Nat \X Nat
<1> USE DEF TypeOK, Crash, Steps
<1>1. Laps(t) \in Nat
  BY MaxInstallsIsPositive DEF Laps, ToCome
<1>2. MaxFrames - crash[t].frames \in Nat
  BY MaxFramesIsPositive
<1>3. StepsLeft[crash[t].pc] \in Nat
  BY StepNumbers
<1> QED
  BY <1>1, <1>2, <1>3 DEF LeftToDo

Progress(t) ==
    \/ Less(LeftToDo(t)', LeftToDo(t))
    \/ LeftToDo(t)' = LeftToDo(t) /\ crash'[t] = crash[t]

(* Installation: a thread in a handler has what it had left, or less.      *)
LEMMA InstallationSpends ==
    ASSUME TypeOK, SwapIsToDo, NEW t \in Threads, crash[t].pc # "run",
           \/ CallInstall \/ Swap
           \/ \E s \in Signals : Save(s)
           \/ \E s \in Watched : ReporterInstalls(s)
    PROVE  Progress(t)
<1> USE DEF TypeOK
<1>1. PICK sig \in Signals : sig = crash[t].sig
  OBVIOUS
<1>2. crash' = crash /\ ToCome(sig) \in Int
  <2>1. crash' = crash
    BY DEF CallInstall, Save, Swap, ReporterInstalls
  <2>2. ToCome(sig) \in Int
    BY MaxInstallsIsPositive DEF ToCome
  <2> QED
    BY <2>1, <2>2
<1>3. \/ ToCome(sig)' = ToCome(sig) /\ disposition'[sig] = disposition[sig]
      \/ ToCome(sig)' = ToCome(sig) - 1
  <2>1. CASE CallInstall
    BY <2>1, MaxInstallsIsPositive DEF CallInstall, Installing, Idle, ToCome
  <2>2. CASE Swap
    BY <2>2, MaxInstallsIsPositive DEF Swap, Idle, ToCome, SwapIsToDo
  <2>3. ASSUME NEW s \in Signals, Save(s) PROVE ToCome(sig)' = ToCome(sig) /\ disposition'[sig] = disposition[sig]
    BY <2>3 DEF Save, ToCome
  <2>4. ASSUME NEW s \in Watched, ReporterInstalls(s)
        PROVE  \/ ToCome(sig)' = ToCome(sig) /\ disposition'[sig] = disposition[sig]
               \/ ToCome(sig)' = ToCome(sig) - 1
    BY <2>4, MaxInstallsIsPositive, WatchedAreSignals
       DEF ReporterInstalls, installation, ToCome, Handlers
  <2> QED
    BY <2>1, <2>2, <2>3, <2>4
<1>4. CASE ToCome(sig)' = ToCome(sig) /\ disposition'[sig] = disposition[sig]
  BY <1>1, <1>2, <1>4 DEF Progress, LeftToDo, Laps
<1>5. CASE ToCome(sig)' = ToCome(sig) - 1
  <2>1. Laps(t)' < Laps(t) \/ Laps(t)' = Laps(t)
    BY <1>1, <1>2, <1>5 DEF Laps
  <2> QED
    BY <1>2, <2>1 DEF Progress, LeftToDo, Less
<1> QED
  BY <1>3, <1>4, <1>5

(* A thread in a handler goes on towards the end; it can take from another *)
(* one only a lap.                                                         *)
LEMMA HandlingSpends ==
    ASSUME TypeOK, NEW t \in Threads, crash[t].pc # "run",
           NEW u \in Threads, Handle(u), ~ \E d : Ends(d)
    PROVE  Progress(t)
<1> USE DEF TypeOK, Goes
<1>1. PICK sig \in Signals : sig = crash[t].sig
  OBVIOUS
<1>2. ToCome(sig)' = ToCome(sig) /\ ToCome(sig) \in Int
  BY MaxInstallsIsPositive DEF Handle, Report, ReportAndEnd, StackFills, OpenMarker,
     WriteMarker, Chain, Reset, Raise, RaiseAgain, installation, ToCome
<1>3. disposition'[sig] \in {disposition[sig], "default"}
  BY DEF Handle, Report, ReportAndEnd, StackFills, OpenMarker,
     WriteMarker, Chain, Reset, Raise, RaiseAgain
<1>4. CASE u # t
  <2>1. crash'[t] = crash[t]
    BY <1>4 DEF Handle, Report, ReportAndEnd, StackFills, OpenMarker,
       WriteMarker, Chain, Nest, Reset, Raise, RaiseAgain
  <2>2. Laps(t)' <= Laps(t) /\ Laps(t) \in Int /\ Laps(t)' \in Int
    BY <1>1, <1>2, <1>3, <2>1 DEF Laps
  <2> QED
    BY <2>1, <2>2 DEF Progress, LeftToDo, Less
<1>5. ASSUME NEW next \in Steps \ {"run"}, crash' = [crash EXCEPT ![t].pc = next],
             StepsLeft[next] < StepsLeft[crash[t].pc],
             next = "raise" => disposition'[sig] = "default",
             crash[t].pc # "raise"
      PROVE  Progress(t)
  <2>1. crash'[t].pc = next /\ crash'[t].sig = sig /\ crash'[t].frames = crash[t].frames
    BY <1>1, <1>5 DEF Crash
  <2>2. Laps(t)' = Laps(t)
    BY <1>1, <1>2, <1>5, <2>1 DEF Laps
  <2> QED
    BY <1>5, <2>1, <2>2 DEF Progress, LeftToDo, Less
<1>6. ASSUME Nest(t), crash[t].pc # "raise"
      PROVE  Progress(t)
  <2>1. /\ crash'[t].pc = "open" /\ crash'[t].sig = sig
        /\ crash'[t].frames = crash[t].frames + 1
    BY <1>1, <1>6 DEF Nest, Crash
  <2>2. Laps(t)' = Laps(t)
    BY <1>1, <1>2, <1>6, <2>1 DEF Laps
  <2>3. crash[t].frames \in Int /\ MaxFrames \in Int
    BY MaxFramesIsPositive DEF Crash
  <2> QED
    BY <2>1, <2>2, <2>3 DEF Progress, LeftToDo, Less
<1>7. CASE RaiseAgain(t)
  <2>1. crash'[t].pc # "raise" /\ crash'[t].sig = sig
    BY <1>1, <1>7 DEF RaiseAgain, Crash
  <2>2. Laps(t)' = ToCome(sig) /\ Laps(t) = ToCome(sig) + 1
    BY <1>1, <1>2, <1>7, <2>1 DEF Laps, RaiseAgain
  <2> QED
    BY <1>2, <2>2 DEF Progress, LeftToDo, Less
<1>8. CASE OpenMarker(t) \/ WriteMarker(t)
  BY <1>5, <1>8, StepNumbers DEF OpenMarker, WriteMarker, Steps
<1>9. CASE Chain(t) \/ Report(t)
  BY <1>5, <1>6, <1>9, StepNumbers DEF Chain, Report, Steps
<1>10. CASE Reset(t)
  <2>1. disposition'[sig] = "default" /\ crash' = [crash EXCEPT ![t].pc = "raise"]
        /\ crash[t].pc = "reset"
    BY <1>1, <1>10 DEF Reset
  <2>2. /\ StepsLeft["raise"] < StepsLeft[crash[t].pc] /\ crash[t].pc # "raise"
        /\ "raise" \in Steps \ {"run"}
    BY <2>1, StepNumbers DEF Steps
  <2> QED
    BY <1>5, <2>1, <2>2
<1> QED
  BY <1>4, <1>7, <1>8, <1>9, <1>10 DEF Handle, ReportAndEnd, StackFills, Raise

(* Whoever is chained to whom, each step of a crash is a step to its end.  *)
THEOREM CrashAlwaysAdvances == Spec => CrashAdvances
<1>1. ASSUME TypeOK, Shielded, SwapIsToDo, [Next]_vars, NEW t \in Threads,
             crash[t].pc # "run", crash'[t].blocked = crash[t].blocked
      PROVE  Progress(t)
  <2>1. ~ \E d : Ends(d)
    BY <1>1 DEF Ends, Running, Shielded
  <2>2. ASSUME NEW u \in Threads, NEW s \in Signals, SignalArrives(u, s)
        PROVE  Progress(t)
    <3>1. crash'[t] = crash[t] /\ UNCHANGED <<installation, disposition, reporter>>
      BY <1>1, <2>2 DEF SignalArrives, CanStrike, TypeOK
    <3> QED
      BY <3>1 DEF Progress, LeftToDo, Laps, ToCome, installation
  <2>3. CASE UNCHANGED vars
    BY <2>3 DEF vars, Progress, LeftToDo, Laps, ToCome, installation
  <2> QED
    BY <1>1, <2>1, <2>2, <2>3, InstallationSpends, HandlingSpends
       DEF Next, StackOverflows, Unhandled
<1>2. TypeOK /\ Shielded /\ SwapIsToDo /\ [Next]_vars
        => [\A t \in Threads :
              crash[t].pc # "run" /\ Alive' /\ crash'[t].blocked = crash[t].blocked
                => \/ Less(LeftToDo(t)', LeftToDo(t))
                   \/ LeftToDo(t)' = LeftToDo(t) /\ crash'[t] = crash[t]]_vars
  BY <1>1 DEF Progress
<1>3. Init => Shielded /\ SwapIsToDo
  BY DEF Init, Shielded, SwapIsToDo, Running, Idle
<1>4. TypeOK /\ Shielded /\ SwapIsToDo /\ [Next]_vars => Shielded' /\ SwapIsToDo'
  BY ShieldedStep, SwapStep
<1> QED
  BY <1>2, <1>3, <1>4, TypeCorrect, PTL DEF Spec, CrashAdvances

=============================================================================
