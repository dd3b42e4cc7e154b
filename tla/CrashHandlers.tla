---------------------------- MODULE CrashHandlers ----------------------------
(***************************************************************************)
(* The POSIX signal handlers of the SDK, in one process that ends with the *)
(* first deadly signal: their installation, two calls of sigaction for     *)
(* each signal, beside a crash reporter that installs its own; and what    *)
(* happens on the threads that get signals, each step a system call.       *)
(***************************************************************************)
EXTENDS Integers, FiniteSets

CONSTANTS
    Signals,      \* the signals installed for
    Ignored,      \* those the app had chosen to ignore
    Watched,      \* those a crash reporter installs for
    Threads,      \* the threads of the app
    MaxInstalls,  \* how often the handlers are installed: the header says once,
                  \* Kotlin sees to it (didInstallNative), Swift does not
    MaxFrames,    \* how many of our frames a stack has room for
    MaxStrikes    \* how many signals may strike before the process is gone

ASSUME IgnoredAreSignals == Ignored \subseteq Signals
ASSUME WatchedAreSignals == Watched \subseteq Signals
ASSUME MaxInstallsIsPositive == MaxInstalls \in Nat \ {0}
ASSUME MaxFramesIsPositive == MaxFrames \in Nat \ {0}
ASSUME MaxStrikesIsNatural == MaxStrikes \in Nat

VARIABLES
    install,      \* salve_push_install_crash_handlers: its step, what it has left
    installs,     \* how often it has been called
    armed,        \* the signals it has finished
    disposition,  \* who the system calls for a signal
    previous,     \* g_previous_handlers
    reporter,     \* what the reporter has saved for a signal; "none" before that
    crash,        \* what a thread is doing about the signal that struck it
    marker,       \* crash.marker: absent, torn, or whole
    reported,     \* the signals the reporter was called for
    death,        \* the signal the process died of, and what held when it came
    met           \* history: the circumstances, named below, that have occurred

installation == <<install, installs, armed, previous>>
vars == <<installation, disposition, reporter, crash, marker, reported, death, met>>

Handlers == {"default", "ignore", "ours", "reporter"}
Circumstances == {"again", "between", "together", "overflow", "disk"}
Steps == {"run", "open", "write", "chain", "report", "reset", "raise"}
NoSignal == "none"

\* guarded, expected: when the signal came, its handler was installed, and the
\* reporter's was.
Crash == [pc : Steps, sig : Signals \cup {NoSignal}, frames : 0..MaxFrames,
          blocked : SUBSET Signals, guarded : BOOLEAN, expected : BOOLEAN]
Running == [pc |-> "run", sig |-> NoSignal, frames |-> 0, blocked |-> {},
            guarded |-> FALSE, expected |-> FALSE]
Death == [sig : Signals \cup {NoSignal}, guarded : BOOLEAN, expected : BOOLEAN]
Idle == [pc |-> "idle", todo |-> {}, sig |-> NoSignal]
Living == [sig |-> NoSignal, guarded |-> FALSE, expected |-> FALSE]

TypeOK ==
    /\ install \in [pc : {"idle", "save", "swap"}, todo : SUBSET Signals,
                    sig : Signals \cup {NoSignal}]
    /\ install.pc = "swap" => install.sig \in Signals
    /\ installs \in 0..MaxInstalls
    /\ armed \subseteq Signals
    /\ disposition \in [Signals -> Handlers]
    /\ previous \in [Signals -> Handlers]
    /\ reporter \in [Signals -> Handlers \cup {"none"}]
    /\ crash \in [Threads -> Crash]
    /\ \A t \in Threads : crash[t].pc # "run" => crash[t].sig \in Signals
    /\ marker \in {"absent", "torn", "whole"}
    /\ reported \subseteq Signals
    /\ death \in Death
    /\ met \subseteq Circumstances

\* The globals start as zeros, which read as SIG_DFL.
Init ==
    /\ install = Idle
    /\ installs = 0
    /\ armed = {}
    /\ disposition = [s \in Signals |-> IF s \in Ignored THEN "ignore" ELSE "default"]
    /\ previous = [s \in Signals |-> "default"]
    /\ reporter = [s \in Signals |-> "none"]
    /\ crash = [t \in Threads |-> Running]
    /\ marker = "absent"
    /\ reported = {}
    /\ death = Living
    /\ met = {}

Alive == death = Living

Meets(circumstance, condition) ==
    met' = IF condition THEN met \cup {circumstance} ELSE met

-----------------------------------------------------------------------------
(* Installation.                                                           *)

\* What the header asks of its callers.
CalledOnce == installs = 0

Installing == [pc |-> "save", todo |-> Signals, sig |-> NoSignal]

CallInstall ==
    /\ Alive
    /\ install = Idle
    /\ installs < MaxInstalls
    /\ install' = Installing
    /\ installs' = installs + 1
    /\ Meets("again", ~CalledOnce)
    /\ UNCHANGED <<armed, previous>>
    /\ UNCHANGED <<disposition, reporter, crash, marker, reported, death>>

\* Variant: what was installed before is not asked for.
SaveNothing(s) ==
    /\ Alive
    /\ install.pc = "save"
    /\ s \in install.todo
    /\ install' = [install EXCEPT !.pc = "swap", !.sig = s]
    /\ UNCHANGED <<installs, armed, previous>>
    /\ UNCHANGED <<disposition, reporter, crash, marker, reported, death, met>>

\* The signals are taken in any order, the array's among them.
Save(s) ==
    /\ Alive
    /\ install.pc = "save"
    /\ s \in install.todo
    /\ previous' = [previous EXCEPT ![s] = disposition[s]]
    /\ install' = [install EXCEPT !.pc = "swap", !.sig = s]
    /\ UNCHANGED <<installs, armed>>
    /\ UNCHANGED <<disposition, reporter, crash, marker, reported, death, met>>

Swap ==
    /\ Alive
    /\ install.pc = "swap"
    /\ disposition' = [disposition EXCEPT ![install.sig] = "ours"]
    /\ armed' = armed \cup {install.sig}
    /\ install' = IF install.todo = {install.sig}
                    THEN Idle
                    ELSE [pc |-> "save", todo |-> install.todo \ {install.sig},
                          sig |-> NoSignal]
    /\ UNCHANGED <<installs, previous>>
    /\ UNCHANGED <<reporter, crash, marker, reported, death, met>>

\* A crash reporter exchanges the handlers in one call, and once.
ReporterInstalls(s) ==
    /\ Alive
    /\ reporter[s] = "none"
    /\ reporter' = [reporter EXCEPT ![s] = disposition[s]]
    /\ disposition' = [disposition EXCEPT ![s] = "reporter"]
    /\ Meets("between", install.pc = "swap" /\ install.sig = s)
    /\ UNCHANGED installation
    /\ UNCHANGED <<crash, marker, reported, death>>

-----------------------------------------------------------------------------
(* A signal, from its arrival to the end of the process.                   *)

Goes(t, step) == crash' = [crash EXCEPT ![t].pc = step]

\* The process is gone, with all it had in memory.
Ends(dying) ==
    /\ death' = dying
    /\ install' = Idle
    /\ installs' = 0
    /\ armed' = {}
    /\ disposition' = [s \in Signals |-> "default"]
    /\ previous' = [s \in Signals |-> "default"]
    /\ reporter' = [s \in Signals |-> "none"]
    /\ crash' = [t \in Threads |-> Running]

Blow(s) == [sig |-> s, guarded |-> s \in armed, expected |-> reporter[s] # "none"]
BlowOf(t) == [sig |-> crash[t].sig, guarded |-> crash[t].guarded,
              expected |-> crash[t].expected]

Struck == {p \in Threads \X Signals : p[2] \in crash[p[1]].blocked}

CanStrike(t, s) ==
    /\ Alive
    /\ Cardinality(Struck) < MaxStrikes
    /\ s \notin crash[t].blocked
    /\ Meets("together", \E u \in Threads \ {t} : crash[u].pc # "run")

\* Variant: the previous handler is called first, and the marker forgotten.
ChainFirst(t, s) ==
    /\ CanStrike(t, s)
    /\ disposition[s] \in {"ours", "reporter"}
    /\ crash' = [crash EXCEPT ![t] =
                   [pc |-> IF disposition[s] = "ours" THEN "chain" ELSE "report",
                    sig |-> s,
                    frames |-> IF disposition[s] = "ours" THEN 1 ELSE 0,
                    blocked |-> crash[t].blocked \cup {s},
                    guarded |-> s \in armed, expected |-> reporter[s] # "none"]]
    /\ UNCHANGED installation
    /\ UNCHANGED <<disposition, reporter, marker, reported, death>>

\* No handler of a deadly signal ever returns to what it interrupted, so a
\* signal that strikes inside a handler replaces the one before it.
SignalArrives(t, s) ==
    /\ CanStrike(t, s)
    /\ disposition[s] \in {"ours", "reporter"}
    /\ crash' = [crash EXCEPT ![t] =
                   [pc |-> IF disposition[s] = "ours" THEN "open" ELSE "report",
                    sig |-> s,
                    frames |-> IF disposition[s] = "ours" THEN 1 ELSE 0,
                    blocked |-> crash[t].blocked \cup {s},
                    guarded |-> s \in armed, expected |-> reporter[s] # "none"]]
    /\ UNCHANGED installation
    /\ UNCHANGED <<disposition, reporter, marker, reported, death>>

Unhandled(t, s) ==
    /\ CanStrike(t, s)
    /\ disposition[s] = "default"
    /\ Ends(Blow(s))
    /\ UNCHANGED <<marker, reported>>

\* The handlers are installed without SA_ONSTACK: there is no room for their
\* frame on a stack that has overflowed.
StackOverflows(s) ==
    /\ Alive
    /\ disposition[s] = "ours"
    /\ Ends(Blow(s))
    /\ met' = met \cup {"overflow"}
    /\ UNCHANGED <<marker, reported>>

\* Variant: the stack has no end.
NestForEver(t) ==
    crash' = [crash EXCEPT ![t].pc = "open", ![t].frames = @ + 1]

\* Our handler is called by a handler it has called.
Nest(t) ==
    /\ crash[t].frames < MaxFrames
    /\ crash' = [crash EXCEPT ![t].pc = "open", ![t].frames = @ + 1]

\* And for ever, until the stack is full: in the frame that has no room for
\* what it calls, which has opened the marker before it comes to need most of
\* its stack (snprintf), or for the next handler.
StackFills(t) ==
    /\ Alive
    /\ crash[t].frames = MaxFrames
    /\ \/ crash[t].pc \in {"open", "write"}
       \/ crash[t].pc = "chain" /\ previous[crash[t].sig] = "ours"
    /\ Ends(BlowOf(t))
    /\ met' = met \cup {"overflow"}
    /\ UNCHANGED <<marker, reported>>

\* The reporter does its work and hands the signal on to whom it replaced.
\* Called by our handler it may also return.
Report(t) ==
    /\ Alive
    /\ crash[t].pc = "report"
    /\ reported' = reported \cup {crash[t].sig}
    /\ \/ reporter[crash[t].sig] = "ours" /\ Nest(t)
       \/ /\ reporter[crash[t].sig] # "ours"
          /\ crash[t].frames > 0
          /\ Goes(t, "reset")
    /\ UNCHANGED installation
    /\ UNCHANGED <<disposition, reporter, marker, death, met>>

\* Having replaced nobody, it may end the process itself.
ReportAndEnd(t) ==
    /\ Alive
    /\ crash[t].pc = "report"
    /\ \/ reporter[crash[t].sig] # "ours"
       \/ crash[t].frames = MaxFrames
    /\ reported' = reported \cup {crash[t].sig}
    /\ Ends(BlowOf(t))
    /\ UNCHANGED <<marker, met>>

\* Opening truncates.
OpenMarker(t) ==
    /\ Alive
    /\ crash[t].pc = "open"
    /\ \/ marker' = "torn" /\ Goes(t, "write") /\ UNCHANGED met
       \/ UNCHANGED marker /\ Goes(t, "chain") /\ met' = met \cup {"disk"}
    /\ UNCHANGED installation
    /\ UNCHANGED <<disposition, reporter, reported, death>>

\* Over a marker another thread has finished, a shorter text leaves a tail.
WriteMarker(t) ==
    /\ Alive
    /\ crash[t].pc = "write"
    /\ Goes(t, "chain")
    /\ \/ marker' = "whole" /\ UNCHANGED met
       \/ marker = "whole" /\ marker' = "torn" /\ UNCHANGED met
       \/ UNCHANGED marker /\ met' = met \cup {"disk"}
    /\ UNCHANGED installation
    /\ UNCHANGED <<disposition, reporter, reported, death>>

Chain(t) ==
    /\ Alive
    /\ crash[t].pc = "chain"
    /\ \/ previous[crash[t].sig] = "ours" /\ Nest(t)
       \/ previous[crash[t].sig] = "reporter" /\ Goes(t, "report")
       \/ previous[crash[t].sig] \in {"default", "ignore"} /\ Goes(t, "reset")
    /\ UNCHANGED installation
    /\ UNCHANGED <<disposition, reporter, marker, reported, death, met>>

\* Variant: the handler stays installed while it raises the signal again.
KeepHandler(t) ==
    /\ Alive
    /\ crash[t].pc = "reset"
    /\ Goes(t, "raise")
    /\ UNCHANGED installation
    /\ UNCHANGED <<disposition, reporter, marker, reported, death, met>>

Reset(t) ==
    /\ Alive
    /\ crash[t].pc = "reset"
    /\ disposition' = [disposition EXCEPT ![crash[t].sig] = "default"]
    /\ Goes(t, "raise")
    /\ UNCHANGED installation
    /\ UNCHANGED <<reporter, marker, reported, death, met>>

\* The signal is blocked while its handler runs: raise only makes it pending,
\* and it is delivered when the handler returns, as a rule to SIG_DFL.
Raise(t) ==
    /\ Alive
    /\ crash[t].pc = "raise"
    /\ disposition[crash[t].sig] = "default"
    /\ Ends(BlowOf(t))
    /\ UNCHANGED <<marker, reported, met>>

\* Somebody has installed a handler in between.
RaiseAgain(t) ==
    /\ Alive
    /\ crash[t].pc = "raise"
    /\ disposition[crash[t].sig] # "default"
    /\ crash' = IF disposition[crash[t].sig] = "ours"
                  THEN [crash EXCEPT ![t].pc = "open", ![t].frames = 1]
                  ELSE [crash EXCEPT ![t].pc = "report", ![t].frames = 0]
    /\ UNCHANGED installation
    /\ UNCHANGED <<disposition, reporter, marker, reported, death, met>>

Handle(t) ==
    \/ Report(t) \/ ReportAndEnd(t) \/ StackFills(t)
    \/ OpenMarker(t) \/ WriteMarker(t) \/ Chain(t)
    \/ Reset(t) \/ Raise(t) \/ RaiseAgain(t)

Next ==
    \/ CallInstall
    \/ \E s \in Signals : Save(s) \/ StackOverflows(s)
    \/ \E s \in Watched : ReporterInstalls(s)
    \/ Swap
    \/ \E t \in Threads, s \in Signals : SignalArrives(t, s) \/ Unhandled(t, s)
    \/ \E t \in Threads : Handle(t)

Spec == Init /\ [][Next]_vars

-----------------------------------------------------------------------------
(* Safety.                                                                 *)

\* A process that dies of a signal the SDK guards leaves a whole crash.marker,
\* or the next launch reverts nothing (handleSignal: marker before the chain,
\* chain before the raise).  Except: two threads struck together (one
\* truncates what the other has written and dies for), a marker that cannot be
\* written, and a stack too full for the handler, be it the app that has filled
\* it or, installed twice, the handler calling itself: every frame of it
\* truncates the marker the one before has written.
DeathLeavesMarker ==
    /\ death.guarded
    /\ met \cap {"together", "overflow", "disk"} = {}
    => marker = "whole"

\* A crash reporter whose handler was there when the signal came has been
\* called before the process dies (chainToPreviousHandler).  Except: handlers
\* installed twice, the reporter's slipped in between the two calls of
\* sigaction, and as above.
ReporterHears ==
    /\ death.expected
    /\ met \cap {"again", "between", "together", "overflow"} = {}
    => death.sig \in reported

\* What a thread still has before it when its signal is sig: another lap for
\* each installation to come, and for one that has undone its own SIG_DFL; room
\* for frames; and the steps of this frame.
ToCome(sig) ==
    (MaxInstalls - installs) + (IF sig \in install.todo THEN 1 ELSE 0)
                             + (IF reporter[sig] = "none" THEN 1 ELSE 0)

Laps(t) ==
    ToCome(crash[t].sig)
      + (IF crash[t].pc = "raise" /\ disposition[crash[t].sig] # "default" THEN 1 ELSE 0)

StepsLeft == [open |-> 6, write |-> 5, chain |-> 4, report |-> 3, reset |-> 2,
              raise |-> 1, run |-> 0]

LeftToDo(t) == <<Laps(t), MaxFrames - crash[t].frames, StepsLeft[crash[t].pc]>>

Less(p, q) ==
    \/ p[1] < q[1]
    \/ p[1] = q[1] /\ p[2] < q[2]
    \/ p[1] = q[1] /\ p[2] = q[2] /\ p[3] < q[3]

\* Handlers that call each other, or themselves, come closer to the end of the
\* process with every step, whoever installs what meanwhile: only another
\* signal sets a thread back (chainToPreviousHandler, raise after SIG_DFL).
CrashAdvances ==
    [][\A t \in Threads :
         crash[t].pc # "run" /\ Alive' /\ crash'[t].blocked = crash[t].blocked
           => \/ Less(LeftToDo(t)', LeftToDo(t))
              \/ LeftToDo(t)' = LeftToDo(t) /\ crash'[t] = crash[t]]_vars

-----------------------------------------------------------------------------
(* Liveness.                                                               *)

Fairness == \A t \in Threads : WF_vars(Handle(t))

FairSpec == Spec /\ Fairness

\* A signal that has struck ends the process, whoever is chained to whom:
\* the app never hangs in its crash handler (raise after SIG_DFL).
CrashEnds == \A t \in Threads : crash[t].pc # "run" ~> ~Alive

=============================================================================
