----------------------------- MODULE NitroBridge -----------------------------
(***************************************************************************)
(* The generated glue between JavaScript and the native part: how the      *)
(* library registers, how the hybrid object comes to own its Kotlin or     *)
(* Swift part and gives it up, and how a call crosses from the thread of   *)
(* JavaScript to a background thread and its outcome comes back.           *)
(***************************************************************************)
EXTENDS Integers, Sequences

CONSTANTS
    Installs,   \* calls of installUpdate
    Confirms,   \* calls of notifyAppReady
    Reads       \* calls of getCurrentReleaseId

Async == Installs \cup Confirms
Calls == Async \cup Reads

ASSUME ReadsAreSynchronous == Reads \cap Async = {}
ASSUME MethodsDiffer == Installs \cap Confirms = {}

\* Who else holds the Kotlin or Swift part: whoever constructed it, the pointer
\* it is passed by, and the C++ part.
Holders == {"creator", "pointer", "part"}

ASSUME CallsAreNoHolders == Calls \cap Holders = {}

VARIABLES
    platform,   \* "ios" or "android", for good
    library,    \* how far the native library has registered
    runtime,    \* the JavaScript runtime: "up" or "ended"
    object,     \* the hybrid object, from its construction to its end
    owners,     \* who holds a strong reference to its Kotlin or Swift part:
                \* holders, and calls the closures of which do
    step,       \* how far the synchronous part of a call has come
    queue,      \* the calls whose work was handed over, in that order
    work,       \* what became of the work of a call
    heard,      \* the listeners added to the native promise
    promise,    \* the C++ promise
    answer,     \* what JavaScript was told
    buffer,     \* whether JavaScript has used the memory of a bundle again
    bytes       \* what the work of an installation gets as its bundle

lifetime == <<platform, library, runtime, object, owners>>
crossing == <<step, queue, work, heard, promise, answer>>
vars == <<lifetime, crossing, buffer, bytes>>

Settled == {"resolved", "rejected"}
InCall == {"native", "promise", "onResolved", "onRejected", "return"}

TypeOK ==
    /\ platform \in {"ios", "android"}
    /\ library \in {"unloaded", "natives", "registered"}
    /\ runtime \in {"up", "ended"}
    /\ object \in {"none", "built", "passed", "adopted", "up", "dropped", "gone"}
    /\ owners \subseteq Holders \cup Async
    /\ step \in [Calls -> {"idle", "returned"} \cup InCall]
    /\ queue \in Seq(Async)
    /\ work \in [Calls -> {"none", "queued", "running"} \cup Settled]
    /\ heard \in [Calls -> SUBSET Settled]
    /\ promise \in [Calls -> {"none", "pending"} \cup Settled]
    /\ answer \in [Calls -> {"none", "thrown"} \cup Settled]
    /\ buffer \in [Calls -> {"lent", "reused"}]
    /\ bytes \in [Calls -> {"none", "lent", "reused"}]

Init ==
    /\ platform \in {"ios", "android"}
    /\ library = "unloaded"
    /\ runtime = "up"
    /\ object = "none"
    /\ owners = {}
    /\ step = [c \in Calls |-> "idle"]
    /\ queue = <<>>
    /\ work = [c \in Calls |-> "none"]
    /\ heard = [c \in Calls |-> {}]
    /\ promise = [c \in Calls |-> "none"]
    /\ answer = [c \in Calls |-> "none"]
    /\ buffer = [c \in Calls |-> "lent"]
    /\ bytes = [c \in Calls |-> "none"]

-----------------------------------------------------------------------------
(* The library and the object.                                             *)

\* On iOS there are no native methods to register, and the step does nothing.
RegisterNatives ==
    /\ library = "unloaded"
    /\ library' = "natives"
    /\ UNCHANGED <<platform, runtime, object, owners, crossing, buffer, bytes>>

RegisterConstructor ==
    /\ library = "natives"
    /\ library' = "registered"
    /\ UNCHANGED <<platform, runtime, object, owners, crossing, buffer, bytes>>

\* Or +load, on iOS.
JNI_OnLoad == RegisterNatives \/ RegisterConstructor

\* One stage of the object's life after another, while the runtime is there.
Becomes(from, to) ==
    /\ object = from
    /\ object' = to
    /\ UNCHANGED <<platform, library, runtime, crossing, buffer, bytes>>

\* createHybridObject, when salvePushNative.ts is imported.
Construct ==
    /\ library = "registered"
    /\ Becomes("none", "built")
    /\ owners' = {"creator"}

\* toUnsafe retains once for the pointer it returns.
PassPointer ==
    /\ platform = "ios"
    /\ Becomes("built", "passed")
    /\ owners' = owners \cup {"pointer"}

\* Through JNI the reference is only lent.
InitHybrid ==
    /\ platform = "android"
    /\ Becomes("built", "passed")
    /\ UNCHANGED owners

\* Variant: the reference the pointer carries is not taken over.
BorrowSwiftPart ==
    /\ platform = "ios"
    /\ Becomes("passed", "adopted")
    /\ owners' = owners \cup {"part"}

\* _swiftPart is a strong reference, and ends with the C++ part.
SwiftPartHeld(held) == held \cup {"part"}

\* fromUnsafe takes over what toUnsafe retained.
AdoptSwiftPart ==
    /\ platform = "ios"
    /\ Becomes("passed", "adopted")
    /\ owners' = SwiftPartHeld(owners \ {"pointer"})

\* _javaPart is a global reference of its own.
JavaPartHeld(held) == held \cup {"part"}

AdoptJavaPart ==
    /\ platform = "android"
    /\ Becomes("passed", "adopted")
    /\ owners' = JavaPartHeld(owners)

\* The reference of whoever constructed the part ends with its scope.
HandOver ==
    /\ Becomes("adopted", "up")
    /\ owners' = owners \ {"creator"}

Idle == \A c \in Calls : step[c] \notin InCall

\* JavaScript gives the object up, between two calls; work may be under way.
Dispose ==
    /\ runtime = "up" /\ Idle
    /\ Becomes("up", "dropped")
    /\ UNCHANGED owners

EndRuntime ==
    /\ runtime = "up" /\ Idle
    /\ object \in {"up", "dropped", "gone"}
    /\ runtime' = "ended"
    /\ object' = IF object = "up" THEN "dropped" ELSE object
    /\ UNCHANGED <<platform, library, owners, crossing, buffer, bytes>>

\* The C++ part is destroyed, by the collector on a thread that it attaches to
\* the Java VM for the purpose.
Destroy ==
    /\ Becomes("dropped", "gone")
    /\ owners' = owners \ {"part"}

-----------------------------------------------------------------------------
(* A call: its synchronous part, on the thread of JavaScript.              *)

Prototype(c) ==
    /\ runtime = "up" /\ object = "up"
    /\ Idle
    /\ step[c] = "idle"
    /\ step' = [step EXCEPT ![c] = "native"]
    /\ UNCHANGED <<lifetime, queue, work, heard, promise, answer, buffer, bytes>>

\* The native method throws: a JNI exception, or a Result that holds an error,
\* which the C++ part throws again.
Throws(c) ==
    /\ step[c] = "native"
    /\ step' = [step EXCEPT ![c] = "returned"]
    /\ answer' = [answer EXCEPT ![c] = "thrown"]
    /\ UNCHANGED <<lifetime, queue, work, heard, promise, buffer, bytes>>

\* On Android the work asks the part for its context, so that its closure holds
\* the part; on iOS it calls a type.
ClosureHolds(c) == IF platform = "android" THEN {c} ELSE {}

\* The native method copies the bundle, the memory of which belongs to
\* JavaScript, and hands its work to a queue.
HandsOver(c) ==
    /\ step[c] = "native"
    /\ step' = [step EXCEPT ![c] = "promise"]
    /\ queue' = Append(queue, c)
    /\ work' = [work EXCEPT ![c] = "queued"]
    /\ owners' = owners \cup ClosureHolds(c)
    /\ bytes' = [bytes EXCEPT ![c] = buffer[c]]
    /\ UNCHANGED <<platform, library, runtime, object>>
    /\ UNCHANGED <<heard, promise, answer, buffer>>

\* Variant: the C++ promise starts resolved.
CreateResolved(c) ==
    /\ step[c] = "promise"
    /\ step' = [step EXCEPT ![c] = "onResolved"]
    /\ promise' = [promise EXCEPT ![c] = "resolved"]
    /\ UNCHANGED <<lifetime, queue, work, heard, answer, buffer, bytes>>

CreatePromise(c) ==
    /\ step[c] = "promise"
    /\ step' = [step EXCEPT ![c] = "onResolved"]
    /\ promise' = [promise EXCEPT ![c] = "pending"]
    /\ UNCHANGED <<lifetime, queue, work, heard, answer, buffer, bytes>>

\* Variant: a listener added after the outcome is never called.
SettlesInTimeOnly(c, outcome) == UNCHANGED promise

\* A listener added after the outcome it waits for is called at once.
Settles(c, outcome) ==
    promise' = IF work[c] = outcome
                 THEN [promise EXCEPT ![c] = outcome]
                 ELSE promise

ListenResolved(c) ==
    /\ step[c] = "onResolved"
    /\ step' = [step EXCEPT ![c] = "onRejected"]
    /\ heard' = [heard EXCEPT ![c] = @ \cup {"resolved"}]
    /\ Settles(c, "resolved")
    /\ UNCHANGED <<lifetime, queue, work, answer, buffer, bytes>>

\* Variant: only success is listened to.
HopeForTheBest(c) ==
    /\ step[c] = "onRejected"
    /\ step' = [step EXCEPT ![c] = "return"]
    /\ UNCHANGED <<lifetime, queue, work, heard, promise, answer, buffer, bytes>>

ListenRejected(c) ==
    /\ step[c] = "onRejected"
    /\ step' = [step EXCEPT ![c] = "return"]
    /\ heard' = [heard EXCEPT ![c] = @ \cup {"rejected"}]
    /\ Settles(c, "rejected")
    /\ UNCHANGED <<lifetime, queue, work, answer, buffer, bytes>>

\* The promise is handed to JavaScript.
Return(c) ==
    /\ step[c] = "return"
    /\ step' = [step EXCEPT ![c] = "returned"]
    /\ UNCHANGED <<lifetime, queue, work, heard, promise, answer, buffer, bytes>>

ReturnValue(c) ==
    /\ step[c] = "native"
    /\ step' = [step EXCEPT ![c] = "returned"]
    /\ answer' = [answer EXCEPT ![c] = "resolved"]
    /\ UNCHANGED <<lifetime, queue, work, heard, promise, buffer, bytes>>

\* The steps of a method that returns a promise, in the order of their `step`.
Promised(c) ==
    \/ Prototype(c) \/ Throws(c) \/ HandsOver(c) \/ CreatePromise(c)
    \/ ListenResolved(c) \/ ListenRejected(c) \/ Return(c)

InstallUpdateOfJava(c) == platform = "android" /\ c \in Installs /\ Promised(c)
InstallUpdateOfSwift(c) == platform = "ios" /\ c \in Installs /\ Promised(c)
NotifyAppReadyOfJava(c) == platform = "android" /\ c \in Confirms /\ Promised(c)
NotifyAppReadyOfSwift(c) == platform = "ios" /\ c \in Confirms /\ Promised(c)

\* Variant: a read is made like the other calls.
ReadInBackground(c) == platform = "android" /\ c \in Reads /\ Promised(c)

GetCurrentReleaseIdOfJava(c) ==
    /\ platform = "android" /\ c \in Reads
    /\ Prototype(c) \/ Throws(c) \/ ReturnValue(c)

GetCurrentReleaseIdOfSwift(c) ==
    /\ platform = "ios" /\ c \in Reads
    /\ Prototype(c) \/ Throws(c) \/ ReturnValue(c)

OnThread(c) ==
    \/ InstallUpdateOfJava(c) \/ InstallUpdateOfSwift(c)
    \/ NotifyAppReadyOfJava(c) \/ NotifyAppReadyOfSwift(c)
    \/ GetCurrentReleaseIdOfJava(c) \/ GetCurrentReleaseIdOfSwift(c)

-----------------------------------------------------------------------------
(* Its work, on a background thread, and the way back.                     *)

\* Variant: the closure reads the memory it was lent, not a copy.
StartOnLentMemory(c) ==
    /\ work[c] = "queued"
    /\ work' = [work EXCEPT ![c] = "running"]
    /\ bytes' = [bytes EXCEPT ![c] = buffer[c]]
    /\ UNCHANGED <<lifetime, step, queue, heard, promise, answer, buffer>>

\* Variant: work that failed blocks the queue for what comes after it.
MayStartAfterSuccess(c) ==
    platform = "ios" =>
        \A i \in 1..Len(queue) :
          (\E j \in 1..Len(queue) : i < j /\ queue[j] = c) => work[queue[i]] = "resolved"

\* One serial queue on iOS, a pool of threads on Android.
MayStart(c) ==
    platform = "ios" =>
        \A i \in 1..Len(queue) :
          (\E j \in 1..Len(queue) : i < j /\ queue[j] = c) => work[queue[i]] \in Settled

StartWork(c) ==
    /\ work[c] = "queued"
    /\ MayStart(c)
    /\ work' = [work EXCEPT ![c] = "running"]
    /\ UNCHANGED <<lifetime, step, queue, heard, promise, answer, buffer, bytes>>

\* The closure is done with; the native promise settles and calls the listeners
\* it has.
FinishWork(c) ==
    /\ work[c] = "running"
    /\ owners' = owners \ {c}
    /\ \E outcome \in Settled :
         /\ work' = [work EXCEPT ![c] = outcome]
         /\ promise' = IF outcome \in heard[c]
                         THEN [promise EXCEPT ![c] = outcome]
                         ELSE promise
    /\ UNCHANGED <<platform, library, runtime, object>>
    /\ UNCHANGED <<step, queue, heard, answer, buffer, bytes>>

\* JavaScript is told, on its own thread, as long as it is there.
Deliver(c) ==
    /\ runtime = "up"
    /\ Idle
    /\ step[c] = "returned"
    /\ promise[c] \in Settled
    /\ answer[c] = "none"
    /\ answer' = [answer EXCEPT ![c] = promise[c]]
    /\ UNCHANGED <<lifetime, step, queue, work, heard, promise, buffer, bytes>>

\* The call has returned: the memory of the bundle is JavaScript's again.
ReuseBuffer(c) ==
    /\ c \in Installs
    /\ step[c] = "returned"
    /\ buffer' = [buffer EXCEPT ![c] = "reused"]
    /\ UNCHANGED <<lifetime, crossing, bytes>>

Lifetime ==
    \/ JNI_OnLoad
    \/ Construct \/ PassPointer \/ AdoptSwiftPart
    \/ InitHybrid \/ AdoptJavaPart
    \/ HandOver
    \/ Dispose \/ EndRuntime \/ Destroy

Next ==
    \/ Lifetime
    \/ \E c \in Calls : OnThread(c) \/ Deliver(c)
    \/ \E c \in Async : StartWork(c) \/ FinishWork(c)
    \/ \E c \in Installs : ReuseBuffer(c)

Spec == Init /\ [][Next]_vars

-----------------------------------------------------------------------------
(* Safety.                                                                 *)

UnderWay == {c \in Async : work[c] \in {"queued", "running"}}

\* The native part lives while the C++ part points to it, and on Android while
\* work under way asks it for its context, which the object need not outlive;
\* nothing holds it after both; and no call runs without the object (toUnsafe
\* and fromUnsafe, _swiftPart, _javaPart, the closures of installUpdate and
\* notifyAppReady).
PartIsOwned ==
    /\ object \in {"adopted", "up", "dropped"} => "part" \in owners
    /\ platform = "android" /\ UnderWay # {} => owners # {}
    /\ platform = "ios" \/ UnderWay = {} =>
         /\ object \in {"up", "dropped"} => owners = {"part"}
         /\ object = "gone" => owners = {}
    /\ ~Idle => object = "up"

\* The work of an installation writes the bundle it was called with, whatever
\* JavaScript does with the memory after the call (toByteArray, toData).
BytesAsGiven ==
    \A c \in Installs : work[c] \in {"running"} \cup Settled => bytes[c] = "lent"

\* Work that was handed over can always go on: some of it runs or may begin,
\* so that neither a failure nor an order of arrival ever blocks the queue (the
\* queue of HybridSalvePushNative on iOS, Promise.async on Android).
QueueMoves ==
    (\E c \in Async : work[c] = "queued") =>
        \E c \in Async : work[c] = "running" \/ (work[c] = "queued" /\ MayStart(c))

\* Once a call has returned, how its work ended is already in its promise: no
\* outcome falls between the listeners that the generated glue adds one after
\* the other while the work runs (installUpdate, notifyAppReady of both sides).
OutcomeHeard ==
    \A c \in Async :
        step[c] = "returned" /\ work[c] \in Settled => promise[c] = work[c]

Effect(c) == IF work[c] \in {"queued", "running"} THEN "accepted" ELSE work[c]

AsyncCallsOfNative == INSTANCE AsyncCalls WITH
    Calls <- Async,
    work <- [c \in Async |-> Effect(c)],
    answer <- [c \in Async |-> answer[c]]

\* A call either throws and does nothing, or its work is done once and it is
\* answered once, after the work and as the work ended, wherever the outcome
\* falls among the two listeners (installUpdate, notifyAppReady of both
\* platforms).
CallsKeepTheirPromise == AsyncCallsOfNative!Spec

-----------------------------------------------------------------------------
(* Liveness.                                                               *)

\* Threads that have begun something go on; JavaScript returns to its loop.
Fairness ==
    \A c \in Calls :
        /\ WF_vars(OnThread(c) /\ step[c] \in InCall)
        /\ WF_vars(Deliver(c))
        /\ WF_vars(c \in Async /\ StartWork(c))
        /\ WF_vars(c \in Async /\ FinishWork(c))

FairSpec == Spec /\ Fairness

\* Every call is answered unless the runtime that asked is gone, also when
\* the object was given up meanwhile (listeners and promises outlive it).
EveryCallAnswered ==
    \A c \in Calls : step[c] # "idle" ~> answer[c] # "none" \/ runtime = "ended"

=============================================================================
