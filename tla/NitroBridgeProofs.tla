-------------------------- MODULE NitroBridgeProofs --------------------------
(***************************************************************************)
(* Theorems about NitroBridge, for any number of calls on either platform. *)
(***************************************************************************)
EXTENDS NitroBridge, WellFoundedInduction, TLAPS

(* What a step is, whichever of the generated methods it belongs to.       *)
LEMMA OneStep ==
    ASSUME [Next]_vars
    PROVE  \/ Lifetime \/ UNCHANGED vars
           \/ \E c \in Calls : Prototype(c) \/ Throws(c) \/ Deliver(c)
           \/ \E c \in Async : HandsOver(c) \/ CreatePromise(c) \/ Return(c)
                                 \/ ListenResolved(c) \/ ListenRejected(c)
                                 \/ StartWork(c) \/ FinishWork(c)
           \/ \E c \in Reads : ReturnValue(c)
           \/ \E c \in Installs : ReuseBuffer(c)
<1>1. ASSUME NEW c \in Calls, OnThread(c)
      PROVE  \/ Prototype(c) \/ Throws(c)
             \/ c \in Async /\ (HandsOver(c) \/ CreatePromise(c) \/ Return(c)
                                  \/ ListenResolved(c) \/ ListenRejected(c))
             \/ c \in Reads /\ ReturnValue(c)
  BY <1>1 DEF OnThread, InstallUpdateOfJava, InstallUpdateOfSwift, Async, Promised,
              NotifyAppReadyOfJava, NotifyAppReadyOfSwift,
              GetCurrentReleaseIdOfJava, GetCurrentReleaseIdOfSwift
<1> QED
  BY <1>1 DEF Next, Calls

-----------------------------------------------------------------------------
(* Types.                                                                  *)

LEMMA TypeStep == TypeOK /\ [Next]_vars => TypeOK'
<1> SUFFICES ASSUME TypeOK, [Next]_vars PROVE TypeOK'
  OBVIOUS
<1> USE DEF lifetime, crossing, Settled, InCall
<1>1. CASE Lifetime
  <2> USE DEF Becomes, Holders
  <2>1. CASE JNI_OnLoad
    BY <2>1 DEF TypeOK, JNI_OnLoad, RegisterNatives, RegisterConstructor
  <2>2. CASE Construct \/ HandOver \/ Dispose \/ Destroy
    BY <2>2 DEF TypeOK, Construct, HandOver, Dispose, Destroy
  <2>3. CASE PassPointer \/ InitHybrid
    BY <2>3 DEF TypeOK, PassPointer, InitHybrid
  <2>4. CASE AdoptSwiftPart \/ AdoptJavaPart
    BY <2>4 DEF TypeOK, AdoptSwiftPart, AdoptJavaPart, SwiftPartHeld, JavaPartHeld
  <2>5. CASE EndRuntime
    BY <2>5 DEF TypeOK, EndRuntime
  <2> QED
    BY <1>1, <2>1, <2>2, <2>3, <2>4, <2>5 DEF Lifetime
<1>2. ASSUME NEW c \in Calls, Prototype(c) PROVE TypeOK'
  BY <1>2 DEF TypeOK, Prototype
<1>3. ASSUME NEW c \in Calls, Throws(c) PROVE TypeOK'
  BY <1>3 DEF TypeOK, Throws
<1>4. ASSUME NEW c \in Calls, Deliver(c) PROVE TypeOK'
  BY <1>4 DEF TypeOK, Deliver
<1>5. ASSUME NEW c \in Async, HandsOver(c) PROVE TypeOK'
  <2>1. c \in Calls /\ buffer[c] \in {"lent", "reused"}
    BY <1>5 DEF TypeOK, Calls
  <2>2. queue' \in Seq(Async)
    BY <1>5 DEF TypeOK, HandsOver
  <2>3. owners' \subseteq Holders \cup Async
    BY <1>5 DEF TypeOK, HandsOver, ClosureHolds
  <2> QED
    BY <1>5, <2>1, <2>2, <2>3 DEF TypeOK, HandsOver
<1>6. ASSUME NEW c \in Async, CreatePromise(c) \/ Return(c) PROVE TypeOK'
  <2>1. CASE CreatePromise(c)
    BY <2>1 DEF TypeOK, CreatePromise, Calls
  <2>2. CASE Return(c)
    BY <2>2 DEF TypeOK, Return, Calls
  <2> QED
    BY <1>6, <2>1, <2>2
<1>7. ASSUME NEW c \in Async, ListenResolved(c) PROVE TypeOK'
  BY <1>7 DEF TypeOK, ListenResolved, Settles, Calls
<1>8. ASSUME NEW c \in Async, ListenRejected(c) PROVE TypeOK'
  BY <1>8 DEF TypeOK, ListenRejected, Settles, Calls
<1>9. ASSUME NEW c \in Async, StartWork(c) PROVE TypeOK'
  BY <1>9 DEF TypeOK, StartWork, Calls
<1>10. ASSUME NEW c \in Async, FinishWork(c) PROVE TypeOK'
  BY <1>10 DEF TypeOK, FinishWork, Calls
<1>11. ASSUME NEW c \in Reads, ReturnValue(c) PROVE TypeOK'
  BY <1>11 DEF TypeOK, ReturnValue, Calls
<1>12. ASSUME NEW c \in Installs, ReuseBuffer(c) PROVE TypeOK'
  BY <1>12 DEF TypeOK, ReuseBuffer, Calls, Async
<1>13. CASE UNCHANGED vars
  BY <1>13 DEF TypeOK, vars
<1> QED
  BY <1>1, <1>2, <1>3, <1>4, <1>5, <1>6, <1>7, <1>8, <1>9, <1>10, <1>11, <1>12,
     <1>13, OneStep

(* Every variable keeps its type, the queue holds asynchronous calls only. *)
THEOREM TypeCorrect == Spec => []TypeOK
<1>1. Init => TypeOK
  BY DEF Init, TypeOK
<1>2. TypeOK /\ [Next]_vars => TypeOK'
  BY TypeStep
<1> QED
  BY <1>1, <1>2, PTL DEF Spec

-----------------------------------------------------------------------------
(* The life of the object: who holds its part at which stage, beside the   *)
(* closures of the work under way, and that no call runs outside "up".     *)

Closures == IF platform = "android" THEN UnderWay ELSE {}

HeldAtStage ==
    /\ object = "none" => owners = {}
    /\ object = "built" => owners = {"creator"}
    /\ object = "passed" =>
         owners = IF platform = "ios" THEN {"creator", "pointer"} ELSE {"creator"}
    /\ object = "adopted" => owners = {"creator", "part"}
    /\ object \in {"up", "dropped"} => owners = {"part"} \cup Closures
    /\ object = "gone" => owners = Closures

NoWorkBefore ==
    object \in {"none", "built", "passed", "adopted"} => UnderWay = {}

OwnershipInv == HeldAtStage /\ NoWorkBefore /\ (~Idle => object = "up")

(* A step that begins and ends no work, nor a call, nor changes who holds. *)
LEMMA OwnershipStays ==
    ASSUME OwnershipInv, UNCHANGED <<platform, object, owners>>, UnderWay' = UnderWay,
           Idle => Idle'
    PROVE  OwnershipInv'
  BY DEF OwnershipInv, HeldAtStage, NoWorkBefore, Closures

LEMMA LifetimeKeepsOwnership ==
    ASSUME TypeOK, OwnershipInv, Lifetime
    PROVE  OwnershipInv'
<1> USE DEF lifetime, crossing, OwnershipInv, HeldAtStage, NoWorkBefore, Becomes
<1>1. UNCHANGED <<platform, step, work>>
  BY DEF Lifetime, JNI_OnLoad, RegisterNatives, RegisterConstructor, Construct,
         PassPointer, AdoptSwiftPart, InitHybrid, AdoptJavaPart, HandOver,
         Dispose, EndRuntime, Destroy
<1>2. /\ UnderWay' = UnderWay /\ Closures' = Closures /\ Idle' = Idle
      /\ Closures \subseteq Calls /\ (UnderWay = {} => Closures = {})
  BY <1>1 DEF UnderWay, Closures, Idle, Calls
<1>3. CASE JNI_OnLoad
  BY <1>2, <1>3 DEF JNI_OnLoad, RegisterNatives, RegisterConstructor
<1>4. CASE Construct \/ PassPointer \/ InitHybrid
  BY <1>1, <1>2, <1>4 DEF Construct, PassPointer, InitHybrid
<1>5. CASE AdoptSwiftPart \/ AdoptJavaPart
  BY <1>2, <1>5 DEF AdoptSwiftPart, AdoptJavaPart, SwiftPartHeld, JavaPartHeld, TypeOK
<1>6. CASE HandOver
  BY <1>2, <1>6 DEF HandOver
<1>7. CASE Destroy
  BY <1>2, <1>7, CallsAreNoHolders DEF Destroy, Holders
<1>8. CASE Dispose \/ EndRuntime
  BY <1>2, <1>8 DEF Dispose, EndRuntime
<1> QED
  BY <1>3, <1>4, <1>5, <1>6, <1>7, <1>8 DEF Lifetime

LEMMA OwnershipStep == TypeOK /\ OwnershipInv /\ [Next]_vars => OwnershipInv'
<1> SUFFICES ASSUME TypeOK, OwnershipInv, [Next]_vars PROVE OwnershipInv'
  OBVIOUS
<1> USE DEF lifetime, crossing
<1>1. CASE Lifetime
  BY <1>1, LifetimeKeepsOwnership
<1>2. ASSUME NEW c \in Calls, Prototype(c) PROVE OwnershipInv'
  BY <1>2 DEF Prototype, OwnershipInv, HeldAtStage, NoWorkBefore, Closures, UnderWay
<1>3. CASE UNCHANGED <<platform, object, owners, step, work>>
  BY <1>3, OwnershipStays DEF UnderWay, Idle
<1>4. ASSUME NEW c \in Calls, UNCHANGED <<platform, object, owners, work>>,
             step[c] \in InCall, NEW s, step' = [step EXCEPT ![c] = s]
      PROVE  OwnershipInv'
  BY <1>4, OwnershipStays DEF UnderWay, Idle
<1>5. ASSUME NEW c \in Calls, Throws(c) \/ Deliver(c) PROVE OwnershipInv'
  BY <1>3, <1>4, <1>5 DEF Throws, Deliver, InCall
<1>6. ASSUME NEW c \in Async,
             CreatePromise(c) \/ Return(c) \/ ListenResolved(c) \/ ListenRejected(c)
      PROVE  OwnershipInv'
  BY <1>4, <1>6 DEF CreatePromise, Return, ListenResolved, ListenRejected, Calls, InCall
<1>7. ASSUME NEW c \in Async, HandsOver(c) PROVE OwnershipInv'
  <2>1. c \in Calls /\ object = "up" /\ object' = object /\ platform' = platform
    BY <1>7 DEF HandsOver, OwnershipInv, Idle, InCall, Calls
  <2>2. UnderWay' = UnderWay \cup {c}
    BY <1>7, <2>1 DEF HandsOver, UnderWay, TypeOK
  <2>3. Closures' = Closures \cup ClosureHolds(c)
    BY <2>1, <2>2 DEF Closures, ClosureHolds
  <2> QED
    BY <1>7, <2>1, <2>3 DEF HandsOver, OwnershipInv, HeldAtStage, NoWorkBefore
<1>8. ASSUME NEW c \in Async, StartWork(c) PROVE OwnershipInv'
  <2>1. UnderWay' = UnderWay
    BY <1>8 DEF StartWork, UnderWay, TypeOK, Calls
  <2> QED
    BY <1>8, <2>1, OwnershipStays DEF StartWork, Idle
<1>9. ASSUME NEW c \in Async, FinishWork(c) PROVE OwnershipInv'
  <2>1. c \notin Holders /\ UNCHANGED <<platform, object, step>>
    BY <1>9, CallsAreNoHolders DEF FinishWork, Calls
  <2>2. UnderWay' = UnderWay \ {c} /\ c \in UnderWay
    BY <1>9 DEF FinishWork, UnderWay, TypeOK, Calls, Settled
  <2>3. Closures' = Closures \ {c}
    BY <2>1, <2>2 DEF Closures
  <2>4. object \in {"up", "dropped", "gone"}
    BY <2>2 DEF OwnershipInv, NoWorkBefore, TypeOK
  <2> QED
    BY <1>9, <2>1, <2>3, <2>4
       DEF FinishWork, Holders, OwnershipInv, HeldAtStage, NoWorkBefore, Idle
<1>10. ASSUME NEW c \in Reads, ReturnValue(c) PROVE OwnershipInv'
  BY <1>4, <1>10 DEF ReturnValue, InCall, Calls
<1>11. ASSUME NEW c \in Installs, ReuseBuffer(c) PROVE OwnershipInv'
  BY <1>3, <1>11 DEF ReuseBuffer
<1> QED
  BY <1>1, <1>2, <1>3, <1>5, <1>6, <1>7, <1>8, <1>9, <1>10, <1>11, OneStep DEF vars

(* The Kotlin or Swift part is held exactly as long as the C++ part points *)
(* to it or, on Android, the work of a call needs it: never used after its *)
(* end, and never leaked.                                                  *)
THEOREM PartAlwaysOwned == Spec => []PartIsOwned
<1>1. Init => OwnershipInv
  BY DEF Init, OwnershipInv, HeldAtStage, NoWorkBefore, UnderWay, Idle, InCall, Async, Calls
<1>2. TypeOK /\ OwnershipInv /\ [Next]_vars => OwnershipInv'
  BY OwnershipStep
<1>3. TypeOK /\ OwnershipInv => PartIsOwned
  <2> SUFFICES ASSUME TypeOK, OwnershipInv PROVE PartIsOwned
    OBVIOUS
  <2>1. UnderWay # {} => object \in {"up", "dropped", "gone"}
    BY DEF OwnershipInv, NoWorkBefore, TypeOK
  <2>2. platform = "ios" \/ UnderWay = {} => Closures = {}
    BY DEF Closures
  <2>3. platform = "android" => Closures = UnderWay
    BY DEF Closures
  <2> QED
    BY <2>1, <2>2, <2>3 DEF OwnershipInv, HeldAtStage, PartIsOwned
<1> QED
  BY <1>1, <1>2, <1>3, TypeCorrect, PTL DEF Spec

-----------------------------------------------------------------------------
(* What a call has done by each of its steps.                              *)

NothingDoneYet ==
    \A c \in Calls : step[c] \in {"idle", "native"} =>
        work[c] = "none" /\ answer[c] = "none" /\ promise[c] = "none"

LentUntilReturn ==
    \A c \in Installs :
        /\ step[c] # "returned" => buffer[c] = "lent"
        /\ work[c] # "none" => bytes[c] = "lent"

PromiseFollowsWork ==
    \A c \in Calls : promise[c] \in Settled => work[c] = promise[c]

QueuedHasWork == \A i \in 1..Len(queue) : work[queue[i]] # "none"

CallInv == NothingDoneYet /\ LentUntilReturn /\ PromiseFollowsWork /\ QueuedHasWork

LEMMA HandsOverQueuesWork ==
    ASSUME TypeOK, CallInv, NEW c \in Async, HandsOver(c)
    PROVE  QueuedHasWork'
<1> USE DEF TypeOK
<1>1. c \in Calls /\ work[c] = "none"
  BY DEF HandsOver, CallInv, NothingDoneYet, Calls
<1>2. /\ Len(queue) \in Nat /\ Len(queue') = Len(queue) + 1
      /\ \A i \in 1..Len(queue) : queue'[i] = queue[i] /\ queue[i] \in Async
      /\ queue'[Len(queue')] = c
  BY DEF HandsOver
<1>3. \A i \in 1..Len(queue) : queue[i] # c
  BY <1>1 DEF CallInv, QueuedHasWork
<1>4. work'[c] = "queued" /\ \A i \in 1..Len(queue) : work'[queue[i]] = work[queue[i]]
  BY <1>1, <1>2, <1>3 DEF HandsOver, Calls
<1> QED
  BY <1>2, <1>4 DEF CallInv, QueuedHasWork

LEMMA CallStep == TypeOK /\ CallInv /\ [Next]_vars => CallInv'
<1> SUFFICES ASSUME TypeOK, CallInv, [Next]_vars PROVE CallInv'
  OBVIOUS
<1> USE DEF TypeOK, CallInv, NothingDoneYet, LentUntilReturn, PromiseFollowsWork,
            lifetime, crossing
<1>1. CASE Lifetime
  <2>1. UNCHANGED <<crossing, buffer, bytes>>
    BY <1>1 DEF Lifetime, JNI_OnLoad, RegisterNatives, RegisterConstructor, Construct,
                PassPointer, AdoptSwiftPart, InitHybrid, AdoptJavaPart, HandOver,
                Dispose, EndRuntime, Destroy, Becomes
  <2> QED
    BY <2>1 DEF QueuedHasWork
<1>2. CASE UNCHANGED vars
  BY <1>2 DEF vars, QueuedHasWork
<1>3. ASSUME UNCHANGED <<queue, work>> PROVE QueuedHasWork'
  BY <1>3 DEF QueuedHasWork
<1>4. ASSUME NEW c \in Calls, Prototype(c) PROVE CallInv'
  <2>1. NothingDoneYet' /\ LentUntilReturn' /\ PromiseFollowsWork'
    BY <1>4 DEF Prototype
  <2> QED
    BY <1>3, <1>4, <2>1 DEF Prototype
<1>5. ASSUME NEW c \in Calls, Throws(c) PROVE CallInv'
  <2>1. NothingDoneYet' /\ LentUntilReturn' /\ PromiseFollowsWork'
    BY <1>5 DEF Throws
  <2> QED
    BY <1>3, <1>5, <2>1 DEF Throws
<1>6. ASSUME NEW c \in Calls, Deliver(c) PROVE CallInv'
  <2>1. NothingDoneYet' /\ LentUntilReturn' /\ PromiseFollowsWork'
    BY <1>6 DEF Deliver
  <2> QED
    BY <1>3, <1>6, <2>1 DEF Deliver
<1>7. ASSUME NEW c \in Async, HandsOver(c) PROVE CallInv'
  <2>1. NothingDoneYet' /\ LentUntilReturn' /\ PromiseFollowsWork'
    BY <1>7 DEF HandsOver, Calls, Settled, Async
  <2> QED
    BY <1>7, <2>1, HandsOverQueuesWork
<1>8. ASSUME NEW c \in Async, CreatePromise(c) PROVE CallInv'
  <2>1. NothingDoneYet' /\ LentUntilReturn' /\ PromiseFollowsWork'
    BY <1>8 DEF CreatePromise, Calls, Settled
  <2> QED
    BY <1>3, <1>8, <2>1 DEF CreatePromise
<1>9. ASSUME NEW c \in Async, Return(c) PROVE CallInv'
  <2>1. NothingDoneYet' /\ LentUntilReturn' /\ PromiseFollowsWork'
    BY <1>9 DEF Return
  <2> QED
    BY <1>3, <1>9, <2>1 DEF Return
<1>10. ASSUME NEW c \in Async, ListenResolved(c) PROVE CallInv'
  <2>1. NothingDoneYet' /\ LentUntilReturn' /\ PromiseFollowsWork'
    BY <1>10 DEF ListenResolved, Settles, Calls
  <2> QED
    BY <1>3, <1>10, <2>1 DEF ListenResolved
<1>11. ASSUME NEW c \in Async, ListenRejected(c) PROVE CallInv'
  <2>1. NothingDoneYet' /\ LentUntilReturn' /\ PromiseFollowsWork'
    BY <1>11 DEF ListenRejected, Settles, Calls
  <2> QED
    BY <1>3, <1>11, <2>1 DEF ListenRejected
<1>12. ASSUME NEW c \in Async, StartWork(c) PROVE CallInv'
  <2>1. NothingDoneYet' /\ LentUntilReturn' /\ PromiseFollowsWork'
    BY <1>12 DEF StartWork, Calls, Settled
  <2>2. QueuedHasWork'
    BY <1>12 DEF QueuedHasWork, StartWork, Calls
  <2> QED
    BY <2>1, <2>2
<1>13. ASSUME NEW c \in Async, FinishWork(c) PROVE CallInv'
  <2>1. NothingDoneYet' /\ LentUntilReturn'
    BY <1>13 DEF FinishWork, Calls
  <2>2. PromiseFollowsWork'
    BY <1>13 DEF FinishWork, Calls, Settled
  <2>3. QueuedHasWork'
    BY <1>13 DEF QueuedHasWork, FinishWork, Calls, Settled
  <2> QED
    BY <2>1, <2>2, <2>3
<1>14. ASSUME NEW c \in Reads, ReturnValue(c) PROVE CallInv'
  <2>1. NothingDoneYet' /\ LentUntilReturn' /\ PromiseFollowsWork'
    BY <1>14 DEF ReturnValue, Calls
  <2> QED
    BY <1>3, <1>14, <2>1 DEF ReturnValue
<1>15. ASSUME NEW c \in Installs, ReuseBuffer(c) PROVE CallInv'
  <2>1. NothingDoneYet' /\ LentUntilReturn' /\ PromiseFollowsWork'
    BY <1>15 DEF ReuseBuffer, Calls, Async
  <2> QED
    BY <1>3, <1>15, <2>1 DEF ReuseBuffer
<1> QED
  BY <1>1, <1>2, <1>4, <1>5, <1>6, <1>7, <1>8, <1>9, <1>10, <1>11, <1>12, <1>13,
     <1>14, <1>15, OneStep

LEMMA CallsWellFormed == Spec => [](TypeOK /\ CallInv)
<1>1. Init => CallInv
  <2> SUFFICES ASSUME Init PROVE CallInv
    OBVIOUS
  <2>1. NothingDoneYet /\ LentUntilReturn /\ PromiseFollowsWork
    BY DEF Init, NothingDoneYet, LentUntilReturn, PromiseFollowsWork, Settled, Calls, Async
  <2>2. QueuedHasWork
    BY DEF Init, QueuedHasWork
  <2> QED
    BY <2>1, <2>2 DEF CallInv
<1>2. TypeOK /\ CallInv /\ [Next]_vars => CallInv'
  BY CallStep
<1> QED
  BY <1>1, <1>2, TypeCorrect, PTL DEF Spec

(* The work of an installation gets the bytes its caller meant.            *)
THEOREM BytesAlwaysAsGiven == Spec => []BytesAsGiven
<1>1. TypeOK /\ CallInv => BytesAsGiven
  BY DEF CallInv, LentUntilReturn, BytesAsGiven, Settled
<1> QED
  BY <1>1, CallsWellFormed, PTL

-----------------------------------------------------------------------------
(* The queue holds the calls that handed their work over, each one once.   *)

EachOnce ==
    \A i, j \in 1..Len(queue) : queue[i] = queue[j] => i = j

WorkIsQueued ==
    \A c \in Calls : work[c] # "none" => \E i \in 1..Len(queue) : queue[i] = c

QueueInv == EachOnce /\ WorkIsQueued

LEMMA HandsOverQueuesOnce ==
    ASSUME TypeOK, CallInv, QueueInv, NEW c \in Async, HandsOver(c)
    PROVE  QueueInv'
<1> USE DEF TypeOK
<1>1. c \in Calls /\ work[c] = "none"
  BY DEF HandsOver, CallInv, NothingDoneYet, Calls
<1>2. /\ Len(queue) \in Nat /\ Len(queue') = Len(queue) + 1
      /\ \A i \in 1..Len(queue) : queue'[i] = queue[i] /\ queue[i] # c
      /\ queue'[Len(queue')] = c
  BY <1>1 DEF HandsOver, CallInv, QueuedHasWork
<1>3. EachOnce'
  <2> SUFFICES ASSUME NEW i \in 1..Len(queue'), NEW j \in 1..Len(queue'),
                      queue'[i] = queue'[j]
               PROVE  i = j
    BY DEF EachOnce
  <2>1. CASE i = Len(queue') \/ j = Len(queue')
    BY <1>2, <2>1
  <2>2. CASE i # Len(queue') /\ j # Len(queue')
    <3>1. i \in 1..Len(queue) /\ j \in 1..Len(queue)
      BY <1>2, <2>2
    <3> QED
      BY <1>2, <3>1 DEF QueueInv, EachOnce
  <2> QED
    BY <2>1, <2>2
<1>4. WorkIsQueued'
  <2> SUFFICES ASSUME NEW d \in Calls, work'[d] # "none"
               PROVE  \E i \in 1..Len(queue') : queue'[i] = d
    BY DEF WorkIsQueued
  <2>1. CASE d = c
    <3>1. Len(queue') \in 1..Len(queue')
      BY <1>2
    <3> QED
      BY <1>2, <2>1, <3>1
  <2>2. CASE d # c
    <3>1. PICK i \in 1..Len(queue) : queue[i] = d
      BY <1>1, <2>2 DEF HandsOver, QueueInv, WorkIsQueued
    <3>2. i \in 1..Len(queue')
      BY <1>2
    <3> QED
      BY <1>2, <3>1, <3>2
  <2> QED
    BY <2>1, <2>2
<1> QED
  BY <1>3, <1>4 DEF QueueInv

LEMMA QueueStep == TypeOK /\ CallInv /\ QueueInv /\ [Next]_vars => QueueInv'
<1> SUFFICES ASSUME TypeOK, CallInv, QueueInv, [Next]_vars PROVE QueueInv'
  OBVIOUS
<1> USE DEF lifetime, crossing
<1>1. CASE UNCHANGED <<queue, work>>
  BY <1>1 DEF QueueInv, EachOnce, WorkIsQueued
<1>2. CASE Lifetime
  BY <1>1, <1>2
     DEF Lifetime, JNI_OnLoad, RegisterNatives, RegisterConstructor, Construct,
         PassPointer, AdoptSwiftPart, InitHybrid, AdoptJavaPart, HandOver,
         Dispose, EndRuntime, Destroy, Becomes
<1>3. ASSUME NEW c \in Calls, Prototype(c) \/ Throws(c) \/ Deliver(c) \/ ReturnValue(c)
      PROVE  QueueInv'
  BY <1>1, <1>3 DEF Prototype, Throws, Deliver, ReturnValue
<1>4. ASSUME NEW c \in Async,
             CreatePromise(c) \/ Return(c) \/ ListenResolved(c) \/ ListenRejected(c)
      PROVE  QueueInv'
  BY <1>1, <1>4 DEF CreatePromise, Return, ListenResolved, ListenRejected
<1>5. ASSUME NEW c \in Async, HandsOver(c) PROVE QueueInv'
  BY <1>5, HandsOverQueuesOnce
<1>6. ASSUME NEW c \in Async, work[c] # "none", NEW w, work' = [work EXCEPT ![c] = w],
             UNCHANGED queue
      PROVE  QueueInv'
  BY <1>6 DEF QueueInv, EachOnce, WorkIsQueued, TypeOK
<1>7. ASSUME NEW c \in Async, StartWork(c) \/ FinishWork(c) PROVE QueueInv'
  BY <1>6, <1>7 DEF StartWork, FinishWork
<1>8. ASSUME NEW c \in Installs, ReuseBuffer(c) PROVE QueueInv'
  BY <1>1, <1>8 DEF ReuseBuffer
<1>9. CASE UNCHANGED vars
  BY <1>1, <1>9 DEF vars
<1> QED
  BY <1>2, <1>3, <1>4, <1>5, <1>7, <1>8, <1>9, OneStep DEF Calls

(* A set of positions that is not empty has a first one.                   *)
LEMMA FirstPosition ==
    ASSUME NEW S \in SUBSET Nat, S # {}
    PROVE  \E m \in S : \A i \in S : ~(i < m)
<1>1. PICK m \in S : \A i \in S : <<i, m>> \notin OpToRel(<, Nat)
  BY NatLessThanWellFounded, WFMin, Zenon
<1> QED
  BY <1>1 DEF OpToRel

(* The first call of the queue with work left either runs it or may begin. *)
LEMMA FirstMoves == TypeOK /\ CallInv /\ QueueInv => QueueMoves
<1> SUFFICES ASSUME TypeOK, CallInv, QueueInv,
                    NEW c \in Async, work[c] = "queued"
             PROVE  \E d \in Async : work[d] = "running" \/ (work[d] = "queued" /\ MayStart(d))
  BY DEF QueueMoves
<1> DEFINE Left == {i \in 1..Len(queue) : work[queue[i]] \notin Settled}
<1>1. Left \in SUBSET Nat /\ Left # {}
  <2>1. PICK i \in 1..Len(queue) : queue[i] = c
    BY DEF QueueInv, WorkIsQueued, Calls
  <2> QED
    BY <2>1 DEF Settled
<1>2. PICK m \in Left : \A i \in Left : ~(i < m)
  BY <1>1, FirstPosition
<1>3. queue[m] \in Async /\ work[queue[m]] \in {"queued", "running"}
  BY <1>2 DEF TypeOK, CallInv, QueuedHasWork, Calls
<1>4. MayStart(queue[m])
  <2> SUFFICES ASSUME NEW i \in 1..Len(queue), NEW j \in 1..Len(queue),
                      i < j, queue[j] = queue[m]
               PROVE  work[queue[i]] \in Settled
    BY DEF MayStart
  <2>1. j = m
    BY <1>2 DEF QueueInv, EachOnce
  <2> QED
    BY <1>2, <2>1
<1> QED
  BY <1>3, <1>4

LEMMA QueueWellFormed == Spec => [](TypeOK /\ CallInv /\ QueueInv)
<1>1. Init => QueueInv
  BY DEF Init, QueueInv, EachOnce, WorkIsQueued
<1>2. TypeOK /\ CallInv /\ QueueInv /\ [Next]_vars => QueueInv'
  BY QueueStep
<1> QED
  BY <1>1, <1>2, CallsWellFormed, PTL DEF Spec

(* Work that was handed over is never stuck: neither work that failed nor  *)
(* the order of arrival leaves the queue with nothing that can go on.      *)
THEOREM QueueNeverStuck == Spec => []QueueMoves
<1>1. TypeOK /\ CallInv /\ QueueInv => QueueMoves
  BY FirstMoves
<1> QED
  BY <1>1, QueueWellFormed, PTL

-----------------------------------------------------------------------------
(* Which listeners a call has added by each of its steps, and that no      *)
(* outcome that has a listener is missing from the promise.                *)

ListenersByStep(c) ==
    /\ step[c] \in {"idle", "native", "promise", "onResolved"} => heard[c] = {}
    /\ step[c] = "onRejected" => heard[c] = {"resolved"}
    /\ step[c] = "return" => heard[c] = Settled
    /\ step[c] = "returned" /\ work[c] # "none" => heard[c] = Settled

HeardIsTold(c) == work[c] \in heard[c] => promise[c] = work[c]

ListenInv == \A c \in Calls : ListenersByStep(c) /\ HeardIsTold(c)

LEMMA ListenStep == TypeOK /\ CallInv /\ ListenInv /\ [Next]_vars => ListenInv'
<1> SUFFICES ASSUME TypeOK, CallInv, ListenInv, [Next]_vars PROVE ListenInv'
  OBVIOUS
<1> USE DEF lifetime, crossing
<1>1. CASE UNCHANGED <<step, work, heard, promise>>
  BY <1>1 DEF ListenInv, ListenersByStep, HeardIsTold
<1>2. CASE Lifetime
  BY <1>1, <1>2
     DEF Lifetime, JNI_OnLoad, RegisterNatives, RegisterConstructor, Construct,
         PassPointer, AdoptSwiftPart, InitHybrid, AdoptJavaPart, HandOver,
         Dispose, EndRuntime, Destroy, Becomes
<1> USE DEF TypeOK, ListenInv, ListenersByStep, HeardIsTold, Settled, Calls
<1>3. ASSUME NEW c \in Calls, Prototype(c) PROVE ListenInv'
  BY <1>3 DEF Prototype
<1>4. ASSUME NEW c \in Calls, Throws(c) \/ ReturnValue(c) PROVE ListenInv'
  <2>1. work[c] = "none"
    BY <1>4 DEF Throws, ReturnValue, CallInv, NothingDoneYet
  <2> QED
    BY <1>4, <2>1 DEF Throws, ReturnValue
<1>5. ASSUME NEW c \in Calls, Deliver(c) PROVE ListenInv'
  BY <1>1, <1>5 DEF Deliver
<1>6. ASSUME NEW c \in Async, HandsOver(c) PROVE ListenInv'
  BY <1>6 DEF HandsOver
<1>7. ASSUME NEW c \in Async, CreatePromise(c) PROVE ListenInv'
  BY <1>7 DEF CreatePromise
<1>8. ASSUME NEW c \in Async, ListenResolved(c) PROVE ListenInv'
  BY <1>8 DEF ListenResolved, Settles
<1>9. ASSUME NEW c \in Async, ListenRejected(c) PROVE ListenInv'
  BY <1>9 DEF ListenRejected, Settles
<1>10. ASSUME NEW c \in Async, Return(c) PROVE ListenInv'
  BY <1>10 DEF Return
<1>11. ASSUME NEW c \in Async, StartWork(c) PROVE ListenInv'
  BY <1>11 DEF StartWork
<1>12. ASSUME NEW c \in Async, FinishWork(c) PROVE ListenInv'
  BY <1>12 DEF FinishWork
<1>13. ASSUME NEW c \in Installs, ReuseBuffer(c) PROVE ListenInv'
  BY <1>1, <1>13 DEF ReuseBuffer
<1>14. CASE UNCHANGED vars
  BY <1>1, <1>14 DEF vars
<1> QED
  BY <1>2, <1>3, <1>4, <1>5, <1>6, <1>7, <1>8, <1>9, <1>10, <1>11, <1>12, <1>13,
     <1>14, OneStep

LEMMA ListenersWellFormed == Spec => [](TypeOK /\ CallInv /\ ListenInv)
<1>1. Init => ListenInv
  BY DEF Init, ListenInv, ListenersByStep, HeardIsTold
<1>2. TypeOK /\ CallInv /\ ListenInv /\ [Next]_vars => ListenInv'
  BY ListenStep
<1> QED
  BY <1>1, <1>2, CallsWellFormed, PTL DEF Spec

(* No outcome is lost between the two listeners: when the call has         *)
(* returned and its work has ended, its promise has the outcome.           *)
THEOREM OutcomeAlwaysHeard == Spec => []OutcomeHeard
<1>1. TypeOK /\ CallInv /\ ListenInv => OutcomeHeard
  BY DEF ListenInv, ListenersByStep, HeardIsTold, OutcomeHeard, Settled, Calls
<1> QED
  BY <1>1, ListenersWellFormed, PTL

-----------------------------------------------------------------------------
(* What JavaScript may rely on.                                            *)

LEMMA CallRefines ==
    ASSUME TypeOK, CallInv, [Next]_vars
    PROVE  [AsyncCallsOfNative!Next]_<<[c \in Async |-> Effect(c)],
                                       [c \in Async |-> answer[c]]>>
<1> DEFINE effects == [c \in Async |-> Effect(c)]
           answers == [c \in Async |-> answer[c]]
<1> USE DEF TypeOK, Settled
<1>0. Async \subseteq Calls
  BY DEF Calls
<1>1. ASSUME UNCHANGED <<work, answer>> PROVE UNCHANGED <<effects, answers>>
  BY <1>1 DEF Effect
<1>2. ASSUME Lifetime \/ UNCHANGED vars PROVE UNCHANGED <<effects, answers>>
  BY <1>1, <1>2
     DEF Lifetime, JNI_OnLoad, RegisterNatives, RegisterConstructor, Construct,
         PassPointer, AdoptSwiftPart, InitHybrid, AdoptJavaPart, HandOver,
         Dispose, EndRuntime, Destroy, Becomes, vars, crossing
<1>3. ASSUME NEW c \in Calls, Prototype(c) PROVE UNCHANGED <<effects, answers>>
  BY <1>1, <1>3 DEF Prototype
<1>4. ASSUME NEW c \in Calls, Throws(c)
      PROVE  [AsyncCallsOfNative!Next]_<<effects, answers>>
  <2>1. UNCHANGED effects
    BY <1>4 DEF Throws, Effect
  <2>2. CASE c \in Async
    <3>1. effects[c] = "none" /\ answers[c] = "none"
      BY <1>4, <2>2, <1>0 DEF Throws, CallInv, NothingDoneYet, Effect
    <3>2. answers' = [answers EXCEPT ![c] = "thrown"]
      BY <1>4, <2>2, <1>0 DEF Throws
    <3> QED
      BY <2>1, <2>2, <3>1, <3>2 DEF AsyncCallsOfNative!Next, AsyncCallsOfNative!Throw
  <2>3. CASE c \notin Async
    BY <1>4, <2>1, <2>3, <1>0 DEF Throws
  <2> QED
    BY <2>2, <2>3
<1>5. ASSUME NEW c \in Calls, Deliver(c)
      PROVE  [AsyncCallsOfNative!Next]_<<effects, answers>>
  <2>1. UNCHANGED effects
    BY <1>5 DEF Deliver, Effect
  <2>2. CASE c \in Async
    <3>1. /\ promise[c] = work[c] /\ work[c] \in {"resolved", "rejected"}
          /\ effects[c] = work[c] /\ answers[c] = "none"
      BY <1>5, <2>2, <1>0 DEF Deliver, CallInv, PromiseFollowsWork, Effect
    <3>2. answers' = [answers EXCEPT ![c] = effects[c]]
      BY <1>5, <2>2, <3>1, <1>0 DEF Deliver
    <3> QED
      BY <2>1, <2>2, <3>1, <3>2 DEF AsyncCallsOfNative!Next, AsyncCallsOfNative!Answer
  <2>3. CASE c \notin Async
    BY <1>5, <2>1, <2>3, <1>0 DEF Deliver
  <2> QED
    BY <2>2, <2>3
<1>6. ASSUME NEW c \in Async, HandsOver(c)
      PROVE  [AsyncCallsOfNative!Next]_<<effects, answers>>
  <2>1. effects[c] = "none" /\ answers[c] = "none"
    BY <1>6, <1>0 DEF HandsOver, CallInv, NothingDoneYet, Effect
  <2>2. effects' = [effects EXCEPT ![c] = "accepted"] /\ UNCHANGED answers
    BY <1>6, <1>0 DEF HandsOver, Effect
  <2> QED
    BY <2>1, <2>2 DEF AsyncCallsOfNative!Next, AsyncCallsOfNative!Accept
<1>7. ASSUME NEW c \in Async,
             CreatePromise(c) \/ Return(c) \/ ListenResolved(c) \/ ListenRejected(c)
      PROVE  UNCHANGED <<effects, answers>>
  BY <1>1, <1>7 DEF CreatePromise, Return, ListenResolved, ListenRejected
<1>8. ASSUME NEW c \in Async, StartWork(c) PROVE UNCHANGED <<effects, answers>>
  BY <1>8, <1>0 DEF StartWork, Effect
<1>9. ASSUME NEW c \in Async, FinishWork(c)
      PROVE  [AsyncCallsOfNative!Next]_<<effects, answers>>
  <2>1. PICK outcome \in {"resolved", "rejected"} : work' = [work EXCEPT ![c] = outcome]
    BY <1>9 DEF FinishWork
  <2>2. effects[c] = "accepted" /\ UNCHANGED answers
    BY <1>9 DEF FinishWork, Effect
  <2>3. effects' = [effects EXCEPT ![c] = outcome]
    BY <2>1, <1>0 DEF Effect
  <2> QED
    BY <2>2, <2>3 DEF AsyncCallsOfNative!Next, AsyncCallsOfNative!Perform
<1>10. ASSUME NEW c \in Reads, ReturnValue(c) PROVE UNCHANGED <<effects, answers>>
  BY <1>10, ReadsAreSynchronous DEF ReturnValue, Effect, Calls
<1>11. ASSUME NEW c \in Installs, ReuseBuffer(c) PROVE UNCHANGED <<effects, answers>>
  BY <1>1, <1>11 DEF ReuseBuffer, crossing
<1> HIDE DEF effects, answers
<1>12. [AsyncCallsOfNative!Next]_<<effects, answers>>
  BY <1>2, <1>3, <1>4, <1>5, <1>6, <1>7, <1>8, <1>9, <1>10, <1>11, OneStep
<1> QED
  BY <1>12 DEF effects, answers

(* The glue keeps what AsyncCalls promises: thrown and not begun, or done  *)
(* once and answered once, as it ended.                                    *)
THEOREM ImplementsAsyncCalls == Spec => CallsKeepTheirPromise
<1>1. Init => AsyncCallsOfNative!Init
  BY DEF Init, AsyncCallsOfNative!Init, Effect, Calls
<1>2. TypeOK /\ CallInv /\ [Next]_vars
        => [AsyncCallsOfNative!Next]_<<[c \in Async |-> Effect(c)],
                                       [c \in Async |-> answer[c]]>>
  BY CallRefines
<1> QED
  BY <1>1, <1>2, CallsWellFormed, PTL
     DEF Spec, CallsKeepTheirPromise, AsyncCallsOfNative!Spec
=============================================================================
