---------------------------- MODULE ReleaseServer ----------------------------
(***************************************************************************)
(* The update server between publishers and devices: uploads run           *)
(* concurrently and write a bundle to the blob store, then a row to the    *)
(* database; releases are published; devices ask for the newest one and    *)
(* download it.  The server may crash, a store may fail, an answer may be  *)
(* cut short.  An upload gets a fresh uuid, so the upload names its        *)
(* release; a hash stands for the bytes it is the hash of.                 *)
(***************************************************************************)
EXTENDS Naturals

CONSTANTS
    Uploads,    \* requests to create a release, retries included
    Devices,    \* apps, each asking only when its last check has ended
    Channels,   \* channel, platform and runtime version, taken together
    None

ASSUME NoneIsNoUpload == None \notin Uploads

\* rollout_percentage is 0, or more; or the form is none the server accepts.
Rollouts == {"none", "some", "invalid"}

VARIABLES
    uploads,     \* each upload's step and the form it sent
    blobs,       \* releases/<id>/bundle in the store
    rows,        \* the releases table
    published,   \* published_at, 0 for NULL
    clock,       \* readings of the wall clock so far
    devices      \* what each device was offered, has verified, and does

vars == <<uploads, blobs, rows, published, clock, devices>>

Active == {"put", "copy", "stamp", "insert"}
Finished == {"done", "failed"}

UploadRecord == [pc : {"new"} \cup Active \cup Finished, intact : BOOLEAN,
                 signed : BOOLEAN, channel : Channels, rollout : Rollouts,
                 created : Nat]

\* answer: what the server has answered and the device has not received.
DeviceRecord == [pc : {"idle", "asked", "open", "copy"}, channel : Channels,
                 answer : Uploads \cup {None}, offer : Uploads \cup {None},
                 verified : Uploads \cup {None}, bytes : {"none", "partial", "whole"}]

TypeOK ==
    /\ uploads \in [Uploads -> UploadRecord]
    /\ blobs \in [Uploads -> {"absent", "partial", "whole"}]
    /\ rows \subseteq Uploads
    /\ published \in [Uploads -> Nat]
    /\ clock \in Nat
    /\ devices \in [Devices -> DeviceRecord]

Init ==
    /\ uploads \in [Uploads -> [pc : {"new"}, intact : BOOLEAN, signed : BOOLEAN,
                                channel : Channels, rollout : Rollouts,
                                created : {0}]]
    /\ blobs = [u \in Uploads |-> "absent"]
    /\ rows = {}
    /\ published = [u \in Uploads |-> 0]
    /\ clock = 0
    /\ devices \in [Devices -> [pc : {"idle"}, channel : Channels,
                                answer : {None}, offer : {None},
                                verified : {None}, bytes : {"none"}]]

-----------------------------------------------------------------------------
(* Create: one request, its steps interleaved with every other's.          *)

\* Variant: the declared hash is not compared with the bytes received.
ReceiveUnchecked(u) ==
    /\ uploads[u].pc = "new"
    /\ uploads' = [uploads EXCEPT ![u].pc = "put"]
    /\ UNCHANGED <<blobs, rows, published, clock, devices>>

\* The form is checked, the bytes are read and hashed; one that is incomplete
\* or has no such percentage is refused, and so is a damaged upload.
Receive(u) ==
    /\ uploads[u].pc = "new"
    /\ uploads' = [uploads EXCEPT ![u].pc =
                     IF uploads[u].rollout # "invalid" /\ uploads[u].intact
                       THEN "put" ELSE "failed"]
    /\ UNCHANGED <<blobs, rows, published, clock, devices>>

\* os.Create: the file exists and is empty.
CreateBlob(u) ==
    /\ uploads[u].pc = "put"
    /\ \/ /\ blobs' = [blobs EXCEPT ![u] = "partial"]
          /\ uploads' = [uploads EXCEPT ![u].pc = "copy"]
       \/ /\ uploads' = [uploads EXCEPT ![u].pc = "failed"]
          /\ UNCHANGED blobs
    /\ UNCHANGED <<rows, published, clock, devices>>

\* io.Copy: a failure leaves what was written.
CopyBlob(u) ==
    /\ uploads[u].pc = "copy"
    /\ \/ /\ blobs' = [blobs EXCEPT ![u] = "whole"]
          /\ uploads' = [uploads EXCEPT ![u].pc = "stamp"]
       \/ /\ uploads' = [uploads EXCEPT ![u].pc = "failed"]
          /\ UNCHANGED blobs
    /\ UNCHANGED <<rows, published, clock, devices>>

\* created_at is the time before the INSERT, not of it.
Stamp(u) ==
    /\ uploads[u].pc = "stamp"
    /\ clock' = clock + 1
    /\ uploads' = [uploads EXCEPT ![u].pc = "insert", ![u].created = clock + 1]
    /\ UNCHANGED <<blobs, rows, published, devices>>

\* The INSERT may fail, and may fail to report that it did not.
Insert(u) ==
    /\ uploads[u].pc = "insert"
    /\ \/ /\ rows' = rows \cup {u}
          /\ \E pc \in Finished : uploads' = [uploads EXCEPT ![u].pc = pc]
       \/ /\ uploads' = [uploads EXCEPT ![u].pc = "failed"]
          /\ UNCHANGED rows
    /\ UNCHANGED <<blobs, published, clock, devices>>

\* UPDATE ... WHERE published_at IS NULL: publishing again changes nothing.
Publish(u) ==
    /\ u \in rows
    /\ published[u] = 0
    /\ clock' = clock + 1
    /\ published' = [published EXCEPT ![u] = clock + 1]
    /\ UNCHANGED <<uploads, blobs, rows, devices>>

-----------------------------------------------------------------------------
(* Devices: checkForUpdate, downloadUpdate and the handlers behind them.   *)

Offers(c) ==
    {u \in rows : /\ published[u] # 0
                  /\ uploads[u].channel = c
                  /\ uploads[u].rollout # "none"}

\* Variant: the releases come back oldest first.
OldestFirst(c, u) ==
    u \in Offers(c) /\ \A v \in Offers(c) : uploads[v].created >= uploads[u].created

\* ORDER BY created_at DESC, of which the SDK takes the first.
Newest(c, u) ==
    u \in Offers(c) /\ \A v \in Offers(c) : uploads[v].created <= uploads[u].created

\* Variant: the release offered last time is not offered again.
ListIfNew(d) ==
    /\ devices[d].pc = "idle"
    /\ \E u \in Uploads \ {devices[d].offer} :
         /\ Newest(devices[d].channel, u)
         /\ devices' = [devices EXCEPT ![d].pc = "asked", ![d].answer = u]
    /\ UNCHANGED <<uploads, blobs, rows, published, clock>>

\* The server answers with what is listed at that moment.
ListUpdates(d) ==
    /\ devices[d].pc = "idle"
    /\ \E u \in Uploads :
         /\ Newest(devices[d].channel, u)
         /\ devices' = [devices EXCEPT ![d].pc = "asked", ![d].answer = u]
    /\ UNCHANGED <<uploads, blobs, rows, published, clock>>

\* The answer arrives, in which the release stands as it was listed.
Check(d) ==
    /\ devices[d].pc = "asked"
    /\ devices' = [devices EXCEPT ![d].pc = "open", ![d].answer = None,
                                  ![d].offer = devices[d].answer]
    /\ UNCHANGED <<uploads, blobs, rows, published, clock>>

\* The answer is lost, and checkForUpdate throws.
LoseAnswer(d) ==
    /\ devices[d].pc = "asked"
    /\ devices' = [devices EXCEPT ![d].pc = "idle", ![d].answer = None]
    /\ UNCHANGED <<uploads, blobs, rows, published, clock>>

\* Variant: a failed open leaves the device in a state of its own.
OpenOrError(d) ==
    /\ devices[d].pc = "open"
    /\ \E pc \in {"copy", "error"} : devices' = [devices EXCEPT ![d].pc = pc]
    /\ UNCHANGED <<uploads, blobs, rows, published, clock>>

\* OpenBundle: the row, then the file; an error if the file is missing.
Open(d) ==
    /\ devices[d].pc = "open"
    /\ devices' = [devices EXCEPT ![d].pc =
                     IF devices[d].offer \in rows /\ blobs[devices[d].offer] # "absent"
                       THEN "copy" ELSE "idle"]
    /\ UNCHANGED <<uploads, blobs, rows, published, clock>>

\* Variant: what arrived is taken without comparing its hash.
VerifySignatureOnly(d, arrived) ==
    LET release == devices[d].offer
    IN  /\ devices[d].pc = "copy"
        /\ devices' = [devices EXCEPT ![d] =
             IF uploads[release].signed
               THEN [@ EXCEPT !.pc = "idle", !.verified = release, !.bytes = arrived]
               ELSE [@ EXCEPT !.pc = "idle"]]
        /\ UNCHANGED <<uploads, blobs, rows, published, clock>>

\* The SDK compares the hash of what arrived with the hash it was offered, then
\* the signature, and throws unless both hold.
Verify(d, arrived) ==
    LET release == devices[d].offer
        accepted == /\ arrived = "whole" /\ uploads[release].intact
                    /\ uploads[release].signed
    IN  /\ devices[d].pc = "copy"
        /\ devices' = [devices EXCEPT ![d] =
             IF accepted
               THEN [@ EXCEPT !.pc = "idle", !.verified = release, !.bytes = arrived]
               ELSE [@ EXCEPT !.pc = "idle"]]
        /\ UNCHANGED <<uploads, blobs, rows, published, clock>>

Download(d) == Verify(d, blobs[devices[d].offer])

\* The error of io.Copy is dropped: a body cut short still answers 200.
CutShort(d) == Verify(d, "partial")

-----------------------------------------------------------------------------
\* Requests in progress end unanswered; the stores keep what they have.
Crash ==
    /\ \E u \in Uploads : uploads[u].pc \in Active
    /\ uploads' = [u \in Uploads |->
                     IF uploads[u].pc \in Active
                       THEN [uploads[u] EXCEPT !.pc = "failed"] ELSE uploads[u]]
    /\ devices' = [d \in Devices |-> [devices[d] EXCEPT !.pc = "idle", !.answer = None]]
    /\ UNCHANGED <<blobs, rows, published, clock>>

Next ==
    \/ \E u \in Uploads :
         Receive(u) \/ CreateBlob(u) \/ CopyBlob(u) \/ Stamp(u) \/ Insert(u) \/ Publish(u)
    \/ \E d \in Devices : \/ ListUpdates(d) \/ Check(d) \/ LoseAnswer(d)
                          \/ Open(d) \/ Download(d) \/ CutShort(d)
    \/ Crash

Spec == Init /\ [][Next]_vars

-----------------------------------------------------------------------------
(* Safety.                                                                 *)

\* A row is never there without its bytes: whatever fails or crashes between
\* the blob store and the database, every release listed can be downloaded and
\* has the hash it declares (Service.Create, Local.Put).
RowsHaveBundles ==
    \A u \in rows : blobs[u] = "whole" /\ uploads[u].intact

\* What a device holds as verified is all of the bytes of a published, signed
\* release for its own channel that is rolled out and whose form was accepted
\* (downloadAndVerifyBundle over handleBundle, handleCreate).
VerifiedWasReleased ==
    \A d \in Devices : LET u == devices[d].verified IN u # None =>
        /\ u \in rows /\ published[u] # 0
        /\ uploads[u].signed /\ uploads[u].channel = devices[d].channel
        /\ uploads[u].rollout = "some"
        /\ devices[d].bytes = "whole"

\* A device is never offered an older release than before, though releases are
\* created, stored and published in any order, also while the answer is on its
\* way (ListUpdates, Stamp, Publish, fetchLatestUpdate).
OfferNeverOlder ==
    [][\A d \in Devices :
         devices[d].offer # None /\ devices'[d].offer # devices[d].offer
           => uploads[devices'[d].offer].created >= uploads[devices[d].offer].created
      ]_vars

\* Of the releases on offer, those that were the newest when they were published.
HadTheirTurn ==
    {u \in Uploads : \E c \in Channels :
        /\ u \in Offers(c)
        /\ \A v \in Offers(c) :
             published[v] < published[u] => uploads[v].created < uploads[u].created}

OnOffer(c) ==
    IF \E u \in Uploads : Newest(c, u) THEN CHOOSE u \in Uploads : Newest(c, u) ELSE None

Feed == INSTANCE UpdateFeed WITH
    Releases  <- Uploads,
    published <- HadTheirTurn,
    offered   <- [c \in Channels |-> OnOffer(c)]

\* What a channel is answered changes only to a release that was never the
\* answer before, however creation and publication overtake each other, and
\* whatever crashes or fails: the promise SalvePushSdk relies on.
FeedPromise == Feed!Spec

-----------------------------------------------------------------------------
(* Liveness.                                                               *)

\* The server answers; an app that is used keeps asking and downloading.
Fairness ==
    \A d \in Devices : /\ WF_vars(ListUpdates(d)) /\ WF_vars(Check(d))
                       /\ WF_vars(Open(d)) /\ WF_vars(Download(d))

NetworkSettles ==
    <>[][/\ ~Crash
         /\ \A d \in Devices : ~LoseAnswer(d) /\ (CutShort(d) => Download(d))]_vars

FairSpec == Spec /\ Fairness /\ NetworkSettles

\* A properly signed release that stays the newest for a device's channel is
\* in the end verified there, whatever was cut short before.
Delivered ==
    \A d \in Devices, u \in Uploads :
        <>[](Newest(devices[d].channel, u) /\ uploads[u].signed) => <>[](devices[d].verified = u)

=============================================================================
