------------------------- MODULE ReleaseServerProofs -------------------------
(***************************************************************************)
(* Theorems about ReleaseServer for any uploads, devices and channels.     *)
(***************************************************************************)
EXTENDS ReleaseServer, TLAPS

(* Every step keeps the types.                                             *)
LEMMA TypeStep == TypeOK /\ [Next]_vars => TypeOK'
<1> SUFFICES ASSUME TypeOK, [Next]_vars PROVE TypeOK'
  OBVIOUS
<1>1. ASSUME NEW u \in Uploads, Receive(u) PROVE TypeOK'
  <2>1. uploads' \in [Uploads -> UploadRecord]
    BY <1>1 DEF Receive, TypeOK, UploadRecord, Active, Finished
  <2> QED
    BY <1>1, <2>1 DEF Receive, TypeOK
<1>2. ASSUME NEW u \in Uploads, CreateBlob(u) PROVE TypeOK'
  <2>1. PICK pc \in {"copy", "failed"} : uploads' = [uploads EXCEPT ![u].pc = pc]
    BY <1>2 DEF CreateBlob, Finished
  <2>2. uploads' \in [Uploads -> UploadRecord]
    BY <2>1 DEF TypeOK, UploadRecord, Active, Finished
  <2> QED
    BY <1>2, <2>2 DEF CreateBlob, TypeOK
<1>3. ASSUME NEW u \in Uploads, CopyBlob(u) PROVE TypeOK'
  <2>1. PICK pc \in {"stamp", "failed"} : uploads' = [uploads EXCEPT ![u].pc = pc]
    BY <1>3 DEF CopyBlob, Finished
  <2>2. uploads' \in [Uploads -> UploadRecord]
    BY <2>1 DEF TypeOK, UploadRecord, Active, Finished
  <2> QED
    BY <1>3, <2>2 DEF CopyBlob, TypeOK
<1>4. ASSUME NEW u \in Uploads, Stamp(u) PROVE TypeOK'
  <2>1. clock' \in Nat /\ UNCHANGED <<blobs, rows, published, devices>>
        /\ uploads' = [uploads EXCEPT ![u].pc = "insert", ![u].created = clock']
    BY <1>4 DEF Stamp, TypeOK
  <2> DEFINE r == [uploads[u] EXCEPT !.pc = "insert", !.created = clock']
  <2>2. r \in UploadRecord
    BY <2>1 DEF TypeOK, UploadRecord, Active
  <2>3. uploads' = [uploads EXCEPT ![u] = r]
    BY <2>1 DEF TypeOK, UploadRecord
  <2>4. uploads' \in [Uploads -> UploadRecord]
    BY <2>2, <2>3 DEF TypeOK
  <2> QED
    BY <2>1, <2>4 DEF TypeOK
<1>5. ASSUME NEW u \in Uploads, Insert(u) PROVE TypeOK'
  <2>1. PICK pc \in {"done", "failed"} : uploads' = [uploads EXCEPT ![u].pc = pc]
    BY <1>5 DEF Insert, Finished
  <2>2. uploads' \in [Uploads -> UploadRecord]
    BY <2>1 DEF TypeOK, UploadRecord, Active, Finished
  <2> QED
    BY <1>5, <2>2 DEF Insert, TypeOK
<1>6. ASSUME NEW u \in Uploads, Publish(u) PROVE TypeOK'
  BY <1>6 DEF Publish, TypeOK
<1>7. ASSUME NEW d \in Devices, NEW r \in DeviceRecord,
             devices' = [devices EXCEPT ![d] = r],
             UNCHANGED <<uploads, blobs, rows, published, clock>>
      PROVE  TypeOK'
  BY <1>7 DEF TypeOK
<1>8. ASSUME NEW d \in Devices, ListUpdates(d) PROVE TypeOK'
  <2>1. PICK u \in Uploads : devices' = [devices EXCEPT ![d].pc = "asked", ![d].answer = u]
    BY <1>8 DEF ListUpdates
  <2> DEFINE r == [devices[d] EXCEPT !.pc = "asked", !.answer = u]
  <2>2. r \in DeviceRecord
    BY DEF TypeOK, DeviceRecord
  <2>3. devices' = [devices EXCEPT ![d] = r]
    BY <2>1 DEF TypeOK, DeviceRecord
  <2> QED
    BY <1>7, <1>8, <2>2, <2>3 DEF ListUpdates
<1>9. ASSUME NEW d \in Devices, Check(d) PROVE TypeOK'
  <2> DEFINE r == [devices[d] EXCEPT !.pc = "open", !.answer = None,
                                     !.offer = devices[d].answer]
  <2>1. r \in DeviceRecord
    BY DEF TypeOK, DeviceRecord
  <2>2. devices' = [devices EXCEPT ![d] = r]
    BY <1>9 DEF Check, TypeOK, DeviceRecord
  <2> QED
    BY <1>7, <1>9, <2>1, <2>2 DEF Check
<1>10. ASSUME NEW d \in Devices, LoseAnswer(d) PROVE TypeOK'
  <2> DEFINE r == [devices[d] EXCEPT !.pc = "idle", !.answer = None]
  <2>1. r \in DeviceRecord
    BY DEF TypeOK, DeviceRecord
  <2>2. devices' = [devices EXCEPT ![d] = r]
    BY <1>10 DEF LoseAnswer, TypeOK, DeviceRecord
  <2> QED
    BY <1>7, <1>10, <2>1, <2>2 DEF LoseAnswer
<1>11. ASSUME NEW d \in Devices, Open(d) PROVE TypeOK'
  <2>1. devices' \in [Devices -> DeviceRecord]
    BY <1>11 DEF Open, TypeOK, DeviceRecord
  <2> QED
    BY <1>11, <2>1 DEF Open, TypeOK
<1>12. ASSUME NEW d \in Devices, NEW arrived, Verify(d, arrived) PROVE TypeOK'
  <2>1. PICK r \in {[devices[d] EXCEPT !.pc = "idle"],
                    [devices[d] EXCEPT !.pc = "idle", !.verified = devices[d].offer,
                                       !.bytes = "whole"]} :
          devices' = [devices EXCEPT ![d] = r]
    BY <1>12 DEF Verify
  <2>2. r \in DeviceRecord
    BY <2>1 DEF TypeOK, DeviceRecord
  <2> QED
    BY <1>12, <2>1, <2>2 DEF Verify, TypeOK
<1>13. CASE Crash
  <2>1. \A u \in Uploads : [uploads[u] EXCEPT !.pc = "failed"] \in UploadRecord
    BY DEF TypeOK, UploadRecord, Finished
  <2>2. \A d \in Devices : [devices[d] EXCEPT !.pc = "idle", !.answer = None] \in DeviceRecord
    BY DEF TypeOK, DeviceRecord
  <2> QED
    BY <1>13, <2>1, <2>2 DEF Crash, TypeOK
<1>14. CASE UNCHANGED vars
  BY <1>14 DEF vars, TypeOK
<1> QED
  BY <1>1, <1>2, <1>3, <1>4, <1>5, <1>6, <1>8, <1>9, <1>10, <1>11, <1>12, <1>13, <1>14
     DEF Next, Download, CutShort

(* Every variable keeps its type.                                          *)
THEOREM TypeCorrect == Spec => []TypeOK
<1>1. Init => TypeOK
  BY DEF Init, TypeOK, UploadRecord, DeviceRecord
<1> QED
  BY <1>1, TypeStep, PTL DEF Spec

-----------------------------------------------------------------------------
(***************************************************************************)
(* An upload past its checks is intact and of an accepted form, one past   *)
(* its Put has all its bytes stored, and only a finished one has a row: so *)
(* no later step of Create touches the blob of a row.                      *)
(***************************************************************************)
UploadInv ==
    \A u \in Uploads :
        /\ uploads[u].pc \in Active \cup {"done"} =>
             uploads[u].intact /\ uploads[u].rollout # "invalid"
        /\ uploads[u].pc \in {"stamp", "insert", "done"} => blobs[u] = "whole"
        /\ u \in rows => uploads[u].pc \in Finished /\ blobs[u] = "whole"
                        /\ uploads[u].intact /\ uploads[u].rollout # "invalid"

LEMMA UploadInitially == Init => UploadInv
  BY DEF Init, UploadInv, Active

LEMMA UploadStep == TypeOK /\ UploadInv /\ [Next]_vars => UploadInv'
<1> SUFFICES ASSUME TypeOK, UploadInv, [Next]_vars PROVE UploadInv'
  OBVIOUS
<1> USE DEF TypeOK, UploadRecord, Active, Finished
<1>1. CASE UNCHANGED <<uploads, blobs, rows>>
  BY <1>1 DEF UploadInv
<1>2. ASSUME NEW u \in Uploads, Receive(u) PROVE UploadInv'
  BY <1>2 DEF Receive, UploadInv
<1>3. ASSUME NEW u \in Uploads, CreateBlob(u) PROVE UploadInv'
  BY <1>3 DEF CreateBlob, UploadInv
<1>4. ASSUME NEW u \in Uploads, CopyBlob(u) PROVE UploadInv'
  BY <1>4 DEF CopyBlob, UploadInv
<1>5. ASSUME NEW u \in Uploads, Stamp(u) PROVE UploadInv'
  BY <1>5 DEF Stamp, UploadInv
<1>6. ASSUME NEW u \in Uploads, Insert(u) PROVE UploadInv'
  BY <1>6 DEF Insert, UploadInv
<1>7. CASE Crash
  BY <1>7 DEF Crash, UploadInv
<1>8. ASSUME NEW u \in Uploads, Publish(u) PROVE UploadInv'
  BY <1>1, <1>8 DEF Publish
<1>9. ASSUME NEW d \in Devices,
             \/ ListUpdates(d) \/ Check(d) \/ LoseAnswer(d)
             \/ Open(d) \/ Download(d) \/ CutShort(d)
      PROVE  UploadInv'
  BY <1>1, <1>9 DEF ListUpdates, Check, LoseAnswer, Open, Download, CutShort, Verify
<1> QED
  BY <1>1, <1>2, <1>3, <1>4, <1>5, <1>6, <1>7, <1>8, <1>9 DEF Next, vars

(* A row is never there without all of its bytes, under any interleaving   *)
(* of uploads, failing stores and crashes.                                 *)
THEOREM RowsAlwaysHaveBundles == Spec => []RowsHaveBundles
<1>1. TypeOK /\ UploadInv => RowsHaveBundles
  BY DEF UploadInv, RowsHaveBundles, TypeOK
<1> QED
  BY <1>1, UploadInitially, UploadStep, TypeCorrect, PTL DEF Spec

-----------------------------------------------------------------------------
(***************************************************************************)
(* What a device was offered stays on offer: rows and published_at only    *)
(* grow, and the fields of a release with a row no longer change.  So the  *)
(* next answer is at least as new, also while it is on its way.            *)
(***************************************************************************)
OffersTo(d) == Offers(devices[d].channel)

OfferInv ==
    \A d \in Devices :
        /\ devices[d].offer # None => devices[d].offer \in OffersTo(d)
        /\ devices[d].pc = "asked" =>
             /\ devices[d].answer \in OffersTo(d)
             /\ devices[d].offer # None =>
                  uploads[devices[d].offer].created <= uploads[devices[d].answer].created

(* Only Stamp writes more of an upload than its step.                      *)
LEMMA FormsStay ==
    ASSUME TypeOK, UploadInv, [Next]_vars, NEW u \in rows
    PROVE  /\ uploads'[u].channel = uploads[u].channel
           /\ uploads'[u].rollout = uploads[u].rollout
           /\ uploads'[u].created = uploads[u].created
           /\ uploads'[u].signed = uploads[u].signed
<1> DEFINE Same == /\ uploads'[u].channel = uploads[u].channel
                   /\ uploads'[u].rollout = uploads[u].rollout
                   /\ uploads'[u].created = uploads[u].created
                   /\ uploads'[u].signed = uploads[u].signed
<1> USE DEF TypeOK, UploadRecord
<1>1. u \in Uploads /\ uploads[u].pc \in Finished
  BY DEF UploadInv
<1>2. ASSUME NEW v \in Uploads, NEW pc, uploads' = [uploads EXCEPT ![v].pc = pc]
      PROVE  Same
  BY <1>1, <1>2
<1>3. ASSUME NEW v \in Uploads, Receive(v) \/ CreateBlob(v) \/ CopyBlob(v) \/ Insert(v)
      PROVE  Same
  <2>1. \E pc : uploads' = [uploads EXCEPT ![v].pc = pc]
    BY <1>3 DEF Receive, CreateBlob, CopyBlob, Insert
  <2> QED
    BY <1>2, <2>1
<1>4. ASSUME NEW v \in Uploads, Stamp(v) PROVE Same
  BY <1>1, <1>4 DEF Stamp, Finished
<1>5. CASE Crash
  BY <1>1, <1>5 DEF Crash
<1>6. CASE UNCHANGED uploads
  BY <1>6
<1> QED
  BY <1>3, <1>4, <1>5, <1>6
     DEF Next, vars, Publish, ListUpdates, Check, LoseAnswer, Open, Download, CutShort,
         Verify

(* Only Check changes what a device is offered, to what it was answered;   *)
(* only ListUpdates answers it; and nothing changes its channel.           *)
LEMMA DevicesStay ==
    ASSUME TypeOK, [Next]_vars, NEW d \in Devices
    PROVE  /\ devices'[d].channel = devices[d].channel
           /\ \/ /\ devices'[d].offer = devices[d].offer
                 /\ devices'[d].pc = "asked" =>
                      devices[d].pc = "asked" /\ devices'[d].answer = devices[d].answer
              \/ /\ devices[d].pc = "asked" /\ devices'[d].pc = "open"
                 /\ devices'[d].offer = devices[d].answer
                 /\ UNCHANGED <<uploads, rows, published>>
              \/ /\ devices'[d].offer = devices[d].offer
                 /\ Newest(devices[d].channel, devices'[d].answer)
                 /\ UNCHANGED <<uploads, rows, published>>
<1> DEFINE Same == /\ devices'[d].channel = devices[d].channel
                   /\ devices'[d].offer = devices[d].offer
                   /\ devices'[d].pc = "asked" =>
                        devices[d].pc = "asked" /\ devices'[d].answer = devices[d].answer
<1> USE DEF TypeOK, DeviceRecord
<1>1. ASSUME NEW e \in Devices, Check(e)
      PROVE  \/ Same
             \/ /\ devices'[d].channel = devices[d].channel
                /\ devices[d].pc = "asked" /\ devices'[d].pc = "open"
                /\ devices'[d].offer = devices[d].answer
                /\ UNCHANGED <<uploads, rows, published>>
  BY <1>1 DEF Check
<1>2. ASSUME NEW e \in Devices, ListUpdates(e)
      PROVE  \/ Same
             \/ /\ devices'[d].channel = devices[d].channel
                /\ devices'[d].offer = devices[d].offer
                /\ Newest(devices[d].channel, devices'[d].answer)
                /\ UNCHANGED <<uploads, rows, published>>
  <2>1. PICK u \in Uploads :
          /\ Newest(devices[e].channel, u)
          /\ devices' = [devices EXCEPT ![e].pc = "asked", ![e].answer = u]
    BY <1>2 DEF ListUpdates
  <2> QED
    BY <1>2, <2>1 DEF ListUpdates
<1>3. ASSUME NEW e \in Devices, LoseAnswer(e) PROVE Same
  BY <1>3 DEF LoseAnswer
<1>4. ASSUME NEW e \in Devices, Open(e) PROVE Same
  <2>1. PICK pc \in {"copy", "idle"} : devices' = [devices EXCEPT ![e].pc = pc]
    BY <1>4 DEF Open
  <2> QED
    BY <2>1
<1>5. ASSUME NEW e \in Devices, NEW arrived, Verify(e, arrived) PROVE Same
  <2>1. PICK r \in {[devices[e] EXCEPT !.pc = "idle"],
                    [devices[e] EXCEPT !.pc = "idle", !.verified = devices[e].offer,
                                       !.bytes = "whole"]} :
          devices' = [devices EXCEPT ![e] = r]
    BY <1>5 DEF Verify
  <2>2. r.channel = devices[e].channel /\ r.offer = devices[e].offer /\ r.pc = "idle"
    BY <2>1
  <2> QED
    BY <2>1, <2>2
<1>6. CASE Crash
  BY <1>6 DEF Crash
<1>7. CASE UNCHANGED devices
  BY <1>7
<1> QED
  BY <1>1, <1>2, <1>3, <1>4, <1>5, <1>6, <1>7
     DEF Next, vars, Receive, CreateBlob, CopyBlob, Stamp, Insert, Publish,
         Download, CutShort

(* Nothing withdraws a release from the channel it is offered to.          *)
LEMMA OffersGrow ==
    ASSUME TypeOK, UploadInv, [Next]_vars, NEW c, NEW u \in Offers(c)
    PROVE  u \in Offers(c)' /\ uploads'[u].created = uploads[u].created
<1>1. u \in Uploads /\ u \in rows /\ published[u] # 0
  BY DEF Offers, TypeOK
<1>2. u \in rows' /\ published'[u] # 0
  BY <1>1 DEF TypeOK, Next, vars, Receive, CreateBlob, CopyBlob, Stamp, Insert,
              Publish, ListUpdates, Check, LoseAnswer, Open, Download, CutShort,
              Verify, Crash
<1> QED
  BY <1>1, <1>2, FormsStay DEF Offers

LEMMA OffersToGrow ==
    ASSUME TypeOK, UploadInv, [Next]_vars, NEW d \in Devices, NEW u \in OffersTo(d)
    PROVE  u \in OffersTo(d)' /\ uploads'[u].created = uploads[u].created
<1> DEFINE c == devices[d].channel
<1>1. u \in Offers(c)
  BY DEF OffersTo
<1> QED
  BY <1>1, OffersGrow, DevicesStay DEF OffersTo, Offers

LEMMA OfferStep == TypeOK /\ UploadInv /\ OfferInv /\ [Next]_vars => OfferInv'
<1> SUFFICES ASSUME TypeOK, UploadInv, OfferInv, [Next]_vars, NEW d \in Devices
             PROVE  /\ devices'[d].offer # None => devices'[d].offer \in OffersTo(d)'
                    /\ devices'[d].pc = "asked" =>
                         /\ devices'[d].answer \in OffersTo(d)'
                         /\ devices'[d].offer # None =>
                              uploads'[devices'[d].offer].created
                                <= uploads'[devices'[d].answer].created
  BY DEF OfferInv
<1>1. CASE /\ devices'[d].offer = devices[d].offer
           /\ devices'[d].pc = "asked" =>
                devices[d].pc = "asked" /\ devices'[d].answer = devices[d].answer
  BY <1>1, OffersToGrow DEF OfferInv
<1>2. CASE /\ devices[d].pc = "asked" /\ devices'[d].pc = "open"
           /\ devices'[d].offer = devices[d].answer
  BY <1>2, OffersToGrow DEF OfferInv
<1>3. CASE /\ devices'[d].offer = devices[d].offer
           /\ Newest(devices[d].channel, devices'[d].answer)
  <2>1. /\ devices'[d].answer \in OffersTo(d)
        /\ \A u \in OffersTo(d) : uploads[u].created <= uploads[devices'[d].answer].created
    BY <1>3 DEF Newest, OffersTo
  <2>2. devices[d].offer # None => devices[d].offer \in OffersTo(d)
    BY DEF OfferInv
  <2> QED
    BY <1>3, <2>1, <2>2, OffersToGrow
<1> QED
  BY <1>1, <1>2, <1>3, DevicesStay

LEMMA OfferInitially == Init => OfferInv
  BY DEF Init, OfferInv

(* A device is never offered an older release than before, in whatever     *)
(* order releases are stamped, stored and published.                       *)
THEOREM OffersNeverOlder == Spec => OfferNeverOlder
<1>1. TypeOK /\ UploadInv /\ OfferInv /\ [Next]_vars =>
        [\A d \in Devices :
           devices[d].offer # None /\ devices'[d].offer # devices[d].offer
             => uploads[devices'[d].offer].created
                  >= uploads[devices[d].offer].created]_vars
  <2> SUFFICES ASSUME TypeOK, UploadInv, OfferInv, [Next]_vars, NEW d \in Devices,
                      devices[d].offer # None, devices'[d].offer # devices[d].offer
               PROVE  uploads[devices'[d].offer].created
                        >= uploads[devices[d].offer].created
    OBVIOUS
  <2>1. devices[d].pc = "asked" /\ devices'[d].offer = devices[d].answer
    BY DevicesStay
  <2>2. /\ uploads[devices[d].offer].created <= uploads[devices[d].answer].created
        /\ devices[d].offer \in Uploads /\ devices[d].answer \in Uploads
    BY <2>1 DEF OfferInv, OffersTo, Offers, TypeOK
  <2> QED
    BY <2>1, <2>2 DEF TypeOK, UploadRecord
<1> QED
  BY <1>1, UploadInitially, UploadStep, OfferInitially, OfferStep, TypeCorrect, PTL
     DEF Spec, OfferNeverOlder

-----------------------------------------------------------------------------
(***************************************************************************)
(* What a device holds as verified was on offer to it, and so still is.    *)
(***************************************************************************)
VerifiedInv ==
    \A d \in Devices :
        /\ devices[d].pc \in {"open", "copy"} => devices[d].offer # None
        /\ devices[d].verified # None =>
             /\ devices[d].verified \in OffersTo(d)
             /\ uploads[devices[d].verified].signed
             /\ devices[d].bytes = "whole"

(* Only what was offered is verified, if it is signed and has arrived whole. *)
LEMMA VerifiedStays ==
    ASSUME TypeOK, [Next]_vars, NEW d \in Devices
    PROVE  /\ \/ UNCHANGED <<devices[d].verified, devices[d].bytes>>
              \/ /\ devices[d].pc = "copy"
                 /\ devices'[d].verified = devices[d].offer
                 /\ devices'[d].bytes = "whole" /\ uploads[devices[d].offer].signed
                 /\ UNCHANGED <<uploads, rows, published>>
           /\ \/ devices'[d].pc \in {"idle", "asked"}
              \/ devices[d].pc = "asked" /\ devices'[d].offer = devices[d].answer
              \/ /\ devices[d].pc \in {"open", "copy"}
                 /\ devices'[d].offer = devices[d].offer
<1> DEFINE Same == /\ devices'[d].verified = devices[d].verified
                   /\ devices'[d].bytes = devices[d].bytes
           Moves == \/ devices'[d].pc \in {"idle", "asked"}
                    \/ devices[d].pc = "asked" /\ devices'[d].offer = devices[d].answer
                    \/ /\ devices[d].pc \in {"open", "copy"}
                       /\ devices'[d].offer = devices[d].offer
<1> USE DEF TypeOK, DeviceRecord
<1>0. devices[d].pc \in {"idle", "asked", "open", "copy"}
  OBVIOUS
<1>1. ASSUME NEW e \in Devices, ListUpdates(e) \/ Check(e) \/ LoseAnswer(e)
      PROVE  Same /\ Moves
  <2>1. CASE ListUpdates(e)
    <3>1. PICK u \in Uploads :
            devices' = [devices EXCEPT ![e].pc = "asked", ![e].answer = u]
      BY <2>1 DEF ListUpdates
    <3> QED
      BY <1>0, <3>1
  <2>2. CASE Check(e)
    BY <1>0, <2>2 DEF Check
  <2>3. CASE LoseAnswer(e)
    BY <1>0, <2>3 DEF LoseAnswer
  <2> QED
    BY <1>1, <2>1, <2>2, <2>3
<1>2. ASSUME NEW e \in Devices, Open(e) PROVE Same /\ Moves
  <2>1. PICK pc \in {"copy", "idle"} : devices' = [devices EXCEPT ![e].pc = pc]
    BY <1>2 DEF Open
  <2> QED
    BY <1>2, <2>1 DEF Open
<1>3. ASSUME NEW e \in Devices, NEW arrived, Verify(e, arrived)
      PROVE  /\ Moves
             /\ \/ Same
                \/ /\ devices[d].pc = "copy"
                   /\ devices'[d].verified = devices[d].offer
                   /\ devices'[d].bytes = "whole" /\ uploads[devices[d].offer].signed
  <2>1. CASE devices' = [devices EXCEPT ![e] = [devices[e] EXCEPT !.pc = "idle"]]
    BY <2>1
  <2>2. CASE /\ arrived = "whole" /\ uploads[devices[e].offer].signed
             /\ devices[e].pc = "copy"
             /\ devices' = [devices EXCEPT ![e] =
                  [devices[e] EXCEPT !.pc = "idle", !.verified = devices[e].offer,
                                     !.bytes = arrived]]
    BY <2>2
  <2> QED
    BY <1>3, <2>1, <2>2 DEF Verify
<1>4. CASE Crash
  BY <1>4 DEF Crash
<1>5. CASE UNCHANGED devices
  BY <1>5
<1>6. ASSUME NEW e \in Devices, Download(e) \/ CutShort(e)
      PROVE  UNCHANGED <<uploads, rows, published>> /\ \E arrived : Verify(e, arrived)
  BY <1>6 DEF Download, CutShort, Verify
<1> QED
  BY <1>1, <1>2, <1>3, <1>4, <1>5, <1>6
     DEF Next, vars, Receive, CreateBlob, CopyBlob, Stamp, Insert, Publish

(* A device only ever holds whole, signed releases of its own channel that *)
(* were published: through cut-off answers, crashes and racing uploads.    *)
THEOREM VerifiedAlwaysReleased == Spec => []VerifiedWasReleased
<1>1. Init => VerifiedInv
  BY DEF Init, VerifiedInv
<1>2. TypeOK /\ UploadInv /\ OfferInv /\ VerifiedInv /\ [Next]_vars => VerifiedInv'
  <2> SUFFICES ASSUME TypeOK, UploadInv, OfferInv, VerifiedInv, [Next]_vars,
                      NEW d \in Devices
               PROVE  /\ devices'[d].pc \in {"open", "copy"} => devices'[d].offer # None
                      /\ devices'[d].verified # None =>
                           /\ devices'[d].verified \in OffersTo(d)'
                           /\ uploads'[devices'[d].verified].signed
                           /\ devices'[d].bytes = "whole"
    BY DEF VerifiedInv
  <2>1. devices'[d].pc \in {"open", "copy"} => devices'[d].offer # None
    <3>1. devices[d].pc = "asked" => devices[d].answer \in Uploads
      BY DEF OfferInv, OffersTo, Offers, TypeOK
    <3> QED
      BY <3>1, VerifiedStays, NoneIsNoUpload DEF VerifiedInv
  <2>2. CASE UNCHANGED <<devices[d].verified, devices[d].bytes>>
    <3> SUFFICES ASSUME devices[d].verified # None
                 PROVE  /\ devices[d].verified \in OffersTo(d)'
                        /\ uploads'[devices[d].verified].signed
      BY <2>1, <2>2 DEF VerifiedInv
    <3>1. devices[d].verified \in OffersTo(d) /\ devices[d].verified \in rows
      BY DEF VerifiedInv, OffersTo, Offers
    <3> QED
      BY <3>1, OffersToGrow, FormsStay, DevicesStay DEF VerifiedInv
  <2>3. CASE /\ devices[d].pc = "copy"
             /\ devices'[d].verified = devices[d].offer
             /\ devices'[d].bytes = "whole" /\ uploads[devices[d].offer].signed
             /\ UNCHANGED <<uploads, rows, published>>
    <3>1. devices[d].offer \in OffersTo(d)
      BY <2>3 DEF OfferInv, VerifiedInv
    <3> QED
      BY <2>1, <2>3, <3>1, OffersToGrow, DevicesStay
  <2> QED
    BY <2>2, <2>3, VerifiedStays
<1>3. TypeOK /\ UploadInv /\ VerifiedInv => VerifiedWasReleased
  BY DEF VerifiedInv, VerifiedWasReleased, OffersTo, Offers, UploadInv, TypeOK,
     UploadRecord, Rollouts
<1> QED
  BY <1>1, <1>2, <1>3, UploadInitially, UploadStep, OfferStep, OfferInitially, TypeCorrect, PTL
     DEF Spec

-----------------------------------------------------------------------------
(***************************************************************************)
(* The clock orders both the creations and the publications: no two of     *)
(* either share a reading, and only a stamped upload gets a row, only a    *)
(* row is published.                                                       *)
(***************************************************************************)
ClockInv ==
    /\ \A u \in Uploads :
         /\ uploads[u].created <= clock /\ published[u] <= clock
         /\ uploads[u].pc = "insert" \/ u \in rows => uploads[u].created # 0
         /\ published[u] # 0 => u \in rows
    /\ \A u, v \in Uploads :
         /\ uploads[u].created = uploads[v].created => u = v \/ uploads[u].created = 0
         /\ published[u] = published[v] => u = v \/ published[u] = 0

LEMMA ClockInitially == Init => ClockInv
  BY DEF Init, ClockInv

LEMMA ClockStep == TypeOK /\ UploadInv /\ ClockInv /\ [Next]_vars => ClockInv'
<1> SUFFICES ASSUME TypeOK, UploadInv, ClockInv, [Next]_vars PROVE ClockInv'
  OBVIOUS
<1> USE DEF TypeOK, UploadRecord
<1>1. ASSUME NEW u \in Uploads, NEW pc \in {"put", "copy", "stamp", "done", "failed"},
             uploads' = [uploads EXCEPT ![u].pc = pc], rows' \in {rows, rows \cup {u}},
             u \in rows' => u \in rows \/ uploads[u].pc = "insert",
             UNCHANGED <<published, clock>>
      PROVE  ClockInv'
  <2>1. /\ \A v \in Uploads : uploads'[v].created = uploads[v].created
        /\ \A v \in Uploads : uploads'[v].pc = IF v = u THEN pc ELSE uploads[v].pc
    BY <1>1
  <2> QED
    BY <1>1, <2>1 DEF ClockInv
<1>2. ASSUME NEW u \in Uploads, Receive(u) \/ CreateBlob(u) \/ CopyBlob(u)
      PROVE  ClockInv'
  BY <1>1, <1>2 DEF Receive, CreateBlob, CopyBlob
<1>3. ASSUME NEW u \in Uploads, Insert(u) PROVE ClockInv'
  BY <1>1, <1>3 DEF Insert, Finished
<1>4. ASSUME NEW u \in Uploads, Stamp(u) PROVE ClockInv'
  <2>1. /\ clock' = clock + 1 /\ UNCHANGED <<rows, published>>
        /\ \A v \in Uploads :
             /\ uploads'[v].created = IF v = u THEN clock + 1 ELSE uploads[v].created
             /\ v # u => uploads'[v].pc = uploads[v].pc
        /\ u \notin rows
    BY <1>4 DEF Stamp, UploadInv, Finished
  <2> QED
    BY <2>1 DEF ClockInv
<1>5. ASSUME NEW u \in Uploads, Publish(u) PROVE ClockInv'
  BY <1>5 DEF Publish, ClockInv
<1>6. CASE Crash
  <2>1. /\ \A v \in Uploads : uploads'[v].created = uploads[v].created
        /\ \A v \in Uploads : uploads'[v].pc \in {uploads[v].pc, "failed"}
    BY <1>6 DEF Crash
  <2>2. UNCHANGED <<rows, published, clock>>
    BY <1>6 DEF Crash
  <2> QED
    BY <2>1, <2>2 DEF ClockInv
<1>7. CASE UNCHANGED <<uploads, rows, published, clock>>
  BY <1>7 DEF ClockInv
<1>8. ASSUME NEW d \in Devices,
             ListUpdates(d) \/ Check(d) \/ LoseAnswer(d) \/ Open(d) \/ Download(d) \/ CutShort(d)
      PROVE  ClockInv'
  <2>1. UNCHANGED <<uploads, rows, published, clock>>
    BY <1>8 DEF ListUpdates, Check, LoseAnswer, Open, Download, CutShort, Verify
  <2> QED
    BY <1>7, <2>1
<1> QED
  BY <1>2, <1>3, <1>4, <1>5, <1>6, <1>7, <1>8 DEF Next, vars

-----------------------------------------------------------------------------
(***************************************************************************)
(* The promise of UpdateFeed.  Offers of a channel change by publications  *)
(* only, and publishing a release leaves the newest one where it is or     *)
(* makes the published one the newest.                                     *)
(***************************************************************************)
LEMMA OneNewest ==
    ASSUME TypeOK, ClockInv, NEW c, NEW u, NEW v, Newest(c, u), Newest(c, v)
    PROVE  u = v
<1>1. u \in rows /\ v \in rows /\ u \in Uploads /\ v \in Uploads
  BY DEF Newest, Offers, TypeOK
<1>2. uploads[u].created = uploads[v].created
  BY <1>1 DEF Newest, TypeOK, UploadRecord
<1> QED
  BY <1>1, <1>2 DEF ClockInv

Determined == \A c \in Channels, u \in Uploads : Newest(c, u) => OnOffer(c) = u

LEMMA OnOfferIsNewest == TypeOK /\ ClockInv => Determined
<1> SUFFICES ASSUME TypeOK, ClockInv, NEW c \in Channels, NEW u \in Uploads, Newest(c, u)
             PROVE  OnOffer(c) = u
  BY DEF Determined
<1>1. Newest(c, CHOOSE v \in Uploads : Newest(c, v))
  OBVIOUS
<1> QED
  BY <1>1, OneNewest DEF OnOffer

LEMMA NewestDecides ==
    ASSUME Determined, Determined', NEW c \in Channels,
           \A u \in Uploads : Newest(c, u)' <=> Newest(c, u)
    PROVE  OnOffer(c)' = OnOffer(c)
<1>1. ASSUME NEW u \in Uploads, Newest(c, u) PROVE OnOffer(c)' = OnOffer(c)
  <2>1. OnOffer(c) = u /\ OnOffer(c)' = u
    BY <1>1 DEF Determined
  <2> QED
    BY <2>1
<1>2. CASE ~ \E u \in Uploads : Newest(c, u)
  <2>1. OnOffer(c) = None /\ OnOffer(c)' = None
    BY <1>2 DEF OnOffer
  <2> QED
    BY <2>1
<1> QED
  BY <1>1, <1>2

(* Whatever leaves alone what devices are listed, leaves the feed alone.   *)
Listed == {u \in rows : published[u] # 0 /\ uploads[u].rollout # "none"}

LEMMA FeedStays ==
    ASSUME Determined, Determined', TypeOK, Listed' = Listed,
           \A u \in Listed : /\ uploads'[u].channel = uploads[u].channel
                             /\ uploads'[u].created = uploads[u].created
                             /\ published'[u] = published[u]
    PROVE  UNCHANGED <<HadTheirTurn, [c \in Channels |-> OnOffer(c)]>>
<1>1. \A c : \A u : (u \in Offers(c))' <=> u \in Offers(c)
  BY DEF Listed, Offers
<1>2. \A c : \A u \in Offers(c) : u \in Listed /\ u \in Uploads
  BY DEF Listed, Offers, TypeOK
<1>3. ASSUME NEW c \in Channels PROVE OnOffer(c)' = OnOffer(c)
  <2>1. ASSUME NEW u \in Uploads PROVE Newest(c, u)' <=> Newest(c, u)
    BY <1>1, <1>2 DEF Newest
  <2> QED
    BY <2>1, NewestDecides
<1>4. HadTheirTurn' = HadTheirTurn
  BY <1>1, <1>2 DEF HadTheirTurn
<1> QED
  BY <1>3, <1>4

(* Publication of a release that was created before the one on offer.      *)
LEMMA PublishedTooLate ==
    ASSUME TypeOK, ClockInv, Determined, Determined', NEW u \in Uploads, Publish(u),
           NEW v \in Offers(uploads[u].channel), uploads[v].created >= uploads[u].created
    PROVE  UNCHANGED <<HadTheirTurn, [c \in Channels |-> OnOffer(c)]>>
<1> USE DEF TypeOK, UploadRecord
<1>1. /\ UNCHANGED <<rows, uploads>> /\ published[u] = 0
      /\ \A w \in Uploads : published'[w] = IF w = u THEN clock + 1 ELSE published[w]
  BY DEF Publish
<1>2. \A c : \A w : (w \in Offers(c))' => w \in Offers(c) \/ (w = u /\ c = uploads[u].channel)
  BY <1>1 DEF Offers
<1>3. \A c : \A w \in Offers(c) : (w \in Offers(c))' /\ w # u /\ w \in Uploads
  BY <1>1 DEF Offers
<1>4. v \in Uploads /\ v # u /\ published[v] <= clock
  BY DEF Offers, ClockInv, Publish
<1>5. ASSUME NEW c \in Channels PROVE OnOffer(c)' = OnOffer(c)
  <2>1. ASSUME NEW w \in Uploads, Newest(c, w)' PROVE Newest(c, w)
    <3>1. CASE w = u /\ c = uploads[u].channel
      <4>1. uploads[v].created <= uploads[u].created
        BY <1>1, <1>3, <1>4, <2>1, <3>1 DEF Newest
      <4>2. uploads[v].created = uploads[u].created
        BY <4>1, <1>4
      <4> QED
        BY <4>2, <1>1, <1>4 DEF ClockInv, Offers, Publish
    <3>2. CASE w \in Offers(c)
      BY <1>1, <1>3, <2>1, <3>2 DEF Newest
    <3> QED
      BY <1>2, <2>1, <3>1, <3>2 DEF Newest
  <2>2. ASSUME NEW w \in Uploads, Newest(c, w) PROVE Newest(c, w)'
    <3>1. (w \in Offers(c))' /\ \A x \in Offers(c) : uploads[x].created <= uploads[w].created
      BY <1>3, <2>2 DEF Newest
    <3>2. ASSUME NEW x, (x \in Offers(c))' PROVE uploads'[x].created <= uploads'[w].created
      <4>1. CASE x \in Offers(c)
        BY <1>1, <3>1, <4>1
      <4>2. CASE x = u /\ c = uploads[u].channel
        BY <1>1, <1>4, <3>1, <4>2
      <4> QED
        BY <1>2, <3>2, <4>1, <4>2
    <3> QED
      BY <3>1, <3>2 DEF Newest
  <2> QED
    BY <2>1, <2>2, NewestDecides
<1>6. ASSUME NEW w \in Uploads PROVE w \in HadTheirTurn' <=> w \in HadTheirTurn
  <2>1. CASE w # u
    BY <1>1, <1>2, <1>3, <2>1 DEF HadTheirTurn, ClockInv
  <2>2. CASE w = u
    BY <1>1, <1>2, <1>3, <1>4, <2>2 DEF HadTheirTurn, Offers
  <2> QED
    BY <2>1, <2>2
<1>7. HadTheirTurn' = HadTheirTurn
  BY <1>6 DEF HadTheirTurn
<1> QED
  BY <1>5, <1>7

(* Publication of a release that was created after all those on offer.     *)
LEMMA PublishedInTime ==
    ASSUME TypeOK, ClockInv, Determined, Determined', NEW u \in Uploads, Publish(u),
           NEW channel \in Channels, uploads[u].channel = channel,
           uploads[u].rollout # "none",
           \A v \in Offers(channel) : uploads[v].created < uploads[u].created
    PROVE  Feed!Publish(channel, u)
<1> USE DEF TypeOK, UploadRecord
<1>1. /\ UNCHANGED <<rows, uploads>> /\ published[u] = 0 /\ u \in rows
      /\ \A w \in Uploads : published'[w] = IF w = u THEN clock + 1 ELSE published[w]
  BY DEF Publish
<1>2. \A c : \A w : (w \in Offers(c))' <=> w \in Offers(c) \/ (w = u /\ c = channel)
  BY <1>1 DEF Offers
<1>3. \A c : \A w \in Offers(c) : w # u /\ w \in Uploads /\ published[w] <= clock
  BY <1>1 DEF Offers, ClockInv
<1>4. OnOffer(channel)' = u
  <2>1. Newest(channel, u)'
    BY <1>1, <1>2, <1>3 DEF Newest
  <2> QED
    BY <2>1 DEF Determined
<1>5. ASSUME NEW c \in Channels, c # channel PROVE OnOffer(c)' = OnOffer(c)
  <2>1. ASSUME NEW w \in Uploads PROVE Newest(c, w)' <=> Newest(c, w)
    BY <1>1, <1>2, <1>5 DEF Newest
  <2> QED
    BY <2>1, NewestDecides
<1>6. u \notin HadTheirTurn
  BY <1>3 DEF HadTheirTurn
<1>7. ASSUME NEW w \in Uploads, w # u PROVE w \in HadTheirTurn' <=> w \in HadTheirTurn
  BY <1>1, <1>2, <1>3, <1>7 DEF HadTheirTurn
<1>8. u \in HadTheirTurn'
  BY <1>1, <1>2, <1>3 DEF HadTheirTurn
<1>9. HadTheirTurn' = HadTheirTurn \cup {u}
  BY <1>7, <1>8 DEF HadTheirTurn
<1>10. [c \in Channels |-> OnOffer(c)]' = [[c \in Channels |-> OnOffer(c)] EXCEPT ![channel] = u]
  BY <1>4, <1>5
<1> QED
  BY <1>6, <1>9, <1>10 DEF Feed!Publish

LEMMA FeedStep ==
    TypeOK /\ UploadInv /\ ClockInv /\ Determined /\ Determined' /\ [Next]_vars
      => [Feed!Next]_<<HadTheirTurn, [c \in Channels |-> OnOffer(c)]>>
<1> SUFFICES ASSUME TypeOK, UploadInv, ClockInv, Determined, Determined', [Next]_vars
             PROVE  [Feed!Next]_<<HadTheirTurn, [c \in Channels |-> OnOffer(c)]>>
  OBVIOUS
<1>1. ASSUME NEW u \in Uploads, Publish(u)
      PROVE  [Feed!Next]_<<HadTheirTurn, [c \in Channels |-> OnOffer(c)]>>
  <2>1. PICK channel \in Channels : channel = uploads[u].channel
    BY DEF TypeOK, UploadRecord
  <2>2. CASE uploads[u].rollout = "none"
    <3>1. Listed' = Listed /\ \A v \in Listed : published'[v] = published[v]
      BY <1>1, <2>2 DEF Publish, Listed, TypeOK
    <3> QED
      BY <1>1, <3>1, FeedStays DEF Publish
  <2>3. CASE \E v \in Offers(channel) : uploads[v].created >= uploads[u].created
    BY <1>1, <2>1, <2>3, PublishedTooLate
  <2>4. CASE /\ uploads[u].rollout # "none"
             /\ \A v \in Offers(channel) : uploads[v].created < uploads[u].created
    BY <1>1, <2>1, <2>4, PublishedInTime DEF Feed!Next
  <2>5. \A v \in Offers(channel) : uploads[v].created \in Nat /\ uploads[u].created \in Nat
    BY DEF Offers, TypeOK, UploadRecord
  <2> QED
    BY <2>2, <2>3, <2>4, <2>5
<1>2. CASE ~ \E u \in Uploads : Publish(u)
  <2>1. UNCHANGED published /\ rows \subseteq rows'
    BY <1>2 DEF Next, vars, Receive, CreateBlob, CopyBlob, Stamp, Insert, ListUpdates,
                Check, LoseAnswer, Open, Download, CutShort, Verify, Crash
  <2>2. \A u \in Uploads : published[u] # 0 => u \in rows
    BY DEF ClockInv
  <2>3. \A u \in rows : /\ uploads'[u].channel = uploads[u].channel
                        /\ uploads'[u].rollout = uploads[u].rollout
                        /\ uploads'[u].created = uploads[u].created
    BY FormsStay
  <2>4. rows' \subseteq Uploads
    BY TypeStep DEF TypeOK
  <2>5. Listed' = Listed /\ \A u \in Listed : u \in rows
    BY <2>1, <2>2, <2>3, <2>4 DEF Listed
  <2> QED
    BY <2>1, <2>3, <2>5, FeedStays
<1> QED
  BY <1>1, <1>2

(* The server, whatever overtakes whatever in it, is an UpdateFeed.        *)
THEOREM ImplementsUpdateFeed == Spec => FeedPromise
<1>1. Init => Feed!Init
  <2> SUFFICES ASSUME Init PROVE Feed!Init
    OBVIOUS
  <2>1. \A c : Offers(c) = {}
    BY DEF Init, Offers
  <2>2. HadTheirTurn = {} /\ \A c : OnOffer(c) = None
    BY <2>1 DEF HadTheirTurn, OnOffer, Newest
  <2> QED
    BY <2>2 DEF Feed!Init
<1> QED
  BY <1>1, FeedStep, OnOfferIsNewest, ClockInitially, ClockStep, UploadInitially,
     UploadStep, TypeCorrect, PTL DEF Spec, FeedPromise, Feed!Spec

=============================================================================
