--------------------------- MODULE ReleasePointer ---------------------------
(***************************************************************************)
(* What the on-device storage promises about the active release, whatever  *)
(* files, threads and crashes are behind it: a release becomes current by  *)
(* an installation, which puts it on trial; it leaves the trial by being   *)
(* confirmed or by giving way to the release before it; and a release that *)
(* is not on trial changes only by the next installation.                  *)
(***************************************************************************)
EXTENDS PointerState

VARIABLE pointer

TypeOK == pointer \in Pointer

Init == pointer = Empty

Install(release) == pointer' = Promoted(pointer, release)

Confirm == pointer' = Confirmed(pointer)

RollBack ==
    /\ pointer.status = "pending"
    /\ pointer.previous # None
    /\ pointer' = RolledBack(pointer)

Next ==
    \/ \E release \in Releases : Install(release)
    \/ Confirm
    \/ RollBack

Spec == Init /\ [][Next]_pointer
=============================================================================
