----------------------------- MODULE UpdateFeed -----------------------------
(***************************************************************************)
(* What the update server promises its devices, whatever uploads, stores,  *)
(* clocks and crashes are behind it: for each channel there is one release *)
(* on offer, or none yet, and it gives way only to a release that has      *)
(* never been on offer anywhere.                                           *)
(***************************************************************************)
CONSTANTS Releases, Channels, None

VARIABLES
    published,   \* the releases that are or have been on offer
    offered      \* the one that is, for each channel

Init ==
    /\ published = {}
    /\ offered = [c \in Channels |-> None]

Publish(c, release) ==
    /\ release \notin published
    /\ published' = published \cup {release}
    /\ offered' = [offered EXCEPT ![c] = release]

Next == \E c \in Channels, release \in Releases : Publish(c, release)

Spec == Init /\ [][Next]_<<published, offered>>
=============================================================================
