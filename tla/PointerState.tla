---------------------------- MODULE PointerState ----------------------------
(***************************************************************************)
(* The content of state.json: which release the next launch loads, which   *)
(* one a rollback returns to, and whether the current one confirmed a      *)
(* boot.  The four values the program ever writes there are functions of   *)
(* the value it read.                                                      *)
(***************************************************************************)
CONSTANTS
    Releases,   \* release identifiers the server may hand out
    None        \* no release: the bundle embedded in the app

ASSUME NoneIsNoRelease == None \notin Releases

Ids == Releases \cup {None}

Pointer == [current: Ids, previous: Ids, status: {"pending", "confirmed"}]

\* What readState answers when there is no readable state.json.
Empty == [current |-> None, previous |-> None, status |-> "confirmed"]

Promoted(seen, release) ==
    [current |-> release, previous |-> seen.current, status |-> "pending"]

Confirmed(seen) == [seen EXCEPT !.status = "confirmed"]

\* Variant: "no previous release" written the way JavaScript reports it.
RolledBackToEmptyString(seen) ==
    [current |-> seen.previous, previous |-> "", status |-> "confirmed"]

\* Variant: the release that crashed becomes the one to go back to.
RolledBackSwapped(seen) ==
    [current |-> seen.previous, previous |-> seen.current, status |-> "confirmed"]

\* A rollback is not itself put on trial: the release it restores is trusted.
RolledBack(seen) ==
    [current |-> seen.previous, previous |-> None, status |-> "confirmed"]
=============================================================================
