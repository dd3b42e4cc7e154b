--------------------------- MODULE MCSalvePushSdk ---------------------------
(* SalvePushSdk with two configs: the key of the first accepts r1, that of *)
(* the second both releases.                                               *)
EXTENDS SalvePushSdk, TLC

CONSTANTS r1, r2, c1, c2

MCAccepts == [c \in Configs |-> IF c = c1 THEN {r1} ELSE {r1, r2}]
=============================================================================
