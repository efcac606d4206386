----------------------------- MODULE MCStateInfo -----------------------------
(* Small instances of StateInfo for TLC.                                        *)
EXTENDS StateInfo, TLC

CONSTANTS a, b, c, A, B

\* a and b are of one organisation, c is of another.
OrgOfThree == a :> A @@ b :> A @@ c :> B
OnlyB == {{B}}

\* A fault or a configuration, not both.
OneDisturbance == faults + configurations <= 1
=============================================================================
