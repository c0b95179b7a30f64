---------------------------- MODULE MCSigningRun ----------------------------
(* Instances of SigningRun for TLC.                                        *)
EXTENDS SigningRun

DirectedSeeds == [i \in Party |-> [j \in Party |-> <<i, j>>]]

AllRanks == {T}

\* The whole committee, or all but its lowest rank.
Listings == {Party, Party \ {0}}
=============================================================================
