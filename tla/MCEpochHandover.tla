--------------------------- MODULE MCEpochHandover ---------------------------
(***************************************************************************)
(* An instance of EpochHandover for TLC.                                   *)
(***************************************************************************)
EXTENDS EpochHandover

CONSTANTS v1, v2, v3   \* the validators

\* A committee, a smaller one of other members in another order, and one
\* validator alone.
Committees == {<<v1, v2, v3>>, <<v3, v1>>, <<v2>>}
=============================================================================
