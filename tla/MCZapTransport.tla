--------------------------- MODULE MCZapTransport ---------------------------
(***************************************************************************)
(* Instances of ZapTransport for TLC.                                      *)
(***************************************************************************)
EXTENDS ZapTransport

CONSTANTS p1, p2, r1, r2

\* Every receiver reads p1.
AllOnOne == [r \in Receiver |-> p1]
=============================================================================
