----------------------------- MODULE KeyLineage -----------------------------
(***************************************************************************)
(* What the key-era lifecycle promises the chain: the group key and the    *)
(* hash suite of an era outlive every change of committee; both may change *)
(* only when a new era is opened; the epoch advances with every change.    *)
(***************************************************************************)
EXTENDS Naturals

CONSTANTS Key, Suite, Nil

VARIABLES
  eraID,    \* the era, Nil before the first
  epoch,    \* the epoch of the current committee
  key,      \* the secret the current committee signs with
  suite     \* the hash suite it signs under

vars == <<eraID, epoch, key, suite>>

Init == eraID = Nil /\ epoch = Nil /\ key = Nil /\ suite = Nil

\* The first era.
Open ==
  /\ eraID = Nil
  /\ eraID' \in Nat
  /\ epoch' = 0
  /\ key' \in Key
  /\ suite' \in Suite

\* The committee changes; the key stays.
Rotate ==
  /\ eraID # Nil
  /\ epoch' = epoch + 1
  /\ UNCHANGED <<eraID, key, suite>>

\* A new era with a key of its own.
Reanchor ==
  /\ eraID # Nil
  /\ eraID' = eraID + 1
  /\ epoch' = epoch + 1
  /\ key' \in Key
  /\ suite' \in Suite

Next == Open \/ Rotate \/ Reanchor

Spec == Init /\ [][Next]_vars
=============================================================================
