----------------------------- MODULE TimerQueue -----------------------------
(***************************************************************************)
(* What a timer promises: a map from keys to expiration times, from which  *)
(* the earliest expired key is taken first.  fired shows the key that has  *)
(* just been taken, until the map is used again.                           *)
(***************************************************************************)
EXTENDS Integers

CONSTANTS Keys, Times
VARIABLES expiry, time, fired

qvars == <<expiry, time, fired>>

Without(k) == [j \in DOMAIN expiry \ {k} |-> expiry[j]]

Init == expiry = [k \in {} |-> 0] /\ time = 0 /\ fired = {}

Advance == time' = time + 1 /\ UNCHANGED <<expiry, fired>>

Set(k, e) ==
    /\ expiry' = [j \in DOMAIN expiry \cup {k} |-> IF j = k THEN e ELSE expiry[j]]
    /\ fired' = {} /\ UNCHANGED time

Remove(k) ==
    /\ k \in DOMAIN expiry
    /\ expiry' = Without(k) /\ fired' = {} /\ UNCHANGED time

\* The key that expired first goes first.
Expire(k) ==
    /\ k \in DOMAIN expiry /\ expiry[k] <= time
    /\ \A j \in DOMAIN expiry : expiry[k] <= expiry[j]
    /\ expiry' = Without(k) /\ fired' = {k} /\ UNCHANGED time

Clear == expiry' = [k \in {} |-> 0] /\ fired' = {} /\ UNCHANGED time

Next ==
    \/ Advance \/ Clear
    \/ \E k \in Keys : Remove(k) \/ Expire(k) \/ \E e \in Times : Set(k, e)

Spec == Init /\ [][Next]_qvars

\* The earliest expiration time of a non-empty queue.
Earliest == CHOOSE e \in {expiry[k] : k \in DOMAIN expiry} :
                \A k \in DOMAIN expiry : e <= expiry[k]
=============================================================================
