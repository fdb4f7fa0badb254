-------------------------------- MODULE Lists --------------------------------
(***************************************************************************)
(* Array.prototype.filter, as the ratchet's key store, the session book    *)
(* and the relay's queue use it: Ratchet and Sessions.                     *)
(***************************************************************************)
EXTENDS Naturals, Sequences, FiniteSets

\* What is not given up of a list, in its order.
Remaining(list, gone) ==
    LET left == {i \in DOMAIN list : list[i] \notin gone}
        Nth(j) == CHOOSE i \in left : Cardinality(left \cap 1 .. i) = j
    IN  [j \in 1 .. Cardinality(left) |-> list[Nth(j)]]
=============================================================================
