------------------------------ MODULE MCPrekeys ------------------------------
(* Small instances of Prekeys: a few initials in flight, a few RPCs         *)
(* interrupted, and peers that a few times lose what they know of the       *)
(* owner.  The initial state chooses between two scenes: peers that open    *)
(* sessions to an owner whose RPCs mostly succeed, and peers that only      *)
(* fetch the bundles of an owner that is interrupted more often.            *)
EXTENDS Prekeys
CONSTANTS
  alice, bob,
  Writers,      \* the peers that open sessions
  MaxInitials,
  MaxFaults,    \* per scene: interrupted RPCs and restores of the owner
  PairsWanted,  \* per scene: key pairs generated
  MaxMishaps    \* peers restored, evicted or deleting twice
VARIABLES scene, faults, mishaps

TwoScenes(m, n) == [visited |-> m, interrupted |-> n]
FaultsOfScenes == TwoScenes(1, 3)
PairsOfScenes == TwoScenes(4, 5)

\* None of these mints a pair or reaches a row, a peer or an initial.
Interrupted ==
  /\ UNCHANGED <<minted, rows, session, initials>>
  /\ GiveUp \/ Reconnect \/ LoseRequest \/ RestoreOwner
Forgetful == forgone' # forgone \/ \E p \in session \ session' : p \notin DOMAIN dismissed'
Count(n, happened) == IF happened THEN n + 1 ELSE n
BoundedInit == Init /\ scene \in DOMAIN MaxFaults /\ faults = 0 /\ mishaps = 0
BoundedNext ==
  /\ Next
  /\ session' \subseteq (IF scene = "visited" THEN Writers ELSE {})
  /\ Cardinality(initials') <= MaxInitials
  /\ minted' <= PairsWanted[scene]
  /\ faults' = Count(faults, Interrupted) /\ faults' <= MaxFaults[scene]
  /\ mishaps' = Count(mishaps, Forgetful) /\ mishaps' <= MaxMishaps
  /\ UNCHANGED scene
BoundedSpec == BoundedInit /\ [][BoundedNext]_<<vars, scene, faults, mishaps>>
=============================================================================
