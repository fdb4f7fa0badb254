----------------------------- MODULE MCAccounts -----------------------------
(* Small instances of an account's devices, and of the people its user      *)
(* knows.  The initial state chooses which of them moves, the other stands  *)
(* still.  List versions and requests in flight are bounded.                *)
EXTENDS Accounts, Trust
CONSTANTS
    a, b, k1, k2, i1, i2, MaxVersion, MaxWire,
    p1, p2, p3,
    Layers           \* the layers that this run lets move
VARIABLE layer

\* Who joined by an invite of the user's rotates later.
TheJoinerRotates == {<<p2, p3>>}

\* The two devices differ in nothing but their names.
Swapped == Permutations({a, b})

AccountsInit ==
    /\ layer \in Layers
    /\ Init /\ TrustInit
    /\ theirs \subseteq (IF layer = "trust" THEN {p2} ELSE {})

AccountsStep ==
    /\ layer = "accounts" /\ Next
    /\ \A x \in Id : rosters'[x].version <= MaxVersion
    /\ Cardinality(wire') <= MaxWire
    /\ UNCHANGED <<trustVars, layer>>

\* A number is compared while the relay's list of joiners is not being worked on.
TrustStep ==
    /\ layer = "trust" /\ TrustNext
    /\ panel' = Shut \/ (~syncing'.busy /\ leaving' = Noone)
    /\ UNCHANGED <<vars, layer>>

AccountsSpec == AccountsInit /\ [][AccountsStep \/ TrustStep]_<<vars, trustVars, layer>>

\* Each part is a state its code can be in, and the ledgers keep their bounds.
AccountsTypeOK == TypeOK /\ TrustTypeOK
=============================================================================
