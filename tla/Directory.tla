----------------------------- MODULE Directory -----------------------------
(***************************************************************************)
(* The account side of the Directory Durable Object: invites, the users    *)
(* they let in, the devices an account lists, the devices' own claims, and *)
(* the rotations by which one account key succeeds another.  The prekeys   *)
(* themselves are in Prekeys; here a bundle is published or not.           *)
(*                                                                         *)
(* An account id and a device id are both the hash of a public key, so one *)
(* set of ids serves for users, devices, accounts and their keys.  Every   *)
(* handler runs in one turn of the Durable Object, so each is one action;  *)
(* callers may send any request whose signatures their keys can make, in   *)
(* any order.                                                              *)
(***************************************************************************)
EXTENDS Naturals, FiniteSets

CONSTANTS
  Id,              \* ids of devices and accounts
  Code,            \* invite codes; each is minted at most once
  Version,         \* the versions a list may carry
  Admin,           \* the inviter of bootstrap invites, not an id
  None,            \* the absence of a row
  MaxOutstanding,  \* MAX_OUTSTANDING_INVITES
  MaxChain,        \* MAX_ROTATION_CHAIN
  MaxDevices       \* MAX_DEVICES_PER_ACCOUNT

ASSUME DirectoryAssumption ==
  /\ None \notin Id /\ Admin \notin Id /\ None # Admin
  /\ Version \subseteq Nat
  /\ MaxOutstanding \in Nat
  /\ MaxChain \in Nat
  /\ MaxDevices \in Nat

VARIABLES
  inviter,    \* who minted a code, None before
  joiner,     \* invites.used_by
  lapsed,     \* codes whose clock (created_at, or used_at once used) is past INVITE_TTL_MS
  purged,     \* codes whose row the alarm deleted
  users,      \* ids with a users row
  published,  \* ids with an spks row: what fetchBundle can serve
  claims,     \* device_claims: the account a device registered under
  rosters,    \* an account's stored device list; version 0 when it has none
  successor,  \* rotations: the account that follows a rotated one
  chainLen,   \* chain_len of the row that starts from an id
  origin,     \* history: the invited registration an account descends from
  acted       \* history: the accounts a device itself registered under or claimed

inviteVars   == <<inviter, joiner, lapsed, purged>>
rotationVars == <<successor, chainLen, origin>>
directoryVars == <<inviteVars, users, published, claims, rosters, rotationVars, acted>>

Roster == [version : Nat, devices : SUBSET Id]
NoRoster == [version |-> 0, devices |-> {}]

DirTypeOK ==
  /\ inviter \in [Code -> Id \cup {Admin, None}]
  /\ joiner \in [Code -> Id \cup {None}]
  /\ lapsed \subseteq Code /\ purged \subseteq Code
  /\ users \subseteq Id /\ published \subseteq users
  /\ claims \in [Id -> Id \cup {None}]
  /\ rosters \in [Id -> Roster]
  /\ successor \in [Id -> Id \cup {None}]
  /\ chainLen \in [Id -> 0 .. MaxChain]
  /\ origin \in [Id -> Id \cup {None}]
  /\ acted \in [Id -> SUBSET Id]

DirInit ==
  /\ inviter = [c \in Code |-> None] /\ joiner = [c \in Code |-> None]
  /\ lapsed = {} /\ purged = {}
  /\ users = {} /\ published = {}
  /\ claims = [d \in Id |-> None]
  /\ rosters = [x \in Id |-> NoRoster]
  /\ successor = [x \in Id |-> None]
  /\ chainLen = [x \in Id |-> 0]
  /\ origin = [x \in Id |-> None]
  /\ acted = [d \in Id |-> {}]

-----------------------------------------------------------------------------
(* Invites.                                                                *)

Outstanding(x) == {c \in Code \ (lapsed \cup purged) : inviter[c] = x /\ joiner[c] = None}

\* The admin, or a registered user that is nobody's device and under its cap.
MayMint(x) ==
  \/ x = Admin
  \/ x \in users /\ claims[x] = None /\ Cardinality(Outstanding(x)) < MaxOutstanding

MintInvite(x, c) ==
  /\ inviter[c] = None
  /\ MayMint(x)
  /\ inviter' = [inviter EXCEPT ![c] = x]
  /\ UNCHANGED <<joiner, lapsed, purged, users, published, claims, rosters, rotationVars, acted>>

Redeemable(c) == inviter[c] # None /\ joiner[c] = None /\ c \notin lapsed \cup purged

\* The clock passes INVITE_TTL_MS for one code; the alarm then deletes its row.
InviteLapses(c) ==
  /\ inviter[c] # None /\ c \notin lapsed
  /\ lapsed' = lapsed \cup {c}
  /\ UNCHANGED <<inviter, joiner, purged, users, published, claims, rosters, rotationVars, acted>>

PurgeInvites ==
  /\ purged' = purged \cup lapsed
  /\ UNCHANGED <<inviter, joiner, lapsed, users, published, claims, rosters, rotationVars, acted>>

-----------------------------------------------------------------------------
(* Registration.                                                           *)

\* register of an id that has a row: the invite is not looked at.
RegisterAgain(x) ==
  /\ x \in users
  /\ published' = published \cup {x}
  /\ UNCHANGED <<inviteVars, users, claims, rosters, rotationVars, acted>>

\* register of a new id: it spends an invite in the transaction that adds it.
RegisterNew(x, c) ==
  /\ x \notin users
  /\ Redeemable(c)
  /\ joiner' = [joiner EXCEPT ![c] = x]
  /\ lapsed' = lapsed \ {c}
  /\ users' = users \cup {x}
  /\ published' = published \cup {x}
  /\ origin' = [origin EXCEPT ![x] = x]
  /\ UNCHANGED <<inviter, purged, claims, rosters, successor, chainLen, acted>>

\* Mutant: prekeys are stored for any id.
HasAnyRow(x) == TRUE
HasRow(x) == x \in users

PublishBundle(x) ==
  /\ HasRow(x)
  /\ published' = published \cup {x}
  /\ UNCHANGED <<inviteVars, users, claims, rosters, rotationVars, acted>>

-----------------------------------------------------------------------------
(* Accounts and their keys.                                                *)

Predecessors(x) == {y \in Id : successor[y] = x}
Moved(x) == successor[x] # None

\* Mutant: a device's own row answers for an account.
IsAccountByRow(x) == Predecessors(x) # {} \/ x \in users
\* accountKeyOf finds a key: a rotation led here, or a users row that is not a device's.
IsAccount(x) == Predecessors(x) # {} \/ (x \in users /\ claims[x] = None)
\* The chain length it reports: of any one row that leads here, else 0.
ChainLens(x) == IF Predecessors(x) = {} THEN {0} ELSE {chainLen[y] : y \in Predecessors(x)}

\* An account that can still publish: it has a key here and has not rotated away.
Live(x) == IsAccount(x) /\ ~Moved(x)

-----------------------------------------------------------------------------
(* Device lists.                                                           *)

\* The walks of n recorded rotations from x on.
Walks(x, n) == {w \in [0 .. n -> Id] : w[0] = x /\ \A i \in 1 .. n : w[i] = successor[w[i - 1]]}
RotatedInto(x, y) == \E n \in 1 .. MaxChain : \E w \in Walks(x, n) : w[n] = y

\* Mutant: whatever an account listed is its own to retire.
MayRetireListed(acct, d) == TRUE
\* An account retires only a device seen registering under it, or the one it grew from.
MayRetire(acct, d) == claims[d] = acct \/ RotatedInto(d, acct)

\* dropUnlistedDevices: what a new list takes away from the one it replaces.
Retired(acct, devices) ==
  {d \in rosters[acct].devices \ (devices \cup {acct}) : MayRetire(acct, d)}

Follows(acct, version) == version > rosters[acct].version

\* publishRoster, for a list signed by the key of acct.
PublishRoster(acct, version, devices) ==
  /\ devices # {} /\ Cardinality(devices) <= MaxDevices
  /\ Live(acct)
  /\ Follows(acct, version)
  /\ rosters' = [rosters EXCEPT ![acct] = [version |-> version, devices |-> devices]]
  /\ published' = published \ Retired(acct, devices)
  /\ UNCHANGED <<inviteVars, users, claims, rotationVars, acted>>

\* registerDevice: a device the account has listed joins without an invite.
RegisterDevice(d, acct) ==
  /\ ~Moved(acct)
  /\ d \in rosters[acct].devices
  /\ users' = users \cup {d}
  /\ published' = published \cup {d}
  /\ claims' = [claims EXCEPT ![d] = acct]
  /\ acted' = [acted EXCEPT ![d] = @ \cup {acct}]
  /\ UNCHANGED <<inviteVars, rosters, rotationVars>>

\* claimDevice: the same record, re-asserted on every connect.
ClaimDevice(d, acct) ==
  /\ d \in rosters[acct].devices
  /\ claims' = [claims EXCEPT ![d] = acct]
  /\ acted' = [acted EXCEPT ![d] = @ \cup {acct}]
  /\ UNCHANGED <<inviteVars, users, published, rosters, rotationVars>>

-----------------------------------------------------------------------------
(* Rotations.                                                              *)

\* Mutant: a rotation into an account that rotated away is recorded.
TargetOpenAlways(to) == TRUE
TargetOpen(to) == ~Moved(to)

FirstRotation(from) == ~Moved(from)

\* publishRotation of a statement both keys signed; repeating the recorded one
\* answers and writes nothing, which is a stutter.
PublishRotation(from, to) ==
  /\ from # to
  /\ IsAccount(from)
  /\ TargetOpen(to)
  /\ FirstRotation(from)
  /\ \E len \in ChainLens(from) :
       /\ len + 1 <= MaxChain
       /\ chainLen' = [chainLen EXCEPT ![from] = len + 1]
  /\ successor' = [successor EXCEPT ![from] = to]
  /\ origin' = [origin EXCEPT ![to] = origin[from]]
  /\ claims' = [d \in Id |-> IF claims[d] = from THEN to ELSE claims[d]]
  /\ UNCHANGED <<inviteVars, users, published, rosters, acted>>

-----------------------------------------------------------------------------
(* Every request anybody's keys can sign, in any order.                    *)

DirNext ==
  \/ \E x \in Id \cup {Admin}, c \in Code : MintInvite(x, c)
  \/ \E c \in Code : InviteLapses(c)
  \/ PurgeInvites
  \/ \E x \in Id, c \in Code : RegisterNew(x, c)
  \/ \E x \in Id : RegisterAgain(x) \/ PublishBundle(x)
  \/ \E x \in Id, version \in Version, devices \in SUBSET Id : PublishRoster(x, version, devices)
  \/ \E d \in Id, x \in Id : RegisterDevice(d, x) \/ ClaimDevice(d, x) \/ PublishRotation(d, x)

DirSpec == DirInit /\ [][DirNext]_directoryVars

-----------------------------------------------------------------------------
(* Properties.                                                             *)

\* The invite gate: every account that can publish descends from a registration
\* of its own, which spent an invite.  Devices are added without an invite and
\* rotations mint ids at will, and neither may multiply accounts: accountKeyOf,
\* redeemInvite.
AccountsArePaidFor ==
  \A x \in Id : Live(x) =>
    /\ \E c \in Code : joiner[c] = origin[x] /\ joiner[c] # None
    /\ \A y \in Id : Live(y) /\ origin[y] = origin[x] => y = x

\* Following rotations always arrives: no set of accounts rotates into itself.
\* publishRotation's target check and first-rotation check together; a client
\* that walks successors relies on it.
RotationsArrive ==
  \A S \in (SUBSET Id) \ {{}} : \E x \in S : successor[x] \notin S

\* The recorded rotations lead from x to y, in any number of hops: y is wherever x is, if
\* everything there stays there.
LeadsTo(x, y) ==
  \A S \in SUBSET Id : x \in S /\ (\A z \in S : successor[z] \in S \cup {None}) => y \in S

\* Whose prekeys disappear: some list changed of an account that it joined, or grew into.
AtItsOwnWord(d) ==
  \E acct \in Id : /\ rosters'[acct] # rosters[acct]
                   /\ \E x \in acted[d] \cup {d} : LeadsTo(x, acct)

\* Prekeys disappear only by the word of an account the device joined, or grew
\* into: a stranger who lists a device and drops it again retires nothing.
\* dropUnlistedDevices, across the claims that rotations carry over.
RetiredByItsOwn == [][\A d \in published \ published' : AtItsOwnWord(d)]_directoryVars

\* What publishRotation carries the claims over for: an account that drops a
\* device which registered under it, or under what it was before, retires it.
RetiresItsOwn ==
  [][\A acct \in Id :
       \A d \in rosters[acct].devices \ (rosters'[acct].devices \cup {acct}) :
         (\E x \in acted[d] : LeadsTo(x, acct)) => d \notin published']_directoryVars
=============================================================================
