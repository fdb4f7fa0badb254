--------------------------- MODULE AccountsProofs ---------------------------
(***************************************************************************)
(* What the Directory keeps true for any number of ids, codes and lists,   *)
(* whatever requests arrive: its tables have their types, rotations never  *)
(* form a cycle, every account that can publish was paid for, and only its *)
(* own account retires a device.                                           *)
(* And what one person's devices keep of the account they share, whatever  *)
(* is lost, late, refused or cut short: the account's key, the devices on  *)
(* its list, and no key of an account that a device did not join.          *)
(***************************************************************************)
EXTENDS MCAccounts, TrustProofs, WellFoundedInduction

-----------------------------------------------------------------------------
(* The Directory, and the requests anybody may send it.                    *)


\* A list of any version is stored as a row of the right shape (publishRoster).
LEMMA RosterTypes ==
  ASSUME DirTypeOK, NEW x \in Id, NEW version \in Nat, NEW devices \in SUBSET Id,
         PublishRoster(x, version, devices)
  PROVE  DirTypeOK'
<1> USE DirectoryAssumption DEF DirTypeOK, Roster, inviteVars, rotationVars
<1>1. [version |-> version, devices |-> devices] \in Roster
  OBVIOUS
<1>2. rosters' \in [Id -> Roster]
  BY <1>1 DEF PublishRoster
<1> QED
  BY <1>2 DEF PublishRoster

\* And so is what every other handler of worker/directory.ts writes.
LEMMA DirTypeStep ==
  ASSUME DirTypeOK, [DirNext]_directoryVars
  PROVE  DirTypeOK'
<1> USE DirectoryAssumption DEF DirTypeOK, Roster, inviteVars, rotationVars
<1>1. ASSUME NEW x \in Id \cup {Admin}, NEW c \in Code, MintInvite(x, c)
      PROVE  DirTypeOK'
  BY <1>1 DEF MintInvite
<1>2. ASSUME NEW c \in Code, InviteLapses(c)
      PROVE  DirTypeOK'
  BY <1>2 DEF InviteLapses
<1>3. CASE PurgeInvites
  BY <1>3 DEF PurgeInvites
<1>4. ASSUME NEW x \in Id, NEW c \in Code, RegisterNew(x, c)
      PROVE  DirTypeOK'
  BY <1>4 DEF RegisterNew
<1>5. ASSUME NEW x \in Id, RegisterAgain(x) \/ PublishBundle(x)
      PROVE  DirTypeOK'
  BY <1>5 DEF RegisterAgain, PublishBundle, HasRow
<1>6. ASSUME NEW x \in Id, NEW version \in Version, NEW devices \in SUBSET Id,
             PublishRoster(x, version, devices)
      PROVE  DirTypeOK'
  BY <1>6, RosterTypes
<1>7. ASSUME NEW d \in Id, NEW x \in Id, RegisterDevice(d, x) \/ ClaimDevice(d, x)
      PROVE  DirTypeOK'
  <2>1. /\ claims' = [claims EXCEPT ![d] = x]
        /\ acted' = [acted EXCEPT ![d] = @ \cup {x}]
        /\ UNCHANGED <<inviteVars, rosters, rotationVars>>
    BY <1>7 DEF RegisterDevice, ClaimDevice
  <2>2. users' \subseteq Id /\ published' \subseteq users'
    BY <1>7 DEF RegisterDevice, ClaimDevice
  <2>3. acted' \in [Id -> SUBSET Id]
    BY <2>1
  <2> QED
    BY <2>1, <2>2, <2>3
<1>8. ASSUME NEW from \in Id, NEW to \in Id, PublishRotation(from, to)
      PROVE  DirTypeOK'
  <2>1. PICK len \in ChainLens(from) :
          len + 1 <= MaxChain /\ chainLen' = [chainLen EXCEPT ![from] = len + 1]
    BY <1>8 DEF PublishRotation
  <2>2. len \in Nat
    BY <2>1 DEF ChainLens, Predecessors
  <2>3. chainLen' \in [Id -> 0 .. MaxChain]
    BY <2>1, <2>2
  <2> QED
    BY <1>8, <2>3 DEF PublishRotation
<1>9. CASE UNCHANGED directoryVars
  BY <1>9 DEF directoryVars
<1> QED
  BY <1>1, <1>2, <1>3, <1>4, <1>5, <1>6, <1>7, <1>8, <1>9 DEF DirNext

\* The tables of the Directory hold what their declarations say: every
\* handler of worker/directory.ts writes rows of the right shape.
THEOREM DirTypeCorrect == DirSpec => []DirTypeOK
<1>1. DirInit => DirTypeOK
  BY DirectoryAssumption DEF DirInit, DirTypeOK, Roster, NoRoster
<1>2. DirTypeOK /\ [DirNext]_directoryVars => DirTypeOK'
  BY DirTypeStep
<1> QED
  BY <1>1, <1>2, PTL DEF DirSpec

-----------------------------------------------------------------------------
\* Only publishRotation writes the rotations table; any other step leaves them.
LEMMA OnlyRotationsRotate ==
  ASSUME [DirNext]_directoryVars,
         \A from, to \in Id : ~PublishRotation(from, to)
  PROVE  successor' = successor
BY DEF DirNext, directoryVars, inviteVars, rotationVars, MintInvite, InviteLapses, PurgeInvites,
       RegisterNew, RegisterAgain, PublishBundle, PublishRoster, RegisterDevice, ClaimDevice

\* However many accounts rotate, and whoever signs what, the recorded
\* successors never lead back: publishRotation refuses a target that has
\* rotated away, so a new last account has no way on.
THEOREM RotationsArriveHolds == DirSpec => []RotationsArrive
<1> USE DirectoryAssumption
<1>1. DirInit => RotationsArrive
  <2> SUFFICES ASSUME DirInit, NEW S \in (SUBSET Id) \ {{}}
               PROVE  \E x \in S : successor[x] \notin S
    BY DEF RotationsArrive
  <2>1. PICK x \in S : TRUE
    OBVIOUS
  <2>2. successor[x] = None
    BY DEF DirInit
  <2> QED
    BY <2>1, <2>2
<1>2. DirTypeOK /\ RotationsArrive /\ [DirNext]_directoryVars => RotationsArrive'
  <2> SUFFICES ASSUME DirTypeOK, RotationsArrive, [DirNext]_directoryVars,
                      NEW S \in (SUBSET Id) \ {{}}
               PROVE  \E x \in S : successor'[x] \notin S
    BY DEF RotationsArrive
  <2>1. PICK x \in S : successor[x] \notin S
    BY DEF RotationsArrive
  <2>2. CASE \A from, to \in Id : ~PublishRotation(from, to)
    BY <2>1, <2>2, OnlyRotationsRotate
  <2>3. ASSUME NEW from \in Id, NEW to \in Id, PublishRotation(from, to)
        PROVE  \E y \in S : successor'[y] \notin S
    <3>1. /\ successor' = [successor EXCEPT ![from] = to]
          /\ successor[to] = None /\ from # to
      BY <2>3 DEF PublishRotation, TargetOpen, Moved
    <3>2. CASE x # from
      BY <2>1, <3>1, <3>2 DEF DirTypeOK
    <3>3. CASE x = from /\ to \notin S
      BY <2>1, <3>1, <3>3 DEF DirTypeOK
    <3>4. CASE to \in S
      BY <3>1, <3>4 DEF DirTypeOK
    <3> QED
      BY <3>2, <3>3, <3>4
  <2> QED
    BY <2>2, <2>3
<1> QED
  BY <1>1, <1>2, DirTypeCorrect, PTL DEF DirSpec

-----------------------------------------------------------------------------
\* Where an account descends from: an id that registered with an invite of its
\* own.  Stronger than what is promised of live accounts, to be inductive.
OriginsRegistered ==
  \A x \in Id : origin[x] # None =>
    /\ origin[x] \in users
    /\ \E c \in Code : joiner[c] = origin[x]

LiveHaveOrigins == \A x \in Id : Live(x) => origin[x] # None
LiveApart == \A x, y \in Id : Live(x) /\ Live(y) /\ origin[x] = origin[y] => x = y

Paid == OriginsRegistered /\ LiveHaveOrigins /\ LiveApart

\* A step that neither registers nor rotates makes no account publish that
\* could not before, and forgets no origin.
LEMMA QuietStep ==
  ASSUME DirTypeOK, Paid,
         UNCHANGED <<joiner, origin, successor>>,
         users \subseteq users',
         \A x \in Id : Live(x)' => Live(x)
  PROVE  Paid'
BY DEF Paid, OriginsRegistered, LiveHaveOrigins, LiveApart, DirTypeOK

LEMMA PaidStep ==
  ASSUME DirTypeOK, Paid, [DirNext]_directoryVars
  PROVE  Paid'
<1> USE DirectoryAssumption
<1> USE DEF inviteVars, rotationVars
<1> DEFINE Quiet == /\ UNCHANGED <<joiner, origin, successor>>
                    /\ users \subseteq users'
                    /\ \A x \in Id : Live(x)' => Live(x)
<1>1. ASSUME NEW x \in Id \cup {Admin}, NEW c \in Code, MintInvite(x, c)
      PROVE  Paid'
  <2>1. Quiet
    BY <1>1 DEF MintInvite, Live, IsAccount, Predecessors, Moved
  <2> QED
    BY <2>1, QuietStep
<1>2. ASSUME NEW c \in Code, InviteLapses(c) \/ PurgeInvites
      PROVE  Paid'
  <2>1. Quiet
    BY <1>2 DEF InviteLapses, PurgeInvites, Live, IsAccount, Predecessors, Moved
  <2> QED
    BY <2>1, QuietStep
<1>3. ASSUME NEW x \in Id, NEW c \in Code, RegisterNew(x, c)
      PROVE  Paid'
  <2>1. /\ joiner' = [joiner EXCEPT ![c] = x] /\ joiner[c] = None
        /\ users' = users \cup {x} /\ x \notin users
        /\ origin' = [origin EXCEPT ![x] = x]
        /\ UNCHANGED <<claims, successor>>
    BY <1>3 DEF RegisterNew, Redeemable
  <2>2. ASSUME NEW y \in Id, y # x, Live(y)'
        PROVE  Live(y)
    BY <2>1, <2>2 DEF Live, IsAccount, Predecessors, Moved
  <2>3. \A y \in Id : y # x => origin'[y] = origin[y] /\ origin[y] # x
    BY <2>1 DEF Paid, OriginsRegistered, DirTypeOK
  <2>4. origin'[x] = x /\ x # None
    BY <2>1 DEF DirTypeOK
  <2>5. OriginsRegistered'
    <3> SUFFICES ASSUME NEW y \in Id, origin'[y] # None
                 PROVE  origin'[y] \in users' /\ \E i \in Code : joiner'[i] = origin'[y]
      BY DEF OriginsRegistered
    <3>1. CASE y = x
      BY <2>1, <2>4, <3>1 DEF DirTypeOK
    <3>2. CASE y # x
      <4>1. PICK i \in Code : joiner[i] = origin[y]
        BY <2>3, <3>2 DEF Paid, OriginsRegistered
      <4>2. joiner'[i] = origin[y]
        BY <2>1, <2>3, <3>2, <4>1 DEF DirTypeOK
      <4> QED
        BY <2>1, <2>3, <3>2, <4>2 DEF Paid, OriginsRegistered
    <3> QED
      BY <3>1, <3>2
  <2>6. LiveHaveOrigins'
    BY <2>2, <2>3, <2>4 DEF Paid, LiveHaveOrigins
  <2>7. LiveApart'
    BY <2>2, <2>3, <2>4 DEF Paid, LiveApart
  <2> QED
    BY <2>5, <2>6, <2>7 DEF Paid
<1>4. ASSUME NEW x \in Id, RegisterAgain(x) \/ PublishBundle(x)
      PROVE  Paid'
  <2>1. Quiet
    BY <1>4 DEF RegisterAgain, PublishBundle, Live, IsAccount, Predecessors, Moved
  <2> QED
    BY <2>1, QuietStep
<1>5. ASSUME NEW x \in Id, NEW version \in Version, NEW devices \in SUBSET Id,
             PublishRoster(x, version, devices)
      PROVE  Paid'
  <2>1. Quiet
    BY <1>5 DEF PublishRoster, Live, IsAccount, Predecessors, Moved
  <2> QED
    BY <2>1, QuietStep
<1>6. ASSUME NEW d \in Id, NEW x \in Id, RegisterDevice(d, x) \/ ClaimDevice(d, x)
      PROVE  Paid'
  <2>1. claims' = [claims EXCEPT ![d] = x] /\ x # None
    BY <1>6 DEF RegisterDevice, ClaimDevice
  <2>2. UNCHANGED <<joiner, origin, successor>> /\ users \subseteq users' /\ users' \subseteq users \cup {d}
    BY <1>6 DEF RegisterDevice, ClaimDevice
  <2>3. ASSUME NEW y \in Id, Live(y)'
        PROVE  Live(y)
    BY <2>1, <2>2, <2>3 DEF Live, IsAccount, Predecessors, Moved, DirTypeOK
  <2> QED
    BY <2>2, <2>3, QuietStep
<1>7. ASSUME NEW from \in Id, NEW to \in Id, PublishRotation(from, to)
      PROVE  Paid'
  <2>1. /\ successor' = [successor EXCEPT ![from] = to]
        /\ origin' = [origin EXCEPT ![to] = origin[from]]
        /\ claims' = [d \in Id |-> IF claims[d] = from THEN to ELSE claims[d]]
        /\ UNCHANGED <<joiner, users>>
        /\ from # to
    BY <1>7 DEF PublishRotation
  <2>2. Live(from)
    BY <1>7 DEF PublishRotation, Live, FirstRotation
  <2>3. ASSUME NEW y \in Id, y # to, Live(y)'
        PROVE  Live(y) /\ y # from
    BY <2>1, <2>2, <2>3 DEF Live, IsAccount, Predecessors, Moved, DirTypeOK
  <2>4. \A y \in Id : y # to => origin'[y] = origin[y]
    BY <2>1 DEF DirTypeOK
  <2>5. origin'[to] = origin[from] /\ origin[from] # None
    BY <2>1, <2>2 DEF Paid, LiveHaveOrigins, DirTypeOK
  <2>6. OriginsRegistered'
    BY <2>1, <2>4, <2>5 DEF Paid, OriginsRegistered
  <2>7. LiveHaveOrigins'
    BY <2>3, <2>4, <2>5 DEF Paid, LiveHaveOrigins
  <2>8. LiveApart'
    BY <2>2, <2>3, <2>4, <2>5 DEF Paid, LiveApart
  <2> QED
    BY <2>6, <2>7, <2>8 DEF Paid
<1>8. CASE UNCHANGED directoryVars
  <2>1. Quiet
    BY <1>8 DEF directoryVars, Live, IsAccount, Predecessors, Moved
  <2> QED
    BY <2>1, QuietStep
<1>9. CASE PurgeInvites
  <2>1. Quiet
    BY <1>9 DEF PurgeInvites, Live, IsAccount, Predecessors, Moved
  <2> QED
    BY <2>1, QuietStep
<1> QED
  BY <1>1, <1>2, <1>3, <1>4, <1>5, <1>6, <1>7, <1>8, <1>9 DEF DirNext

\* Accounts cannot be multiplied: devices join without an invite and rotations
\* make ids at will, yet the accounts that can publish are never more than the
\* invites that were spent.  registerDevice, claimDevice, publishRotation.
THEOREM AccountsArePaidForHolds == DirSpec => []AccountsArePaidFor
<1> USE DirectoryAssumption
<1>1. DirInit => Paid
  BY DEF DirInit, Paid, OriginsRegistered, LiveHaveOrigins, LiveApart, Live, IsAccount, Predecessors
<1>2. DirTypeOK /\ Paid /\ [DirNext]_directoryVars => Paid'
  BY PaidStep
<1>3. Paid => AccountsArePaidFor
  BY DEF Paid, OriginsRegistered, LiveHaveOrigins, LiveApart, AccountsArePaidFor
<1> QED
  BY <1>1, <1>2, <1>3, DirTypeCorrect, PTL DEF DirSpec

-----------------------------------------------------------------------------
(* Who may retire a device's prekeys.                                      *)

\* What is closed after a step that records rotations was closed before.
LEMMA LeadsFurther ==
  ASSUME DirTypeOK, [DirNext]_directoryVars, NEW x \in Id, NEW y, LeadsTo(x, y)
  PROVE  LeadsTo(x, y)'
<1> USE DirectoryAssumption
<1>1. \A z \in Id : successor[z] \in {successor'[z], None}
  <2>1. CASE \A from, to \in Id : ~PublishRotation(from, to)
    BY <2>1, OnlyRotationsRotate
  <2>2. ASSUME NEW from \in Id, NEW to \in Id, PublishRotation(from, to)
        PROVE  \A z \in Id : successor[z] \in {successor'[z], None}
    BY <2>2 DEF PublishRotation, FirstRotation, Moved, DirTypeOK
  <2> QED
    BY <2>1, <2>2
<1>2. SUFFICES ASSUME NEW S \in SUBSET Id, x \in S, \A z \in S : successor'[z] \in S \cup {None}
               PROVE  y \in S
  BY DEF LeadsTo
<1>3. \A z \in S : successor[z] \in S \cup {None}
  BY <1>1, <1>2
<1> QED
  BY <1>2, <1>3 DEF LeadsTo

\* Numbers have a first.
LEMMA LeastNumber ==
  ASSUME NEW S \in SUBSET Nat, S # {}
  PROVE  \E i \in S : \A j \in S : ~(j < i)
<1> DEFINE R == OpToRel(<, Nat)
<1>1. IsWellFoundedOn(R, Nat)
  BY NatLessThanWellFounded
<1>2. \A i \in Nat, j \in Nat : j < i => <<j, i>> \in R
  BY DEF OpToRel
<1> HIDE DEF R
<1>3. PICK i \in S : \A j \in S : ~(<<j, i>> \in R)
  BY <1>1, WFMin
<1> QED
  BY <1>2, <1>3

\* The walk of rotatedInto stays where the rotations lead.
LEMMA WalksLead ==
  ASSUME NEW x \in Id, NEW y \in Id, RotatedInto(x, y)
  PROVE  LeadsTo(x, y)
<1> USE DirectoryAssumption
<1>1. PICK n \in 1 .. MaxChain : \E w \in Walks(x, n) : w[n] = y
  BY DEF RotatedInto
<1>2. PICK w \in Walks(x, n) : w[n] = y
  BY <1>1
<1>3. w \in [0 .. n -> Id] /\ w[0] = x /\ \A i \in 1 .. n : w[i] = successor[w[i - 1]]
  BY DEF Walks
<1>4. SUFFICES ASSUME NEW S \in SUBSET Id, x \in S, \A z \in S : successor[z] \in S \cup {None}
               PROVE  y \in S
  BY DEF LeadsTo
<1> DEFINE Out == {i \in 0 .. n : w[i] \notin S}
<1>5. ASSUME Out # {}
      PROVE  FALSE
  <2>1. Out \in SUBSET Nat
    OBVIOUS
  <2>2. PICK i \in Out : \A j \in Out : ~(j < i)
    BY <1>5, <2>1, LeastNumber
  <2>3. i \in 1 .. n
    BY <1>3, <1>4
  <2>4. i - 1 \in 0 .. n /\ i - 1 < i /\ i - 1 \in Nat
    BY <2>3
  <2>5. i - 1 \notin Out
    BY <2>2, <2>4
  <2>6. w[i - 1] \in S
    BY <2>4, <2>5
  <2>7. w[i] \in S \cup {None}
    BY <1>3, <1>4, <2>3, <2>6
  <2> QED
    BY <1>3, <2>2, <2>7
<1> QED
  BY <1>2, <1>5

\* A claim was made by the device itself, of that account or of one that became it.
Claimed ==
  \A d \in Id : claims[d] # None => \E x \in acted[d] : LeadsTo(x, claims[d])

LEMMA ClaimedStep ==
  ASSUME DirTypeOK, Claimed, [DirNext]_directoryVars
  PROVE  Claimed'
<1> USE DirectoryAssumption DEF DirTypeOK
<1>1. ASSUME NEW d \in Id, NEW x \in Id, RegisterDevice(d, x) \/ ClaimDevice(d, x)
      PROVE  Claimed'
  <2>1. /\ claims' = [claims EXCEPT ![d] = x]
        /\ acted' = [acted EXCEPT ![d] = @ \cup {x}]
    BY <1>1 DEF RegisterDevice, ClaimDevice
  <2>2. LeadsTo(x, x)'
    BY DEF LeadsTo
  <2>3. SUFFICES ASSUME NEW e \in Id, claims'[e] # None
                 PROVE  (\E z \in acted[e] : LeadsTo(z, claims[e]))'
    BY DEF Claimed
  <2>4. CASE e = d
    BY <2>1, <2>2, <2>4
  <2>5. CASE e # d
    <3>1. PICK z \in acted[e], y \in Id : y = claims[e] /\ LeadsTo(z, y)
      BY <2>1, <2>3, <2>5 DEF Claimed
    <3>2. LeadsTo(z, y)'
      BY <3>1, LeadsFurther
    <3> QED
      BY <2>1, <2>5, <3>1, <3>2
  <2> QED
    BY <2>4, <2>5
<1>2. ASSUME NEW from \in Id, NEW to \in Id, PublishRotation(from, to)
      PROVE  Claimed'
  <2>1. /\ successor' = [successor EXCEPT ![from] = to]
        /\ claims' = [d \in Id |-> IF claims[d] = from THEN to ELSE claims[d]]
        /\ acted' = acted
    BY <1>2 DEF PublishRotation
  <2>2. SUFFICES ASSUME NEW e \in Id, claims'[e] # None
                 PROVE  (\E z \in acted[e] : LeadsTo(z, claims[e]))'
    BY DEF Claimed
  <2>3. claims[e] # None
    BY <2>1, <2>2
  <2>4. PICK z \in acted[e], y \in Id : y = claims[e] /\ LeadsTo(z, y)
    BY <2>3 DEF Claimed
  <2>5. LeadsTo(z, y)'
    BY <2>4, LeadsFurther
  <2>6. CASE y # from
    BY <2>1, <2>4, <2>5, <2>6
  <2>7. CASE y = from
    <3>1. LeadsTo(z, to)'
      BY <2>1, <2>5, <2>7 DEF LeadsTo
    <3> QED
      BY <2>1, <2>4, <2>7, <3>1
  <2> QED
    BY <2>6, <2>7
<1>3. CASE UNCHANGED <<claims, acted>>
  <2>1. SUFFICES ASSUME NEW e \in Id, claims'[e] # None
                 PROVE  (\E z \in acted[e] : LeadsTo(z, claims[e]))'
    BY DEF Claimed
  <2>2. PICK z \in acted[e], y \in Id : y = claims[e] /\ LeadsTo(z, y)
    BY <1>3, <2>1 DEF Claimed
  <2>3. LeadsTo(z, y)'
    BY <2>2, LeadsFurther
  <2> QED
    BY <1>3, <2>2, <2>3
<1> QED
  BY <1>1, <1>2, <1>3 DEF DirNext, directoryVars, inviteVars, rotationVars, MintInvite, InviteLapses,
     PurgeInvites, RegisterNew, RegisterAgain, PublishBundle, PublishRoster

\* A device's prekeys disappear only by a list of an account that the device joined, or
\* of what it or that account became (dropUnlistedDevices, with the claims that
\* publishRotation carries over).
THEOREM RetiredByItsOwnHolds == DirSpec => RetiredByItsOwn
<1> USE DirectoryAssumption
<1>1. DirInit => Claimed
  BY DEF DirInit, Claimed
<1>2. DirTypeOK /\ Claimed /\ [DirNext]_directoryVars => Claimed'
  BY ClaimedStep
<1>3. ASSUME DirTypeOK, Claimed, [DirNext]_directoryVars, NEW d \in published \ published'
      PROVE  AtItsOwnWord(d)
  <2>1. PICK x \in Id, version \in Version, devices \in SUBSET Id : PublishRoster(x, version, devices)
    BY <1>3 DEF DirNext, directoryVars, inviteVars, rotationVars, MintInvite, InviteLapses,
       PurgeInvites, RegisterNew, RegisterAgain, PublishBundle, RegisterDevice, ClaimDevice,
       PublishRotation
  <2>2. d \in Id /\ MayRetire(x, d)
    BY <1>3, <2>1 DEF PublishRoster, Retired, DirTypeOK
  <2>3. rosters'[x] # rosters[x]
    <3>1. rosters[x].version \in Nat /\ version \in Nat /\ version > rosters[x].version
      BY <1>3, <2>1 DEF PublishRoster, Follows, DirTypeOK, Roster
    <3>2. rosters'[x].version = version
      BY <1>3, <2>1 DEF PublishRoster, DirTypeOK
    <3> QED
      BY <3>1, <3>2
  <2>4. \E y \in acted[d] \cup {d} : LeadsTo(y, x)
    <3>1. CASE claims[d] = x
      BY <1>3, <2>2, <3>1 DEF Claimed
    <3>2. CASE RotatedInto(d, x)
      BY <2>2, <3>2, WalksLead
    <3> QED
      BY <2>2, <3>1, <3>2 DEF MayRetire
  <2> QED
    BY <2>3, <2>4 DEF AtItsOwnWord
<1>4. DirTypeOK /\ Claimed /\ [DirNext]_directoryVars =>
        [\A d \in published \ published' : AtItsOwnWord(d)]_directoryVars
  BY <1>3
<1> QED
  BY <1>1, <1>2, <1>4, DirTypeCorrect, PTL DEF DirSpec, RetiredByItsOwn

-----------------------------------------------------------------------------
(* Types, and what a task waits for.                                       *)

TaskKinds == {"idle", "rotating", "relisting", "listing", "joining"}
Tasks == [kind : TaskKinds, about : Id \cup {None}, on : Requests \cup {None}]

\* The request a task waits for is its own, and of its kind; the account it is about
\* does not change while it runs.
Waits(d) ==
  /\ task[d].on # None => task[d].on.by = d
  /\ task[d].on \in wire \cup {None} \/ task[d].kind \in Fallible
  /\ task[d].kind = "idle" => task[d].on = None /\ task[d].about = None
  /\ task[d].kind = "joining" => /\ task[d].on # None /\ task[d].on.kind = "join"
                                 /\ task[d].about = stored[d]
  /\ task[d].kind = "listing" => /\ task[d].on # None /\ task[d].on.kind = "list"
                                 /\ task[d].about \in Device \cup {None}
  /\ task[d].kind = "rotating" => /\ task[d].about \in Key /\ stored[d] = task[d].about
                                  /\ task[d].on = RotationRequest(d, acct[d], task[d].about)
  /\ task[d].kind = "relisting" =>
       /\ task[d].about \in Key /\ stored[d] = task[d].about
       /\ successor[acct[d]] = task[d].about
       /\ task[d].on # None => /\ task[d].on.kind = "list" /\ task[d].on.version = 1
                               /\ task[d].on.account = task[d].about

Shapes ==
  /\ stored \in [Device -> Id \cup {None}]
  /\ acct \in [Device -> Id]
  /\ task \in [Device -> Tasks]
  /\ spent \subseteq Key /\ cut \subseteq Key /\ dropping \subseteq Id /\ over \subseteq Id
  /\ torn \subseteq Device
  /\ wire \subseteq Requests
  /\ offers \subseteq [account : Id, device : Device]

Shaped == DirTypeOK /\ Shapes /\ \A d \in Device : Waits(d)

LEMMA ShapedIsTyped == Shaped => TypeOK
BY DEF Shaped, Shapes, TypeOK, Tasks, TaskKinds, Waits

LEMMA RequestShapes ==
  ASSUME NEW d \in Device
  PROVE  /\ \A x \in Id, k \in Key : RotationRequest(d, x, k) \in Requests
         /\ \A x \in Id, v \in Nat, s \in SUBSET Id : ListRequest(d, x, v, s) \in Requests
         /\ \A x \in Id : JoinRequest(d, x) \in Requests
BY DEF Requests, RotationRequest, ListRequest, JoinRequest

\* What is on the wire, by its kind.
LEMMA OnTheWire ==
  ASSUME NEW m \in Requests
  PROVE  /\ m.by \in Device
         /\ m.kind = "rotation" => m.old \in Id /\ m.new \in Key /\ m = RotationRequest(m.by, m.old, m.new)
         /\ m.kind = "list" => m.account \in Id /\ m.version \in Nat /\ m.devices \in SUBSET Id
         /\ m.kind = "join" => m.account \in Id
         /\ m # None
BY AccountsAssumption DEF Requests, RotationRequest

\* The steps of a device leave the Directory alone, and so does a refusal.
DeviceStep ==
  \/ \E d \in Device : GiveUp(d) \/ Restart(d) \/ StartRelist(d)
  \/ \E d \in Device, e \in Device : Authorize(d, e)
  \/ \E d \in Device, e \in Id : RemoveDevice(d, e) \/ StartJoin(d, e) \/ StartRotate(d, e)
  \/ \E m \in wire : RefuseList(m) \/ RefuseJoin(m) \/ RefuseRotation(m) \/ LoseRequest(m)

\* The Directory's own rows change by one of these.
DirectoryStep ==
  \/ \E x \in Device \cup {Admin}, c \in Code : Mint(x, c)
  \/ \E d \in Device, c \in Code : Enroll(d, c)
  \/ \E d \in Device : Republish(d) \/ Claim(d)

LEMMA Steps ==
  Next => \/ DeviceStep \/ DirectoryStep
          \/ \E m \in wire : StoreList(m) \/ StoreJoin(m) \/ StoreRotation(m)
BY DEF Next, DeviceStep, DirectoryStep

LEMMA DeviceStepKeeps == DeviceStep => UNCHANGED directoryVars
BY DEF DeviceStep, GiveUp, Restart, StartRelist, Authorize, RemoveDevice, StartJoin, StartRotate,
       RefuseList, RefuseJoin, RefuseRotation, LoseRequest

LEMMA DirectoryStepKeeps == DirectoryStep => UNCHANGED <<deviceVars, wire, offers>>
BY DEF DirectoryStep, Mint, Enroll, Republish, Claim

\* What every step leaves of the Directory: users and rotations stay, and only a list
\* or a rotation that was on the wire is recorded.
LEMMA DirectoryKeeps ==
  ASSUME DirTypeOK, Shapes, [Next]_vars
  PROVE  /\ DirTypeOK'
         /\ users \subseteq users'
         /\ successor' = successor \/ \E m \in wire : StoreRotation(m)
         /\ rosters' = rosters \/ \E m \in wire : StoreList(m)
<1> DEFINE Kept == /\ DirTypeOK' /\ users \subseteq users'
                   /\ successor' = successor \/ \E m \in wire : StoreRotation(m)
                   /\ rosters' = rosters \/ \E m \in wire : StoreList(m)
<1> USE AccountsAssumption
<1>1. ASSUME UNCHANGED directoryVars
      PROVE  Kept
  BY <1>1, DirTypeStep DEF directoryVars, rotationVars
<1>2. ASSUME NEW x \in Device \cup {Admin}, NEW c \in Code, Mint(x, c)
      PROVE  Kept
  BY <1>2, DirTypeStep DEF Mint, MintInvite, DirNext, rotationVars
<1>3. ASSUME NEW d \in Device, NEW c \in Code, Enroll(d, c)
      PROVE  Kept
  BY <1>3, DirTypeStep DEF Enroll, RegisterNew, DirNext, rotationVars
<1>4. ASSUME NEW d \in Device, Republish(d)
      PROVE  Kept
  BY <1>4, DirTypeStep DEF Republish, PublishBundle, DirNext, rotationVars
<1>5. ASSUME NEW d \in Device, Claim(d)
      PROVE  Kept
  <2>1. acct[d] \in Id
    BY DEF Shapes
  <2> QED
    BY <1>5, <2>1, DirTypeStep DEF Claim, ClaimDevice, DirNext, rotationVars
<1>6. ASSUME NEW m \in wire, StoreList(m)
      PROVE  Kept
  <2>1. m.account \in Id /\ m.version \in Nat /\ m.devices \in SUBSET Id
    BY <1>6, OnTheWire DEF Shapes, StoreList
  <2> QED
    BY <1>6, <2>1, RosterTypes DEF StoreList, PublishRoster, rotationVars
<1>7. ASSUME NEW m \in wire, StoreJoin(m)
      PROVE  Kept
  <2>1. m.account \in Id /\ m.by \in Id
    BY <1>7, OnTheWire DEF Shapes, StoreJoin
  <2> QED
    BY <1>7, <2>1, DirTypeStep DEF StoreJoin, RegisterDevice, DirNext, rotationVars
<1>8. ASSUME NEW m \in wire, StoreRotation(m)
      PROVE  Kept
  <2>1. m.old \in Id /\ m.new \in Id
    BY <1>8, OnTheWire DEF Shapes, StoreRotation
  <2> QED
    BY <1>8, <2>1, DirTypeStep DEF StoreRotation, PublishRotation, DirNext
<1> QED
  BY <1>1, <1>2, <1>3, <1>4, <1>5, <1>6, <1>7, <1>8, Steps, DeviceStepKeeps DEF DirectoryStep, vars

LEMMA HeardMeans ==
  ASSUME NEW m, NEW heard \in Heard(m)
  PROVE  /\ heard \in BOOLEAN
         /\ heard => task[m.by].on = m
         /\ ~heard => task[m.by].on # m \/ Fails(m.by)
BY DEF Heard

\* What the refusal of a request, and what a list that was stored, does to its sender.
LEMMA RefusalMeans ==
  ASSUME NEW m \in wire, RefuseList(m) \/ RefuseJoin(m) \/ RefuseRotation(m)
  PROVE  /\ wire' = wire \ {m} /\ UNCHANGED <<directoryVars, offers>>
         /\ \/ task[m.by].on = m /\ Failed(m.by)
            \/ (task[m.by].on # m \/ Fails(m.by)) /\ UNCHANGED deviceVars
BY HeardMeans DEF RefuseList, RefuseJoin, RefuseRotation

LEMMA ListMeans ==
  ASSUME NEW m \in wire, StoreList(m)
  PROVE  /\ m.kind = "list" /\ PublishRoster(m.account, m.version, m.devices)
         /\ wire' = wire \ {m} /\ UNCHANGED <<stored, spent, asked>>
         /\ \/ task[m.by].on = m /\ ListAnswered(m.by)
            \/ (task[m.by].on # m \/ Fails(m.by)) /\ UNCHANGED <<task, acct, offers>>
BY HeardMeans DEF StoreList

LEMMA JoinMeans ==
  ASSUME NEW m \in wire, StoreJoin(m)
  PROVE  /\ m.kind = "join" /\ RegisterDevice(m.by, m.account)
         /\ wire' = wire \ {m} /\ UNCHANGED <<keyVars, asked, offers>>
         /\ \/ task[m.by].on = m /\ Set(m.by, Idle)
            \/ (task[m.by].on # m \/ Fails(m.by)) /\ UNCHANGED task
BY HeardMeans DEF StoreJoin

LEMMA RotationMeans ==
  ASSUME NEW m \in wire, StoreRotation(m)
  PROVE  /\ m.kind = "rotation" /\ PublishRotation(m.old, m.new)
         /\ wire' = wire \ {m} /\ UNCHANGED <<keyVars, asked, offers>>
         /\ \/ task[m.by].on = m /\ Set(m.by, Doing("relisting", m.new, None))
            \/ (task[m.by].on # m \/ Fails(m.by)) /\ UNCHANGED task
BY HeardMeans DEF StoreRotation, RotationAnswered

\* What a failure leaves behind.
LEMMA FailureMeans ==
  ASSUME Shaped, NEW d \in Device, Failed(d)
  PROVE  /\ task' = [task EXCEPT ![d] = Idle] /\ UNCHANGED <<spent, dropping, over, torn>>
         /\ \/ /\ task[d].kind = "joining"
               /\ stored' = [stored EXCEPT ![d] = None] /\ acct' = [acct EXCEPT ![d] = d]
            \/ task[d].kind # "joining" /\ UNCHANGED <<stored, acct>>
         /\ cut \subseteq cut' /\ cut' \subseteq Key
         /\ task[d].kind \in {"rotating", "relisting"} => task[d].about \in cut'
BY DEF Failed, Abandon, CutShort, Set, Shaped, Shapes, Waits

LEMMA ShapesAreKept ==
  ASSUME Shaped, [Next]_vars
  PROVE  Shapes'
<1> USE AccountsAssumption DEF Shapes
<1>0. Shapes /\ DirTypeOK /\ Idle \in Tasks
  BY DEF Shaped, Idle, Tasks, TaskKinds
<1>1. ASSUME NEW d \in Device, Failed(d), wire' \subseteq wire, offers' = offers
      PROVE  Shapes'
  BY <1>0, <1>1, FailureMeans
<1>2. ASSUME NEW d \in Device, GiveUp(d)
      PROVE  Shapes'
  BY <1>1, <1>2 DEF GiveUp
<1>3. ASSUME NEW m \in wire, RefuseList(m) \/ RefuseJoin(m) \/ RefuseRotation(m)
      PROVE  Shapes'
  <2>1. m.by \in Device
    BY <1>0, OnTheWire
  <2>2. wire' \subseteq wire /\ offers' = offers /\ (Failed(m.by) \/ UNCHANGED deviceVars)
    BY <1>3, RefusalMeans
  <2> QED
    BY <1>0, <1>1, <2>1, <2>2 DEF deviceVars, keyVars, asked
<1>4. ASSUME NEW d \in Device, Restart(d)
      PROVE  Shapes'
  <2>1. cut' \subseteq Key
    BY <1>0, <1>4 DEF Restart, CutShort, Shaped, Waits
  <2> QED
    BY <1>0, <1>4, <2>1 DEF Restart, Set
<1>5. ASSUME NEW d \in Device, StartRelist(d)
      PROVE  Shapes'
  <2> DEFINE m == ListRequest(d, task[d].about, 1, Relist(d))
  <2>1. task[d].about \in Key
    BY <1>5 DEF StartRelist, Shaped, Waits
  <2>2. Relist(d) \in SUBSET Id
    BY <1>0 DEF Relist, Served, DirTypeOK, Roster
  <2>3. m \in Requests
    BY <2>1, <2>2, RequestShapes
  <2>4. Doing("relisting", task[d].about, m) \in Tasks
    BY <2>1, <2>3 DEF Doing, Tasks, TaskKinds
  <2> QED
    BY <1>0, <1>5, <2>3, <2>4 DEF StartRelist, Set, keyVars, asked
<1>6. ASSUME NEW d \in Device, NEW devices \in SUBSET Id, NEW about \in Id \cup {None},
             SignAndSend(d, devices, about)
      PROVE  wire' \subseteq Requests /\ task' \in [Device -> Tasks]
  <2> DEFINE m == ListRequest(d, acct[d], rosters[acct[d]].version + 1, devices)
  <2>1. rosters[acct[d]].version + 1 \in Nat
    BY <1>0 DEF DirTypeOK, Roster
  <2>2. m \in Requests
    BY <1>0, <2>1, RequestShapes
  <2>3. Doing("listing", about, m) \in Tasks
    BY <2>2 DEF Doing, Tasks, TaskKinds
  <2> QED
    BY <1>0, <1>6, <2>2, <2>3 DEF SignAndSend, Set
<1>7. ASSUME NEW d \in Device, NEW e \in Device, Authorize(d, e)
      PROVE  Shapes'
  <2>1. Served(d, acct[d]) \cup {e} \in SUBSET Id
    BY <1>0 DEF Served, DirTypeOK, Roster
  <2>2. wire' \subseteq Requests /\ task' \in [Device -> Tasks]
    BY <1>6, <1>7, <2>1 DEF Authorize
  <2> QED
    BY <1>0, <1>7, <2>2 DEF Authorize, keyVars, asked
<1>8. ASSUME NEW d \in Device, NEW e \in Id, RemoveDevice(d, e)
      PROVE  Shapes'
  <2>1. rosters[acct[d]].devices \ {e} \in SUBSET Id
    BY <1>0 DEF DirTypeOK, Roster
  <2>2. wire' \subseteq Requests /\ task' \in [Device -> Tasks]
    BY <1>6, <1>8, <2>1 DEF RemoveDevice
  <2> QED
    BY <1>0, <1>8, <2>2 DEF RemoveDevice, keyVars, asked
<1>9. ASSUME NEW d \in Device, NEW x \in Id, StartJoin(d, x)
      PROVE  Shapes'
  <2>1. JoinRequest(d, x) \in Requests
    BY RequestShapes
  <2>2. Doing("joining", x, JoinRequest(d, x)) \in Tasks
    BY <2>1 DEF Doing, Tasks, TaskKinds
  <2> QED
    BY <1>0, <1>9, <2>1, <2>2 DEF StartJoin, Set, Overwrites
<1>10. ASSUME NEW d \in Device, NEW k \in Id, StartRotate(d, k)
       PROVE  Shapes'
  <2>1. k \in Key
    BY <1>10 DEF StartRotate
  <2>2. RotationRequest(d, acct[d], k) \in Requests
    BY <1>0, <2>1, RequestShapes
  <2>3. Doing("rotating", k, RotationRequest(d, acct[d], k)) \in Tasks
    BY <2>2 DEF Doing, Tasks, TaskKinds
  <2> QED
    BY <1>0, <1>10, <2>1, <2>2, <2>3 DEF StartRotate, Set, Overwrites, Persist
<1>11. ASSUME NEW m \in wire, LoseRequest(m)
       PROVE  Shapes'
  BY <1>0, <1>11 DEF LoseRequest, deviceVars, keyVars, asked
<1>12. ASSUME NEW m \in wire, StoreList(m)
       PROVE  Shapes'
  <2>1. m.by \in Device /\ wire' \subseteq wire /\ UNCHANGED <<stored, spent, asked>>
    BY <1>0, <1>12, OnTheWire, ListMeans
  <2>2. CASE UNCHANGED <<task, acct, offers>>
    BY <1>0, <2>1, <2>2 DEF asked
  <2>3. CASE task[m.by].on = m /\ ListAnswered(m.by)
    <3>1. CASE task[m.by].kind = "relisting"
      BY <1>0, <2>1, <2>3, <3>1 DEF asked, ListAnswered, Set, Shaped, Waits
    <3>2. CASE task[m.by].kind # "relisting"
      <4>1. task[m.by].about \in Id \cup {None}
        BY <1>0, <2>1 DEF Tasks
      <4>2. /\ task' = [task EXCEPT ![m.by] = Idle] /\ UNCHANGED acct
            /\ offers' = offers \cup {[account |-> acct[m.by], device |-> e] :
                                        e \in {task[m.by].about} \ {None}}
        BY <2>3, <3>2 DEF ListAnswered, Set
      <4>3. task[m.by].about \in Device \cup {None}
        <5>1. /\ task[m.by].on = m /\ m.kind = "list" /\ m # None
              /\ task[m.by].kind \in TaskKinds
          BY <1>0, <1>12, <2>1, <2>3, ListMeans, OnTheWire DEF Tasks
        <5>2. Waits(m.by)
          BY <2>1 DEF Shaped
        <5>3. RotationRequest(m.by, acct[m.by], task[m.by].about).kind # "list"
          BY DEF RotationRequest
        <5>4. task[m.by].kind = "listing"
          BY <3>2, <5>1, <5>2, <5>3 DEF Waits, TaskKinds
        <5> QED
          BY <5>2, <5>4 DEF Waits
      <4> QED
        BY <1>0, <2>1, <4>1, <4>2, <4>3 DEF asked
    <3> QED
      BY <3>1, <3>2
  <2> QED
    BY <1>12, <2>2, <2>3, ListMeans
<1>13. ASSUME NEW m \in wire, StoreJoin(m)
       PROVE  Shapes'
  <2>1. m.by \in Device /\ wire' \subseteq wire /\ UNCHANGED <<keyVars, asked, offers>>
    BY <1>0, <1>13, OnTheWire, JoinMeans
  <2> QED
    BY <1>0, <1>13, <2>1, JoinMeans DEF Set, keyVars, asked
<1>14. ASSUME NEW m \in wire, StoreRotation(m)
       PROVE  Shapes'
  <2>1. m.by \in Device /\ wire' \subseteq wire /\ UNCHANGED <<keyVars, asked, offers>>
        /\ m.new \in Key
    BY <1>0, <1>14, OnTheWire, RotationMeans
  <2>2. Doing("relisting", m.new, None) \in Tasks
    BY <2>1 DEF Doing, Tasks, TaskKinds
  <2> QED
    BY <1>0, <1>14, <2>1, <2>2, RotationMeans DEF Set, keyVars, asked
<1>15. ASSUME UNCHANGED <<deviceVars, wire, offers>>
       PROVE  Shapes'
  BY <1>0, <1>15 DEF deviceVars, keyVars, asked
<1> QED
  BY <1>2, <1>3, <1>4, <1>5, <1>7, <1>8, <1>9, <1>10, <1>11, <1>12, <1>13, <1>14, <1>15, Steps,
     DirectoryStepKeeps DEF DeviceStep, vars

\* One device's step leaves what the others wait for.
LEMMA OthersWait ==
  ASSUME Shaped, NEW d, NEW e \in Device, d # e,
         task'[e] = task[e], stored'[e] = stored[e], acct'[e] = acct[e],
         \A x \in Id : successor[x] # None => successor'[x] = successor[x],
         \A m \in wire : m.by # d => m \in wire'
  PROVE  Waits(e)'
<1>1. Waits(e) /\ acct[e] \in Id /\ wire \subseteq Requests /\ Key \subseteq Id /\ None \notin Id
  BY AccountsAssumption, DirectoryAssumption DEF Shaped, Shapes
<1>2. task[e].on \in wire => task[e].on \in wire'
  BY <1>1, OnTheWire DEF Waits
<1>3. task[e].kind = "relisting" => successor'[acct[e]] = task[e].about
  BY <1>1 DEF Waits
<1> QED
  BY <1>1, <1>2, <1>3 DEF Waits, RotationRequest

\* What the Directory recorded of rotations stays.
LEMMA RotationsStay ==
  ASSUME Shaped, [Next]_vars
  PROVE  \A x \in Id : successor[x] # None => successor'[x] = successor[x]
<1>1. successor \in [Id -> Id \cup {None}] /\ wire \subseteq Requests
  BY DEF Shaped, DirTypeOK, Shapes
<1>2. ASSUME NEW m \in wire, StoreRotation(m)
      PROVE  \A x \in Id : successor[x] # None => successor'[x] = successor[x]
  <2>1. successor' = [successor EXCEPT ![m.old] = m.new] /\ successor[m.old] = None
    BY <1>2, RotationMeans DEF PublishRotation, FirstRotation, Moved
  <2> QED
    BY <1>1, <2>1
<1> QED
  BY <1>2, DirectoryKeeps DEF Shaped

LEMMA TasksWait ==
  ASSUME Shaped, [Next]_vars
  PROVE  \A e \in Device : Waits(e)'
<1> USE AccountsAssumption, DirectoryAssumption
<1>0. /\ stored \in [Device -> Id \cup {None}] /\ acct \in [Device -> Id]
      /\ task \in [Device -> Tasks] /\ wire \subseteq Requests
      /\ \A d \in Device : Waits(d)
      /\ \A m \in wire : m.by \in Device
  BY OnTheWire DEF Shaped, Shapes
<1>1. ASSUME NEW d \in Device, Waits(d)',
             \E t : task' = [task EXCEPT ![d] = t],
             stored' = stored \/ \E x : stored' = [stored EXCEPT ![d] = x],
             acct' = acct \/ \E x : acct' = [acct EXCEPT ![d] = x],
             \A m \in wire : m.by # d => m \in wire'
      PROVE  \A e \in Device : Waits(e)'
  BY <1>0, <1>1, OthersWait, RotationsStay
<1>2. ASSUME UNCHANGED <<task, stored, acct>>, wire' \in {wire} \cup {wire \ {m} : m \in wire},
             \A m \in wire \ wire' : task[m.by].on # m \/ Fails(m.by)
      PROVE  \A e \in Device : Waits(e)'
  <2> SUFFICES ASSUME NEW e \in Device
               PROVE  Waits(e)'
    OBVIOUS
  <2>1. task[e].on \in wire' \cup {None} \/ task[e].kind \in Fallible
    <3>1. CASE task[e].on \in wire \ wire'
      BY <1>0, <1>2, <3>1, OnTheWire DEF Waits, Fails
    <3> QED
      BY <1>0, <3>1 DEF Waits
  <2>2. task[e].kind = "relisting" => successor'[acct[e]] = task[e].about
    BY <1>0, RotationsStay DEF Waits
  <2> QED
    BY <1>0, <1>2, <2>1, <2>2 DEF Waits, RotationRequest
<1>3. ASSUME NEW d \in Device, task' = [task EXCEPT ![d] = Idle]
      PROVE  Waits(d)'
  BY <1>0, <1>3 DEF Waits, Idle
\* A step that ends a task at d, one way or another, and takes at most its request.
<1>4. ASSUME NEW d \in Device, Failed(d), \A m \in wire : m.by # d => m \in wire'
      PROVE  \A e \in Device : Waits(e)'
  <2>1. Waits(d)'
    BY <1>3, <1>4, FailureMeans
  <2> QED
    BY <1>1, <1>4, <2>1, FailureMeans
<1>5. ASSUME NEW d \in Device, GiveUp(d)
      PROVE  \A e \in Device : Waits(e)'
  BY <1>4, <1>5 DEF GiveUp
<1>6. ASSUME NEW m \in wire, RefuseList(m) \/ RefuseJoin(m) \/ RefuseRotation(m)
      PROVE  \A e \in Device : Waits(e)'
  <2>1. CASE Failed(m.by)
    <3>1. wire' = wire \ {m}
      BY <1>6, RefusalMeans
    <3> QED
      BY <1>0, <1>4, <2>1, <3>1
  <2>2. CASE (task[m.by].on # m \/ Fails(m.by)) /\ UNCHANGED deviceVars
    <3>1. wire' = wire \ {m} /\ UNCHANGED <<task, stored, acct>>
      BY <1>6, <2>2, RefusalMeans DEF deviceVars, keyVars
    <3> QED
      BY <1>2, <2>2, <3>1
  <2> QED
    BY <1>6, <2>1, <2>2, RefusalMeans
<1>7. ASSUME NEW d \in Device, Restart(d)
      PROVE  \A e \in Device : Waits(e)'
  <2>1. /\ task' = [task EXCEPT ![d] = Idle] /\ UNCHANGED <<stored, wire>>
        /\ \E x : acct' = [acct EXCEPT ![d] = x]
    BY <1>7 DEF Restart, Set
  <2> QED
    BY <1>1, <1>3, <2>1
<1>8. ASSUME NEW d \in Device, StartRelist(d)
      PROVE  \A e \in Device : Waits(e)'
  <2> DEFINE m == ListRequest(d, task[d].about, 1, Relist(d))
             t == Doing("relisting", task[d].about, m)
  <2>1. /\ task[d].kind = "relisting" /\ wire' = wire \cup {m} /\ task' = [task EXCEPT ![d] = t]
        /\ UNCHANGED <<stored, acct, successor>>
    BY <1>8 DEF StartRelist, Set, directoryVars, rotationVars, keyVars
  <2>2. Waits(d)'
    BY <1>0, <2>1 DEF Waits, Doing, ListRequest
  <2> QED
    BY <1>1, <2>1, <2>2
<1>9. ASSUME NEW d \in Device, NEW devices \in SUBSET Id, NEW about \in Device \cup {None},
             SignAndSend(d, devices, about), UNCHANGED <<stored, acct>>
      PROVE  \A e \in Device : Waits(e)'
  <2> DEFINE m == ListRequest(d, acct[d], rosters[acct[d]].version + 1, devices)
             t == Doing("listing", about, m)
  <2>1. wire' = wire \cup {m} /\ task' = [task EXCEPT ![d] = t]
    BY <1>9 DEF SignAndSend, Set
  <2>2. m.kind = "list" /\ m.by = d /\ t.kind = "listing" /\ t.about = about /\ t.on = m
    BY DEF Doing, ListRequest
  <2>3. m # None
    BY <1>0, RequestShapes DEF Shaped, DirTypeOK, Roster
  <2>4. Waits(d)'
    BY <1>0, <2>1, <2>2, <2>3 DEF Waits
  <2> QED
    BY <1>1, <1>9, <2>1, <2>4
<1>10. ASSUME NEW d \in Device, NEW e \in Device, Authorize(d, e)
       PROVE  \A x \in Device : Waits(x)'
  <2>1. Served(d, acct[d]) \cup {e} \in SUBSET Id
    BY <1>0 DEF Served, Shaped, DirTypeOK, Roster
  <2> QED
    BY <1>9, <1>10, <2>1 DEF Authorize, keyVars
<1>11. ASSUME NEW d \in Device, NEW e \in Id, RemoveDevice(d, e)
       PROVE  \A x \in Device : Waits(x)'
  <2>1. rosters[acct[d]].devices \ {e} \in SUBSET Id
    BY <1>0 DEF Shaped, DirTypeOK, Roster
  <2> QED
    BY <1>9, <1>11, <2>1 DEF RemoveDevice, keyVars
<1>12. ASSUME NEW d \in Device, NEW x \in Id, StartJoin(d, x)
       PROVE  \A e \in Device : Waits(e)'
  <2> DEFINE m == JoinRequest(d, x)
             t == Doing("joining", x, m)
  <2>1. /\ wire' = wire \cup {m} /\ task' = [task EXCEPT ![d] = t]
        /\ stored' = [stored EXCEPT ![d] = x] /\ acct' = [acct EXCEPT ![d] = x]
    BY <1>12 DEF StartJoin, Set
  <2>2. m.kind = "join" /\ m.by = d /\ t.kind = "joining" /\ t.about = x /\ t.on = m /\ m # None
    BY RequestShapes DEF Doing, JoinRequest
  <2>3. Waits(d)'
    BY <1>0, <2>1, <2>2 DEF Waits
  <2> QED
    BY <1>1, <2>1, <2>3
<1>13. ASSUME NEW d \in Device, NEW k \in Id, StartRotate(d, k)
       PROVE  \A e \in Device : Waits(e)'
  <2> DEFINE m == RotationRequest(d, acct[d], k)
             t == Doing("rotating", k, m)
  <2>1. /\ wire' = wire \cup {m} /\ task' = [task EXCEPT ![d] = t] /\ k \in Key
        /\ stored' = [stored EXCEPT ![d] = k] /\ acct' = acct
    BY <1>13 DEF StartRotate, Set, Persist
  <2>2. m.by = d /\ t.kind = "rotating" /\ t.about = k /\ t.on = m
    BY DEF Doing, RotationRequest
  <2>3. Waits(d)'
    BY <1>0, <2>1, <2>2 DEF Waits
  <2> QED
    BY <1>1, <2>1, <2>3
<1>14. ASSUME NEW m \in wire, LoseRequest(m)
       PROVE  \A e \in Device : Waits(e)'
  <2>1. UNCHANGED <<task, stored, acct>> /\ wire' = wire \ {m} /\ task[m.by].on # m
    BY <1>14 DEF LoseRequest, deviceVars, keyVars
  <2> QED
    BY <1>2, <2>1
<1>15. ASSUME NEW m \in wire, StoreList(m)
       PROVE  \A e \in Device : Waits(e)'
  <2>1. wire' = wire \ {m} /\ stored' = stored
    BY <1>15, ListMeans
  <2>2. CASE task[m.by].on = m /\ ListAnswered(m.by)
    <3>1. /\ task' = [task EXCEPT ![m.by] = Idle]
          /\ acct' = acct \/ \E x : acct' = [acct EXCEPT ![m.by] = x]
      BY <2>2 DEF ListAnswered, Set
    <3> QED
      BY <1>0, <1>1, <1>3, <2>1, <3>1
  <2>3. CASE (task[m.by].on # m \/ Fails(m.by)) /\ UNCHANGED <<task, acct, offers>>
    BY <1>2, <2>1, <2>3
  <2> QED
    BY <1>15, <2>2, <2>3, ListMeans
<1>16. ASSUME NEW m \in wire, StoreJoin(m)
       PROVE  \A e \in Device : Waits(e)'
  <2>1. wire' = wire \ {m} /\ UNCHANGED <<stored, acct>>
    BY <1>16, JoinMeans DEF keyVars
  <2>2. CASE task[m.by].on = m /\ Set(m.by, Idle)
    <3>1. task' = [task EXCEPT ![m.by] = Idle]
      BY <2>2 DEF Set
    <3> QED
      BY <1>0, <1>1, <1>3, <2>1, <3>1
  <2>3. CASE (task[m.by].on # m \/ Fails(m.by)) /\ UNCHANGED task
    BY <1>2, <2>1, <2>3
  <2> QED
    BY <1>16, <2>2, <2>3, JoinMeans
<1>17. ASSUME NEW m \in wire, StoreRotation(m)
       PROVE  \A e \in Device : Waits(e)'
  <2>1. /\ wire' = wire \ {m} /\ UNCHANGED <<stored, acct>> /\ m.by \in Device
        /\ successor' = [successor EXCEPT ![m.old] = m.new]
    BY <1>0, <1>17, RotationMeans DEF keyVars, PublishRotation
  <2>2. CASE task[m.by].on = m /\ Set(m.by, Doing("relisting", m.new, None))
    <3>1. task' = [task EXCEPT ![m.by] = Doing("relisting", m.new, None)]
      BY <2>2 DEF Set
    <3>2. m.kind = "rotation" /\ m.old \in Id /\ m.new \in Key /\ m # None
      BY <1>0, <1>17, OnTheWire, RotationMeans
    <3>3. task[m.by].kind = "rotating"
      <4>1. task[m.by].kind \in TaskKinds /\ Waits(m.by)
        BY <1>0, <2>1 DEF Tasks
      <4> QED
        BY <2>2, <3>2, <4>1 DEF Waits, TaskKinds
    <3>4. /\ stored[m.by] = task[m.by].about
          /\ m = RotationRequest(m.by, acct[m.by], task[m.by].about)
      BY <1>0, <2>1, <2>2, <3>3 DEF Waits
    <3>5. m.old = acct[m.by] /\ m.new = task[m.by].about
      BY <3>4 DEF RotationRequest
    <3>6. successor'[acct[m.by]] = m.new
      BY <2>1, <3>2, <3>5 DEF Shaped, DirTypeOK
    <3>7. Waits(m.by)'
      BY <1>0, <2>1, <3>1, <3>2, <3>4, <3>5, <3>6 DEF Waits, Doing
    <3> QED
      BY <1>0, <1>1, <2>1, <3>1, <3>7
  <2>3. CASE (task[m.by].on # m \/ Fails(m.by)) /\ UNCHANGED task
    BY <1>2, <2>1, <2>3
  <2> QED
    BY <1>17, <2>2, <2>3, RotationMeans
<1>18. ASSUME UNCHANGED <<deviceVars, wire, offers>>
       PROVE  \A e \in Device : Waits(e)'
  <2>1. UNCHANGED <<task, stored, acct, wire>>
    BY <1>18 DEF deviceVars, keyVars
  <2> QED
    BY <1>2, <2>1
<1> QED
  BY <1>5, <1>6, <1>7, <1>8, <1>10, <1>11, <1>12, <1>13, <1>14, <1>15, <1>16, <1>17, <1>18, Steps,
     DirectoryStepKeeps DEF DeviceStep, vars

LEMMA ShapedHolds == Spec => []Shaped
<1>1. Init => Shaped
  <2> SUFFICES ASSUME Init
               PROVE  Shaped
    OBVIOUS
  <2> USE AccountsAssumption, DirectoryAssumption DEF Init
  <2>1. DirTypeOK
    BY DEF DirInit, DirTypeOK, Roster, NoRoster
  <2>2. Shapes
    BY DEF Shapes, Tasks, TaskKinds, Idle
  <2>3. \A d \in Device : Waits(d)
    BY DEF Waits, Idle
  <2> QED
    BY <2>1, <2>2, <2>3 DEF Shaped
<1>2. Shaped /\ [Next]_vars => Shaped'
  BY ShapesAreKept, TasksWait, DirectoryKeeps DEF Shaped
<1> QED
  BY <1>1, <1>2, PTL DEF Spec

\* An account's devices, its requests and the Directory's tables hold what they are
\* declared to hold, and a device waits for a request of its own that is on the wire or
\* whose answer was lost.
THEOREM TypeHolds == Spec => []TypeOK
BY ShapedHolds, ShapedIsTyped, PTL

-----------------------------------------------------------------------------
(* No account key without the account.                                     *)

\* A link that did not finish leaves no account key behind, whichever answer or refusal
\* came when and whatever a restart cut short, the rotations of the account among it: a
\* key without a member is of a join that is under way or that a restart tore.
THEOREM LinkedIsMemberHolds == Spec => []LinkedIsMember
<1> DEFINE Joined == \A d \in Device :
             stored[d] # None => Registered(d) \/ task[d].kind = "joining" \/ d \in torn
<1>1. Init => Joined
  BY DEF Init
<1>2. Shaped /\ Joined /\ [Next]_vars => Joined'
  <2> SUFFICES ASSUME Shaped, Joined, [Next]_vars
               PROVE  Joined'
    OBVIOUS
  <2>0. /\ stored \in [Device -> Id \cup {None}] /\ task \in [Device -> Tasks]
        /\ wire \subseteq Requests /\ \A d \in Device : Waits(d)
        /\ \A m \in wire : m.by \in Device /\ m # None
    BY OnTheWire DEF Shaped, Shapes
  <2>1. users \subseteq users'
    BY DirectoryKeeps DEF Shaped
  <2> USE DEF Registered
  <2>2. ASSUME stored' = stored, task' = task, torn' = torn
        PROVE  Joined'
    BY <2>1, <2>2
  <2>3. ASSUME NEW d \in Device, Failed(d)
        PROVE  Joined'
    BY <2>0, <2>1, <2>3, FailureMeans DEF Idle
  <2>4. ASSUME NEW d \in Device, NEW t, task' = [task EXCEPT ![d] = t], stored' = stored,
               torn \subseteq torn',
               task[d].kind = "joining" =>
                 stored[d] = None \/ d \in users' \/ t.kind = "joining" \/ d \in torn'
        PROVE  Joined'
    BY <2>0, <2>1, <2>4
  <2>5. CASE DeviceStep
    <3>1. ASSUME NEW d \in Device, GiveUp(d)
          PROVE  Joined'
      BY <2>3, <3>1 DEF GiveUp
    <3>2. ASSUME NEW d \in Device, Restart(d)
          PROVE  Joined'
      BY <2>4, <3>2 DEF Restart, Set
    <3>3. ASSUME NEW d \in Device, StartRelist(d)
          PROVE  Joined'
      BY <2>4, <3>3 DEF StartRelist, Set, keyVars, asked
    <3>4. ASSUME NEW d \in Device, NEW e \in Id, Authorize(d, e) \/ RemoveDevice(d, e)
          PROVE  Joined'
      BY <2>4, <3>4 DEF Authorize, RemoveDevice, SignAndSend, Set, keyVars, asked, Idle
    <3>5. ASSUME NEW d \in Device, NEW x \in Id, StartJoin(d, x)
          PROVE  Joined'
      BY <2>0, <2>1, <3>5 DEF StartJoin, Set, Doing
    <3>6. ASSUME NEW d \in Device, NEW k \in Id, StartRotate(d, k)
          PROVE  Joined'
      BY <2>0, <2>1, <3>6 DEF StartRotate, Set, Doing, Persist
    <3>7. ASSUME NEW m \in wire, RefuseList(m) \/ RefuseJoin(m) \/ RefuseRotation(m)
          PROVE  Joined'
      BY <2>0, <2>2, <2>3, <3>7, RefusalMeans DEF deviceVars, keyVars, asked
    <3>8. ASSUME NEW m \in wire, LoseRequest(m)
          PROVE  Joined'
      BY <2>2, <3>8 DEF LoseRequest, deviceVars, keyVars, asked
    <3> QED
      BY <2>5, <3>1, <3>2, <3>3, <3>4, <3>5, <3>6, <3>7, <3>8, AccountsAssumption DEF DeviceStep
  <2>6. ASSUME NEW m \in wire, StoreList(m)
        PROVE  Joined'
    <3>1. task[m.by].on = m => task[m.by].kind # "joining"
      BY <2>0, <2>6, ListMeans DEF Waits
    <3> QED
      BY <2>0, <2>2, <2>4, <2>6, <3>1, ListMeans DEF ListAnswered, Set, asked
  <2>7. ASSUME NEW m \in wire, StoreJoin(m)
        PROVE  Joined'
    <3>1. m.by \in users'
      BY <2>7, JoinMeans DEF RegisterDevice
    <3> QED
      BY <2>0, <2>2, <2>4, <2>7, <3>1, JoinMeans DEF Set, keyVars, asked
  <2>8. ASSUME NEW m \in wire, StoreRotation(m)
        PROVE  Joined'
    <3>1. task[m.by].on = m => task[m.by].kind # "joining"
      BY <2>0, <2>8, RotationMeans DEF Waits
    <3> QED
      BY <2>0, <2>2, <2>4, <2>8, <3>1, RotationMeans DEF Set, keyVars, asked
  <2>9. CASE DirectoryStep \/ UNCHANGED vars
    BY <2>2, <2>9, DirectoryStepKeeps DEF vars, deviceVars, keyVars, asked
  <2> QED
    BY <2>5, <2>6, <2>7, <2>8, <2>9, Steps
<1>3. Joined => LinkedIsMember
  BY DEF LinkedIsMember, Idle
<1> QED
  BY <1>1, <1>2, <1>3, ShapedHolds, PTL DEF Spec

-----------------------------------------------------------------------------
(* The key of the account.                                                 *)

\* A device that did not just stage it has this key on disk, or another was stored over it.
Held(k) == k \in over \/ \E d \in Device : stored[d] = k /\ task[d].kind # "joining"

\* Every key that was announced, or is about to be, was generated by one of the devices.
Announced == /\ \A x \in Id : successor[x] \in spent \cup {None}
             /\ \A m \in wire : m.kind = "rotation" => m.new \in spent
             /\ \A k \in spent : Held(k)

\* Who generated it stored it before anybody was told.
LEMMA KeysAreHeld ==
  ASSUME Shaped, Announced, [Next]_vars
  PROVE  Announced'
<1> USE AccountsAssumption, DirectoryAssumption
<1>0. /\ stored \in [Device -> Id \cup {None}] /\ task \in [Device -> Tasks]
      /\ wire \subseteq Requests /\ spent \subseteq Key /\ successor \in [Id -> Id \cup {None}]
      /\ \A d \in Device : Waits(d)
      /\ \A m \in wire : m.by \in Device /\ m # None
      /\ \A k \in spent : Held(k)
  BY OnTheWire DEF Shaped, Shapes, DirTypeOK, Announced
\* Nothing is generated, and nothing is announced that was not.
<1>1. ASSUME spent' = spent, \A k \in spent : Held(k)',
             wire' \subseteq wire \/ \E m : m.kind # "rotation" /\ wire' = wire \cup {m}
      PROVE  Announced'
  <2>1. \A m \in wire' : m.kind = "rotation" => m.new \in spent
    BY <1>1 DEF Announced
  <2>2. CASE successor' = successor
    BY <1>1, <2>1, <2>2 DEF Announced
  <2>3. ASSUME NEW m \in wire, StoreRotation(m)
        PROVE  Announced'
    <3>1. successor' = [successor EXCEPT ![m.old] = m.new] /\ m.kind = "rotation"
      BY <2>3, RotationMeans DEF PublishRotation
    <3> QED
      BY <1>0, <1>1, <2>1, <3>1 DEF Announced
  <2> QED
    BY <2>2, <2>3, DirectoryKeeps DEF Shaped
\* The devices hold what they held.
<1>2. ASSUME stored' = stored, over' = over,
             \A d \in Device : task[d].kind # "joining" => task'[d].kind # "joining"
      PROVE  \A k \in spent : Held(k)'
  BY <1>0, <1>2 DEF Held
<1>3. ASSUME NEW d \in Device, Failed(d)
      PROVE  spent' = spent /\ \A k \in spent : Held(k)'
  <2>1. /\ task' = [task EXCEPT ![d] = Idle] /\ spent' = spent /\ over' = over
        /\ \/ task[d].kind = "joining" /\ stored' = [stored EXCEPT ![d] = None]
           \/ stored' = stored
    BY <1>3, FailureMeans
  <2>2. ASSUME NEW k \in spent
        PROVE  Held(k)'
    <3>1. CASE k \in over
      BY <2>1, <3>1 DEF Held
    <3>2. ASSUME NEW e \in Device, stored[e] = k, task[e].kind # "joining"
          PROVE  Held(k)'
      <4>1. stored'[e] = k /\ task'[e].kind # "joining"
        BY <1>0, <2>1, <3>2 DEF Idle
      <4> QED
        BY <4>1 DEF Held
    <3> QED
      BY <1>0, <3>1, <3>2 DEF Held
  <2> QED
    BY <2>1, <2>2
\* A device writes another key over the one it held.
<1>4. ASSUME NEW d \in Device, NEW x, stored' = [stored EXCEPT ![d] = x], Overwrites(d),
             \A e \in Device \ {d} : task'[e] = task[e]
      PROVE  \A k \in spent : Held(k)'
  <2> SUFFICES ASSUME NEW k \in spent
               PROVE  Held(k)'
    OBVIOUS
  <2>1. k # None /\ Held(k)
    BY <1>0
  <2>2. over' = over \cup ({stored[d]} \ {None})
    BY <1>4 DEF Overwrites
  <2>3. ASSUME NEW e \in Device, stored[e] = k, task[e].kind # "joining", e # d
        PROVE  Held(k)'
    <3>1. stored'[e] = k /\ task'[e].kind # "joining"
      BY <1>0, <1>4, <2>3
    <3> QED
      BY <3>1 DEF Held
  <2> QED
    BY <2>1, <2>2, <2>3 DEF Held
<1>5. CASE DeviceStep
  <2>1. ASSUME NEW d \in Device, GiveUp(d)
        PROVE  Announced'
    BY <1>1, <1>3, <2>1 DEF GiveUp
  <2>2. ASSUME NEW d \in Device, Restart(d)
        PROVE  Announced'
    <3>1. UNCHANGED <<stored, spent, over, wire>> /\ task' = [task EXCEPT ![d] = Idle]
      BY <2>2 DEF Restart, Set
    <3>2. \A e \in Device : task[e].kind # "joining" => task'[e].kind # "joining"
      BY <1>0, <3>1 DEF Idle
    <3> QED
      BY <1>1, <1>2, <3>1, <3>2
  <2>3. ASSUME NEW d \in Device, NEW kind \in {"relisting", "listing"}, NEW about, NEW m,
               Set(d, Doing(kind, about, m)), m.kind = "list", wire' = wire \cup {m},
               UNCHANGED <<stored, spent, over>>
        PROVE  Announced'
    <3>1. \A e \in Device : task[e].kind # "joining" => task'[e].kind # "joining"
      BY <1>0, <2>3 DEF Set, Doing
    <3>2. m.kind # "rotation"
      BY <2>3
    <3> QED
      BY <1>1, <1>2, <2>3, <3>1, <3>2
  <2>4. ASSUME NEW d \in Device, StartRelist(d)
        PROVE  Announced'
    BY <2>3, <2>4 DEF StartRelist, ListRequest, keyVars, asked
  <2>5. ASSUME NEW d \in Device, NEW e \in Id, Authorize(d, e) \/ RemoveDevice(d, e)
        PROVE  Announced'
    <3>1. PICK devices, about : SignAndSend(d, devices, about)
      BY <2>5 DEF Authorize, RemoveDevice
    <3>2. UNCHANGED <<stored, spent, over>>
      BY <2>5 DEF Authorize, RemoveDevice, keyVars, asked
    <3> QED
      BY <2>3, <3>1, <3>2 DEF SignAndSend, ListRequest
  <2>6. ASSUME NEW d \in Device, NEW x \in Id, StartJoin(d, x)
        PROVE  Announced'
    <3>1. /\ stored' = [stored EXCEPT ![d] = x] /\ Overwrites(d) /\ spent' = spent
          /\ \A e \in Device \ {d} : task'[e] = task[e]
          /\ wire' = wire \cup {JoinRequest(d, x)}
      BY <1>0, <2>6 DEF StartJoin, Set
    <3>2. JoinRequest(d, x).kind # "rotation"
      BY DEF JoinRequest
    <3> QED
      BY <1>1, <1>4, <3>1, <3>2
  <2>7. ASSUME NEW d \in Device, NEW k \in Id, StartRotate(d, k)
        PROVE  Announced'
    <3>1. /\ stored' = [stored EXCEPT ![d] = k] /\ Overwrites(d) /\ spent' = spent \cup {k}
          /\ task' = [task EXCEPT ![d] = Doing("rotating", k, RotationRequest(d, acct[d], k))]
          /\ wire' = wire \cup {RotationRequest(d, acct[d], k)} /\ successor' = successor
      BY <2>7 DEF StartRotate, Set, Persist, directoryVars, rotationVars
    <3>2. \A e \in Device \ {d} : task'[e] = task[e]
      BY <1>0, <3>1
    <3>3. \A x \in spent : Held(x)'
      BY <1>4, <3>1, <3>2
    <3>4. stored'[d] = k /\ task'[d].kind # "joining"
      BY <1>0, <3>1 DEF Doing
    <3>5. Held(k)'
      BY <3>4 DEF Held
    <3>6. RotationRequest(d, acct[d], k).new = k
      BY DEF RotationRequest
    <3>7. \A m \in wire' : m.kind = "rotation" => m.new \in spent'
      BY <3>1, <3>6 DEF Announced
    <3> QED
      BY <3>1, <3>3, <3>5, <3>7 DEF Announced
  <2>8. ASSUME NEW m \in wire, RefuseList(m) \/ RefuseJoin(m) \/ RefuseRotation(m)
        PROVE  Announced'
    BY <1>0, <1>1, <1>2, <1>3, <2>8, RefusalMeans DEF deviceVars, keyVars, asked
  <2>9. ASSUME NEW m \in wire, LoseRequest(m)
        PROVE  Announced'
    BY <1>1, <1>2, <2>9 DEF LoseRequest, deviceVars, keyVars, asked
  <2> QED
    BY <1>5, <2>1, <2>2, <2>4, <2>5, <2>6, <2>7, <2>8, <2>9 DEF DeviceStep
<1>6. ASSUME NEW m \in wire, StoreList(m) \/ StoreJoin(m) \/ StoreRotation(m)
      PROVE  Announced'
  <2>1. wire' \subseteq wire /\ UNCHANGED <<stored, spent, over>>
    BY <1>6, ListMeans, JoinMeans, RotationMeans DEF keyVars, asked
  <2>2. task' = task \/ \E t : task' = [task EXCEPT ![m.by] = t] /\ t.kind # "joining"
    <3>1. StoreList(m) => task' = task \/ task' = [task EXCEPT ![m.by] = Idle]
      BY ListMeans DEF ListAnswered, Set
    <3>2. StoreJoin(m) => task' = task \/ task' = [task EXCEPT ![m.by] = Idle]
      BY JoinMeans DEF Set
    <3>3. StoreRotation(m) =>
            task' = task \/ task' = [task EXCEPT ![m.by] = Doing("relisting", m.new, None)]
      BY RotationMeans DEF Set
    <3>4. Idle.kind # "joining" /\ Doing("relisting", m.new, None).kind # "joining"
      BY DEF Idle, Doing
    <3> QED
      BY <1>6, <3>1, <3>2, <3>3, <3>4
  <2>3. \A e \in Device : task[e].kind # "joining" => task'[e].kind # "joining"
    BY <1>0, <2>2
  <2> QED
    BY <1>1, <1>2, <2>1, <2>3
<1>7. CASE DirectoryStep \/ UNCHANGED vars
  <2>1. UNCHANGED <<stored, spent, over, task, wire>>
    BY <1>7, DirectoryStepKeeps DEF vars, deviceVars, keyVars, asked
  <2> QED
    BY <1>1, <1>2, <2>1
<1> QED
  BY <1>5, <1>6, <1>7, Steps

\* The account is never lost: the key of the account the Directory says it became is on
\* some device's disk, unless that device stored another over it, whatever was lost,
\* refused, late, or cut short, at any step.
THEOREM KeyIsHeldHolds == Spec => []KeyIsHeld
<1>1. Init => Announced
  BY DEF Init, DirInit, Announced
<1>2. Shaped /\ Announced /\ [Next]_vars => Announced'
  BY KeysAreHeld
<1>3. Shaped /\ Announced => KeyIsHeld
  BY DirectoryAssumption DEF Announced, Held, KeyIsHeld, IsHead, OnDisk, Predecessors, Shaped, Shapes, DirTypeOK
<1> QED
  BY <1>1, <1>2, <1>3, ShapedHolds, PTL DEF Spec

-----------------------------------------------------------------------------
(* The devices of the account.                                             *)

\* A successor whose rotation was not interrupted has published its list.
Settled ==
  {x \in Id \cup {None} : x \in Key \ cut => rosters[x].version >= 1 /\ Predecessors(x) # {}}

\* A key is announced by one request, as the successor of one account.
Unique ==
  /\ \A x, y \in Id : successor[x] = successor[y] /\ successor[x] # None => x = y
  /\ \A m, r \in wire : m.kind = "rotation" /\ r.kind = "rotation" /\ m.new = r.new => m = r
  /\ \A m \in wire : m.kind = "rotation" => Predecessors(m.new) = {}

Numbered == \A x \in Id : rosters[x].version = 0 => rosters[x].devices = {}

\* The accounts that a device signs for, hands on, or will find on its disk.
Signing ==
  /\ \A d \in Device : acct[d] \in Settled
  /\ \A o \in offers : o.account \in Settled
  /\ \A d \in Device : stored[d] \in Settled \/ task[d].kind \in {"rotating", "relisting"}

\* A list that can still be stored is the one before it, with what was added, without
\* what somebody asked to remove.
Carried(m) ==
  /\ m.version <= rosters[m.account].version + 1
  /\ m.account \in Key \ cut => Predecessors(m.account) # {}
  /\ \/ m.account \in cut \/ ~Follows(m.account, m.version)
     \/ ListedBefore(m.account) \ m.devices \subseteq dropping

Listed == Numbered /\ Unique /\ Signing /\ \A m \in wire : m.kind = "list" => Carried(m)

\* The histories only grow, and so do the numbers of the lists.
LEMMA HistoriesGrow ==
  ASSUME Shaped, [Next]_vars
  PROVE  cut \subseteq cut' /\ dropping \subseteq dropping'
<1>1. ASSUME NEW d \in Device, Failed(d)
      PROVE  cut \subseteq cut' /\ dropping \subseteq dropping'
  BY <1>1, FailureMeans
<1>2. ASSUME NEW m \in wire, RefuseList(m) \/ RefuseJoin(m) \/ RefuseRotation(m)
      PROVE  cut \subseteq cut' /\ dropping \subseteq dropping'
  <2>1. m.by \in Device
    BY OnTheWire DEF Shaped, Shapes
  <2> QED
    BY <1>1, <1>2, <2>1, RefusalMeans DEF deviceVars, asked
<1>3. CASE DeviceStep
  <2>1. ASSUME NEW d \in Device, GiveUp(d) \/ Restart(d) \/ StartRelist(d)
        PROVE  cut \subseteq cut' /\ dropping \subseteq dropping'
    BY <1>1, <2>1 DEF GiveUp, Restart, CutShort, StartRelist, asked
  <2>2. ASSUME NEW d \in Device, NEW e \in Id, Authorize(d, e) \/ RemoveDevice(d, e)
        PROVE  cut \subseteq cut' /\ dropping \subseteq dropping'
    BY <2>2 DEF Authorize, RemoveDevice, asked
  <2>3. ASSUME NEW d \in Device, NEW e \in Id, StartJoin(d, e) \/ StartRotate(d, e)
        PROVE  cut \subseteq cut' /\ dropping \subseteq dropping'
    BY <2>3 DEF StartJoin, StartRotate
  <2>4. ASSUME NEW m \in wire, LoseRequest(m)
        PROVE  cut \subseteq cut' /\ dropping \subseteq dropping'
    BY <2>4 DEF LoseRequest, deviceVars, asked
  <2> QED
    BY <1>2, <1>3, <2>1, <2>2, <2>3, <2>4, AccountsAssumption DEF DeviceStep
<1>4. ASSUME NEW m \in wire, StoreList(m) \/ StoreJoin(m) \/ StoreRotation(m)
      PROVE  cut \subseteq cut' /\ dropping \subseteq dropping'
  BY <1>4 DEF StoreList, StoreJoin, StoreRotation, asked
<1>5. CASE DirectoryStep \/ UNCHANGED vars
  BY <1>5, DirectoryStepKeeps DEF vars, deviceVars, asked
<1> QED
  BY <1>3, <1>4, <1>5, Steps

LEMMA NumbersGrow ==
  ASSUME Shaped, [Next]_vars
  PROVE  /\ \A x \in Id : rosters[x].version \in Nat /\ rosters'[x].version >= rosters[x].version
         /\ \A x \in Id : rosters'[x] # rosters[x] =>
              \E m \in wire : StoreList(m) /\ m.account = x /\ rosters'[x].version = m.version
                                /\ rosters'[x].devices = m.devices
<1>1. rosters \in [Id -> Roster] /\ wire \subseteq Requests /\ \A x \in Id : rosters[x].version \in Nat
  BY DEF Shaped, Shapes, DirTypeOK, Roster
<1>2. ASSUME NEW m \in wire, StoreList(m)
      PROVE  /\ \A x \in Id : rosters'[x].version >= rosters[x].version
             /\ \A x \in Id : rosters'[x] # rosters[x] =>
                  x = m.account /\ rosters'[x].version = m.version /\ rosters'[x].devices = m.devices
  <2>1. /\ rosters' = [rosters EXCEPT ![m.account] = [version |-> m.version, devices |-> m.devices]]
        /\ m.version > rosters[m.account].version /\ m.account \in Id /\ m.version \in Nat
    BY <1>1, <1>2, ListMeans, OnTheWire DEF PublishRoster, Follows
  <2> QED
    BY <1>1, <2>1
<1> QED
  BY <1>1, <1>2, DirectoryKeeps DEF Shaped

LEMMA SettledStays ==
  ASSUME Shaped, [Next]_vars
  PROVE  Settled \subseteq Settled'
<1> SUFFICES ASSUME NEW x \in Settled
             PROVE  x \in Settled'
  OBVIOUS
<1>1. x \in Key \ cut' => x \in Id /\ rosters'[x].version >= rosters[x].version /\ rosters[x].version \in Nat
                          /\ rosters'[x].version \in Nat
  BY NumbersGrow, DirectoryKeeps, AccountsAssumption DEF Shaped, DirTypeOK, Roster
<1>2. x \in Key \ cut' => Predecessors(x) \subseteq Predecessors(x)'
  BY <1>1, RotationsStay, DirectoryAssumption DEF Predecessors
<1> QED
  BY <1>1, <1>2, HistoriesGrow DEF Settled

LEMMA NumberedStays ==
  ASSUME Shaped, Numbered, [Next]_vars
  PROVE  Numbered'
<1> SUFFICES ASSUME NEW x \in Id, rosters'[x].version = 0
             PROVE  rosters'[x].devices = {}
  BY DEF Numbered
<1>1. CASE rosters'[x] = rosters[x]
  BY <1>1 DEF Numbered
<1>2. ASSUME NEW m \in wire, StoreList(m), m.account = x, rosters'[x].version = m.version
      PROVE  FALSE
  <2>1. m.version > rosters[x].version
    BY <1>2, ListMeans DEF PublishRoster, Follows
  <2>2. rosters[x].version \in Nat
    BY NumbersGrow
  <2> QED
    BY <1>2, <2>1, <2>2
<1> QED
  BY <1>1, <1>2, NumbersGrow

LEMMA UniqueStays ==
  ASSUME Shaped, Announced, Unique, [Next]_vars
  PROVE  Unique'
<1> USE AccountsAssumption, DirectoryAssumption
<1>0. /\ successor \in [Id -> Id \cup {None}] /\ wire \subseteq Requests
      /\ \A m \in wire : m.kind = "rotation" => m.old \in Id /\ m.new \in Key
      /\ \A x \in Id : successor[x] \in spent \cup {None}
      /\ \A m \in wire : m.kind = "rotation" => m.new \in spent
  BY OnTheWire DEF Shaped, Shapes, DirTypeOK, Announced
<1>1. ASSUME successor' = successor,
             wire' \subseteq wire \/ \E m : m.kind # "rotation" /\ wire' = wire \cup {m}
      PROVE  Unique'
  BY <1>1 DEF Unique, Predecessors
<1>2. CASE DeviceStep
  <2>1. successor' = successor
    BY <1>2, DeviceStepKeeps DEF directoryVars, rotationVars
  <2>2. ASSUME NEW d \in Device, GiveUp(d) \/ Restart(d)
        PROVE  Unique'
    BY <1>1, <2>1, <2>2 DEF GiveUp, Restart
  <2>3. ASSUME NEW d \in Device, StartRelist(d)
        PROVE  Unique'
    BY <1>1, <2>1, <2>3 DEF StartRelist, ListRequest
  <2>4. ASSUME NEW d \in Device, NEW e \in Id, Authorize(d, e) \/ RemoveDevice(d, e)
        PROVE  Unique'
    <3>1. \E devices, about : SignAndSend(d, devices, about)
      BY <2>4 DEF Authorize, RemoveDevice
    <3> QED
      BY <1>1, <2>1, <3>1 DEF SignAndSend, ListRequest
  <2>5. ASSUME NEW d \in Device, NEW x \in Id, StartJoin(d, x)
        PROVE  Unique'
    BY <1>1, <2>1, <2>5 DEF StartJoin, JoinRequest
  <2>6. ASSUME NEW d \in Device, NEW k \in Id, StartRotate(d, k)
        PROVE  Unique'
    <3> DEFINE m == RotationRequest(d, acct[d], k)
    <3>1. wire' = wire \cup {m} /\ k \notin spent /\ m.new = k /\ k # None
      BY <2>6 DEF StartRotate, RotationRequest
    <3>2. Predecessors(k) = {}
      BY <1>0, <3>1 DEF Predecessors
    <3>3. \A r \in wire : r.kind = "rotation" => r.new # k
      BY <1>0, <3>1
    <3> HIDE DEF m
    <3> QED
      BY <2>1, <3>1, <3>2, <3>3 DEF Unique, Predecessors
  <2>7. ASSUME NEW m \in wire, \/ RefuseList(m) \/ RefuseJoin(m) \/ RefuseRotation(m)
                               \/ LoseRequest(m)
        PROVE  Unique'
    <3>1. wire' = wire \ {m}
      BY <2>7, RefusalMeans DEF LoseRequest
    <3> QED
      BY <1>1, <2>1, <3>1
  <2> QED
    BY <1>2, <2>2, <2>3, <2>4, <2>5, <2>6, <2>7 DEF DeviceStep
<1>3. ASSUME NEW m \in wire, StoreList(m) \/ StoreJoin(m)
      PROVE  Unique'
  <2>1. wire' = wire \ {m} /\ successor' = successor
    BY <1>3, ListMeans, JoinMeans DEF PublishRoster, RegisterDevice, rotationVars
  <2> QED
    BY <1>1, <2>1
<1>4. ASSUME NEW m \in wire, StoreRotation(m)
      PROVE  Unique'
  <2>1. /\ wire' = wire \ {m} /\ successor' = [successor EXCEPT ![m.old] = m.new]
        /\ m.kind = "rotation" /\ m.old \in Id /\ m.new \in Key
    BY <1>0, <1>4, RotationMeans DEF PublishRotation
  <2>2. \A y \in Id : successor[y] # m.new
    BY <1>4, <2>1 DEF Unique, Predecessors
  <2>3. \A r \in wire' : r.kind = "rotation" => r.new # m.new /\ Predecessors(r.new) = {}
    BY <1>4, <2>1 DEF Unique
  <2>4. \A r \in wire' : r.kind = "rotation" => Predecessors(r.new)' = {}
    BY <1>0, <2>1, <2>3 DEF Predecessors
  <2>5. \A x, y \in Id : successor'[x] = successor'[y] /\ successor'[x] # None => x = y
    BY <1>0, <2>1, <2>2 DEF Unique
  <2> QED
    BY <2>1, <2>4, <2>5 DEF Unique
<1>5. CASE DirectoryStep
  <2>1. wire' = wire
    BY <1>5, DirectoryStepKeeps
  <2>2. successor' = successor
    BY <1>5 DEF DirectoryStep, Mint, MintInvite, Enroll, RegisterNew, Republish, PublishBundle,
                Claim, ClaimDevice, rotationVars
  <2> QED
    BY <1>1, <2>1, <2>2
<1>6. CASE UNCHANGED vars
  BY <1>1, <1>6 DEF vars, directoryVars, rotationVars
<1> QED
  BY <1>2, <1>3, <1>4, <1>5, <1>6, Steps

LEMMA SigningStays ==
  ASSUME Shaped, Unique, Signing, [Next]_vars
  PROVE  Signing'
<1> USE AccountsAssumption, DirectoryAssumption
<1>0. /\ stored \in [Device -> Id \cup {None}] /\ acct \in [Device -> Id]
      /\ task \in [Device -> Tasks] /\ wire \subseteq Requests
      /\ \A d \in Device : Waits(d)
      /\ \A d \in Device : d \in Settled' /\ None \in Settled'
      /\ \A m \in wire : m.by \in Device /\ m # None
      /\ Settled \subseteq Settled' /\ cut' \cap Id \subseteq Settled'
  BY OnTheWire, SettledStays DEF Shaped, Shapes, Settled
\* A step at one device.
<1>1. ASSUME NEW d \in Device, offers' \subseteq offers, acct'[d] \in Settled',
             stored'[d] \in Settled' \/ task'[d].kind \in {"rotating", "relisting"},
             \A e \in Device \ {d} : UNCHANGED <<acct[e], stored[e], task[e]>>
      PROVE  Signing'
  BY <1>0, <1>1 DEF Signing
<1>2. ASSUME NEW d \in Device, task[d].kind \in {"rotating", "relisting"} => task[d].about \in cut'
      PROVE  stored[d] \in Settled'
  BY <1>0, <1>2 DEF Signing, Waits
<1>3. ASSUME NEW d \in Device, Failed(d), offers' \subseteq offers
      PROVE  Signing'
  <2>1. CASE task[d].kind = "joining"
    BY <1>0, <1>1, <1>3, <2>1, FailureMeans
  <2>2. CASE task[d].kind # "joining"
    <3>1. task' = [task EXCEPT ![d] = Idle] /\ UNCHANGED <<stored, acct>>
      BY <1>3, <2>2, FailureMeans
    <3>2. stored[d] \in Settled'
      BY <1>2, <1>3, FailureMeans
    <3> QED
      BY <1>0, <1>1, <1>3, <3>1, <3>2 DEF Signing
  <2> QED
    BY <2>1, <2>2
\* A device begins something, and keeps its account.
<1>4. ASSUME NEW d \in Device, NEW t, UNCHANGED <<acct, stored, offers>>,
             task' = [task EXCEPT ![d] = t],
             task[d].kind \in {"rotating", "relisting"} => t.kind = "relisting"
      PROVE  Signing'
  <2>1. task[d].kind \in {"rotating", "relisting"} => task'[d].kind = "relisting"
    BY <1>0, <1>4
  <2>2. acct'[d] \in Settled' /\ offers' \subseteq offers
    BY <1>0, <1>4 DEF Signing
  <2>3. stored'[d] \in Settled' \/ task'[d].kind \in {"rotating", "relisting"}
    BY <1>0, <1>4, <2>1 DEF Signing
  <2>4. \A e \in Device \ {d} : UNCHANGED <<acct[e], stored[e], task[e]>>
    BY <1>0, <1>4
  <2> QED
    BY <1>1, <2>2, <2>3, <2>4
<1>5. ASSUME UNCHANGED <<acct, stored, offers, task>>
      PROVE  Signing'
  BY <1>0, <1>5 DEF Signing
<1>6. CASE DeviceStep
  <2>1. ASSUME NEW d \in Device, GiveUp(d)
        PROVE  Signing'
    BY <1>3, <2>1 DEF GiveUp
  <2>2. ASSUME NEW d \in Device, Restart(d)
        PROVE  Signing'
    <3>1. /\ task' = [task EXCEPT ![d] = Idle] /\ stored' = stored /\ offers' \subseteq offers
          /\ acct' = [acct EXCEPT ![d] = IF stored[d] = None THEN d ELSE stored[d]]
      BY <2>2 DEF Restart, Set
    <3>2. stored[d] \in Settled'
      BY <1>2, <2>2 DEF Restart, CutShort
    <3>3. acct'[d] \in Settled' /\ stored'[d] \in Settled'
      BY <1>0, <3>1, <3>2
    <3>4. \A e \in Device \ {d} : UNCHANGED <<acct[e], stored[e], task[e]>>
      BY <1>0, <3>1
    <3> QED
      BY <1>1, <3>1, <3>3, <3>4
  <2>3. ASSUME NEW d \in Device, StartRelist(d)
        PROVE  Signing'
    <3> DEFINE t == Doing("relisting", task[d].about, ListRequest(d, task[d].about, 1, Relist(d)))
    <3>1. UNCHANGED <<acct, stored, offers>> /\ task' = [task EXCEPT ![d] = t]
      BY <2>3 DEF StartRelist, Set, keyVars
    <3>2. t.kind = "relisting"
      BY DEF Doing
    <3> QED
      BY <1>4, <3>1, <3>2
  <2>4. ASSUME NEW d \in Device, NEW e \in Id, Authorize(d, e) \/ RemoveDevice(d, e)
        PROVE  Signing'
    <3>1. UNCHANGED <<acct, stored, offers>> /\ task[d].kind = "idle"
      BY <2>4 DEF Authorize, RemoveDevice, keyVars, Idle
    <3>2. PICK t : task' = [task EXCEPT ![d] = t]
      BY <2>4 DEF Authorize, RemoveDevice, SignAndSend, Set
    <3> QED
      BY <1>4, <3>1, <3>2
  <2>5. ASSUME NEW d \in Device, NEW x \in Id, StartJoin(d, x)
        PROVE  Signing'
    <3>1. /\ stored' = [stored EXCEPT ![d] = x] /\ acct' = [acct EXCEPT ![d] = x]
          /\ offers' \subseteq offers /\ \E t : task' = [task EXCEPT ![d] = t]
          /\ [account |-> x, device |-> d] \in offers
      BY <2>5 DEF StartJoin, Set
    <3>2. x \in Settled'
      <4>1. [account |-> x, device |-> d].account \in Settled
        BY <3>1 DEF Signing
      <4> QED
        BY <1>0, <4>1
    <3>3. acct'[d] = x /\ stored'[d] = x
      BY <1>0, <3>1
    <3>4. \A e \in Device \ {d} : UNCHANGED <<acct[e], stored[e], task[e]>>
      BY <1>0, <3>1
    <3> QED
      BY <1>1, <3>1, <3>2, <3>3, <3>4
  <2>6. ASSUME NEW d \in Device, NEW k \in Id, StartRotate(d, k)
        PROVE  Signing'
    <3> DEFINE t == Doing("rotating", k, RotationRequest(d, acct[d], k))
    <3>1. /\ stored' = [stored EXCEPT ![d] = k] /\ UNCHANGED <<acct, offers>>
          /\ task' = [task EXCEPT ![d] = t]
      BY <2>6 DEF StartRotate, Set, Persist
    <3>2. t.kind = "rotating"
      BY DEF Doing
    <3>3. task'[d].kind = "rotating" /\ acct'[d] \in Settled' /\ offers' \subseteq offers
      BY <1>0, <3>1, <3>2 DEF Signing
    <3>4. \A e \in Device \ {d} : UNCHANGED <<acct[e], stored[e], task[e]>>
      BY <1>0, <3>1
    <3> QED
      BY <1>1, <3>3, <3>4
  <2>7. ASSUME NEW m \in wire, RefuseList(m) \/ RefuseJoin(m) \/ RefuseRotation(m)
        PROVE  Signing'
    BY <1>0, <1>3, <1>5, <2>7, RefusalMeans DEF deviceVars, keyVars
  <2>8. ASSUME NEW m \in wire, LoseRequest(m)
        PROVE  Signing'
    BY <1>5, <2>8 DEF LoseRequest, deviceVars, keyVars
  <2> QED
    BY <1>6, <2>1, <2>2, <2>3, <2>4, <2>5, <2>6, <2>7, <2>8 DEF DeviceStep
<1>7. ASSUME NEW m \in wire, StoreList(m), task[m.by].on = m, ListAnswered(m.by)
      PROVE  Signing'
  <2> DEFINE d == m.by
  <2>1. /\ d \in Device /\ stored' = stored /\ task' = [task EXCEPT ![d] = Idle]
        /\ m.kind = "list" /\ task[d].kind \in TaskKinds /\ Waits(d)
    BY <1>0, <1>7, ListMeans DEF ListAnswered, Set, Tasks
  <2>2. task[d].kind \in {"listing", "relisting"}
    <3>1. RotationRequest(d, acct[d], task[d].about).kind # "list"
      BY DEF RotationRequest
    <3> QED
      BY <1>0, <1>7, <2>1, <3>1 DEF Waits, TaskKinds
  <2>3. CASE task[d].kind = "relisting"
    <3>1. /\ m.version = 1 /\ m.account = task[d].about /\ stored[d] = task[d].about
          /\ successor[acct[d]] = m.account /\ m.account \in Key
      BY <1>0, <1>7, <2>1, <2>3 DEF Waits
    <3>2. acct' = [acct EXCEPT ![d] = m.account] /\ offers' = offers
      BY <1>7, <2>3, <3>1 DEF ListAnswered
    <3>3. rosters'[m.account].version = 1 /\ successor'[acct[d]] = m.account
      <4>1. /\ rosters' = [rosters EXCEPT ![m.account] = [version |-> m.version, devices |-> m.devices]]
            /\ successor' = successor
        BY <1>7, ListMeans DEF PublishRoster, rotationVars
      <4> QED
        BY <3>1, <4>1 DEF Shaped, DirTypeOK
    <3>4. m.account \in Settled'
      <4>1. acct[d] \in Id /\ m.account \in Id
        BY <1>0, <2>1, <3>1
      <4> QED
        BY <3>3, <4>1 DEF Settled, Predecessors
    <3>5. acct'[d] = m.account /\ stored'[d] = m.account
      BY <1>0, <2>1, <3>1, <3>2
    <3>6. \A e \in Device \ {d} : UNCHANGED <<acct[e], stored[e], task[e]>>
      BY <1>0, <2>1, <3>2
    <3> QED
      BY <1>1, <2>1, <3>2, <3>4, <3>5, <3>6
  <2>4. CASE task[d].kind = "listing"
    <3>1. /\ acct' = acct
          /\ offers' = offers \cup {[account |-> acct[d], device |-> e] :
                                        e \in {task[d].about} \ {None}}
      BY <1>7, <2>4 DEF ListAnswered
    <3>2. \A o \in offers' : o.account \in Settled'
      <4>1. \A o \in offers' : o \in offers \/ o.account = acct[d]
        BY <3>1
      <4>2. acct[d] \in Settled'
        BY <1>0, <2>1 DEF Signing
      <4> QED
        BY <1>0, <4>1, <4>2 DEF Signing
    <3>3. \A e \in Device : stored'[e] \in Settled' \/ task'[e].kind \in {"rotating", "relisting"}
      <4> SUFFICES ASSUME NEW e \in Device
                   PROVE  stored[e] \in Settled' \/ task'[e].kind \in {"rotating", "relisting"}
        BY <2>1
      <4>1. stored[e] \in Settled \/ task[e].kind \in {"rotating", "relisting"}
        BY DEF Signing
      <4>2. e # d => task'[e] = task[e]
        BY <1>0, <2>1
      <4> QED
        BY <1>0, <2>4, <4>1, <4>2
    <3>4. \A e \in Device : acct'[e] \in Settled'
      BY <1>0, <3>1 DEF Signing
    <3> QED
      BY <3>2, <3>3, <3>4 DEF Signing
  <2> QED
    BY <2>2, <2>3, <2>4
<1>8. ASSUME NEW m \in wire, StoreList(m)
      PROVE  Signing'
  BY <1>5, <1>7, <1>8, ListMeans
<1>9. ASSUME NEW m \in wire, StoreJoin(m)
      PROVE  Signing'
  <2>1. UNCHANGED <<acct, stored, offers>>
    BY <1>9, JoinMeans DEF keyVars
  <2>2. CASE task[m.by].on = m /\ Set(m.by, Idle)
    <3>1. task[m.by].kind \notin {"rotating", "relisting"}
      <4>1. m.kind = "join" /\ RotationRequest(m.by, acct[m.by], task[m.by].about).kind # "join"
        BY <1>9, JoinMeans DEF RotationRequest
      <4> QED
        BY <1>0, <2>2, <4>1 DEF Waits
    <3>2. task' = [task EXCEPT ![m.by] = Idle] /\ m.by \in Device
      BY <1>0, <2>2 DEF Set
    <3> QED
      BY <1>4, <2>1, <3>1, <3>2
  <2> QED
    BY <1>5, <1>9, <2>1, <2>2, JoinMeans
<1>10. ASSUME NEW m \in wire, StoreRotation(m)
       PROVE  Signing'
  <2> DEFINE t == Doing("relisting", m.new, None)
  <2>1. UNCHANGED <<acct, stored, offers>> /\ m.by \in Device
    BY <1>0, <1>10, RotationMeans DEF keyVars
  <2>2. t.kind = "relisting"
    BY DEF Doing
  <2>3. task' = task \/ task' = [task EXCEPT ![m.by] = t]
    BY <1>10, RotationMeans DEF Set
  <2> QED
    BY <1>4, <1>5, <2>1, <2>2, <2>3
<1>11. CASE DirectoryStep \/ UNCHANGED vars
  BY <1>5, <1>11, DirectoryStepKeeps DEF vars, deviceVars, keyVars
<1> QED
  BY <1>6, <1>8, <1>9, <1>10, <1>11, Steps

\* A list on the wire stays carried while others are stored and accounts move on.
LEMMA CarriedKeeps ==
  ASSUME Shaped, Unique, [Next]_vars,
         NEW m \in wire, m.kind = "list", Carried(m)
  PROVE  Carried(m)'
<1> USE AccountsAssumption, DirectoryAssumption
<1> DEFINE x == m.account
<1>0. /\ x \in Id /\ m.version \in Nat /\ rosters[x].version \in Nat /\ rosters'[x].version \in Nat
      /\ rosters'[x].version >= rosters[x].version
      /\ cut \subseteq cut' /\ dropping \subseteq dropping'
      /\ Predecessors(x) \subseteq Predecessors(x)'
  <2>1. x \in Id /\ m.version \in Nat
    BY OnTheWire DEF Shaped, Shapes
  <2>2. rosters'[x].version \in Nat
    BY <2>1, DirectoryKeeps DEF Shaped, DirTypeOK, Roster
  <2>3. Predecessors(x) \subseteq Predecessors(x)'
    BY <2>1, RotationsStay DEF Predecessors
  <2> QED
    BY <2>1, <2>2, <2>3, NumbersGrow, HistoriesGrow
<1>1. m.version <= rosters'[x].version + 1
  BY <1>0 DEF Carried
<1>2. x \in Key \ cut' => Predecessors(x)' # {}
  BY <1>0 DEF Carried
<1>3. \/ x \in cut' \/ ~Follows(x, m.version)'
      \/ ListedBefore(x)' \ m.devices \subseteq dropping'
  <2>1. CASE x \in cut \/ ~Follows(x, m.version)
    BY <1>0, <2>1 DEF Follows
  <2>2. CASE x \notin cut /\ Follows(x, m.version) /\ ListedBefore(x) \ m.devices \subseteq dropping
    <3>1. CASE rosters'[x] # rosters[x]
      <4>1. PICK r \in wire : /\ StoreList(r) /\ r.account = x
                              /\ rosters'[x].version = r.version
        BY <1>0, <3>1, NumbersGrow
      <4>2. r.version > rosters[x].version
        BY <4>1, ListMeans DEF PublishRoster, Follows
      <4>3. rosters'[x].version >= m.version
        BY <1>0, <4>1, <4>2 DEF Carried
      <4> QED
        BY <1>0, <4>3 DEF Follows
    <3>2. CASE rosters'[x] = rosters[x] /\ rosters[x].version > 0
      BY <1>0, <2>2, <3>2 DEF ListedBefore
    <3>3. CASE rosters'[x] = rosters[x] /\ rosters[x].version = 0
      \* An account that moved on publishes no list.
      <4>1. \A y \in Predecessors(x) : rosters'[y] = rosters[y]
        <5> SUFFICES ASSUME NEW y \in Predecessors(x), rosters'[y] # rosters[y]
                     PROVE  FALSE
          OBVIOUS
        <5>1. y \in Id /\ Moved(y)
          BY <1>0 DEF Predecessors, Moved
        <5>2. PICK r \in wire : StoreList(r) /\ r.account = y
          BY <5>1, NumbersGrow
        <5> QED
          BY <5>1, <5>2, ListMeans DEF PublishRoster, Live
      <4>2. x \in cut \/ Predecessors(x)' = Predecessors(x)
        <5>1. CASE successor' = successor
          BY <5>1 DEF Predecessors
        <5>2. ASSUME NEW r \in wire, StoreRotation(r)
              PROVE  x \in cut \/ Predecessors(x)' = Predecessors(x)
          <6>1. /\ successor' = [successor EXCEPT ![r.old] = r.new]
                /\ successor[r.old] = None /\ r.kind = "rotation" /\ r.new \in Key
            BY <5>2, RotationMeans, OnTheWire
               DEF PublishRotation, FirstRotation, Moved, Shaped, Shapes
          <6>2. x = r.new => x \in cut
            BY <6>1 DEF Unique, Carried
          <6>3. x # r.new => Predecessors(x)' = Predecessors(x)
            BY <1>0, <6>1 DEF Predecessors, Shaped, DirTypeOK
          <6> QED
            BY <6>2, <6>3
        <5> QED
          BY <5>1, <5>2, DirectoryKeeps DEF Shaped
      <4>3. CASE Predecessors(x)' = Predecessors(x)
        <5>1. ListedBefore(x)' = ListedBefore(x)
          BY <3>3, <4>1, <4>3 DEF ListedBefore
        <5> QED
          BY <1>0, <2>2, <5>1
      <4> QED
        BY <2>2, <4>2, <4>3
    <3> QED
      BY <1>0, <3>1, <3>2, <3>3
  <2> QED
    BY <2>1, <2>2 DEF Carried
<1> QED
  BY <1>1, <1>2, <1>3 DEF Carried

\* A device that signs a new list carries over what was listed.
LEMMA CarriedAnew ==
  ASSUME Shaped, Announced, Numbered, Unique, Signing, DeviceStep,
         NEW m \in wire' \ wire, m.kind = "list"
  PROVE  Carried(m)'
<1> USE AccountsAssumption, DirectoryAssumption
<1>0. /\ acct \in [Device -> Id] /\ \A d \in Device : Waits(d)
      /\ successor \in [Id -> Id \cup {None}] /\ spent \subseteq Key
      /\ \A y \in Id : rosters[y].version \in Nat
      /\ UNCHANGED <<rosters, successor>>
  BY DeviceStepKeeps DEF Shaped, Shapes, DirTypeOK, Roster, directoryVars, rotationVars
\* A list one version up.
<1>1. ASSUME NEW d \in Device, NEW devices, NEW about, SignAndSend(d, devices, about), cut' = cut,
             rosters[acct[d]].devices \ devices \subseteq dropping'
      PROVE  Carried(m)'
  <2>0. PICK x \in Id : x = acct[d]
    BY <1>0
  <2>1. m.account = x /\ m.version = rosters[x].version + 1 /\ m.devices = devices
    BY <1>1, <2>0 DEF SignAndSend, ListRequest
  <2>2. x \in Id /\ x \in Settled /\ rosters[x].devices \ devices \subseteq dropping'
    BY <1>0, <1>1, <2>0 DEF Signing
  <2>3. x \in Key \ cut' => Predecessors(x)' # {}
    BY <1>0, <1>1, <2>2 DEF Settled, Predecessors
  <2>4. x \in cut' \/ ListedBefore(x)' \ devices \subseteq dropping'
    <3>1. CASE x \in Key \ cut
      <4>1. rosters[x].version > 0
        BY <1>0, <2>2, <3>1 DEF Settled
      <4> QED
        BY <1>0, <2>2, <4>1 DEF ListedBefore
    <3>2. CASE x \notin Key
      <4>1. Predecessors(x) = {}
        BY <2>2, <3>2, <1>0 DEF Announced, Predecessors
      <4>2. ListedBefore(x) \subseteq rosters[x].devices
        BY <4>1 DEF ListedBefore
      <4>3. ListedBefore(x)' = ListedBefore(x)
        BY <1>0 DEF ListedBefore, Predecessors
      <4> QED
        BY <2>2, <4>2, <4>3
    <3> QED
      BY <1>1, <3>1, <3>2
  <2> QED
    BY <1>0, <2>1, <2>2, <2>3, <2>4 DEF Carried
<1>2. ASSUME NEW d \in Device, NEW e \in Device, Authorize(d, e)
      PROVE  Carried(m)'
  <2>1. rosters[acct[d]].devices \subseteq Served(d, acct[d]) \cup {e}
    BY <1>0 DEF Served, Numbered
  <2> QED
    BY <1>1, <1>2, <2>1 DEF Authorize, asked
<1>3. ASSUME NEW d \in Device, NEW e \in Id, RemoveDevice(d, e)
      PROVE  Carried(m)'
  BY <1>1, <1>3 DEF RemoveDevice
<1>4. ASSUME NEW d \in Device, StartRelist(d)
      PROVE  Carried(m)'
  <2>0. PICK k, x, s : k = task[d].about /\ x = acct[d] /\ s = Served(d, d)
    OBVIOUS
  <2>1. m.account = k /\ m.version = 1 /\ m.devices = s
    BY <1>4, <2>0 DEF StartRelist, ListRequest, Relist
  <2>2. k \in Key /\ k \in Id /\ successor[x] = k /\ x \in Id
    BY <1>0, <1>4, <2>0 DEF StartRelist, Waits
  <2>3. Predecessors(k) = {x}
    BY <1>0, <2>2 DEF Predecessors, Unique
  <2>4. Predecessors(k)' = {x}
    BY <1>0, <2>3 DEF Predecessors
  <2>5. rosters[k].version = 0 => ListedBefore(k)' \ s = {}
    <3>1. rosters[k].version = 0 => ListedBefore(k)' = rosters[x].devices
      BY <1>0, <2>4 DEF ListedBefore
    <3>2. rosters[x].devices \subseteq s
      BY <2>0, <2>2 DEF Served, Numbered
    <3> QED
      BY <3>1, <3>2
  <2>6. rosters[k].version # 0 => ~Follows(k, 1)'
    BY <1>0, <2>2 DEF Follows
  <2> QED
    BY <1>0, <2>1, <2>2, <2>4, <2>5, <2>6 DEF Carried
\* No other step of a device sends a list.
<1>5. ASSUME NEW d \in Device, GiveUp(d) \/ Restart(d)
      PROVE  FALSE
  BY <1>5 DEF GiveUp, Restart
<1>6. ASSUME NEW d \in Device, NEW e \in Id, StartJoin(d, e) \/ StartRotate(d, e)
      PROVE  FALSE
  BY <1>6 DEF StartJoin, StartRotate, JoinRequest, RotationRequest
<1>7. ASSUME NEW r \in wire, RefuseList(r) \/ RefuseJoin(r) \/ RefuseRotation(r) \/ LoseRequest(r)
      PROVE  FALSE
  BY <1>7, RefusalMeans DEF LoseRequest
<1> QED
  BY <1>2, <1>3, <1>4, <1>5, <1>6, <1>7 DEF DeviceStep

LEMMA ListedHolds == Spec => [](Announced /\ Listed)
<1>1. Init => Announced /\ Listed
  <2> SUFFICES ASSUME Init
               PROVE  Announced /\ Listed
    OBVIOUS
  <2> USE AccountsAssumption, DirectoryAssumption DEF Init, DirInit
  <2>1. Announced
    BY DEF Announced
  <2>2. Numbered
    BY DEF Numbered, NoRoster
  <2>3. Unique
    BY DEF Unique
  <2>4. Signing
    BY DEF Signing, Settled
  <2> QED
    BY <2>1, <2>2, <2>3, <2>4 DEF Listed
<1>2. Shaped /\ Announced /\ Listed /\ [Next]_vars => (Announced /\ Listed)'
  <2> SUFFICES ASSUME Shaped, Announced, Listed, [Next]_vars
               PROVE  (Announced /\ Listed)'
    OBVIOUS
  <2>1. Announced' /\ Numbered' /\ Unique' /\ Signing'
    BY KeysAreHeld, NumberedStays, UniqueStays, SigningStays DEF Listed
  <2>2. ASSUME NEW m \in wire', m.kind = "list"
        PROVE  Carried(m)'
    <3>1. CASE m \in wire
      BY <2>2, <3>1, CarriedKeeps DEF Listed
    <3>2. CASE m \notin wire
      <4>1. DeviceStep
        <5>1. ASSUME NEW r \in wire, StoreList(r) \/ StoreJoin(r) \/ StoreRotation(r)
              PROVE  FALSE
          BY <2>2, <3>2, <5>1 DEF StoreList, StoreJoin, StoreRotation
        <5>2. CASE DirectoryStep \/ UNCHANGED vars
          BY <2>2, <3>2, <5>2, DirectoryStepKeeps DEF vars
        <5> QED
          BY <5>1, <5>2, Steps
      <4> QED
        BY <2>2, <3>2, <4>1, CarriedAnew DEF Listed
    <3> QED
      BY <3>1, <3>2
  <2> QED
    BY <2>1, <2>2 DEF Listed
<1> QED
  BY <1>1, <1>2, ShapedHolds, PTL DEF Spec

\* No device disappears from the account because two devices signed at once, because a
\* list arrived late, or because the key was replaced: only a device that somebody asked
\* to remove is ever lost.
THEOREM NoSilentRemovalHolds == Spec => NoSilentRemoval
<1>1. ASSUME Shaped, Announced, Listed, [Next]_vars,
             NEW x \in Id \ cut, rosters'[x] # rosters[x]
      PROVE  ListedBefore(x) \ rosters'[x].devices \subseteq dropping
  <2>1. PICK m \in wire : /\ StoreList(m) /\ m.account = x
                          /\ rosters'[x].devices = m.devices
    BY <1>1, NumbersGrow
  <2>2. m.kind = "list" /\ Follows(x, m.version)
    BY <2>1, ListMeans DEF PublishRoster
  <2> QED
    BY <1>1, <2>1, <2>2 DEF Listed, Carried
<1>2. Shaped /\ Announced /\ Listed /\ [Next]_vars =>
        [\A x \in Id \ cut : rosters'[x] # rosters[x] =>
           ListedBefore(x) \ rosters'[x].devices \subseteq dropping]_vars
  BY <1>1
<1> QED
  BY <1>2, ShapedHolds, ListedHolds, PTL DEF Spec, NoSilentRemoval

-----------------------------------------------------------------------------
(* The bounded instances.                                                  *)

\* A behaviour of the two layers, of which a run lets one move, is one of each.
THEOREM AccountsLayersMoveAlone == AccountsSpec => Spec /\ TrustSpec
<1>1. AccountsInit => Init /\ TrustInit
  BY DEF AccountsInit
<1>2. [AccountsStep \/ TrustStep]_<<vars, trustVars, layer>> => [Next]_vars /\ [TrustNext]_trustVars
  BY DEF AccountsStep, TrustStep
<1> QED
  BY <1>1, <1>2, PTL DEF AccountsSpec, Spec, TrustSpec

\* The two layers of the instances keep their types in any interleaving of them.
THEOREM AccountsTypesHold == AccountsSpec => []AccountsTypeOK
<1> QED
  BY AccountsLayersMoveAlone, TypeHolds, TrustTypesHold, PTL DEF AccountsTypeOK

\* What is safe of accounts and of trust stays so in the behaviours the runs check.
THEOREM AccountsAreSafe ==
  AccountsSpec =>
    /\ []AccountsTypeOK /\ []KeyIsHeld /\ []LinkedIsMember /\ NoSilentRemoval
    /\ []TrustIsEarned /\ []DeletedStaysDeleted
<1> QED
  BY AccountsLayersMoveAlone, AccountsTypesHold, KeyIsHeldHolds, LinkedIsMemberHolds,
     NoSilentRemovalHolds, TrustIsEarnedHolds, DeletedStaysDeletedHolds, PTL
=============================================================================
