------------------------------ MODULE Accounts ------------------------------
(***************************************************************************)
(* One person's devices and the account they share: linking and removing   *)
(* devices, replacing the account key, and the lost answers, restarts and  *)
(* stale lists in between.  The relay's side of every request is an action *)
(* of Directory.                                                           *)
(*                                                                         *)
(* A request waits in `wire' until the Directory handles it.  Its sender   *)
(* may have given up by then, and an answer may not be heard.              *)
(***************************************************************************)
EXTENDS Directory

CONSTANTS
  Device,        \* the person's devices; each id is the hash of the device's own key
  Key,           \* the account keys the devices will generate
  Fallible,      \* the tasks whose answer may be lost, or time out
  Breakable      \* the tasks that a restart of the device may cut short

\* The requests: a rotation from one account to the next, a signed list, and a
\* device that registers under an account.
Requests ==
  [kind : {"rotation"}, by : Device, old : Id, new : Key]
    \cup [kind : {"list"}, by : Device, account : Id, version : Nat, devices : SUBSET Id]
    \cup [kind : {"join"}, by : Device, account : Id]

ASSUME AccountsAssumption ==
  /\ Device \subseteq Id
  /\ Key \subseteq Id /\ Key \cap Device = {}
  /\ None \notin Requests

VARIABLES
  stored,   \* per device: account.key.v1, the account key on disk, or None
  acct,     \* per device: the account in RAM (client.account)
  task,     \* per device: what it waits for
  spent,    \* account keys already generated
  dropping, \* history: devices whose removal was ever asked for
  cut,      \* history: keys whose rotation was interrupted
  over,     \* history: account keys that another was stored over
  torn,     \* history: devices whose last join a restart cut short
  wire,     \* requests the Directory has not handled
  offers    \* link transfers on a screen or on their way: account, device

keyVars    == <<stored, acct, spent>>
asked      == <<dropping, cut, over, torn>>
deviceVars == <<keyVars, task, asked>>
vars == <<directoryVars, deviceVars, wire, offers>>

RotationRequest(d, old, new) == [kind |-> "rotation", by |-> d, old |-> old, new |-> new]
ListRequest(d, x, version, devices) ==
  [kind |-> "list", by |-> d, account |-> x, version |-> version, devices |-> devices]
JoinRequest(d, x) == [kind |-> "join", by |-> d, account |-> x]

\* A task waits for one request (None between two), and is about one key or device.
Idle == [kind |-> "idle", about |-> None, on |-> None]
Doing(kind, about, on) == [kind |-> kind, about |-> about, on |-> on]

TypeOK ==
  /\ DirTypeOK
  /\ stored \in [Device -> Id \cup {None}]
  /\ acct \in [Device -> Id]
  /\ \A d \in Device : /\ task[d].kind \in {"idle", "rotating", "relisting", "listing", "joining"}
                       /\ task[d].about \in Id \cup {None}
                       /\ task[d].on \in wire \cup {None} \/ task[d].kind \in Fallible
  /\ spent \subseteq Key /\ cut \subseteq Key /\ dropping \subseteq Id /\ over \subseteq Id
  /\ torn \subseteq Device
  /\ wire \subseteq Requests
  /\ offers \subseteq [account : Id, device : Device]

Init ==
  /\ DirInit
  /\ stored = [d \in Device |-> None]
  /\ acct = [d \in Device |-> d]
  /\ task = [d \in Device |-> Idle]
  /\ spent = {} /\ cut = {} /\ dropping = {} /\ over = {} /\ torn = {}
  /\ wire = {} /\ offers = {}

-----------------------------------------------------------------------------
(* What every task shares.                                                 *)

Registered(d) == d \in users
Set(d, t) == task' = [task EXCEPT ![d] = t]
Fails(d) == task[d].kind \in Fallible

\* Whether the answer to m is heard: by the task that waits for it, unless it is lost.
Heard(m) ==
  IF task[m.by].on # m THEN {FALSE} ELSE IF Fails(m.by) THEN BOOLEAN ELSE {TRUE}

\* Mutant: the stored key stays behind.
AbandonOnly(d) == Set(d, Idle) /\ UNCHANGED <<stored, acct>>
\* A join that fails undoes the key it had stored (completeLink).
Abandon(d) ==
  /\ Set(d, Idle)
  /\ IF task[d].kind = "joining"
     THEN stored' = [stored EXCEPT ![d] = None] /\ acct' = [acct EXCEPT ![d] = d]
     ELSE UNCHANGED <<stored, acct>>

\* One account key is stored at a time (saveAccountKey).
Overwrites(d) == over' = over \cup ({stored[d]} \ {None})

\* The rotation of this key did not run to its end.
CutShort(d) ==
  cut' = IF task[d].kind \in {"rotating", "relisting"} THEN cut \cup {task[d].about} ELSE cut

\* An error to the task, from a timeout, a closed socket or a refusal.
Failed(d) == Abandon(d) /\ CutShort(d) /\ UNCHANGED <<spent, dropping, over, torn>>

GiveUp(d) ==
  /\ Fails(d)
  /\ Failed(d)
  /\ UNCHANGED <<directoryVars, wire, offers>>

\* A request whose task is gone may never have arrived.
LoseRequest(m) ==
  /\ m \in wire /\ task[m.by].on # m
  /\ wire' = wire \ {m}
  /\ UNCHANGED <<directoryVars, deviceVars, offers>>

\* A restart: the account is what is on disk, or the device's own; a linking code
\* shown before is gone.  One in the middle of a join leaves the key it had stored:
\* completeLink's catch, which would clear it, does not run.
Restart(d) ==
  /\ task[d].kind \in {"idle"} \cup Breakable
  /\ Set(d, Idle)
  /\ CutShort(d)
  /\ torn' = IF task[d].kind = "joining" THEN torn \cup {d} ELSE torn
  /\ acct' = [acct EXCEPT ![d] = IF stored[d] = None THEN d ELSE stored[d]]
  /\ offers' = {o \in offers : o.device # d}
  /\ UNCHANGED <<directoryVars, stored, spent, dropping, over, wire>>

\* The account list fetchRoster serves to d, with the seed a first list starts from.
Served(d, seed) ==
  IF rosters[acct[d]].version = 0 THEN {seed} ELSE rosters[acct[d]].devices

-----------------------------------------------------------------------------
(* Joining the network, and the routine of a connected device.             *)

Mint(x, c) == MintInvite(x, c) /\ UNCHANGED <<deviceVars, wire, offers>>

Enroll(d, c) ==
  /\ task[d] = Idle
  /\ RegisterNew(d, c)
  /\ UNCHANGED <<deviceVars, wire, offers>>

\* On a connect: prekeys are republished when due, and a device that is not its
\* own account claims the account it knows.
Republish(d) == PublishBundle(d) /\ UNCHANGED <<deviceVars, wire, offers>>
Claim(d) ==
  /\ Registered(d) /\ acct[d] # d
  /\ ClaimDevice(d, acct[d])
  /\ UNCHANGED <<deviceVars, wire, offers>>

-----------------------------------------------------------------------------
(* Lists: authorizeDevice, removeDevice.                                   *)

\* Read the published list, change it, sign it one version up.
SignAndSend(d, devices, about) ==
  LET m == ListRequest(d, acct[d], rosters[acct[d]].version + 1, devices)
  IN wire' = wire \cup {m} /\ Set(d, Doing("listing", about, m))

Authorize(d, e) ==
  LET devices == Served(d, acct[d]) \cup {e} IN
  /\ task[d] = Idle /\ e # d /\ Registered(d)
  /\ Cardinality(devices) <= MaxDevices
  /\ SignAndSend(d, devices, e)
  /\ UNCHANGED <<directoryVars, keyVars, asked, offers>>

RemoveDevice(d, e) ==
  /\ task[d] = Idle /\ Registered(d)
  /\ e # acct[d] /\ e \in rosters[acct[d]].devices
  /\ SignAndSend(d, rosters[acct[d]].devices \ {e}, None)
  /\ dropping' = dropping \cup {e}
  /\ UNCHANGED <<directoryVars, keyVars, cut, over, torn, offers>>

\* What a heard success does: an authorization may now hand the account to the
\* device it listed, and a rotation is adopted.
ListAnswered(d) ==
  LET t == task[d] IN
  /\ Set(d, Idle)
  /\ IF t.kind = "relisting"
     THEN acct' = [acct EXCEPT ![d] = t.about] /\ UNCHANGED offers
     ELSE /\ offers' = offers \cup {[account |-> acct[d], device |-> e] : e \in {t.about} \ {None}}
          /\ UNCHANGED acct

StoreList(m) ==
  /\ m \in wire /\ m.kind = "list"
  /\ PublishRoster(m.account, m.version, m.devices)
  /\ wire' = wire \ {m}
  /\ \E heard \in Heard(m) :
       IF heard THEN ListAnswered(m.by) ELSE UNCHANGED <<task, acct, offers>>
  /\ UNCHANGED <<stored, spent, asked>>

\* not_registered, account_rotated, stale_roster.
RefuseList(m) ==
  /\ m \in wire /\ m.kind = "list"
  /\ ~(Live(m.account) /\ Follows(m.account, m.version))
  /\ wire' = wire \ {m}
  /\ \E heard \in Heard(m) : IF heard THEN Failed(m.by) ELSE UNCHANGED deviceVars
  /\ UNCHANGED <<directoryVars, offers>>

-----------------------------------------------------------------------------
(* Linking: completeLink on the new device.                                *)

\* client.isRegistered is of the last connect: a join whose answer was lost may
\* be tried again before the next one.
BelievesNew(e) == ~Registered(e) \/ (claims[e] # None /\ stored[e] = None)

\* stageLink puts the account key on disk before the device registers.
StartJoin(e, x) ==
  /\ task[e] = Idle /\ BelievesNew(e)
  /\ [account |-> x, device |-> e] \in offers
  /\ offers' = offers \ {[account |-> x, device |-> e]}
  /\ stored' = [stored EXCEPT ![e] = x] /\ Overwrites(e)
  /\ acct' = [acct EXCEPT ![e] = x]
  /\ wire' = wire \cup {JoinRequest(e, x)}
  /\ Set(e, Doing("joining", x, JoinRequest(e, x)))
  /\ torn' = torn \ {e}
  /\ UNCHANGED <<directoryVars, spent, dropping, cut>>

StoreJoin(m) ==
  /\ m \in wire /\ m.kind = "join"
  /\ RegisterDevice(m.by, m.account)
  /\ wire' = wire \ {m}
  /\ \E heard \in Heard(m) : IF heard THEN Set(m.by, Idle) ELSE UNCHANGED task
  /\ UNCHANGED <<keyVars, asked, offers>>

\* account_rotated, not_listed.
RefuseJoin(m) ==
  /\ m \in wire /\ m.kind = "join"
  /\ Moved(m.account) \/ m.by \notin rosters[m.account].devices
  /\ wire' = wire \ {m}
  /\ \E heard \in Heard(m) : IF heard THEN Failed(m.by) ELSE UNCHANGED deviceVars
  /\ UNCHANGED <<directoryVars, offers>>

-----------------------------------------------------------------------------
(* Replacing the account key: rotateAccount.                               *)

\* Mutant: the new key is kept in RAM until the account has it.
PersistNothing(d, k) == UNCHANGED stored
Persist(d, k) == stored' = [stored EXCEPT ![d] = k]

\* A fresh key, on disk before anybody is told.
StartRotate(d, k) ==
  /\ task[d] = Idle /\ Registered(d) /\ k \in Key \ spent
  /\ spent' = spent \cup {k}
  /\ Persist(d, k) /\ Overwrites(d)
  /\ wire' = wire \cup {RotationRequest(d, acct[d], k)}
  /\ Set(d, Doing("rotating", k, RotationRequest(d, acct[d], k)))
  /\ UNCHANGED <<directoryVars, acct, dropping, cut, torn, offers>>

RotationAnswered(m) ==
  \E heard \in Heard(m) :
    IF heard THEN Set(m.by, Doing("relisting", m.new, None)) ELSE UNCHANGED task

StoreRotation(m) ==
  /\ m \in wire /\ m.kind = "rotation"
  /\ PublishRotation(m.old, m.new)
  /\ wire' = wire \ {m}
  /\ RotationAnswered(m)
  /\ UNCHANGED <<keyVars, asked, offers>>

\* not_registered, rotation_target_stale, rotation_exists, too_many_rotations.
RefuseRotation(m) ==
  /\ m \in wire /\ m.kind = "rotation"
  /\ \/ ~IsAccount(m.old) \/ ~TargetOpen(m.new) \/ ~FirstRotation(m.old)
     \/ \E len \in ChainLens(m.old) : len + 1 > MaxChain
  /\ wire' = wire \ {m}
  /\ \E heard \in Heard(m) : IF heard THEN Failed(m.by) ELSE UNCHANGED deviceVars
  /\ UNCHANGED <<directoryVars, offers>>

\* Mutant: the devices are not read from the list the old account published.
RelistOwn(d) == {d}
Relist(d) == Served(d, d)

\* The device list again, as version 1 of the new account.
StartRelist(d) ==
  LET k == task[d].about
      m == ListRequest(d, k, 1, Relist(d))
  IN /\ task[d].kind = "relisting" /\ task[d].on = None
     /\ wire' = wire \cup {m}
     /\ Set(d, Doing("relisting", k, m))
     /\ UNCHANGED <<directoryVars, keyVars, asked, offers>>

-----------------------------------------------------------------------------
Next ==
  \/ \E d \in Device : GiveUp(d) \/ Restart(d) \/ Republish(d) \/ Claim(d) \/ StartRelist(d)
  \/ \E d \in Device, e \in Device : Authorize(d, e)
  \/ \E d \in Device, e \in Id : RemoveDevice(d, e) \/ StartJoin(d, e) \/ StartRotate(d, e)
  \/ \E x \in Device \cup {Admin}, c \in Code : Mint(x, c)
  \/ \E d \in Device, c \in Code : Enroll(d, c)
  \/ \E m \in wire : StoreList(m) \/ RefuseList(m) \/ StoreJoin(m) \/ RefuseJoin(m)
                      \/ StoreRotation(m) \/ RefuseRotation(m) \/ LoseRequest(m)

Spec == Init /\ [][Next]_vars

-----------------------------------------------------------------------------
(* Properties.                                                             *)

\* The Directory recorded that an account became x, which is its last.
IsHead(x) == Predecessors(x) # {} /\ ~Moved(x)
OnDisk(x) == \E d \in Device : stored[d] = x

\* The account is never lost: some device has on disk the key of the account the
\* Directory says it became, whatever was cut short or arrived late, unless a later
\* rotation or link wrote another key over it.  rotateAccount puts the key on disk
\* before anybody is told.
KeyIsHeld == \A x \in Id : IsHead(x) => OnDisk(x) \/ x \in over

\* A rotation that failed halfway can "simply" be run again (client.ts:2382), so the
\* account's last key is on some device's disk, or in its memory, however often it is.
RunAgainIsSafe ==
  \A x \in Id : IsHead(x) => x \in Device \/ OnDisk(x) \/ \E d \in Device : acct[d] = x

\* The devices contacts reached before x published a list.
ListedBefore(x) ==
  IF rosters[x].version > 0 THEN rosters[x].devices
  ELSE UNION {rosters[y].devices : y \in Predecessors(x)}

\* No device disappears from the account because two devices signed lists at
\* once, because a list arrived late, or because the key was replaced: only a
\* device somebody asked to remove is ever lost.  The first list of a key whose
\* rotation was interrupted is left out: it starts from this device alone.
\* authorizeDevice, removeDevice, rotateAccount.
NoSilentRemoval ==
  [][\A x \in Id \ cut : rosters'[x] # rosters[x] =>
       ListedBefore(x) \ rosters'[x].devices \subseteq dropping]_vars

\* A link that did not finish leaves no account key behind: a device at rest
\* with a key on disk is registered, whichever answer or refusal came when and
\* whatever a restart cut short; only a restart between storing the key and the
\* end of the join itself leaves one, until the device's next join is done or
\* undone.  completeLink, rotateAccount.
LinkedIsMember ==
  \A d \in Device : task[d] = Idle /\ stored[d] # None => Registered(d) \/ d \in torn
=============================================================================
