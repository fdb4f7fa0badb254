------------------------------- MODULE Prekeys -------------------------------
(***************************************************************************)
(* The prekeys of one device, the owner: the private halves in its         *)
(* PrekeyStore, the public halves the Directory serves, the one-time       *)
(* prekeys vended to the peers that fetch its bundle, and the X3DH         *)
(* initials those peers build from them.  Registration, re-registration,   *)
(* signed-prekey rotation and replenishment are RPCs whose request or      *)
(* answer may be lost; the owner may be restored from its identity backup  *)
(* and a peer may lose its sessions.                                       *)
(*                                                                         *)
(* A key pair is the number it was generated under, so two pairs published *)
(* under one id are told apart.  Time is abstracted: a vend is fresh until *)
(* OPK_VEND_TTL_MS have passed, and a retired signed prekey lapses when    *)
(* nothing in flight can cite it any more (Retention.tla keeps the clock). *)
(***************************************************************************)
EXTENDS Naturals, Sequences, FiniteSets, FiniteSetsExt, Functions

CONSTANTS
  Peer,          \* devices that open sessions to the owner
  Batch,         \* OPK_BATCH
  Threshold,     \* OPK_REPLENISH_THRESHOLD
  MaxAvailable,  \* MAX_AVAILABLE_OPKS
  Restorable,    \* peers that may be moved or restored, and re-register
  Evictable,     \* peers that may lose a session without having deleted the owner
  Redeletable,   \* peers that may delete the owner again while the marker stands
  MaxPairs,      \* bound: key pairs ever generated
  MaxWire        \* bound: requests in flight

ASSUME ConstantsAssumption ==
  /\ Batch \in Nat \ {0}
  /\ Threshold \in Nat
  /\ MaxAvailable \in Nat \ {0}
  /\ MaxPairs \in Nat /\ MaxWire \in Nat
  /\ Restorable \cup Evictable \cup Redeletable \subseteq Peer

VARIABLES
  minted,       \* how many key pairs were generated
  spks,         \* owner: signed-prekey id -> key pair
  opks,         \* owner: one-time-prekey id -> key pair
  published,    \* owner: the signed prekey the Directory acknowledged (0: none)
  unconfirmed,  \* owner: regUnconfirmed
  stock,        \* owner, in RAM: authed.opkCount
  task,         \* owner, in RAM: the RPC that holds the replenish lock
  wire,         \* requests on their way to the Directory, oldest first
  reply,        \* the answer on its way back, if any
  member,       \* Directory: the owner has a users row
  served,       \* Directory: the spks row, if any
  rows,         \* Directory: opks rows, id -> [pair, vended]
  vends,        \* Directory: vends rows, peer -> [id, fresh]
  session,      \* peers that hold a session with the owner
  dismissed,    \* deletion markers with hadSession within the vend window:
                \*   peer -> the one-time pair vended to it at the time (0: none)
  stale,        \* peers restored or moved, whose re-registration is still to come
  forgone,      \* history: one-time pairs whose peer kept nothing that says it was
                \*   vended them, as <<pair, peer>>
  initials,     \* initials not yet processed by the owner
  given         \* history variable: one-time pairs handed out, as <<pair, peer>>

ownerVars == <<minted, spks, opks, published, unconfirmed>>
ramVars == <<stock, task>>
rpcVars == <<wire, reply>>
dirVars == <<member, served, rows, vends>>
peerVars == <<session, dismissed, stale, forgone>>
initialVars == <<initials, given>>
vars == <<ownerVars, ramVars, rpcVars, dirVars, peerVars, initialVars>>

Nothing == <<>>     \* the empty map
Pair == 1 .. MaxPairs
Id == Nat \ {0}
Prekey == [id : Id, pair : Pair]
Ring(f) == DOMAIN f \subseteq Id /\ \A i \in DOMAIN f : f[i] \in Pair
Request(r) == /\ r.op \in {"register", "publish"} /\ r.live \in BOOLEAN
              /\ r.spk \in Prekey /\ Ring(r.opks)
\* `doubt' is history: the bundle was fetched while the owner's re-registration
\* was unconfirmed; the peer's own was due while the initial was on its way.
Doubt == SUBSET {"owner", "peer"}
Initial == [from : Peer, spk : Prekey, opk : SUBSET Prekey, doubt : Doubt]

TypeOK ==
  /\ minted \in 0 .. MaxPairs
  /\ Ring(spks) /\ Ring(opks)
  /\ published \in Nat /\ unconfirmed \in BOOLEAN
  /\ stock \in Nat /\ task \in {"idle", "register", "publish"}
  /\ \A i \in DOMAIN wire : Request(wire[i])
  /\ reply \subseteq [spk : Id, count : Nat]
  /\ member \in BOOLEAN
  /\ served \subseteq Prekey
  /\ DOMAIN rows \subseteq Id /\ \A i \in DOMAIN rows : rows[i] \in [pair : Pair, vended : BOOLEAN]
  /\ DOMAIN vends \subseteq Peer /\ \A p \in DOMAIN vends : vends[p] \in [id : Id, fresh : BOOLEAN]
  /\ session \subseteq Peer /\ stale \subseteq Restorable
  /\ DOMAIN dismissed \subseteq Peer /\ \A p \in DOMAIN dismissed : dismissed[p] \in Pair \cup {0}
  /\ initials \subseteq Initial /\ given \cup forgone \subseteq Pair \X Peer

Init ==
  /\ minted = 0 /\ spks = Nothing /\ opks = Nothing
  /\ published = 0 /\ unconfirmed = FALSE
  /\ stock = 0 /\ task = "idle"
  /\ wire = <<>> /\ reply = {}
  /\ member = FALSE /\ served = {} /\ rows = Nothing /\ vends = Nothing
  /\ session = {} /\ dismissed = Nothing /\ stale = {} /\ forgone = {}
  /\ initials = {} /\ given = {}

-----------------------------------------------------------------------------
(* The owner.  Every publish is local-first, under the replenish lock.     *)

Biggest(S) == IF S = {} THEN 0 ELSE Max(S)
Extend(f, g) == [i \in DOMAIN f \cup DOMAIN g |-> IF i \in DOMAIN f THEN f[i] ELSE g[i]]
Without(f, S) == [i \in DOMAIN f \ S |-> f[i]]
Holds(ring, k) == k.id \in DOMAIN ring /\ ring[k.id] = k.pair

\* The newest pair of a ring: ids grow with creation time.
NewestId(ring) == Biggest(DOMAIN ring)
NewestOf(ring) == [id |-> NewestId(ring), pair |-> ring[NewestId(ring)]]
\* n fresh pairs under the ids from first on, the first of them pair number k.
Generate(first, n, k) == [i \in first .. (first + n - 1) |-> k + i - first]

Ask(op, ring, batch) ==
  /\ task = "idle" /\ Len(wire) < MaxWire
  /\ task' = op
  /\ wire' = Append(wire, [op |-> op, spk |-> NewestOf(ring), opks |-> batch, live |-> TRUE])
  /\ UNCHANGED <<stock, reply, dirVars, peerVars, initialVars>>
\* Nobody listens for the answers any more; requests already sent still count.
HangUp ==
  /\ task' = "idle" /\ reply' = {}
  /\ wire' = [i \in DOMAIN wire |-> [wire[i] EXCEPT !.live = FALSE]]

\* Register, re-register, or recover an interrupted registration: the local
\* set is replaced, under ids that start again at 1, and then offered.
RecoveryDue == ~member \/ spks = Nothing \/ unconfirmed
StartRegister ==
  /\ RecoveryDue
  /\ minted + 1 + Batch <= MaxPairs
  /\ minted' = minted + 1 + Batch
  /\ spks' = Generate(1, 1, minted + 1)
  /\ opks' = Generate(1, Batch, minted + 2)
  /\ published' = 0 /\ unconfirmed' = TRUE
  /\ Ask("register", spks', opks')

\* maybeReplenishOpks: top up when the Directory's count, as last heard, is low.
StartReplenish ==
  LET batch == Generate(NewestId(opks) + 1, Batch, minted + 1)
  IN /\ member /\ stock < Threshold /\ spks # Nothing
     /\ minted + Batch <= MaxPairs
     /\ minted' = minted + Batch
     /\ opks' = Extend(opks, batch)
     /\ UNCHANGED <<spks, published, unconfirmed>>
     /\ Ask("publish", spks, batch)

\* maybeRotateSpk: the successor of a signed prekey past its cadence is durable
\* here before it is offered.
StartRotate ==
  /\ ~RecoveryDue
  /\ minted < MaxPairs
  /\ minted' = minted + 1
  /\ spks' = Extend(spks, Generate(NewestId(spks) + 1, 1, minted + 1))
  /\ UNCHANGED <<opks, published, unconfirmed>>
  /\ Ask("publish", spks', Nothing)

\* maybeRotateSpk: a publish that was never acknowledged is retried.
RetryPublish ==
  /\ ~RecoveryDue /\ published # NewestId(spks)
  /\ UNCHANGED ownerVars
  /\ Ask("publish", spks, Nothing)

\* maybeRotateSpk: retired signed prekeys are dropped once their grace is over,
\* when no initial in flight can cite them; the newest is always kept.
Retired == {i \in DOMAIN spks : i # NewestId(spks) /\ \A m \in initials : m.spk.id # i}
Prune ==
  /\ task = "idle" /\ ~RecoveryDue /\ published = NewestId(spks)
  /\ \E gone \in (SUBSET Retired) \ {{}} : spks' = Without(spks, gone)
  /\ UNCHANGED <<minted, opks, published, unconfirmed, ramVars, rpcVars, dirVars, peerVars, initialVars>>

\* Mutant: whatever was published confirms the registration.
HearReplyConfirms ==
  \E r \in reply :
    /\ reply' = {} /\ task' = "idle"
    /\ \/ published' = r.spk /\ unconfirmed' = FALSE /\ stock' = r.count
       \/ stock' \in {stock, r.count} /\ UNCHANGED <<published, unconfirmed>>
    /\ UNCHANGED <<minted, spks, opks, wire, dirVars, peerVars, initialVars>>

\* The Directory acknowledged: recorded, best effort.
HearReply ==
  \E r \in reply :
    /\ reply' = {} /\ task' = "idle"
    /\ \/ /\ published' = r.spk /\ unconfirmed' = (unconfirmed /\ task # "register")
          /\ stock' = r.count
       \/ stock' \in {stock, r.count} /\ UNCHANGED <<published, unconfirmed>>
    /\ UNCHANGED <<minted, spks, opks, wire, dirVars, peerVars, initialVars>>

\* The RPC times out.
GiveUp ==
  /\ task # "idle" /\ HangUp
  /\ UNCHANGED <<ownerVars, stock, dirVars, peerVars, initialVars>>

\* A new connection, possibly of a new process: the stock is re-anchored on the
\* Directory's own count.
AvailableIn(r) == {i \in DOMAIN r : ~r[i].vended}
Reconnect ==
  /\ HangUp
  /\ stock' = Cardinality(AvailableIn(rows))
  /\ UNCHANGED <<ownerVars, dirVars, peerVars, initialVars>>

\* The identity comes back from its backup, without prekeys.
RestoreOwner ==
  /\ member /\ spks # Nothing /\ HangUp
  /\ spks' = Nothing /\ opks' = Nothing /\ published' = 0 /\ unconfirmed' = FALSE
  /\ stock' = 0
  /\ UNCHANGED <<minted, dirVars, peerVars, initialVars>>

-----------------------------------------------------------------------------
(* The Directory, which serves one device's requests in the order sent.    *)

LoseRequest ==
  /\ wire # <<>> /\ wire' = Tail(wire)
  /\ UNCHANGED <<ownerVars, ramVars, reply, dirVars, peerVars, initialVars>>

Stored(batch) == [i \in DOMAIN batch |-> [pair |-> batch[i], vended |-> FALSE]]
Serve(op) ==
  /\ wire # <<>> /\ Head(wire).op = op
  /\ wire' = Tail(wire)
  /\ served' = {Head(wire).spk}
  /\ reply' = IF Head(wire).live
              THEN {[spk |-> Head(wire).spk.id, count |-> Cardinality(AvailableIn(rows'))]}
              ELSE reply
  /\ UNCHANGED <<ownerVars, ramVars, peerVars, initialVars>>

\* Mutant: a re-registration keeps the rows it should invalidate.
DirRegisterKeepsRows ==
  /\ wire # <<>>
  /\ member' = TRUE
  /\ rows' = Extend(rows, Stored(Head(wire).opks))
  /\ vends' = Nothing
  /\ Serve("register")

\* A (re-)registration invalidates every row and every vend of the old set.
DirRegister ==
  /\ wire # <<>>
  /\ member' = TRUE
  /\ rows' = Stored(Head(wire).opks)
  /\ vends' = Nothing
  /\ Serve("register")

\* The ids of a batch publishBundle takes, lowest first: those it has no row
\* for, until the available ones reach their ceiling.
Taken(batch) ==
  LET new == DOMAIN batch \ DOMAIN rows
  IN {i \in new : Cardinality(AvailableIn(rows)) + Cardinality({j \in new : j < i}) < MaxAvailable}

DirPublish ==
  LET batch == Head(wire).opks IN
  /\ wire # <<>> /\ member
  /\ rows' = Extend(rows, Stored(Restrict(batch, Taken(batch))))
  /\ UNCHANGED <<member, vends>>
  /\ Serve("publish")

\* vendOpk: within the window the same prekey to the same peer; after it, the
\* abandoned one is dropped and the lowest available one is vended, if any.
Repeats(p) == p \in DOMAIN vends /\ vends[p].fresh /\ vends[p].id \in DOMAIN rows
Abandoned(p) == IF p \in DOMAIN vends THEN {vends[p].id} ELSE {}
Candidates(p) == AvailableIn(rows) \ Abandoned(p)
VendedId(p) == IF Repeats(p) THEN vends[p].id ELSE Min(Candidates(p))
OpkFor(p) ==
  IF Repeats(p) \/ Candidates(p) # {}
  THEN {[id |-> VendedId(p), pair |-> rows[VendedId(p)].pair]}
  ELSE {}
\* Mutant: the prekey is served and stays available.
MarkVendedNot(r, i) == r
MarkVended(r, i) == [r EXCEPT ![i].vended = TRUE]
VendOpk(p) ==
  \/ Repeats(p) /\ UNCHANGED <<rows, vends>>
  \/ /\ ~Repeats(p) /\ Candidates(p) = {}
     /\ rows' = Without(rows, Abandoned(p))
     /\ vends' = Without(vends, {p})
  \/ /\ ~Repeats(p) /\ Candidates(p) # {}
     /\ rows' = MarkVended(Without(rows, Abandoned(p)), VendedId(p))
     /\ vends' = [q \in DOMAIN vends \cup {p} |->
                    IF q = p THEN [id |-> VendedId(p), fresh |-> TRUE] ELSE vends[q]]

\* fetchBundle: every answer carries the served signed prekey, and vends.
Fetch(p) ==
  /\ served # {}
  /\ VendOpk(p)
  /\ given' = given \cup {<<k.pair, p>> : k \in OpkFor(p)}

\* OPK_VEND_TTL_MS pass since the vend.
VendLapses(p) ==
  /\ p \in DOMAIN vends /\ vends[p].fresh
  /\ vends' = [vends EXCEPT ![p].fresh = FALSE]
  /\ UNCHANGED <<ownerVars, ramVars, rpcVars, member, served, rows, peerVars, initialVars>>

-----------------------------------------------------------------------------
(* The peers, and the owner that answers their initials.                   *)

\* The bundle is fetched and no session comes of it: adding a contact, or a
\* process that ends before the commit.
FetchOnly(p) ==
  /\ Fetch(p)
  /\ UNCHANGED <<ownerVars, ramVars, rpcVars, member, served, peerVars, initials>>

\* Mutant: the one-time prekey is used whatever the peer remembers.
UsableAlways(p) == OpkFor(p)
\* The one-time prekey of a bundle, stripped for a peer deleted recently, with
\* whom a session existed.
Usable(p) == IF p \in DOMAIN dismissed THEN {} ELSE OpkFor(p)

DoubtOf(p) == {w \in {"owner", "peer"} : IF w = "owner" THEN unconfirmed ELSE p \in stale}
\* openInitiatorEntry: fetch, X3DH, and the session committed with its initial.
OpenSession(p) ==
  /\ p \notin session
  /\ Fetch(p)
  /\ session' = session \cup {p}
  /\ \E k \in served :
       initials' = initials \cup {[from |-> p, spk |-> k, opk |-> Usable(p),
                                  doubt |-> DoubtOf(p)]}
  /\ UNCHANGED <<ownerVars, ramVars, rpcVars, member, served, dismissed, stale, forgone>>

\* p has no session and no marker left that would keep it from using again what it
\* was vended.
VendedTo(p) == IF Repeats(p) THEN rows[vends[p].id].pair ELSE 0
Forgoes(p) == forgone' = forgone \cup (({VendedTo(p)} \ {0}) \X {p})

\* deleteConversation keeps the session, and its marker says whether there is one.
Dismiss(p) ==
  /\ p \in session \cup DOMAIN dismissed
  /\ p \in DOMAIN dismissed => p \in Redeletable
  /\ \/ /\ p \in session
        /\ dismissed' = [q \in DOMAIN dismissed \cup {p} |->
                          IF q = p THEN VendedTo(p) ELSE dismissed[q]]
        /\ UNCHANGED forgone
     \/ /\ p \notin session
        /\ dismissed' = Without(dismissed, {p})
        /\ Forgoes(p)
  /\ UNCHANGED <<ownerVars, ramVars, rpcVars, dirVars, session, stale, initialVars>>

\* The vend window since the delete is over; for a vend made before it, too.
DismissalLapses(p) ==
  /\ p \in DOMAIN dismissed
  /\ VendedTo(p) \in {0} \cup (Pair \ {dismissed[p]})
  /\ dismissed' = Without(dismissed, {p})
  /\ UNCHANGED <<ownerVars, ramVars, rpcVars, dirVars, session, stale, forgone, initialVars>>

\* A session is lost, and the prekeys are not: its book is gone or evicted.
LoseSession(p) ==
  /\ p \in session
  /\ p \in Evictable \cup DOMAIN dismissed
  /\ session' = session \ {p}
  /\ IF p \in DOMAIN dismissed THEN UNCHANGED forgone ELSE Forgoes(p)
  /\ UNCHANGED <<ownerVars, ramVars, rpcVars, dirVars, dismissed, stale, initialVars>>

\* The peer is moved or restored: no sessions, and markers without hadSession.
RestorePeer(p) ==
  /\ p \in session \cap Restorable
  /\ session' = session \ {p}
  /\ dismissed' = Without(dismissed, {p})
  /\ stale' = stale \cup {p}
  /\ initials' = {IF m.from = p THEN [m EXCEPT !.doubt = @ \cup {"peer"}] ELSE m : m \in initials}
  /\ UNCHANGED <<ownerVars, ramVars, rpcVars, dirVars, forgone, given>>

\* Its forced re-registration reaches the Directory, which forgets its fetches.
PeerReregisters(p) ==
  /\ p \in stale
  /\ stale' = stale \ {p}
  /\ vends' = Without(vends, {p})
  /\ UNCHANGED <<ownerVars, ramVars, rpcVars, member, served, rows, session, dismissed, forgone, initialVars>>

\* processInbound of an initial: x3dhRespond needs both halves.  The one-time
\* private half is consumed after the session is durable, best effort.
Answers(m) == Holds(spks, m.spk) /\ \A k \in m.opk : Holds(opks, k)
OneLess(n) == IF n = 0 THEN 0 ELSE n - 1
OpenInitial(m) ==
  /\ m \in initials /\ Answers(m)
  /\ initials' = initials \ {m}
  /\ \/ /\ m.opk # {}
        /\ opks' = Without(opks, {k.id : k \in m.opk})
        /\ stock' = OneLess(stock)
     \/ UNCHANGED <<opks, stock>>
  /\ UNCHANGED <<minted, spks, published, unconfirmed, task, rpcVars, dirVars, peerVars, given>>

\* It never opens, and is dropped at the poison bound.
DropInitial(m) ==
  /\ m \in initials /\ ~Answers(m)
  /\ initials' = initials \ {m}
  /\ UNCHANGED <<ownerVars, ramVars, rpcVars, dirVars, peerVars, given>>

-----------------------------------------------------------------------------
Owner ==
  \/ StartRegister \/ StartReplenish \/ StartRotate \/ RetryPublish \/ Prune
  \/ HearReply \/ GiveUp \/ Reconnect \/ RestoreOwner
Directory == LoseRequest \/ DirRegister \/ DirPublish
PeerStep(p) ==
  \/ FetchOnly(p) \/ OpenSession(p) \/ VendLapses(p) \/ Dismiss(p) \/ DismissalLapses(p)
  \/ LoseSession(p) \/ RestorePeer(p) \/ PeerReregisters(p)

Next ==
  \/ Owner
  \/ Directory
  \/ \E p \in Peer : PeerStep(p)
  \/ \E m \in initials : OpenInitial(m) \/ DropInitial(m)

Spec == Init /\ [][Next]_vars

-----------------------------------------------------------------------------
(* Properties.                                                             *)

\* A one-time prekey is never handed to two peers, across re-registrations,
\* repeated fetches, lapsed vends and ids used again.
VendedOnce == \A x, y \in given : x[1] = y[1] => x = y

\* Unless a full registration is still unconfirmed or local prekeys are gone
\* (both are recovered by a purging re-registration), whatever the Directory
\* would serve next is a key whose private half the owner holds.
ServedIsHeld ==
  (~unconfirmed /\ spks # Nothing) =>
    /\ \A k \in served : Holds(spks, k)
    /\ \A i \in AvailableIn(rows) : Holds(opks, [id |-> i, pair |-> rows[i].pair])

\* An initial whose signed prekey the owner still holds can be opened.
Opens(m) == Holds(spks, m.spk) => Answers(m)

\* Built while no re-registration had yet to reach the Directory, and with a one-time
\* prekey whose peer never lost every trace of its vend.
Sure(m) == m.doubt = {} /\ \A k \in m.opk : <<k.pair, m.from>> \notin forgone

\* A sure initial can be opened for as long as the owner holds the signed prekey it
\* cites: no rotation, pruning, replenishment, lapsed vend, reused id, deleted contact
\* or move takes its one-time prekey away, and a session lost or a contact deleted
\* twice spoils the initials of that one prekey only (client.ts: an initial that does
\* not open leaves the conversation "silently dead while our own UI showed it
\* delivered").
SureInitialsOpen == \A m \in initials : Sure(m) => Opens(m)

\* maybeRotateSpk's comment: an unconfirmed registration is recovered by a
\* purging re-register, "NEVER a plain publishBundle", which would serve one-time
\* prekeys of the prior set beside the new signed prekey.
ServedTogether ==
  (spks # Nothing /\ \A k \in served : Holds(spks, k)) =>
    \A i \in AvailableIn(rows) : Holds(opks, [id |-> i, pair |-> rows[i].pair])
=============================================================================
