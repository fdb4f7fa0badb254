------------------------------- MODULE Vault -------------------------------
(***************************************************************************)
(* What one browser keeps of a device, and the operations that replace it: *)
(* boot, app lock, restore, move, link, forgotten-secret reset and erase   *)
(* (src/src/ui/useNightjar.ts with src/src/storage/appLockStore.ts,        *)
(* restore.ts, identityStore.ts, persist.ts and sessionSeal.ts).           *)
(*                                                                         *)
(* Every store is sealed under the local data key (LDK) that the lock      *)
(* record wraps, and belongs to an identity; the model keeps those two of  *)
(* each blob.  An operation of several writes is the sequence of the steps *)
(* still to do: each await is a step, a tab can be closed before any of    *)
(* them, and the steps of two tabs interleave.                             *)
(***************************************************************************)
EXTENDS Naturals, Sequences, FiniteSets, SequencesExt

CONSTANTS
    Tab,            \* pages of this origin
    MaxLdks,        \* bound: local data keys ever generated
    MaxIdentities,  \* bound: identities ever generated here
    MaxUpheavals    \* bound: tabs closed by hand, files opened, resets, erasures and links

ASSUME VaultAssumption ==
    /\ Tab # {} /\ IsFiniteSet(Tab)
    /\ {MaxLdks, MaxIdentities, MaxUpheavals} \subseteq Nat

Store == {"sessions", "contacts", "markers", "prekeys", "account"}
Phase == {"closed", "evicted", "enroll", "locked", "open", "left", "error"}
InFile == 1                         \* the identity of the backup or move file

VARIABLES
    identity,     \* IDENTITY_KEY: an identity, 0 for none
    sentinel,     \* the mark that this browser had one
    wraps,        \* the lock record: the LDK each method wraps, 0 for none
    pending,      \* RESTORE_PENDING_KEY
    sealed,       \* [Store -> the LDK and identity of what it holds]
    registered,   \* relay: identities that are registered
    held,         \* relay: identities whose served prekeys this device has the keys of
    confirmed,    \* the prekey blob: the answer to its registration was heard
    tab,          \* RAM of each tab
    told,         \* tabs that have a lockReset to hear
    ldks, generated, upheavals,
    unmarked,     \* history: a file was staged where the mark was gone, by a page left open
    strays        \* history: two tabs were at work at once, or one was never told of it

vaultDisk == <<identity, sentinel, wraps, pending, sealed, confirmed>>
vaultRelay == <<registered, held>>
vaultCounts == <<ldks, generated, upheavals>>
vaultVars == <<vaultDisk, vaultRelay, tab, told, vaultCounts, unmarked, strays>>

NoWraps == [pass |-> 0, bio |-> 0]
ClosedTab == [phase |-> "closed", ldk |-> 0, id |-> 0, file |-> "none",
              shown |-> FALSE, todo |-> <<>>]
Configured == wraps.pass # 0

Live(t) == tab[t].phase = "open" /\ tab[t].todo = <<>>

\* A blob opens under the key of the tab, or there is none.
CanRead(t, s) == \A x \in sealed[s] : x.ldk = tab[t].ldk
Mine(t) == [ldk |-> tab[t].ldk, of |-> tab[t].id]

---------------------------------------------------------------------------
(* Operations of several steps. *)

\* Mutant: a file's identity is written with the first steps.
StageStepsIdentityFirst(kind) ==
    <<"dropIdentity", "wipeSessions", "putIdentity", "dropPrekeys", "dropAccount", "flag",
      "putContacts", "mark", "reload">>

StageSteps(kind) ==
    <<"dropIdentity", "wipeSessions", "dropPrekeys", "dropAccount", "flag", "putContacts">>
        \o (IF kind = "move" THEN <<"putHistory">> ELSE <<>>)
        \o <<"putIdentity", "mark", "reload">>

ResetSteps(linked) ==
    <<"wipeSessions", "wipeContacts", "dropPrekeys", "dropAccount">>
        \o (IF linked THEN <<"dropIdentity", "unmark">> ELSE <<"flag">>)
        \o <<"dropLock", "tell", IF linked THEN "leave" ELSE "enrollAgain">>

EraseSteps ==
    <<"tell", "wipeSessions", "wipeContacts", "dropPrekeys", "unflag", "dropIdentity",
      "dropAccount", "dropLock", "unmark", "reload">>

\* Mutant: a stage does not take the lock.
IdentityUnlocked == TRUE

\* The lock named nightjar-identity: held by a stage, from its first write to its last.
IdentityFree == \A t \in Tab : ~ Contains(tab[t].todo, "putIdentity")

Tell(t) == told' = told \union {u \in Tab \ {t} : tab[u].phase = "open"}

\* The tab begins something beside an operation of another, or before it heard of one.
Crossing(t) == strays \/ t \in told \/ \E u \in Tab \ {t} : tab[u].todo # <<>>

\* Or it writes for an identity that one has replaced.
Stray(t) == Crossing(t) \/ tab[t].id # identity

Upheaval == upheavals < MaxUpheavals /\ upheavals' = upheavals + 1

Doing(t, step) ==
    /\ tab[t].todo # <<>> /\ Head(tab[t].todo) = step

Done(t) == tab' = [tab EXCEPT ![t].todo = Tail(@)]

Wipe(t, step, s) ==
    /\ Doing(t, step) /\ Done(t)
    /\ sealed' = [sealed EXCEPT ![s] = {}]
    /\ UNCHANGED <<identity, sentinel, wraps, pending, confirmed, vaultRelay, told,
                   vaultCounts, unmarked, strays>>

\* Whatever the relay serves, its private keys are gone.
DropPrekeys(t) ==
    /\ Doing(t, "dropPrekeys") /\ Done(t)
    /\ sealed' = [sealed EXCEPT !["prekeys"] = {}]
    /\ held' = {} /\ confirmed' = FALSE
    /\ UNCHANGED <<identity, sentinel, wraps, pending, registered, told, vaultCounts, unmarked,
                   strays>>

WipeSessions(t) == Wipe(t, "wipeSessions", "sessions")
DropAccount(t) == Wipe(t, "dropAccount", "account")

\* wipeLocalData: the pending renames and deletes stay.
WipeContacts(t) == Wipe(t, "wipeContacts", "contacts")

PutStaged(t, step, s) ==
    /\ Doing(t, step) /\ Done(t)
    /\ sealed' = [sealed EXCEPT ![s] = {[ldk |-> tab[t].ldk, of |-> InFile]}]
    /\ UNCHANGED <<identity, sentinel, wraps, pending, confirmed, vaultRelay, told, vaultCounts,
                   unmarked, strays>>

PutContacts(t) == PutStaged(t, "putContacts", "contacts")
PutHistory(t) == PutStaged(t, "putHistory", "sessions")

WriteIdentity(t) ==
    /\ \/ Doing(t, "dropIdentity") /\ identity' = 0
       \/ Doing(t, "putIdentity") /\ identity' = InFile
    /\ Done(t)
    /\ UNCHANGED <<sentinel, wraps, pending, sealed, confirmed, vaultRelay, told, vaultCounts,
                   unmarked, strays>>

WriteMarks(t) ==
    /\ \/ Doing(t, "flag") /\ pending' = TRUE /\ UNCHANGED sentinel
       \/ Doing(t, "unflag") /\ pending' = FALSE /\ UNCHANGED sentinel
       \/ Doing(t, "mark") /\ sentinel' = TRUE /\ UNCHANGED pending
       \/ Doing(t, "unmark") /\ sentinel' = FALSE /\ UNCHANGED pending
    /\ Done(t)
    /\ UNCHANGED <<identity, wraps, sealed, confirmed, vaultRelay, told, vaultCounts, unmarked, strays>>

\* AppLockStore.reset: the record and the key in memory.
DropLock(t) ==
    /\ Doing(t, "dropLock")
    /\ wraps' = NoWraps
    /\ tab' = [tab EXCEPT ![t].todo = Tail(@), ![t].ldk = 0]
    /\ UNCHANGED <<identity, sentinel, pending, sealed, confirmed, vaultRelay, told, vaultCounts,
                   unmarked, strays>>

TellOthers(t) ==
    /\ Doing(t, "tell") /\ Done(t) /\ Tell(t)
    /\ UNCHANGED <<vaultDisk, vaultRelay, vaultCounts, unmarked, strays>>

Finish(t) ==
    /\ \/ Doing(t, "reload") /\ tab' = [tab EXCEPT ![t] = ClosedTab]
       \/ /\ Doing(t, "enrollAgain")
          /\ tab' = [tab EXCEPT ![t].todo = <<>>, ![t].phase = "enroll", ![t].file = "none"]
       \/ /\ Doing(t, "leave")
          /\ tab' = [tab EXCEPT ![t].todo = <<>>, ![t].phase = "left", ![t].file = "none"]
    /\ UNCHANGED <<vaultDisk, vaultRelay, told, vaultCounts, unmarked, strays>>

Stepping(t) ==
    \/ WipeSessions(t) \/ WipeContacts(t) \/ DropPrekeys(t) \/ DropAccount(t)
    \/ PutContacts(t) \/ PutHistory(t) \/ WriteIdentity(t) \/ WriteMarks(t)
    \/ DropLock(t) \/ TellOthers(t) \/ Finish(t)

---------------------------------------------------------------------------
(* Boot, enrolment, unlocking. *)

\* Mutant: an empty store always gets an identity.
BootstrapRegenerates ==
    IF identity # 0 THEN UNCHANGED identity /\ UNCHANGED generated /\ sentinel' = TRUE
    ELSE /\ generated < MaxIdentities /\ generated' = generated + 1
         /\ identity' = InFile + generated' /\ sentinel' = TRUE

\* bootstrapIdentity: nothing here but the sentinel means that the browser cleared
\* the store, and no identity is made in its place.
Bootstrap ==
    IF identity # 0 THEN UNCHANGED identity /\ UNCHANGED generated /\ sentinel' = TRUE
    ELSE IF sentinel THEN UNCHANGED <<identity, generated, sentinel>>
    ELSE /\ generated < MaxIdentities /\ generated' = generated + 1
         /\ identity' = InFile + generated' /\ sentinel' = TRUE

Boot(t) ==
    /\ tab[t].phase = "closed" /\ IdentityFree
    /\ Bootstrap
    /\ tab' = [tab EXCEPT ![t] =
                  [ClosedTab EXCEPT !.id = identity',
                     !.phase = IF identity' = 0 THEN "evicted"
                               ELSE IF Configured THEN "locked" ELSE "enroll"]]
    /\ strays' = Crossing(t)
    /\ UNCHANGED <<wraps, pending, sealed, confirmed, vaultRelay, told, ldks, upheavals,
                   unmarked>>

\* Under the lock, with the other tabs told.  The mark is gone where a linked device's reset
\* or an erasure by another page took it away.
StageBegins(t) == IdentityFree /\ Tell(t) /\ unmarked' = (unmarked \/ ~sentinel)

\* With the key in hand: the staged file, else the client.  An unreadable account
\* key or contact list is an error the page shows.
Proceed(t, ldk) ==
    LET opens == \A x \in sealed["account"] \union sealed["contacts"] : x.ldk = ldk
    IN  IF tab[t].file # "none"
        THEN /\ StageBegins(t)
             /\ tab' = [tab EXCEPT ![t].ldk = ldk, ![t].todo = StageSteps(tab[t].file)]
        ELSE /\ tab' = [tab EXCEPT ![t].ldk = ldk, ![t].shown = TRUE,
                                   ![t].phase = IF opens THEN "open" ELSE "error"]
             /\ UNCHANGED <<told, unmarked>>

\* One key, wrapped under every method that was chosen.
EnrolledWraps == {[pass |-> ldks', bio |-> bio] : bio \in {0, ldks'}}

\* A lockReset is heard before a person has typed a new passcode elsewhere.
Enroll(t) ==
    /\ tab[t].phase = "enroll" /\ tab[t].todo = <<>>
    /\ ~Configured /\ told = {}
    /\ ldks < MaxLdks /\ ldks' = ldks + 1
    /\ wraps' \in EnrolledWraps
    /\ Proceed(t, ldks')
    /\ strays' = Crossing(t)
    /\ UNCHANGED <<identity, sentinel, pending, sealed, confirmed, vaultRelay, generated, upheavals>>

\* The key behind the passphrase, or behind the fingerprint.
Unwrapped == {wraps.pass, wraps.bio} \ {0}

Unlock(t) ==
    /\ tab[t].phase = "locked" /\ tab[t].todo = <<>>
    /\ \E ldk \in Unwrapped : Proceed(t, ldk)
    /\ strays' = Crossing(t)
    /\ UNCHANGED <<vaultDisk, vaultRelay, vaultCounts>>

Locked(t) == [tab EXCEPT ![t].ldk = 0, ![t].phase = "locked"]

\* Idle, or by hand.
LockNow(t) ==
    /\ Live(t)
    /\ tab' = Locked(t)
    /\ told' = told \ {t}
    /\ UNCHANGED <<vaultDisk, vaultRelay, vaultCounts, unmarked, strays>>

\* Mutant: a sibling's reset goes unheard.
HearNothing(t) ==
    /\ t \in told /\ told' = told \ {t}
    /\ UNCHANGED <<vaultDisk, vaultRelay, tab, vaultCounts, unmarked, strays>>

\* The channel of a client that is up; the others have closed theirs.
HearReset(t) ==
    /\ t \in told
    /\ told' = told \ {t}
    /\ IF Live(t) THEN tab' = Locked(t) ELSE UNCHANGED tab
    /\ UNCHANGED <<vaultDisk, vaultRelay, vaultCounts, unmarked, strays>>

\* changeKnowledge and addBiometric wrap the key the tab holds; removeBiometric drops one.
Rewrapped(t) ==
    {[wraps EXCEPT !.pass = tab[t].ldk], [wraps EXCEPT !.bio = tab[t].ldk], [wraps EXCEPT !.bio = 0]}

Rewrap(t) ==
    /\ Live(t) /\ Configured
    /\ wraps' \in Rewrapped(t)
    /\ wraps' # wraps
    /\ strays' = Stray(t)
    /\ UNCHANGED <<identity, sentinel, pending, sealed, confirmed, vaultRelay, tab, told,
                   vaultCounts, unmarked>>

---------------------------------------------------------------------------
(* A live tab writes. *)

\* Rows of their own in the session store, whole blobs elsewhere.
Save(t, s) ==
    /\ Live(t) /\ s \in {"sessions", "contacts", "markers"}
    /\ s = "sessions" \/ CanRead(t, s)
    /\ sealed' = [sealed EXCEPT ![s] = IF s = "sessions" THEN @ \union {Mine(t)} ELSE {Mine(t)}]
    /\ sealed' # sealed
    /\ strays' = Stray(t)
    /\ UNCHANGED <<identity, sentinel, wraps, pending, confirmed, vaultRelay, tab, told, vaultCounts,
                   unmarked>>

\* A pending rename or delete is done.
ClearMarkers(t) ==
    /\ Live(t) /\ sealed["markers"] # {} /\ CanRead(t, "markers")
    /\ sealed' = [sealed EXCEPT !["markers"] = {}]
    /\ UNCHANGED <<identity, sentinel, wraps, pending, confirmed, vaultRelay, tab, told, vaultCounts,
                   unmarked, strays>>

\* Mutant: the registration counts as confirmed once it is saved.
PublishedUnheard(t, heard) ==
    /\ sealed' = [sealed EXCEPT !["prekeys"] = {Mine(t)}]
    /\ confirmed' = TRUE
    /\ \/ registered' = registered \union {tab[t].id} /\ held' = held \union {tab[t].id}
       \/ ~heard /\ UNCHANGED <<registered, held>>

\* Fresh prekeys are saved, then published: the request or its answer may be lost.
Published(t, heard) ==
    /\ sealed' = [sealed EXCEPT !["prekeys"] = {Mine(t)}]
    /\ confirmed' = heard
    /\ \/ registered' = registered \union {tab[t].id} /\ held' = held \union {tab[t].id}
       \/ ~heard /\ UNCHANGED <<registered, held>>

\* register with an invite, reregister after a restore, and maybeRotateSpk, which
\* registers again when there are no prekeys or the last answer was not heard.
Register(t) ==
    /\ Live(t)
    /\ tab[t].id \notin registered \/ pending \/ sealed["prekeys"] = {} \/ ~confirmed
    /\ CanRead(t, "prekeys")
    /\ \E heard \in BOOLEAN : Published(t, heard)
    /\ strays' = Stray(t)
    /\ UNCHANGED <<identity, sentinel, wraps, pending, tab, told, vaultCounts, unmarked>>

\* completeRestoreIfPending, once reregister has its answer.
CompleteRestore(t) ==
    /\ Live(t) /\ pending /\ tab[t].id \in registered
    /\ confirmed /\ Mine(t) \in sealed["prekeys"]
    /\ pending' = FALSE
    /\ UNCHANGED <<identity, sentinel, wraps, sealed, confirmed, vaultRelay, tab, told,
                   vaultCounts, unmarked, strays>>

\* stageLink on a device with no registration of its own, then registerAsDevice.
Link(t) ==
    /\ Live(t) /\ tab[t].id \notin registered /\ IdentityFree
    /\ Upheaval
    /\ sealed' = [sealed EXCEPT !["account"] = {Mine(t)}, !["contacts"] = {Mine(t)},
                                !["prekeys"] = {Mine(t)}]
    /\ confirmed' = TRUE
    /\ registered' = registered \union {tab[t].id} /\ held' = held \union {tab[t].id}
    /\ strays' = Stray(t)
    /\ UNCHANGED <<identity, sentinel, wraps, pending, tab, told, ldks, generated, unmarked>>

---------------------------------------------------------------------------
(* Files, resets, erasure. *)

\* restoreFromBackup: offered by the restore screen and by onboarding.  The client
\* goes down; a tab that holds the key stages at once.
OpenFile(t, kind) ==
    /\ tab[t].todo = <<>> /\ Upheaval
    /\ \/ tab[t].phase = "evicted"
       \/ tab[t].phase = "open" /\ tab[t].id \notin registered
       \/ tab[t].phase = "left" /\ tab[t].shown
    /\ IF tab[t].ldk # 0
       THEN /\ StageBegins(t)
            /\ tab' = [tab EXCEPT ![t].id = InFile, ![t].file = kind,
                                  ![t].phase = "locked", ![t].todo = StageSteps(kind)]
       ELSE /\ tab' = [tab EXCEPT ![t].id = InFile, ![t].file = kind,
                                  ![t].phase = IF Configured THEN "locked" ELSE "enroll"]
            /\ UNCHANGED <<told, unmarked>>
    /\ strays' = Crossing(t)
    /\ UNCHANGED <<vaultDisk, vaultRelay, ldks, generated>>

\* Offered by the lock screen.
ResetLock(t) ==
    /\ tab[t].phase = "locked" /\ tab[t].todo = <<>>
    /\ Upheaval
    /\ LET linked == sealed["account"] # {} IN
           tab' = [tab EXCEPT ![t].todo = ResetSteps(linked)]
    /\ strays' = Crossing(t)
    /\ UNCHANGED <<vaultDisk, vaultRelay, told, ldks, generated, unmarked>>

EraseThisDevice(t) ==
    /\ Live(t) /\ tab[t].id \in registered
    /\ Upheaval
    /\ tab' = [tab EXCEPT ![t].todo = EraseSteps, ![t].phase = "locked"]
    /\ strays' = Crossing(t)
    /\ UNCHANGED <<vaultDisk, vaultRelay, told, ldks, generated, unmarked>>

\* The page is closed or reloaded, whatever it was doing.
Close(t) ==
    /\ tab[t].phase # "closed" /\ Upheaval
    /\ tab' = [tab EXCEPT ![t] = ClosedTab]
    /\ told' = told \ {t}
    /\ strays' = (strays \/ (Contains(tab[t].todo, "tell") /\ \E u \in Tab \ {t} : Live(u)))
    /\ UNCHANGED <<vaultDisk, vaultRelay, ldks, generated, unmarked>>

\* The browser clears its database, and leaves the mark, or not.
Evict ==
    /\ \A t \in Tab : tab[t].phase = "closed"
    /\ identity # 0 /\ Upheaval
    /\ identity' = 0 /\ sentinel' \in {FALSE, sentinel} /\ wraps' = NoWraps
    /\ pending' = FALSE /\ confirmed' = FALSE /\ held' = {}
    /\ sealed' = [s \in Store |-> {}]
    /\ UNCHANGED <<registered, tab, told, ldks, generated, unmarked, strays>>

---------------------------------------------------------------------------
\* A first visit; the file was made by a device that is registered.
VaultInit ==
    /\ identity = 0 /\ sentinel = FALSE /\ wraps = NoWraps /\ pending = FALSE
    /\ sealed = [s \in Store |-> {}]
    /\ registered = {InFile} /\ held = {} /\ confirmed = FALSE
    /\ tab = [t \in Tab |-> ClosedTab] /\ told = {}
    /\ ldks = 0 /\ generated = 0 /\ upheavals = 0
    /\ unmarked = FALSE /\ strays = FALSE

VaultNext ==
    \/ Evict
    \/ \E t \in Tab :
           \/ Stepping(t)
           \/ Boot(t) \/ Enroll(t) \/ Unlock(t) \/ LockNow(t) \/ HearReset(t) \/ Rewrap(t)
           \/ \E s \in Store : Save(t, s)
           \/ ClearMarkers(t) \/ Register(t) \/ CompleteRestore(t) \/ Link(t)
           \/ \E kind \in {"backup", "move"} : OpenFile(t, kind)
           \/ ResetLock(t) \/ EraseThisDevice(t) \/ Close(t)

VaultSpec == VaultInit /\ [][VaultNext]_vaultVars

---------------------------------------------------------------------------
Identity == 0 .. InFile + MaxIdentities
Sealed == [ldk : 0 .. MaxLdks, of : Identity]
Steps == {"dropIdentity", "wipeSessions", "wipeContacts", "dropPrekeys", "dropAccount", "flag",
          "unflag", "putContacts", "putHistory", "putIdentity", "mark", "unmark", "dropLock",
          "tell", "reload", "leave", "enrollAgain"}

VaultTypeOK ==
    /\ identity \in Identity /\ {sentinel, pending, confirmed, unmarked, strays} \subseteq BOOLEAN
    /\ wraps \in [pass : 0 .. MaxLdks, bio : 0 .. MaxLdks]
    /\ sealed \in [Store -> SUBSET Sealed]
    /\ registered \subseteq Identity /\ held \subseteq registered
    /\ told \subseteq Tab
    /\ \A t \in Tab :
          /\ tab[t].phase \in Phase /\ tab[t].ldk \in 0 .. MaxLdks /\ tab[t].id \in Identity
          /\ tab[t].file \in {"none", "backup", "move"} /\ Range(tab[t].todo) \subseteq Steps
    /\ \A t, u \in Tab : Contains(tab[t].todo, "putIdentity")
                            /\ Contains(tab[u].todo, "putIdentity") => t = u

Quiet == \A t \in Tab : tab[t].todo = <<>>

\* The identity is the commit point of a restore: whatever this device holds is the
\* identity's, at whichever step the page was closed (restore.ts, its header).  Not if
\* the file was staged where the mark was gone, nor if a tab of another time wrote.
HoldsItsOwn ==
    identity # 0 /\ Quiet /\ ~unmarked /\ ~strays
        => \A s \in Store \ {"markers"} : \A x \in sealed[s] : x.of = identity

\* The keys of the prekeys the relay serves are on this device, or the next connect
\* publishes fresh ones: the restore flag is set, none are stored, or the last
\* registration is unconfirmed (useNightjar.ts completeRestoreIfPending, client.ts
\* maybeRotateSpk).
RestoreRepublishes ==
    identity \in registered /\ Quiet /\ ~strays =>
        identity \in held \/ pending \/ sealed["prekeys"] = {} \/ ~confirmed

\* The lock on disk opens what is on disk: all methods wrap one key, and nothing that
\* boot reads is sealed under another (appLockStore.ts enroll, useNightjar.ts resetLock).
LockOpensAll ==
    Configured /\ Quiet /\ ~strays =>
        /\ wraps.bio \in {0, wraps.pass}
        /\ \A s \in Store \ {"markers"} : \A x \in sealed[s] : x.ldk = wraps.pass

\* A browser that ever held an identity never makes another by itself, unless the user
\* erased it or left the account (persist.ts detectStartupState).
NeverRegenerates ==
    [][generated' # generated /\ generated > 0 => ~sentinel]_vaultVars

\* What a device holds is of one identity, under the one key its lock opens, and it never
\* makes itself another identity (restore.ts, appLockStore.ts, persist.ts).
KeepsItsIdentity == [](HoldsItsOwn /\ LockOpensAll) /\ NeverRegenerates

\* What the comment of wipeLocalData says: everything sealed under the discarded key
\* "MUST be cleared".
ResetClearsAll ==
    \A t \in Tab : tab[t].phase = "enroll" /\ Quiet /\ ~strays /\ ~Configured
        => \A s \in Store : sealed[s] = {}

\* What the header of restore.ts says: "A crash anywhere before it leaves no identity +
\* a marked sentinel, which boot routes to the restore screen".
CrashIsRouted ==
    \A t \in Tab : Contains(tab[t].todo, "putIdentity") /\ identity = 0 => sentinel
=============================================================================
