------------------------------- MODULE Trust -------------------------------
(***************************************************************************)
(* How far one device trusts each person, and which of them it knows at    *)
(* all: src/src/trust/contactStore.ts with, in src/src/net/client.ts, the  *)
(* invites, the parked records and the relay's list of who joined, and the *)
(* verify screen (src/src/ui/SafetyNumber.tsx,                             *)
(* src/src/crypto/safetyNumberQr.ts).                                      *)
(*                                                                         *)
(* A person's id is the hash of their key, so a record never changes its   *)
(* key; what a rotation does to it is the action RenameAccount.  Each      *)
(* await is a step of its own, the blobs are written under one lock.       *)
(***************************************************************************)
EXTENDS Naturals, FiniteSets, Sequences, SequencesExt

CONSTANTS
    Person,
    Inviter,        \* whose invite the user was given
    Joiner,         \* who redeemed an invite of the user's
    Rotation,       \* pairs of ids, old and new, of people who rotate
    Ttl,            \* INVITE_TTL_MS, and so DISMISSAL_TTL_MS
    PurgeDelay,     \* how much later the relay's purge of redemptions can run
    MaxDismissals, MaxParked,
    MaxClock,       \* bound: the clock
    MaxMishaps      \* bound: writes and fetches that fail, cuts

Noone == "no one"
ASSUME TrustAssumption ==
    /\ Noone \notin Person /\ Inviter \in Person /\ Joiner \subseteq Person /\ IsFiniteSet(Person)
    /\ Rotation \subseteq Person \X Person
    /\ Ttl \in Nat \ {0}
    /\ {PurgeDelay, MaxDismissals, MaxParked, MaxClock, MaxMishaps} \subseteq Nat

Levels == {"none", "unverified", "invite", "verified"}
Verdicts == {"unseen", "match", "self", "mismatch"}

VARIABLES
    level,       \* the contact records: "none" where there is none
    mark,        \* dismissals: [Person -> [at, auto]], at = 0 for none
    parked,      \* pending trust: the records, oldest first
    pin,         \* pending trust: the inviter
    landing,     \* RAM: flushPendingTrust, the records and pin it read
    syncing,     \* RAM: syncInviteContacts, the joiners it read and is fetching
    leaving,     \* RAM: a removal between its writes
    panel,       \* RAM: the verify screen
    theirs,      \* people whose device computes another number: a key of either is stale
    retired,     \* ids that were rotated away
    listed,      \* relay: the joiners whose redemption is still there
    clock,
    confirmed,   \* history: people the user compared numbers with, and did not unverify
    invited,     \* history: people whose invite the user used
    deletedAt,   \* history: when the user deleted a person, 0 for those who came back by
                 \* themselves or by the user, or whose mark had to make room
    mishaps

trustVars == <<level, mark, parked, pin, landing, syncing, leaving, panel, theirs, retired, listed,
               clock, confirmed, invited, deletedAt, mishaps>>
records == <<level, mark>>
ledger == <<parked, pin>>
inFlight == <<landing, syncing, leaving>>
world == <<theirs, retired, listed, clock>>
pasts == <<confirmed, invited, deletedAt>>

NotLanding == [busy |-> FALSE, left |-> <<>>, landed |-> Noone, pin |-> Noone]
NotSyncing == [busy |-> FALSE, left |-> {}, fetching |-> Noone]
Shut == [on |-> Noone, verdict |-> "unseen", asking |-> FALSE]

\* An id is somebody's from a rotation, or until one.
Alive(p) == p \notin retired /\ \A r \in Rotation : r[2] = p => r[1] \in retired

Mishap == mishaps < MaxMishaps /\ mishaps' = mishaps + 1

---------------------------------------------------------------------------
(* The contact store. *)

\* loadDismissals: a mark that is too old is not read.
Dismissed(p) == mark[p].at # 0 /\ clock < mark[p].at + Ttl

\* mutateWithDismissals: the newest are kept.
Newer(marks, p) == {q \in Person : marks[q].at > marks[p].at}
Trimmed(marks) ==
    [p \in Person |->
        IF clock >= marks[p].at + Ttl \/ Cardinality(Newer(marks, p)) >= MaxDismissals
        THEN [at |-> 0, auto |-> FALSE] ELSE marks[p]]

\* Mutant: an inviter is raised to "invite" from wherever they were.
RaisedAlways(old, trust) == IF old = "none" \/ trust = "invite" THEN trust ELSE old

Raised(old, trust) ==
    CASE old = "none" -> trust
      [] old = "unverified" /\ trust = "invite" -> "invite"
      [] OTHER -> old

\* recordFirstContact.  The relay's own suggestions are refused for somebody deleted
\* here; a record made otherwise lifts the mark.
Recorded(p, trust, relayDriven) ==
    IF relayDriven /\ Dismissed(p) /\ mark[p].auto
    THEN UNCHANGED records
    ELSE /\ level' = [level EXCEPT ![p] = Raised(@, trust)]
         /\ mark' = IF level[p] = "none" THEN Trimmed([mark EXCEPT ![p].auto = FALSE])
                                          ELSE mark

\* The person, or the user, wants them here.
Welcome(p) == deletedAt' = [deletedAt EXCEPT ![p] = 0]

\* What the removal of a person does at once: the record goes, the mark comes.  The
\* oldest mark makes room for it: "bound, newest kept".
Marked(p) == [mark EXCEPT ![p] = [at |-> clock, auto |-> TRUE]]
PushedOut(marks) ==
    {p \in Person : marks[p].at # 0 /\ clock < marks[p].at + Ttl
                        /\ Cardinality(Newer(marks, p)) >= MaxDismissals}
Dismiss(p) ==
    /\ level' = [level EXCEPT ![p] = "none"]
    /\ mark' = Trimmed(Marked(p))
    /\ deletedAt' = [q \in Person |-> IF q \in PushedOut(Marked(p)) THEN 0
                                      ELSE IF q = p THEN clock ELSE deletedAt[q]]

\* Marks are made at different moments, after the people joined.
Distinct == clock > 1 /\ \A q \in Person : mark[q].at # clock /\ deletedAt[q] # clock

\* It is cut short, or goes on with the ledger in a second write.  A removal of somebody
\* who is no contact finishes one that was cut.
RemoveContact(p) ==
    /\ leaving = Noone /\ Distinct /\ Alive(p)
    /\ Dismiss(p)
    /\ leaving' = p
    /\ confirmed' = confirmed \ {p}
    /\ panel' = IF panel.on = p THEN Shut ELSE panel
    /\ UNCHANGED <<ledger, landing, syncing, world, invited, mishaps>>

\* The ledger has nobody twice.
Without(q, p) == IF Contains(q, p) THEN RemoveAt(q, CHOOSE i \in DOMAIN q : q[i] = p) ELSE q

RemoveFromLedger ==
    /\ leaving # Noone
    /\ parked' = Without(parked, leaving)
    /\ pin' = IF pin = leaving THEN Noone ELSE pin
    /\ leaving' = Noone
    /\ UNCHANGED <<records, landing, syncing, panel, world, pasts, mishaps>>

\* Mutant: the trust goes with the name.
RenamedTrust(p) == level[p]

RenamedLevel(p) == "unverified"

\* renameAccount: the person is a new key, which nobody has compared.
RenameAccount(p, q) ==
    /\ <<p, q>> \in Rotation /\ level[p] # "none" /\ level[q] = "none"
    /\ level' = [level EXCEPT ![q] = RenamedLevel(p), ![p] = "none"]
    /\ mark' = [mark EXCEPT ![q] = IF @.at = 0 THEN mark[p] ELSE @, ![p] = [at |-> 0, auto |-> FALSE]]
    /\ confirmed' = confirmed \ {p}
    /\ deletedAt' = [deletedAt EXCEPT ![q] = 0]
    /\ panel' = IF panel.on = p THEN Shut ELSE panel
    /\ retired' = retired \union {p}
    /\ UNCHANGED <<ledger, inFlight, theirs, listed, clock, invited, mishaps>>

---------------------------------------------------------------------------
(* First contacts. *)

\* mutatePendingTrust.
Newest(q) == SubSeq(q, IF Len(q) > MaxParked THEN Len(q) - MaxParked + 1 ELSE 1, Len(q))

\* handleInitial: a message made a session, the record of its sender follows, and is
\* parked when it cannot be written.
HearInitial(p) ==
    /\ Alive(p)
    /\ \/ Recorded(p, "unverified", FALSE) /\ UNCHANGED <<ledger, mishaps>>
       \/ /\ Mishap
          /\ parked' = IF Contains(parked, p) THEN parked ELSE Newest(Append(parked, p))
          /\ UNCHANGED <<records, pin>>
    /\ Welcome(p)
    /\ UNCHANGED <<inFlight, panel, world, confirmed, invited>>

\* openFromCode with somebody's id; who is a contact already is only opened.
AddContact(p) ==
    /\ Alive(p) /\ level[p] = "none"
    /\ Recorded(p, "unverified", FALSE) /\ Welcome(p)
    /\ UNCHANGED <<ledger, inFlight, panel, world, confirmed, invited, mishaps>>

\* addInviteContact: the inviter's key is fetched, and they are recorded by it.
AddInviteContact == Recorded(Inviter, "invite", FALSE) /\ UNCHANGED <<pin, mishaps>>

Invited ==
    /\ Welcome(Inviter)
    /\ invited' = invited \union {Inviter}
    /\ UNCHANGED <<parked, inFlight, panel, world, confirmed>>

\* Who joins with an invite is registered by then, so the pin is parked if this fails.
Join ==
    /\ \/ AddInviteContact
       \/ /\ Mishap /\ Inviter \notin invited
          /\ pin' = Inviter /\ UNCHANGED records
    /\ Invited

\* A member opens an invite as a code; nothing is kept of one that fails.
OpenFromCode == AddInviteContact /\ Invited

---------------------------------------------------------------------------
(* flushPendingTrust, on every connect: works on the ledger it read first. *)

BeginFlush ==
    /\ ~landing.busy /\ (parked # <<>> \/ pin # Noone)
    /\ landing' = [busy |-> TRUE, left |-> parked, landed |-> Noone, pin |-> pin]
    /\ UNCHANGED <<records, ledger, syncing, leaving, panel, world, pasts, mishaps>>

\* One that cannot be written stays parked.
LandRecord ==
    /\ landing.left # <<>> /\ landing.landed = Noone
    /\ \/ /\ Recorded(Head(landing.left), "unverified", TRUE)
          /\ landing' = [landing EXCEPT !.landed = Head(landing.left)] /\ UNCHANGED mishaps
       \/ /\ Mishap
          /\ landing' = [landing EXCEPT !.left = Tail(@)] /\ UNCHANGED records
    /\ UNCHANGED <<ledger, syncing, leaving, panel, world, pasts>>

Unpark ==
    /\ landing.left # <<>> /\ landing.landed # Noone
    /\ parked' = Without(parked, landing.landed)
    /\ landing' = [landing EXCEPT !.left = Tail(@), !.landed = Noone]
    /\ UNCHANGED <<records, pin, syncing, leaving, panel, world, pasts, mishaps>>

LandPin ==
    /\ landing.busy /\ landing.left = <<>> /\ landing.pin # Noone /\ landing.landed = Noone
    /\ \/ /\ Recorded(landing.pin, "invite", TRUE)
          /\ landing' = [landing EXCEPT !.landed = landing.pin] /\ UNCHANGED mishaps
       \/ Mishap /\ landing' = NotLanding /\ UNCHANGED records
    /\ UNCHANGED <<ledger, syncing, leaving, panel, world, pasts>>

EndFlush ==
    /\ landing.busy /\ landing.left = <<>>
    /\ landing.pin = Noone \/ landing.landed # Noone
    /\ pin' = IF landing.landed # Noone THEN Noone ELSE pin
    /\ landing' = NotLanding
    /\ UNCHANGED <<records, parked, syncing, leaving, panel, world, pasts, mishaps>>

---------------------------------------------------------------------------
(* syncInviteContacts: whoever joined becomes a contact. *)

BeginSync ==
    /\ ~syncing.busy
    /\ syncing' = [busy |-> TRUE, left |-> {p \in listed : level[p] = "none"}, fetching |-> Noone]
    /\ syncing'.left # {}
    /\ UNCHANGED <<records, ledger, landing, leaving, panel, world, pasts, mishaps>>

\* Nothing is fetched for somebody deleted here.
PickJoiner(p) ==
    /\ p \in syncing.left /\ syncing.fetching = Noone
    /\ syncing' = [syncing EXCEPT !.left = @ \ {p}, !.fetching = IF Dismissed(p)
                                                                THEN Noone ELSE p]
    /\ UNCHANGED <<records, ledger, landing, leaving, panel, world, pasts, mishaps>>

\* Mutant: the check made before the fetch is enough.
ByRelayUnguarded == FALSE

ByRelay == TRUE

LandJoiner ==
    /\ syncing.fetching # Noone
    /\ \/ Recorded(syncing.fetching, "unverified", ByRelay) /\ UNCHANGED mishaps
       \/ Mishap /\ UNCHANGED records
    /\ syncing' = [syncing EXCEPT !.fetching = Noone]
    /\ UNCHANGED <<ledger, landing, leaving, panel, world, pasts>>

EndSync ==
    /\ syncing.busy /\ syncing.left = {} /\ syncing.fetching = Noone
    /\ syncing' = NotSyncing
    /\ UNCHANGED <<records, ledger, landing, leaving, panel, world, pasts, mishaps>>

---------------------------------------------------------------------------
(* Comparing safety numbers. *)

\* Mutant: equal digits are a match, whoever shows them.
VerdictByDigits(shown, p) == IF shown = "theirs" /\ p \in theirs THEN "mismatch" ELSE "match"

\* compareScannedSafetyNumber: the digits, then who the code says it is shown by.
Verdict(shown, p) ==
    CASE shown = "theirs" /\ p \in theirs -> "mismatch"
      [] shown = "mine" -> "self"
      [] OTHER -> "match"

\* ensureContact: somebody who is no contact yet is added by their id.
EnsureContact(p) ==
    IF level[p] # "none" THEN UNCHANGED <<records, deletedAt>>
    ELSE Recorded(p, "unverified", FALSE) /\ Welcome(p)

OpenPanel(p) ==
    /\ panel = Shut /\ (level[p] # "none" \/ Alive(p))
    /\ EnsureContact(p)
    /\ panel' = [Shut EXCEPT !.on = p]
    /\ UNCHANGED <<ledger, inFlight, world, confirmed, invited, mishaps>>

\* The code on either screen is in front of the camera.
Scan(shown) ==
    /\ panel.on # Noone
    /\ panel' = [panel EXCEPT !.verdict = Verdict(shown, panel.on), !.asking = FALSE]
    /\ UNCHANGED <<records, ledger, inFlight, world, pasts, mishaps>>

\* "mark as verified", "cancel", and "back".
AskOrLeave ==
    /\ panel.on # Noone
    /\ panel' \in {[panel EXCEPT !.asking = level[panel.on] # "verified" /\ ~@], Shut}
    /\ UNCHANGED <<records, ledger, inFlight, world, pasts, mishaps>>

\* markVerified, of a person whose code matched or whose digits the user compared.
MarkVerified ==
    /\ panel.asking
    /\ panel.verdict = "match" \/ panel.on \notin theirs
    /\ level[panel.on] # "none"
    /\ level' = [level EXCEPT ![panel.on] = "verified"]
    /\ confirmed' = confirmed \union {panel.on}
    /\ panel' = [panel EXCEPT !.asking = FALSE]
    /\ UNCHANGED <<mark, ledger, inFlight, world, invited, deletedAt, mishaps>>

Unverify ==
    /\ panel.on # Noone /\ level[panel.on] = "verified"
    /\ level' = [level EXCEPT ![panel.on] = "unverified"]
    /\ confirmed' = confirmed \ {panel.on}
    /\ panel' = [panel EXCEPT !.verdict = "unseen"]
    /\ UNCHANGED <<mark, ledger, inFlight, world, invited, deletedAt, mishaps>>

---------------------------------------------------------------------------
(* Everything else. *)

\* A person learns the user's key, or the user's device theirs.
CatchUp(p) ==
    /\ theirs' = theirs \ {p} /\ theirs' # theirs
    /\ UNCHANGED <<records, ledger, inFlight, panel, retired, listed, clock, pasts, mishaps>>

\* The page is closed.  A deletion that was cut is promised once it was resumed.
Cut ==
    /\ Mishap
    /\ landing' = NotLanding /\ syncing' = NotSyncing /\ leaving' = Noone /\ panel' = Shut
    /\ deletedAt' = [p \in Person |-> IF p = leaving THEN 0 ELSE deletedAt[p]]
    /\ UNCHANGED <<records, ledger, world, confirmed, invited>>

\* Everybody joined at 1.  The alarm drops a redemption that is older than INVITE_TTL_MS,
\* at the latest PurgeDelay after that.
Purged(now) ==
    IF now <= 1 + Ttl THEN {listed}
    ELSE IF now <= 1 + Ttl + PurgeDelay THEN {listed, {}} ELSE {{}}

\* What is in flight ends within a minute.
Tick ==
    /\ clock < MaxClock
    /\ ~landing.busy /\ ~syncing.busy /\ leaving = Noone /\ panel = Shut
    /\ clock' = clock + 1 /\ listed' \in Purged(clock')
    /\ UNCHANGED <<records, ledger, inFlight, panel, theirs, retired, pasts, mishaps>>

TrustInit ==
    /\ level = [p \in Person |-> "none"]
    /\ mark = [p \in Person |-> [at |-> 0, auto |-> FALSE]]
    /\ parked = <<>> /\ pin = Noone
    /\ landing = NotLanding /\ syncing = NotSyncing /\ leaving = Noone /\ panel = Shut
    /\ retired = {} /\ theirs \in SUBSET {p \in Person : Alive(p)} /\ listed = Joiner /\ clock = 1
    /\ confirmed = {} /\ invited = {} /\ deletedAt = [p \in Person |-> 0] /\ mishaps = 0

TrustNext ==
    \/ RemoveFromLedger \/ Join \/ OpenFromCode
    \/ BeginFlush \/ LandRecord \/ Unpark \/ LandPin \/ EndFlush
    \/ BeginSync \/ LandJoiner \/ EndSync
    \/ AskOrLeave \/ MarkVerified \/ Unverify \/ Cut \/ Tick
    \/ \E shown \in {"mine", "theirs"} : Scan(shown)
    \/ \E p \in Person :
           \/ RemoveContact(p) \/ HearInitial(p) \/ AddContact(p) \/ PickJoiner(p) \/ OpenPanel(p)
           \/ CatchUp(p) \/ \E q \in Person : RenameAccount(p, q)

TrustSpec == TrustInit /\ [][TrustNext]_trustVars

---------------------------------------------------------------------------
TrustTypeOK ==
    /\ level \in [Person -> Levels]
    /\ mark \in [Person -> [at : 0 .. MaxClock, auto : BOOLEAN]]
    /\ Cardinality({p \in Person : mark[p].at # 0}) <= MaxDismissals
    /\ parked \in Seq(Person) /\ Len(parked) <= MaxParked /\ IsInjective(parked)
    /\ pin \in {Inviter, Noone} /\ leaving \in Person \union {Noone}
    /\ landing \in [busy : BOOLEAN, left : Seq(Person), landed : Person \union {Noone},
                    pin : {Inviter, Noone}]
    /\ syncing \in [busy : BOOLEAN, left : SUBSET Joiner, fetching : Joiner \union {Noone}]
    /\ panel \in [on : Person \union {Noone}, verdict : Verdicts, asking : BOOLEAN]
    /\ listed \subseteq Joiner /\ theirs \subseteq Person /\ clock \in Nat

\* A contact is shown as verified exactly when the user compared the number of that
\* very key and did not take it back, and then both devices computed the same number;
\* and as invited only if the user used an invite of theirs (contactStore.ts
\* recordFirstContact, renameAccount; SafetyNumber.tsx).
TrustIsEarned ==
    /\ \A p \in Person : level[p] = "verified" <=> p \in confirmed
    /\ confirmed \intersect theirs = {}
    /\ \A p \in Person : level[p] = "invite" => p \in invited

\* The relay's alarm may run so late that the mark of this person ages before it.
PurgedLate(p) == p \in Joiner /\ deletedAt[p] <= 1 + PurgeDelay

\* Somebody the user deleted is not brought back by the relay: not by its list of who
\* joined, not by a record or pin that was parked, whatever was under way.  For as many
\* as have a mark (contactStore.ts:106), and where the relay drops who joined by the
\* time the mark is too old, as contactStore.ts:102 says it does.
DeletedStaysDeleted ==
    \A p \in Person : deletedAt[p] # 0 /\ ~PurgedLate(p) => level[p] = "none"
=============================================================================
