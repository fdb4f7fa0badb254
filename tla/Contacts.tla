------------------------------ MODULE Contacts ------------------------------
(***************************************************************************)
(* What one device stores about one person, and the operations that move   *)
(* it: src/src/trust/contactStore.ts, and in src/src/net/client.ts the     *)
(* filing of inbound messages, device lists and hellos, account rotations, *)
(* the deletion of a conversation, and the recovery of contacts.           *)
(*                                                                         *)
(* The person has an account "old", which rotates to "new", and two        *)
(* devices: the first one, whose id is the old account's, and "second".    *)
(* Each await of the code is a step of its own; the blobs of the contact   *)
(* store are written under one lock, one after the other.                  *)
(***************************************************************************)
EXTENDS Naturals, FiniteSets

CONSTANTS
    Words,          \* contents of the person's messages
    MaxNow,         \* bound: the clock
    MaxCuts,        \* bound: restarts of the program
    MaxEdits        \* bound: contacts the user adds or deletes

ASSUME ContactsAssumption ==
    /\ IsFiniteSet(Words) /\ {MaxCuts, MaxEdits} \subseteq Nat /\ MaxNow \in Nat \ {0}

Accounts == {"old", "new"}
Machines == {"old", "second"}
Conv == {"old", "new", "second"}      \* ids a conversation can be filed under
Nobody == "nobody"

VARIABLES
    contacts,    \* ids with a contact record
    named,       \* ids the user gave a name to
    gone,        \* dismissals: [Conv -> [at, auto]], at = 0 for none
    lists,       \* known device lists: [Accounts -> version], 0 for none
    claims,      \* what each device said it belongs to
    renaming,    \* the pending rename of "old"
    deleting,    \* pending deletes: [Conv -> the time it was asked for], 0 for none
    rows, tombs, \* saved messages and the markers of deleted ones
    rot,         \* RAM: applyRotation in progress
    del,         \* RAM: deleteConversation, or its resumption, in progress
    plan,        \* RAM: [Machines -> processInbound between its plan and its commit]
    seeking,     \* RAM: recoverContact in progress: [Conv -> seenAt], 0 for none
    asking,      \* RAM: answers to resolveDevices, not recorded yet
    catchup,     \* RAM: the resumptions of this connect still to run
    now,
    rotated, published,   \* the person's side: rotation and device lists
    heard,       \* history: messages delivered
    doomed,      \* history: rows there when a delete was asked for
    moving,      \* history: rows under "old" when a rename began
    theirs,      \* history: devices attributed to "old" when a rename began
    cuts, edits

storeVars == <<contacts, named, gone, lists, claims, renaming, deleting>>
rowVars == <<rows, tombs>>
ramVars == <<rot, del, plan, seeking, asking, catchup>>
personVars == <<rotated, published, heard>>
pastVars == <<doomed, moving, theirs, cuts, edits>>
contactsVars == <<storeVars, rowVars, ramVars, now, personVars, pastVars>>

Idle == [step |-> "none", conv |-> "old", at |-> 0]
NoPlan == [kind |-> "none", of |-> "none", conv |-> "old", at |-> 0]

---------------------------------------------------------------------------
(* Who a device belongs to. *)

\* The devices a list of this version names, whichever account published it.
Listed(version) == CASE version = 0 -> {} [] version = 1 -> {"old"} [] OTHER -> Machines

Naming(d) == {a \in Accounts : d \in Listed(lists[a])}

\* A list names the device and the device names the account; otherwise it is an
\* account of its own.
AccountForDevice(d) ==
    IF \E a \in Accounts : Naming(d) = {a} /\ d # a /\ claims[d] = a
    THEN CHOOSE a \in Accounts : Naming(d) = {a}
    ELSE d

---------------------------------------------------------------------------
(* The user's own edits. *)

\* Mutant: a message older than the dismissal brings its sender back.
RefusedToRelayOnly(c, relayDriven, seenAt) == relayDriven /\ gone[c].at # 0 /\ gone[c].auto

\* recordFirstContact: the one place a contact is made.  The relay's suggestions
\* are refused for a peer deleted here, and so is a message older than the
\* dismissal; anybody else's lift the mark.
Refused(c, relayDriven, seenAt) ==
    \/ relayDriven /\ gone[c].at # 0 /\ gone[c].auto
    \/ seenAt # 0 /\ gone[c].at > seenAt

RecordFirstContact(c) ==
    /\ contacts' = contacts \union {c}
    /\ gone' = [gone EXCEPT ![c].auto = c \in contacts /\ @]

AddContact(c) ==
    /\ c = "new" => rotated
    /\ c \notin contacts /\ edits < MaxEdits
    /\ edits' = edits + 1
    /\ RecordFirstContact(c)
    /\ UNCHANGED <<named, lists, claims, renaming, deleting, rowVars, ramVars, now,
                   personVars, doomed, moving, theirs, cuts>>

\* flushPendingTrust and syncInviteContacts.
LearnFromRelay(c) ==
    /\ c = "new" => rotated
    /\ c \notin contacts /\ ~Refused(c, TRUE, 0)
    /\ RecordFirstContact(c)
    /\ UNCHANGED <<named, lists, claims, renaming, deleting, rowVars, ramVars, now,
                   personVars, pastVars>>

---------------------------------------------------------------------------
(* Inbound messages: planned from what is stored, committed later. *)

PlanText(d, w) ==
    /\ plan[d] = NoPlan /\ [of |-> w, kind |-> "text"] \notin heard
    /\ heard' = heard \union {[of |-> w, kind |-> "text"]}
    /\ LET c == AccountForDevice(d) IN
       plan' = [plan EXCEPT ![d] =
                  [kind |-> IF [of |-> w, conv |-> c] \in tombs THEN "suppress" ELSE "put",
                   of |-> w, conv |-> c, at |-> now]]
    /\ UNCHANGED <<storeVars, rowVars, rot, del, seeking, asking, catchup, now, rotated,
                   published, pastVars>>

PlanDelete(d, w) ==
    /\ plan[d] = NoPlan /\ [of |-> w, kind |-> "delete"] \notin heard
    /\ heard' = heard \union {[of |-> w, kind |-> "delete"]}
    /\ plan' = [plan EXCEPT ![d] = [kind |-> "delete", of |-> w,
                                    conv |-> AccountForDevice(d), at |-> now]]
    /\ UNCHANGED <<storeVars, rowVars, rot, del, seeking, asking, catchup, now, rotated,
                   published, pastVars>>

\* The transaction, and recoverContact started for whoever it is attributed to.
CommitInbound(d) ==
    /\ plan[d] # NoPlan
    /\ LET p == plan[d]
           mine(s) == {x \in s : x.of = p.of /\ x.conv = p.conv}
           c == AccountForDevice(d)
       IN  /\ rows' = CASE p.kind = "put" ->
                             (rows \ mine(rows)) \union {[of |-> p.of, conv |-> p.conv, at |-> p.at]}
                        [] p.kind = "delete" -> rows \ mine(rows)
                        [] OTHER -> rows
           /\ tombs' = IF p.kind = "delete" THEN tombs \union {[of |-> p.of, conv |-> p.conv]}
                       ELSE tombs
           /\ seeking' = [seeking EXCEPT ![c] =
                            IF @ = 0 /\ c \notin contacts THEN p.at ELSE @]
    /\ plan' = [plan EXCEPT ![d] = NoPlan]
    /\ UNCHANGED <<storeVars, rot, del, asking, catchup, now, personVars, pastVars>>

\* The bundle fetched by recoverContact is recorded, unless the peer was deleted
\* after the message it follows.
RecoverContact(c) ==
    /\ seeking[c] # 0
    /\ seeking' = [seeking EXCEPT ![c] = 0]
    /\ IF Refused(c, FALSE, seeking[c]) THEN UNCHANGED <<contacts, gone>>
       ELSE RecordFirstContact(c)
    /\ UNCHANGED <<named, lists, claims, renaming, deleting, rowVars, rot, del, plan,
                   asking, catchup, now, personVars, pastVars>>

---------------------------------------------------------------------------
(* Device lists and hellos. *)

\* resolveDevices: what is known is read first, then the relay is asked, and an
\* answer that is no news is dropped.
AskForList(a) ==
    /\ a \in contacts
    /\ a = "old" => ~rotated
    /\ published[a] > lists[a]
    /\ asking' = asking \union {[of |-> a, version |-> published[a]]}
    /\ UNCHANGED <<storeVars, rowVars, rot, del, plan, seeking, catchup, now, personVars,
                   pastVars>>

\* Mutant: the last answer wins.
PutAnyRoster(q) ==
    /\ lists' = [lists EXCEPT ![q.of] = q.version]
    /\ asking' = asking \ {q}
    /\ UNCHANGED <<contacts, named, gone, claims, renaming, deleting, rowVars, rot, del, plan,
                   seeking, catchup, now, personVars, pastVars>>

\* Several may be asking at once: the version is compared again under the lock.
PutKnownRoster(q) ==
    /\ lists' = [lists EXCEPT ![q.of] = IF q.version >= @ THEN q.version ELSE @]
    /\ asking' = asking \ {q}
    /\ UNCHANGED <<contacts, named, gone, claims, renaming, deleting, rowVars, rot, del, plan,
                   seeking, catchup, now, personVars, pastVars>>

\* renameHistory, one transaction: a row that exists at its new key stays.
Renamed(from, to) ==
    {r \in rows : r.conv # from}
        \union {[r EXCEPT !.conv = to] : r \in {x \in rows : x.conv = from
                    /\ ~ \E y \in rows : y.of = x.of /\ y.conv = to}}

\* handleHello, once the list of the account it names is known.
HandleHello(d) ==
    LET a == IF rotated THEN "new" ELSE "old" IN
    /\ d # a /\ d \in Listed(lists[a]) /\ claims[d] # a
    /\ claims' = [claims EXCEPT ![d] = a]
    /\ rows' = Renamed(d, a)
    /\ UNCHANGED <<contacts, named, gone, lists, renaming, deleting, tombs, ramVars, now,
                   personVars, pastVars>>

---------------------------------------------------------------------------
(* Rotation: applyRotation and its steps. *)

\* Mutant: no marker before the first write.
SetPendingRenameNot ==
    /\ rot = "none" /\ rot' = "marked"
    /\ moving' = moving \union {r \in rows : r.conv = "old"}
    /\ theirs' = {d \in Machines : AccountForDevice(d) = "old"}
    /\ UNCHANGED <<storeVars, rowVars, del, plan, seeking, asking, catchup, now, personVars,
                   doomed, cuts, edits>>

SetPendingRename ==
    /\ rot = "none" /\ rot' = "marked"
    /\ renaming' = TRUE
    /\ moving' = moving \union {r \in rows : r.conv = "old"}
    /\ theirs' = {d \in Machines : AccountForDevice(d) = "old"}
    /\ UNCHANGED <<contacts, named, gone, lists, claims, deleting, rowVars, del, plan, seeking,
                   asking, catchup, now, personVars, doomed, cuts, edits>>

\* The relay is asked who follows an account; the statement verifies under the key held.
FollowRotation == rotated /\ "old" \in contacts /\ SetPendingRename

\* A device of the person says so itself: only of the account it is attributed to.
HandleRotation(d) ==
    rotated /\ AccountForDevice(d) = "old" /\ "old" \in contacts /\ SetPendingRename

\* Mutant: the marker is cleared with the first step instead of the last.
RenameHistoryAndClear ==
    /\ rot = "marked"
    /\ rows' = Renamed("old", "new")
    /\ rot' = "moved" /\ renaming' = FALSE
    /\ UNCHANGED <<contacts, named, gone, lists, claims, deleting, tombs, del, plan, seeking,
                   asking, catchup, now, personVars, pastVars>>

RenameHistory ==
    /\ rot = "marked"
    /\ rows' = Renamed("old", "new")
    /\ rot' = "moved"
    /\ UNCHANGED <<storeVars, tombs, del, plan, seeking, asking, catchup, now, personVars,
                   pastVars>>

\* renameAccount writes the contacts first ...
RenameAccount ==
    /\ rot = "moved"
    /\ IF "old" \notin contacts \/ "new" \in contacts
       THEN rot' = "renamed" /\ UNCHANGED contacts
       ELSE /\ contacts' = (contacts \ {"old"}) \union {"new"}
            /\ rot' = "written"
    /\ UNCHANGED <<named, gone, lists, claims, renaming, deleting, rowVars, del, plan,
                   seeking, asking, catchup, now, personVars, pastVars>>

\* ... and then, still under the lock, the blobs keyed by account.
MoveKeyed ==
    /\ rot = "written"
    /\ named' = IF "old" \in named THEN (named \ {"old"}) \union {"new"} ELSE named
    /\ gone' = IF gone["old"].at = 0 THEN gone
               ELSE [gone EXCEPT !["old"] = [at |-> 0, auto |-> FALSE],
                                 !["new"] = IF @.at = 0 THEN gone["old"] ELSE @]
    /\ lists' = [lists EXCEPT !["old"] = 0]
    /\ rot' = "renamed"
    /\ UNCHANGED <<contacts, claims, renaming, deleting, rowVars, del, plan, seeking, asking,
                   catchup, now, personVars, pastVars>>

RepointDeviceClaims ==
    /\ rot = "renamed"
    /\ claims' = [d \in Machines |-> IF claims[d] = "old" THEN "new" ELSE claims[d]]
    /\ rot' = "repointed"
    /\ UNCHANGED <<contacts, named, gone, lists, renaming, deleting, rowVars, del, plan, seeking,
                   asking, catchup, now, personVars, pastVars>>

ClearPendingRename ==
    /\ rot = "repointed"
    /\ renaming' = FALSE
    /\ rot' = "none"
    /\ UNCHANGED <<contacts, named, gone, lists, claims, deleting, rowVars, del, plan, seeking,
                   asking, catchup, now, personVars, pastVars>>

---------------------------------------------------------------------------
(* deleteConversation and its steps. *)

Of(c) == {r \in rows : r.conv = c}

SetPendingDelete(c) ==
    /\ del = Idle /\ edits < MaxEdits /\ c \in contacts
    /\ edits' = edits + 1
    /\ deleting' = [deleting EXCEPT ![c] = now]
    /\ del' = [step |-> "marked", conv |-> c, at |-> now]
    /\ doomed' = doomed \union Of(c)
    /\ UNCHANGED <<contacts, named, gone, lists, claims, renaming, rowVars, rot, plan, seeking,
                   asking, catchup, now, personVars, moving, theirs, cuts>>

MarkDismissed ==
    /\ del.step = "marked"
    /\ gone' = [gone EXCEPT ![del.conv] = [at |-> now, auto |-> TRUE]]
    /\ del' = [del EXCEPT !.step = "dismissed"]
    /\ UNCHANGED <<contacts, named, lists, claims, renaming, deleting, rowVars, rot, plan,
                   seeking, asking, catchup, now, personVars, pastVars>>

RemoveContact ==
    /\ del.step = "dismissed"
    /\ contacts' = contacts \ {del.conv}
    /\ gone' = [gone EXCEPT ![del.conv] = [at |-> now, auto |-> TRUE]]
    /\ named' = named \ {del.conv}
    /\ del' = [del EXCEPT !.step = "removed"]
    /\ UNCHANGED <<lists, claims, renaming, deleting, rowVars, rot, plan, seeking, asking,
                   catchup, now, personVars, pastVars>>

\* Mutant: strictly before the delete.
SweepEarlierHistory ==
    /\ del.step = "removed"
    /\ rows' = {r \in rows : r.conv = del.conv => r.at >= del.at}
    /\ del' = [del EXCEPT !.step = "swept"]
    /\ UNCHANGED <<storeVars, tombs, rot, plan, seeking, asking, catchup, now, personVars, pastVars>>

\* Only what was there when the delete was asked for.
SweepHistory ==
    /\ del.step = "removed"
    /\ rows' = {r \in rows : r.conv = del.conv => r.at > del.at}
    /\ del' = [del EXCEPT !.step = "swept"]
    /\ UNCHANGED <<storeVars, tombs, rot, plan, seeking, asking, catchup, now, personVars, pastVars>>

ClearPendingDelete ==
    /\ del.step = "swept"
    /\ deleting' = [deleting EXCEPT ![del.conv] = 0]
    /\ del' = Idle
    /\ UNCHANGED <<contacts, named, gone, lists, claims, renaming, rowVars, rot, plan, seeking,
                   asking, catchup, now, personVars, pastVars>>

---------------------------------------------------------------------------
(* Restart and what the next connect resumes: renames first, then deletes. *)

Cut ==
    /\ cuts < MaxCuts
    /\ cuts' = cuts + 1
    /\ rot' = "none" /\ del' = Idle
    /\ plan' = [d \in Machines |-> NoPlan]
    /\ heard' = heard \ {h \in heard : \E d \in Machines :
                            plan[d].kind # "none" /\ h.of = plan[d].of
                                /\ (h.kind = "delete") = (plan[d].kind = "delete")}
    /\ seeking' = [c \in Conv |-> 0]
    /\ asking' = {}
    /\ catchup' = "renames"
    /\ UNCHANGED <<storeVars, rowVars, now, rotated, published, doomed, moving, theirs, edits>>

ResumePendingRenames ==
    /\ catchup = "renames" /\ rot = "none"
    /\ IF renaming THEN rot' = "marked" /\ UNCHANGED catchup
       ELSE catchup' = "deletes" /\ UNCHANGED rot
    /\ UNCHANGED <<storeVars, rowVars, del, plan, seeking, asking, now, personVars, pastVars>>

\* Mutant: only renames are resumed.
ResumeNoDeletes ==
    /\ catchup = "deletes" /\ del = Idle
    /\ catchup' = "done"
    /\ UNCHANGED <<storeVars, rowVars, rot, del, plan, seeking, asking, now, personVars, pastVars>>

ResumePendingDeletes ==
    /\ catchup = "deletes" /\ del = Idle
    /\ \/ \E c \in Conv :
            /\ deleting[c] # 0
            /\ del' = [step |-> "removed", conv |-> c, at |-> deleting[c]]
            /\ UNCHANGED catchup
       \/ /\ \A c \in Conv : deleting[c] = 0
          /\ catchup' = "done" /\ UNCHANGED del
    /\ UNCHANGED <<storeVars, rowVars, rot, plan, seeking, asking, now, personVars, pastVars>>

---------------------------------------------------------------------------
(* The person's side. *)

Publish(a) ==
    /\ a = "new" => rotated
    /\ a = "old" => ~rotated
    /\ \E v \in published[a] + 1 .. 2 : published' = [published EXCEPT ![a] = v]
    /\ UNCHANGED <<storeVars, rowVars, ramVars, now, rotated, heard, pastVars>>

Rotate ==
    /\ ~rotated /\ rotated' = TRUE
    /\ UNCHANGED <<storeVars, rowVars, ramVars, now, published, heard, pastVars>>

ClockTicks ==
    /\ now < MaxNow /\ now' = now + 1
    /\ UNCHANGED <<storeVars, rowVars, ramVars, personVars, pastVars>>

---------------------------------------------------------------------------
ContactsInit ==
    /\ contacts \in SUBSET {"old"} /\ named \in SUBSET contacts
    /\ gone = [c \in Conv |-> [at |-> 0, auto |-> FALSE]]
    /\ lists \in {[old |-> v, new |-> 0] : v \in 0 .. 2}
    /\ claims \in {[old |-> Nobody, second |-> c] :
                      c \in {Nobody} \union (IF lists["old"] = 2 THEN {"old"} ELSE {})}
    /\ renaming = FALSE /\ deleting = [c \in Conv |-> 0]
    /\ rows = {} /\ tombs = {}
    /\ rot = "none" /\ del = Idle /\ plan = [d \in Machines |-> NoPlan]
    /\ seeking = [c \in Conv |-> 0] /\ asking = {}
    /\ catchup = "done" /\ now = 1
    /\ rotated = FALSE /\ published = lists /\ heard = {}
    /\ doomed = {} /\ moving = {} /\ theirs = {} /\ cuts = 0 /\ edits = 0

Renaming == RenameHistory \/ RenameAccount \/ MoveKeyed \/ RepointDeviceClaims \/ ClearPendingRename
Deleting == MarkDismissed \/ RemoveContact \/ SweepHistory \/ ClearPendingDelete
Resuming == ResumePendingRenames \/ ResumePendingDeletes

ContactsNext ==
    \/ \E c \in Accounts : AddContact(c) \/ LearnFromRelay(c) \/ AskForList(c) \/ Publish(c)
    \/ \E q \in asking : PutKnownRoster(q)
    \/ \E c \in Conv : RecoverContact(c) \/ SetPendingDelete(c)
    \/ \E d \in Machines :
          \/ \E w \in Words : PlanText(d, w) \/ PlanDelete(d, w)
          \/ CommitInbound(d) \/ HandleHello(d) \/ HandleRotation(d)
    \/ FollowRotation \/ Renaming
    \/ Deleting
    \/ Cut \/ Resuming
    \/ Rotate \/ ClockTicks

ContactsSpec == ContactsInit /\ [][ContactsNext]_contactsVars

\* A connection runs its catch-up to the end, and what the program began it goes on
\* with unless it is closed.  A resumption is a call of its own that new rotations and
\* deletes do not hold up; here they take turns, so it is given its turn.
FairContacts ==
    WF_contactsVars(Renaming) /\ WF_contactsVars(Deleting) /\ SF_contactsVars(Resuming)

---------------------------------------------------------------------------
Row == [of : Words, conv : Conv, at : 1 .. MaxNow]

ContactsTypeOK ==
    /\ contacts \subseteq Conv /\ named \subseteq Conv
    /\ gone \in [Conv -> [at : 0 .. MaxNow, auto : BOOLEAN]]
    /\ lists \in [Accounts -> 0 .. 2]
    /\ claims \in [Machines -> Accounts \union {Nobody}]
    /\ renaming \in BOOLEAN /\ deleting \in [Conv -> 0 .. MaxNow]
    /\ rows \subseteq Row /\ tombs \subseteq [of : Words, conv : Conv]
    /\ \A r1, r2 \in rows : r1.of = r2.of /\ r1.conv = r2.conv => r1 = r2
    /\ asking \subseteq [of : Accounts, version : 1 .. 2]
    /\ rot # "none" => renaming

Settled == catchup = "done" /\ rot = "none" /\ del = Idle

\* Whatever was saved when a conversation was deleted is gone from it once no delete
\* is pending, although the contact goes first and the program may be closed at any
\* step (client.ts deleteConversation, resumePendingDeletes).
DeleteFinishes ==
    \A r \in doomed : Settled /\ deleting[r.conv] = 0 => r \notin rows

\* What was saved under the old account when a rotation was applied is under the new
\* one, or deleted, once no rename is pending (client.ts applyRotation,
\* resumePendingRenames).
RenameFinishes == \A r \in moving : Settled /\ ~renaming => r \notin rows

\* Nobody the user deleted comes back but by the user's hand, by a rename, or by a
\* message that came after (contactStore.ts recordFirstContact).
DeletedIsNotRelearned ==
    [][\A c \in Conv : c \in contacts' \ contacts /\ gone[c].auto
            => AddContact(c) \/ RenameAccount \/ seeking[c] >= gone[c].at]_contactsVars

\* A device list never goes back to an earlier version, whatever order the answers
\* come in, except when the account it belongs to is renamed away.
ListsNeverGoBack ==
    [][\A a \in Accounts : lists'[a] >= lists[a] \/ MoveKeyed]_contactsVars

NothingDeleting == \A c \in Conv : deleting[c] = 0

\* Every rename and every delete that began is finished, whenever the program is
\* closed (client.ts resumePendingRenames, resumePendingDeletes).
MarkersClear == (renaming ~> ~renaming) /\ (~NothingDeleting ~> NothingDeleting)

\* What the comment in applyRotation says of the devices of a renamed account: their
\* claims are carried across, "or every one of their devices stops being
\* attributable to them the moment they rotate".
DevicesStayTheirs ==
    \A d \in theirs :
        Settled /\ ~renaming /\ "new" \in contacts /\ "old" \notin contacts
            /\ d \in Listed(lists["new"]) => AccountForDevice(d) = "new"

\* What the comment in deleteConversation says of a populated thread whose contact
\* record is gone: "the user can never be left looking at" one.
DeletedIsNowhere ==
    \A r \in doomed : Settled /\ deleting[r.conv] = 0
        => ~ \E r2 \in rows : r2.of = r.of /\ r2.conv \notin contacts
=============================================================================
