------------------------------- MODULE Fanout -------------------------------
(***************************************************************************)
(* One message among all devices of its author and of the person it is     *)
(* for: a copy for each device the author's program knows of, a copy for   *)
(* the author's own devices, the forwarding between the recipient's        *)
(* devices, the delivery status, and the deletion for everyone             *)
(* (sendText to deleteForEveryone of src/src/net/client.ts, planHistory of *)
(* inbound.ts, the history of sessionStore.ts).                            *)
(*                                                                         *)
(* Delivery has the way of one envelope in detail.  Here an envelope that  *)
(* belongs to the message for deleteForEveryone, a copy, has its outbox    *)
(* row and its answer; any other is under way until its recipient commits  *)
(* it.  Envelopes of one sender are processed one at a time, under the     *)
(* lock that names it; those of different senders interleave.              *)
(***************************************************************************)
EXTENDS Naturals, FiniteSets

CONSTANTS
    Own, Theirs,   \* the devices of the two accounts
    Writer,        \* the device the message is written on
    MaxCuts         \* bound: programs closed

ASSUME FanoutAssumption ==
    /\ IsFiniteSet(Own) /\ IsFiniteSet(Theirs) /\ Theirs # {}
    /\ Own \cap Theirs = {} /\ Writer \in Own /\ MaxCuts \in Nat

Reader == Own \union Theirs
Parcel(kind, from, to) == [kind |-> kind, from |-> from, to |-> to]
Copy(d) == Parcel("text", Writer, d)
Parcels ==
    {Parcel(k, Writer, d) : k \in {"text", "delete"}, d \in Theirs}
    \union {Parcel(k, Writer, d) : k \in {"syncSent", "syncDelete"}, d \in Own \ {Writer}}
    \union UNION {{Parcel(k, d, e) : k \in {"syncRecv", "syncRecvDelete"}, e \in Theirs \ {d}} :
                     d \in Theirs}
Task == [by : Reader, kind : {"syncSent", "syncDelete", "syncRecv", "syncRecvDelete"}]

VARIABLES
    listed,     \* the recipient's devices the author's program knows of
    partners,     \* the author's other devices it knows of
    sending,    \* those the loop of sendText has yet to write to
    firing,     \* copies the loop committed and will put on the socket
    at,         \* [Parcels -> how far an envelope is]
    unsent,     \* outbox rows of the copies
    planning,   \* envelopes decrypted, their tombstone looked up, not yet committed
    row,        \* [Reader -> the history row of the message]
    tombs,      \* devices that hold its tombstone
    errands,    \* work a program holds in memory only
    taken,      \* copies the author heard were taken
    verdict,    \* what deleteForEveryone reported
    cuts

known == <<listed, partners>>
fanoutVars == <<known, sending, firing, at, unsent, planning, row, tombs, errands,
                taken, verdict, cuts>>

Copies == {p \in Parcels : p.kind \in {"text", "syncSent"}}
Move(parcels, stage) == [p \in Parcels |-> IF p \in parcels THEN stage ELSE at[p]]
Decided(p) == at[p] = "decided"

---------------------------------------------------------------------------
(* The author. *)

WriteText ==
    /\ sending = {} /\ \A d \in Theirs : at[Copy(d)] = "none"
    /\ verdict = "none" /\ cuts = 0
    /\ sending' = listed
    /\ UNCHANGED <<known, firing, at, unsent, planning, row, tombs, errands, taken,
                   verdict, cuts>>

\* sendOneCopy, in one transaction with the history row for the first; or that device is
\* skipped.
SendCopy ==
    /\ sending # {}
    /\ LET d == CHOOSE x \in sending : TRUE IN
       /\ sending' = sending \ {d}
       /\ \/ /\ at' = Move({Copy(d)}, "outbox") /\ unsent' = unsent \union {Copy(d)}
             /\ firing' = firing \union {Copy(d)}
             /\ row' = IF firing = {} THEN [row EXCEPT ![Writer] = "unknown"] ELSE row
          \/ UNCHANGED <<at, unsent, firing, row>>
    /\ UNCHANGED <<known, planning, tombs, errands, taken, verdict, cuts>>

\* The end of the loop: what was committed is put on the socket, cancelled or not.
Fire ==
    /\ sending = {} /\ firing # {}
    /\ firing' = {}
    /\ \E arriving \in SUBSET {p \in firing \ unsent : at[p] = "outbox"} :
          at' = Move(arriving, "waiting")
    /\ errands' = errands \union {[by |-> Writer, kind |-> "syncSent"]}
    /\ UNCHANGED <<known, sending, unsent, planning, row, tombs, taken, verdict, cuts>>

\* deleteForEveryone counts the outbox rows of the message, whomever they are for.
AskToDelete ==
    LET caught == unsent # {} /\ Cardinality(unsent) >= Cardinality(listed)
    IN
    /\ verdict = "none" /\ (sending # {} \/ \E d \in Theirs : at[Copy(d)] # "none")
    /\ verdict' = IF caught THEN "cancelled" ELSE "requested"
    /\ row' = [row EXCEPT ![Writer] = "none"]
    /\ unsent' = {}
    /\ at' = IF caught THEN at
             ELSE Move({Parcel("delete", Writer, d) : d \in listed}, "waiting")
    /\ errands' = errands \union {[by |-> Writer, kind |-> "syncDelete"]}
    /\ UNCHANGED <<known, sending, firing, planning, tombs, taken, cuts>>

\* The Inbox takes a copy, at a first attempt or when the outbox is flushed.
RelayTakes(p) ==
    /\ p \in unsent /\ at[p] = "outbox"
    /\ at' = Move({p}, "waiting")
    /\ UNCHANGED <<known, sending, firing, unsent, planning, row, tombs, errands, taken,
                   verdict, cuts>>

\* historyUpdate: of a row that is there, and never back.
Raised(status) ==
    [row EXCEPT ![Writer] = IF @ \in {"none", "delivered", status} THEN @ ELSE status]

\* The answer: the row is marked, which may fail, and the outbox row goes.
SentHeard(p) ==
    /\ p \in unsent /\ at[p] # "outbox"
    /\ unsent' = unsent \ {p} /\ taken' = taken \union {p}
    /\ row' \in {row, Raised("sent")}
    /\ UNCHANGED <<known, sending, firing, at, planning, tombs, errands, verdict, cuts>>

\* Mutant: every copy can be traced.
TracedAll(p) == TRUE

\* The id of an envelope leads to the row if it has a back-reference, or is that of the
\* message; the copies for the author's own devices have neither.
Traced(p) == p.kind = "text"

\* A "delivered" frame, or the answer to a later check of a row that is marked sent.
DeliveredHeard(p) ==
    /\ Decided(p) /\ Traced(p)
    /\ row' = Raised("delivered") /\ row' # row
    /\ UNCHANGED <<known, sending, firing, at, unsent, planning, tombs, errands, taken,
                   verdict, cuts>>

---------------------------------------------------------------------------
(* A recipient. *)

LockFree(p) == \A q \in planning : q.parcel.to # p.to \/ q.parcel.from # p.from

\* processInbound up to the lookup of the tombstone.
Plan(p) ==
    /\ at[p] = "waiting" /\ LockFree(p)
    /\ p.kind \in {"text", "syncSent", "syncRecv"}
    /\ \A q \in planning : q.parcel # p
    /\ planning' = planning \union {[parcel |-> p, put |-> p.to \notin tombs]}
    /\ UNCHANGED <<known, sending, firing, at, unsent, row, tombs, errands, taken,
                   verdict, cuts>>

\* Mutant: a message that was written to several devices is not passed on.
PassedOnUnlessFanned(p, put) ==
    IF p.kind = "text" /\ put /\ Cardinality(listed) = 1
    THEN {[by |-> p.to, kind |-> "syncRecv"]} ELSE {}

\* A text that was not suppressed is passed on to the siblings, after the ack.
PassedOn(p, put) ==
    IF p.kind = "text" /\ put THEN {[by |-> p.to, kind |-> "syncRecv"]} ELSE {}

\* The commit, with the ack; a copy of a sibling is put only if there is no row.
StoreRow(q) ==
    LET p == q.parcel IN
    /\ q \in planning /\ planning' = planning \ {q}
    /\ at' = Move({p}, "decided")
    /\ row' = IF q.put /\ (p.kind = "text" \/ row[p.to] = "none")
              THEN [row EXCEPT ![p.to] = "unknown"] ELSE row
    /\ errands' = errands \union PassedOn(p, q.put)
    /\ UNCHANGED <<known, sending, firing, unsent, tombs, taken, verdict, cuts>>

DeletePassedOn(p) ==
    IF p.kind = "delete" THEN {[by |-> p.to, kind |-> "syncRecvDelete"]} ELSE {}

\* A delete control, in one transaction; one from the author is passed on.
Erase(p) ==
    /\ at[p] = "waiting" /\ LockFree(p)
    /\ p.kind \in {"delete", "syncDelete", "syncRecvDelete"}
    /\ at' = Move({p}, "decided")
    /\ row' = [row EXCEPT ![p.to] = "none"] /\ tombs' = tombs \union {p.to}
    /\ errands' = errands \union DeletePassedOn(p)
    /\ UNCHANGED <<known, sending, firing, unsent, planning, taken, verdict, cuts>>

\* What a device shows after its next start: loadAllHistory skips what has a tombstone.
Shown(d) == row[d] # "none" /\ d \notin tombs

---------------------------------------------------------------------------
(* Work in memory, and its loss. *)

Siblings(d) == IF d \in Own THEN partners ELSE Theirs \ {d}

\* syncToOwnDevices, syncDeleteToOwnDevices, forwardToOwnDevices, forwardDeleteToOwnDevices.
RunErrand(t) ==
    LET parcels == {Parcel(t.kind, t.by, d) : d \in Siblings(t.by)} IN
    /\ t \in errands /\ errands' = errands \ {t}
    /\ IF t.kind = "syncSent"
       THEN at' = Move(parcels, "outbox") /\ unsent' = unsent \union parcels
       ELSE at' = Move(parcels, "waiting") /\ UNCHANGED unsent
    /\ UNCHANGED <<known, sending, firing, planning, row, tombs, taken, verdict, cuts>>

\* A program ends.
ProgramEnds(d) ==
    /\ cuts < MaxCuts /\ cuts' = cuts + 1
    /\ planning' = {q \in planning : q.parcel.to # d}
    /\ errands' = {t \in errands : t.by # d}
    /\ IF d = Writer THEN sending' = {} /\ firing' = {} ELSE UNCHANGED <<sending, firing>>
    /\ UNCHANGED <<known, at, unsent, row, tombs, taken, verdict>>

---------------------------------------------------------------------------
FanoutInit ==
    /\ listed \in SUBSET Theirs \ {{}} /\ partners \in SUBSET (Own \ {Writer})
    /\ sending = {} /\ firing = {} /\ unsent = {} /\ at = [p \in Parcels |-> "none"]
    /\ planning = {} /\ row = [d \in Reader |-> "none"] /\ tombs = {}
    /\ errands = {} /\ taken = {} /\ verdict = "none" /\ cuts = 0

FanoutNext ==
    \/ WriteText \/ SendCopy \/ Fire \/ AskToDelete
    \/ \E p \in Copies : RelayTakes(p) \/ SentHeard(p) \/ DeliveredHeard(p)
    \/ \E p \in Parcels : Plan(p) \/ Erase(p)
    \/ \E q \in planning : StoreRow(q)
    \/ \E t \in errands : RunErrand(t)
    \/ \E d \in Reader : ProgramEnds(d)

\* Programs run on, outboxes are flushed and queues drained.
Progress ==
    \/ Fire \/ SendCopy
    \/ \E p \in Copies : RelayTakes(p)
    \/ \E p \in Parcels : Plan(p) \/ Erase(p)
    \/ \E q \in planning : StoreRow(q)
    \/ \E t \in errands : RunErrand(t)
FairFanout == WF_fanoutVars(Progress)
FanoutSpec == FanoutInit /\ [][FanoutNext]_fanoutVars /\ FairFanout

---------------------------------------------------------------------------
\* A lock has one holder, and the outbox row of a copy outlives its way to the Inbox.
FanoutTypeOK ==
    /\ listed \in SUBSET Theirs \ {{}} /\ sending \subseteq listed
    /\ partners \subseteq Own \ {Writer}
    /\ firing \subseteq {Copy(d) : d \in listed}
    /\ at \in [Parcels -> {"none", "outbox", "waiting", "decided"}]
    /\ unsent \subseteq Copies /\ taken \subseteq Copies \ unsent
    /\ planning \subseteq [parcel : {p \in Parcels : at[p] = "waiting"}, put : BOOLEAN]
    /\ \A q, r \in planning :
          q.parcel.to = r.parcel.to /\ q.parcel.from = r.parcel.from => q = r
    /\ row \in [Reader -> {"none", "unknown", "sent", "delivered"}] /\ tombs \subseteq Reader
    /\ errands \subseteq Task /\ verdict \in {"none", "cancelled", "requested"}
    /\ cuts \in 0 .. MaxCuts

\* A message marked delivered was read by a device of the person it is for, never only by
\* a device of its author (noteSentRef, markDeliveredEnvelope, flushDeliveredChecks).
DeliveredIsTrue ==
    row[Writer] = "delivered" => \E d \in Theirs : Decided(Copy(d))

\* What one of their devices received every one of them receives, listed or not, as long
\* as no program is closed and nobody deletes it (forwardToOwnDevices).
ReadOnAll ==
    (\E d \in Theirs : Shown(d))
        ~> (cuts > 0 \/ verdict # "none" \/ \A d \in Theirs : Shown(d))

\* A deletion that was asked for ends with no row of the message on any other device, in
\* whatever order copies, forwards and controls arrive; if a program was closed, a row can
\* stay behind, and is not shown on the devices that were asked (deleteForEveryone,
\* planHistory, loadAllHistory).
DeletedOnAll ==
    <>[](verdict = "requested" =>
            IF cuts = 0 THEN \A d \in Reader \ {Writer} : row[d] = "none"
            ELSE \A d \in listed : ~Shown(d))

\* What client.ts says of a cancelled send: it reports that nothing was sent "only when
\* every copy was caught in time".
CancelledInTime ==
    verdict = "cancelled" => \A d \in Theirs : Copy(d) \notin taken

\* What client.ts says of rows and tombstones: they never coexist.
RowOrTombstone == \A d \in Reader : row[d] = "none" \/ d \notin tombs
=============================================================================
