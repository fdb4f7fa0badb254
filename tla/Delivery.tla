------------------------------ MODULE Delivery ------------------------------
(***************************************************************************)
(* The path of an envelope from the device that writes it to the device    *)
(* that reads it: the sender's durable outbox, the two WebSockets, the     *)
(* recipient's Inbox Durable Object, and the receive-side discipline of    *)
(* processInbound, with disconnections, crashes, lost and late frames,     *)
(* retransmission, poison drops and delete-for-everyone.                   *)
(*                                                                         *)
(* Time is abstracted to one bit per envelope: `aged' holds the envelopes  *)
(* older than OUTBOX_RETRY_HORIZON_MS.  The relay's own retentions (30     *)
(* days for a queued row, 8 days for a seen id) are longer, so they only   *)
(* ever bite on an aged envelope.  Retention.tla keeps the real clock.     *)
(***************************************************************************)
EXTENDS Naturals, FiniteSets

CONSTANTS
  Device,      \* device ids; each has one Inbox Durable Object
  Text,        \* envelopes carrying a text message
  Control,     \* envelopes carrying a delete-for-everyone control
  From, To,    \* the device an envelope comes from and the one it goes to
  Via,         \* the initial envelope whose session encrypts it (itself, for an initial)
  Target,      \* the text a control deletes
  Ephemeral,   \* texts that are never written to history
  Malformed,   \* envelopes doSend refuses for good (bad_to, too_large, bad_envelope)
  MaxQueued,   \* MAX_QUEUED_ENVELOPES, per inbox
  PoisonMax    \* POISON_MAX_ATTEMPTS

Env == Text \cup Control
Initials == {e \in Env : Via[e] = e}

ASSUME ConstantsAssumption ==
  /\ From \in [Env -> Device]
  /\ To \in [Env -> Device]
  /\ Via \in [Env -> Env]
  /\ \A e \in Env : /\ Via[Via[e]] = Via[e]
                    /\ From[Via[e]] = From[e]
                    /\ To[Via[e]] = To[e]
  /\ Target \in [Control -> Text]
  /\ \A c \in Control : From[Target[c]] = From[c] /\ To[Target[c]] = To[c]
  /\ Text \cap Control = {}
  /\ Ephemeral \subseteq Text
  /\ Malformed \subseteq Env
  /\ MaxQueued \in Nat \ {0}
  /\ PoisonMax \in Nat \ {0}

VARIABLES
  conn,       \* per device: "down", "authed" (relay side done), "ready" (outbox flushed)
  up,         \* frames on their way from a client to its inbox
  down,       \* frames on their way from an inbox to its client
  made,       \* envelopes ever committed by saveBookWithOutbox
  outbox,     \* the sender's durable outbox rows
  outRow,     \* the sender's history row of a text and its delivery status
  failed,     \* texts whose row is flagged failed ("not sent")
  cancelled,  \* texts whose delete was answered with "cancelled, nothing to recall"
  queue,      \* rows of the recipient inbox's envelopes table
  relaySeen,  \* rows of the recipient inbox's seen table
  seen,       \* the recipient's durable dedup set
  fails,      \* the recipient's durable failure counters
  opened,     \* initials whose session the recipient's book holds
  inRow,      \* texts in the recipient's history
  tomb,       \* texts the recipient holds a delete tombstone for
  unacked,    \* decided by the recipient, its ack not yet put on the socket
  applied,    \* history variable: how often the recipient committed a decryption
  aged        \* envelopes older than the sender's retry horizon

senderVars    == <<made, outbox, outRow, failed, cancelled>>
relayVars     == <<queue, relaySeen>>
recipientVars == <<seen, fails, opened, inRow, tomb, applied>>
vars == <<conn, up, down, senderVars, relayVars, recipientVars, unacked, aged>>

Status == {"absent", "unknown", "sent", "delivered"}
UpFrame   == [kind : {"send", "ack"}, env : Env, live : BOOLEAN]
DownFrame == [kind : {"deliver", "sent", "refused", "delivered"}, env : Env]

TypeOK ==
  /\ conn \in [Device -> {"down", "authed", "ready"}]
  /\ up \subseteq UpFrame
  /\ down \subseteq DownFrame
  /\ made \subseteq Env
  /\ outbox \subseteq Env
  /\ outRow \in [Text -> Status]
  /\ failed \subseteq Text
  /\ cancelled \subseteq Text
  /\ queue \subseteq Env
  /\ relaySeen \subseteq Env
  /\ seen \subseteq Env
  /\ fails \in [Env -> 0 .. (PoisonMax - 1)]
  /\ opened \subseteq Env
  /\ inRow \subseteq Text
  /\ tomb \subseteq Text
  /\ unacked \subseteq Env
  /\ applied \in [Env -> Nat]
  /\ aged \subseteq Env

Init ==
  /\ conn = [d \in Device |-> "down"]
  /\ up = {} /\ down = {}
  /\ made = {} /\ outbox = {}
  /\ outRow = [m \in Text |-> "absent"]
  /\ failed = {} /\ cancelled = {}
  /\ queue = {} /\ relaySeen = {}
  /\ seen = {} /\ fails = [e \in Env |-> 0]
  /\ opened = {} /\ inRow = {} /\ tomb = {}
  /\ unacked = {}
  /\ applied = [e \in Env |-> 0]
  /\ aged = {}

-----------------------------------------------------------------------------
(* Sockets.                                                                *)

Open(d) == conn[d] # "down"
SendFrame(e) == [kind |-> "send", env |-> e, live |-> TRUE]
AckFrame(e)  == [kind |-> "ack", env |-> e, live |-> TRUE]
DownTo(kind, e) == [kind |-> kind, env |-> e]

\* The frames a client puts on the wire: none, when its socket is not open.
Put(d, frames) == IF Open(d) THEN up \cup frames ELSE up
\* The frame an inbox sends to the client of device d, if it has a socket.
Reply(d, kind, e) == IF Open(d) THEN {DownTo(kind, e)} ELSE {}

Sender(f) == IF f.kind = "send" THEN From[f.env] ELSE To[f.env]
Receiver(g) == IF g.kind = "deliver" THEN To[g.env] ELSE From[g.env]

\* Mutant: the queue is not drained to a new socket.
AuthenticateNoDrain(d) ==
  /\ conn[d] = "down"
  /\ conn' = [conn EXCEPT ![d] = "authed"]
  /\ UNCHANGED <<up, down, senderVars, relayVars, recipientVars, unacked, aged>>

\* The relay accepts the auth response and drains the whole queue to the socket.
Authenticate(d) ==
  /\ conn[d] = "down"
  /\ conn' = [conn EXCEPT ![d] = "authed"]
  /\ down' = down \cup {DownTo("deliver", e) : e \in {q \in queue : To[q] = d}}
  /\ UNCHANGED <<up, senderVars, relayVars, recipientVars, unacked, aged>>

\* Flagging a row "not sent" is best effort, and finds no row for an ephemeral text.
Flagged(envs) == {failed, failed \cup {m \in envs \cap Text : outRow[m] # "absent"}}

\* Mutant: entries inside the horizon are kept but not fired again.
FlushOutboxNoRefire(d) ==
  LET late == {e \in outbox \cap aged : From[e] = d}
  IN /\ conn[d] = "authed"
     /\ conn' = [conn EXCEPT ![d] = "ready"]
     /\ outbox' = outbox \ late
     /\ failed' \in Flagged(late)
     /\ UNCHANGED <<up, down, made, outRow, cancelled, relayVars, recipientVars, unacked, aged>>

\* flushOutbox, on every connect: an entry past the retry horizon is flagged
\* failed and dropped, every other entry is fired again, byte for byte.
FlushOutbox(d) ==
  LET mine == {e \in outbox : From[e] = d}
      late == mine \cap aged
  IN /\ conn[d] = "authed"
     /\ conn' = [conn EXCEPT ![d] = "ready"]
     /\ outbox' = outbox \ late
     /\ failed' \in Flagged(late)
     /\ up' = up \cup {SendFrame(e) : e \in mine \ late}
     /\ UNCHANGED <<down, made, outRow, cancelled, relayVars, recipientVars, unacked, aged>>

\* What a socket's end does to the frames on it: the client no longer listens,
\* while frames it wrote may still reach the relay (no reply will come back).
CloseSocket(d) ==
  /\ Open(d)
  /\ conn' = [conn EXCEPT ![d] = "down"]
  /\ down' = {g \in down : Receiver(g) # d}
  /\ up' = {IF Sender(f) = d THEN [f EXCEPT !.live = FALSE] ELSE f : f \in up}

Disconnect(d) ==
  /\ CloseSocket(d)
  /\ UNCHANGED <<senderVars, relayVars, recipientVars, unacked, aged>>

\* The client process ends: everything it held in RAM goes with the socket.
Crash(d) ==
  /\ CloseSocket(d)
  /\ unacked' = {e \in unacked : To[e] # d}
  /\ UNCHANGED <<senderVars, relayVars, recipientVars, aged>>

LoseFrame(f) ==
  /\ f \in up /\ ~f.live
  /\ up' = up \ {f}
  /\ UNCHANGED <<conn, down, senderVars, relayVars, recipientVars, unacked, aged>>

-----------------------------------------------------------------------------
(* The sender.                                                             *)

\* Commit before release: ratchet, outbox row and history row in one
\* transaction, and only then the socket write.
SendText(m) ==
  /\ m \notin made
  /\ m \in Initials \/ Via[m] \in made
  /\ made' = made \cup {m}
  /\ outbox' = outbox \cup {m}
  /\ outRow' = IF m \in Ephemeral THEN outRow ELSE [outRow EXCEPT ![m] = "unknown"]
  /\ up' = Put(From[m], {SendFrame(m)})
  /\ UNCHANGED <<conn, down, failed, cancelled, relayVars, recipientVars, unacked, aged>>

Deleted(m) == m \in cancelled \/ \E c \in Control : Target[c] = m /\ c \in made

\* deleteForEveryone of a text still in the outbox: the entry is dropped, no
\* control is sent, and the caller is told that nothing was requested.
CancelQueued(m) ==
  /\ m \in made \cap outbox /\ ~Deleted(m)
  /\ outbox' = outbox \ {m}
  /\ outRow' = [outRow EXCEPT ![m] = "absent"]
  /\ cancelled' = cancelled \cup {m}
  /\ UNCHANGED <<conn, up, down, made, failed, relayVars, recipientVars, unacked, aged>>

\* deleteForEveryone of a text no longer in the outbox: a control with an id of
\* its own is committed and fired like any message.
SendDelete(c) ==
  LET m == Target[c] IN
  /\ m \in made \ outbox /\ ~Deleted(m)
  /\ c \in Initials \/ Via[c] \in made
  /\ outRow' = [outRow EXCEPT ![m] = "absent"]
  /\ made' = made \cup {c}
  /\ outbox' = outbox \cup {c}
  /\ up' = Put(From[c], {SendFrame(c)})
  /\ UNCHANGED <<conn, down, failed, cancelled, relayVars, recipientVars, unacked, aged>>

\* Mutant: a late report overwrites a later status.
MarkedAlways(e, status) ==
  IF e \in Text /\ outRow[e] # "absent"
  THEN {outRow, [outRow EXCEPT ![e] = status]}
  ELSE {outRow}

\* The row's status moves forward only; the write is best effort.
Marked(e, status) ==
  IF e \in Text /\ outRow[e] \notin {"absent", "delivered", status}
  THEN {outRow, [outRow EXCEPT ![e] = status]}
  ELSE {outRow}

\* The relay acked durable storage: stamp "sent" and drop the outbox row.
RecvSent(e) ==
  /\ DownTo("sent", e) \in down
  /\ down' = down \ {DownTo("sent", e)}
  /\ outbox' = outbox \ {e}
  /\ outRow' \in Marked(e, "sent")
  /\ UNCHANGED <<conn, up, made, failed, cancelled, relayVars, recipientVars, unacked, aged>>

\* A permanent refusal naming this envelope: flag the row, drop the entry.
RecvRefused(e) ==
  /\ DownTo("refused", e) \in down
  /\ down' = down \ {DownTo("refused", e)}
  /\ failed' \in Flagged({e} \cap outbox)
  /\ outbox' = outbox \ {e}
  /\ UNCHANGED <<conn, up, made, outRow, cancelled, relayVars, recipientVars, unacked, aged>>

\* The live report that the recipient's inbox saw the ack.
RecvDelivered(e) ==
  /\ DownTo("delivered", e) \in down
  /\ down' = down \ {DownTo("delivered", e)}
  /\ outRow' \in Marked(e, "delivered")
  /\ UNCHANGED <<conn, up, made, outbox, failed, cancelled, relayVars, recipientVars, unacked, aged>>

\* Mutant: the relay's answer is not looked at.
DeliveredCheckAssumed(m) ==
  /\ conn[From[m]] = "ready"
  /\ outRow[m] = "sent" /\ m \notin failed
  /\ outRow' = [outRow EXCEPT ![m] = "delivered"]
  /\ UNCHANGED <<conn, up, down, made, outbox, failed, cancelled, relayVars, recipientVars, unacked, aged>>

\* The inbox answers from the ids it has consumed, and keeps nothing of the question.
SeenCheck(m) == m \in relaySeen

\* flushDeliveredChecks: a row still "sent" asks the inbox whether it has seen it.
DeliveredCheck(m) ==
  /\ conn[From[m]] = "ready"
  /\ outRow[m] = "sent" /\ m \notin failed /\ SeenCheck(m)
  /\ outRow' = [outRow EXCEPT ![m] = "delivered"]
  /\ UNCHANGED <<conn, up, down, made, outbox, failed, cancelled, relayVars, recipientVars, unacked, aged>>

-----------------------------------------------------------------------------
(* The recipient's inbox.                                                  *)

Queued(d) == {e \in queue : To[e] = d}
\* Mutant: only the queue is searched for the id.
KnownInQueue(e) == e \in queue
Known(e) == e \in relaySeen \cup queue

\* doSend and the recipient's handleDeliver: a new row is stored and pushed to
\* a live socket, a known id is kept as it is, and both are answered "sent" --
\* unless something failed after the row was stored (confirmed = FALSE).
RelayStore(f, confirmed) ==
  LET e == f.env
      new == ~Known(e)
  IN /\ f \in up /\ f.kind = "send" /\ e \notin Malformed
     /\ new => Cardinality(Queued(To[e])) < MaxQueued
     /\ queue' = IF new THEN queue \cup {e} ELSE queue
     /\ up' = up \ {f}
     /\ down' = down \cup (IF new THEN Reply(To[e], "deliver", e) ELSE {})
                     \cup (IF confirmed /\ f.live THEN {DownTo("sent", e)} ELSE {})
     /\ UNCHANGED <<conn, senderVars, relaySeen, recipientVars, unacked, aged>>

\* Mutant: a send that was not stored is answered "sent" all the same.
RelayDeclineConfirmed(f) ==
  /\ f \in up /\ f.kind = "send" /\ f.env \notin Malformed
  /\ up' = up \ {f}
  /\ down' = IF f.live THEN down \cup {DownTo("sent", f.env)} ELSE down
  /\ UNCHANGED <<conn, senderVars, relayVars, recipientVars, unacked, aged>>

\* A transient refusal (queue_full, not_registered, internal): nothing is
\* stored, the sender keeps its outbox row and only warns.
RelayDecline(f) ==
  /\ f \in up /\ f.kind = "send" /\ f.env \notin Malformed
  /\ up' = up \ {f}
  /\ UNCHANGED <<conn, down, senderVars, relayVars, recipientVars, unacked, aged>>

\* A permanent refusal names the envelope.
RelayRefuse(f) ==
  /\ f \in up /\ f.kind = "send" /\ f.env \in Malformed
  /\ up' = up \ {f}
  /\ down' = IF f.live THEN down \cup {DownTo("refused", f.env)} ELSE down
  /\ UNCHANGED <<conn, senderVars, relayVars, recipientVars, unacked, aged>>

\* doAck: delete the row and remember the id in one transaction, then report to
\* the sender if it is connected, best effort.
RelayAck(f) ==
  LET e == f.env
      report == IF e \in queue THEN Reply(From[e], "delivered", e) ELSE {}
  IN /\ f \in up /\ f.kind = "ack"
     /\ up' = up \ {f}
     /\ queue' = queue \ {e}
     /\ relaySeen' = relaySeen \cup {e}
     /\ down' \in {down, down \cup report}
     /\ UNCHANGED <<conn, senderVars, recipientVars, unacked, aged>>

\* The purge alarm: rows past their retention.
RelayExpire(e) ==
  /\ e \in queue \cap aged
  /\ queue' = queue \ {e}
  /\ UNCHANGED <<conn, up, down, senderVars, relaySeen, recipientVars, unacked, aged>>

RelayForget(e) ==
  /\ e \in relaySeen \cap aged
  /\ relaySeen' = relaySeen \ {e}
  /\ UNCHANGED <<conn, up, down, senderVars, queue, recipientVars, unacked, aged>>

-----------------------------------------------------------------------------
(* The recipient: processInbound, one envelope at a time under the lock.   *)

\* Mutant: an envelope that failed once is not tried again on a new session.
DecryptableFirstTime(e) == e \in Initials \/ (Via[e] \in opened /\ fails[e] = 0)
Decryptable(e) == e \in Initials \/ Via[e] \in opened
Take(e) == down' = down \ {DownTo("deliver", e)}
Arrived(e) == DownTo("deliver", e) \in down
\* Mutant: the dedup set is not consulted.
FreshNoDedup(e) == Arrived(e)
Fresh(e) == Arrived(e) /\ e \notin seen
Poisoned(count) == count >= PoisonMax

\* Mutant: a redelivery of a decided envelope is ignored.
RecvDuplicateNoAck(e) ==
  /\ Arrived(e) /\ e \in seen
  /\ Take(e)
  /\ UNCHANGED <<conn, up, senderVars, relayVars, recipientVars, unacked, aged>>

\* Already decided: ack again, change nothing.
RecvDuplicate(e) ==
  /\ Arrived(e) /\ e \in seen
  /\ Take(e)
  /\ unacked' = unacked \cup {e}
  /\ UNCHANGED <<conn, up, senderVars, relayVars, recipientVars, aged>>

\* Mutant: the tombstone is not checked before a text is stored.
PlanHistoryNoTombstone(e) ==
  IF e \in Control
  THEN /\ inRow' = inRow \ {Target[e]}
       /\ tomb' = tomb \cup {Target[e]}
  ELSE /\ inRow' = IF e \in Ephemeral THEN inRow ELSE inRow \cup {e}
       /\ tomb' = tomb

\* planHistory, for an envelope whose plaintext is a text or a delete control.
PlanHistory(e) ==
  IF e \in Control
  THEN /\ inRow' = inRow \ {Target[e]}
       /\ tomb' = tomb \cup {Target[e]}
  ELSE /\ inRow' = IF e \in Ephemeral \cup tomb THEN inRow ELSE inRow \cup {e}
       /\ tomb' = tomb

\* It decrypts: book, dedup marker and history change in one transaction.
RecvDecrypt(e) ==
  /\ Fresh(e) /\ Decryptable(e)
  /\ Take(e)
  /\ seen' = seen \cup {e}
  /\ opened' = IF e \in Initials THEN opened \cup {e} ELSE opened
  /\ applied' = [applied EXCEPT ![e] = @ + 1]
  /\ fails' = [fails EXCEPT ![e] = 0]
  /\ PlanHistory(e)
  /\ unacked' = unacked \cup {e}
  /\ UNCHANGED <<conn, up, senderVars, relayVars, aged>>

\* It does not decrypt: count it, and give it up at the poison bound.
RecvFail(e) ==
  LET count == fails[e] + 1
      poison == Poisoned(count)
  IN /\ Fresh(e) /\ ~Decryptable(e)
     /\ Take(e)
     /\ fails' = [fails EXCEPT ![e] = IF poison THEN 0 ELSE count]
     /\ seen' = IF poison THEN seen \cup {e} ELSE seen
     /\ unacked' = IF poison THEN unacked \cup {e} ELSE unacked
     /\ UNCHANGED <<conn, up, senderVars, relayVars, opened, inRow, tomb, applied, aged>>

\* Mutant: a commit that failed is acked like one that succeeded.
RecvRetryLaterAcked(e) ==
  /\ Fresh(e)
  /\ Take(e)
  /\ unacked' = unacked \cup {e}
  /\ UNCHANGED <<conn, up, senderVars, relayVars, recipientVars, aged>>

\* Nothing about the envelope: the app is locked, the stored book will not
\* open, or the commit failed.  Not counted, not acked.
RecvRetryLater(e) ==
  /\ Fresh(e)
  /\ Take(e)
  /\ UNCHANGED <<conn, up, senderVars, relayVars, recipientVars, unacked, aged>>

\* The ack, after the decision is durable; lost when the socket is gone.
SendAck(e) ==
  /\ e \in unacked
  /\ unacked' = unacked \ {e}
  /\ up' = Put(To[e], {AckFrame(e)})
  /\ UNCHANGED <<conn, down, senderVars, relayVars, recipientVars, aged>>

\* Seven days pass since the envelope was committed: longer than a frame stays
\* in flight, and than a connecting client takes to flush its outbox.
Age(e) ==
  /\ e \in made \ aged
  /\ \A f \in up : f.env # e
  /\ \A g \in down : g.env # e
  /\ conn[From[e]] # "authed"
  /\ aged' = aged \cup {e}
  /\ UNCHANGED <<conn, up, down, senderVars, relayVars, recipientVars, unacked>>

-----------------------------------------------------------------------------
Relay(f) ==
  \/ \E confirmed \in BOOLEAN : RelayStore(f, confirmed)
  \/ RelayDecline(f) \/ RelayRefuse(f) \/ RelayAck(f)
Receive(e) == RecvDuplicate(e) \/ RecvDecrypt(e) \/ RecvFail(e)
Notice(e) == RecvSent(e) \/ RecvRefused(e) \/ RecvDelivered(e)

Next ==
  \/ \E d \in Device : Authenticate(d) \/ FlushOutbox(d) \/ Disconnect(d) \/ Crash(d)
  \/ \E m \in Text : SendText(m) \/ CancelQueued(m) \/ DeliveredCheck(m)
  \/ \E c \in Control : SendDelete(c)
  \/ \E f \in up : LoseFrame(f) \/ Relay(f)
  \/ \E e \in Env : Receive(e) \/ Notice(e) \/ RecvRetryLater(e) \/ SendAck(e)
  \/ \E e \in Env : RelayExpire(e) \/ RelayForget(e) \/ Age(e)

Spec == Init /\ [][Next]_vars

-----------------------------------------------------------------------------
(* Properties.                                                             *)

\* Custody: a text or control younger than the retry horizon is never nobody's:
\* until the recipient has decided it, the sender's outbox or the relay's queue
\* still holds it, whatever sockets, frames and processes were lost -- unless
\* the user cancelled it or the relay refused it for good.
Custody ==
  \A e \in made \ (aged \cup cancelled \cup Malformed) : e \in outbox \cup queue \cup seen

\* The recipient commits the decryption of an envelope at most once, however
\* often it is retransmitted, redelivered, or stored again by a relay that has
\* forgotten its id; and never one it gave up at the poison bound.
ExactlyOnce ==
  \A e \in Env : applied[e] <= 1 /\ (applied[e] = 1 => e \in seen)

\* No ack without history: what the relay drops because the recipient acked it
\* was decided durably, and a persistable text it decrypted is in the history
\* or was deleted by its sender (inbound.ts, HistoryPersistError).
AckedIsDurable ==
  /\ relaySeen \subseteq seen
  /\ \A m \in (relaySeen \cap Text) \ Ephemeral : applied[m] = 1 => m \in inRow \cup tomb

\* A deleted text never comes back, in whatever order the text and its delete
\* arrive and however often each is redelivered.
DeleteWins == inRow \cap tomb = {}

\* The status a sender shows is never ahead of the facts: "delivered" means the
\* recipient has decided the envelope, "sent" that the relay took it over.
StatusIsEarned ==
  \A m \in Text : /\ outRow[m] = "delivered" => m \in seen
                  /\ outRow[m] = "sent" => m \in queue \cup seen \cup aged

\* The status of a row only moves forward, or the row is deleted, although live
\* reports, catch-up answers and retransmission acks arrive in any order.
Rank(s) == CASE s = "unknown" -> 1 [] s = "sent" -> 2 [] s = "delivered" -> 3 [] s = "absent" -> 4
StatusMonotone ==
  [][\A m \in Text : (m \in made) => Rank(outRow'[m]) >= Rank(outRow[m])]_vars

\* Once its recipient has decided an envelope it never enters the queue again,
\* not even after the relay has forgotten its id: the seen row outlives the
\* sender's retransmissions.
NoResurrection ==
  [][\A e \in Env : e \in queue' \ queue => e \notin seen]_vars

\* Nothing goes back, in the sender's rows and in the relay's queue alike: what was
\* reported stays reported, and what was decided stays decided, although the two
\* learn of each other only by answers that are lost, late and repeated.
NothingGoesBack == NoResurrection /\ StatusMonotone

\* A session that has been opened is enough: an envelope is poison-dropped only
\* while the initial of its session has not been processed.
PoisonOnlyWithoutSession ==
  [][\A e \in Env : (e \in seen' \ seen /\ applied'[e] = 0) => Via[e] \notin opened]_vars

\* Decisions are right, whichever they are: an envelope acked was filed, and one given
\* up could not be opened (inbound.ts, processInbound).
DecidedRightly == []AckedIsDurable /\ PoisonOnlyWithoutSession

\* Why the above holds: where an envelope can be, given which frames and rows
\* name it.  Its decision is durable before any ack; a seen envelope is still
\* known to the relay until it is too old to be sent again; a "sent" answer
\* follows the row it confirms.
RowsPlaced ==
  /\ outbox \cup queue \cup seen \cup aged \subseteq made
  /\ relaySeen \cup unacked \subseteq seen
  /\ seen \subseteq queue \cup relaySeen \cup aged
UpPlaced ==
  /\ \A f \in up : f.kind = "send" => f.env \in made \ aged
  /\ \A f \in up : f.kind = "ack" => f.env \in seen
DownPlaced ==
  /\ \A g \in down : g.kind \in {"deliver", "sent"} => g.env \in made \cap (queue \cup relaySeen \cup aged)
  /\ \A g \in down : g.kind = "refused" => g.env \in Malformed
  /\ \A g \in down : g.kind = "delivered" => g.env \in seen
DecidedDurably ==
  \A m \in (seen \cap Text) \ Ephemeral : applied[m] = 1 => m \in inRow \cup tomb
IInv == /\ RowsPlaced /\ UpPlaced /\ DownPlaced /\ DecidedDurably
        /\ Custody /\ ExactlyOnce /\ DeleteWins /\ StatusIsEarned

\* deleteForEveryone's comment: for a message still queued the send is
\* cancelled; "nothing was delivered, so there is nothing to recall".
CancelledIsNeverRead == \A m \in cancelled : applied[m] = 0
=============================================================================
