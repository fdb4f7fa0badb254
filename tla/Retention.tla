------------------------------ MODULE Retention ------------------------------
(***************************************************************************)
(* What is forgotten, and when: the retry horizon of the sender's outbox,  *)
(* the relay's queue and seen ids, which an alarm sweeps, and the          *)
(* recipient's dedup rows and tombstones, which go when it connects        *)
(* (constants.ts, pruneExpired of sessionStore.ts, alarm of inbox.ts).     *)
(* Each is counted from a moment of its own, on the clock of whoever keeps *)
(* it; here the clocks agree.                                              *)
(*                                                                         *)
(* One text and the delete that follows it.  Delivery has the frames, the  *)
(* retries and the crashes that here are only the choice whether something *)
(* arrives.                                                                *)
(***************************************************************************)
EXTENDS Naturals

CONSTANTS
    Horizon,       \* OUTBOX_RETRY_HORIZON_MS
    SeenIdTtl,     \* SEEN_ID_TTL_MS
    QueueTtl,      \* ENVELOPE_TTL_MS, that of a tombstone too
    Interval,      \* CLEANUP_INTERVAL_MS
    LastDay         \* bound: the last day

ASSUME RetentionAssumption ==
    /\ {Horizon, SeenIdTtl, QueueTtl, Interval} \subseteq Nat /\ LastDay \in Nat \ {0}
    /\ Horizon < SeenIdTtl /\ SeenIdTtl < QueueTtl

Mail == {"text", "delete"}
Never == 0
Dates == [Mail -> 0 .. LastDay]

VARIABLES
    today,
    born,          \* createdAt of an envelope
    outgoing,      \* envelopes in the sender's outbox
    told,         \* the status of the sender's row, "gone" once deleted
    stored,        \* created_at of the relay's row
    seenAt,        \* seen_at of the relay's seen id
    dedup,         \* when the recipient consumed it, as far as it remembers
    buried,        \* when its tombstone was written
    inHistory,     \* the text is in the recipient's history
    consumed,      \* envelopes the recipient ever decrypted: their keys are gone
    acked,         \* envelopes whose ack the relay ever had
    overdue        \* an envelope was handed over although it was past its time

senderSide == <<born, outgoing, told>>
relaySide == <<stored, seenAt, acked>>
recipientSide == <<dedup, buried, inHistory, consumed, overdue>>
retentionVars == <<today, senderSide, relaySide, recipientSide>>

Past(date, ttl) == date # Never /\ today - date > ttl
Swept(dates, ttl) == [e \in Mail |-> IF Past(dates[e], ttl) THEN Never ELSE dates[e]]

---------------------------------------------------------------------------
(* The sender. *)

MakeText ==
    /\ born["text"] = Never
    /\ born' = [born EXCEPT !["text"] = today] /\ outgoing' = {"text"} /\ told' = "unknown"
    /\ UNCHANGED <<today, relaySide, recipientSide>>

\* Mutant: an envelope is retried as long as the relay would keep it.
PastHorizonLate(e) == Past(born[e], QueueTtl)

PastHorizon(e) == Past(born[e], Horizon)

GiveUp(e) ==
    /\ e \in outgoing /\ PastHorizon(e)
    /\ outgoing' = outgoing \ {e}
    /\ UNCHANGED <<today, born, told, relaySide, recipientSide>>

\* The relay keeps what it neither has nor had; the answer is heard, or it is lost.
Retransmit(e) ==
    /\ e \in outgoing /\ ~PastHorizon(e)
    /\ stored' = IF seenAt[e] = Never /\ stored[e] = Never
                 THEN [stored EXCEPT ![e] = today] ELSE stored
    /\ \/ UNCHANGED <<outgoing, told>>
       \/ /\ outgoing' = outgoing \ {e}
          /\ told' = IF e = "text" /\ told = "unknown" THEN "sent" ELSE told
    /\ UNCHANGED <<today, born, seenAt, acked, recipientSide>>

\* While its text waits in the outbox, the delete is not sent.
DeleteText ==
    /\ born["text"] # Never /\ told # "gone"
    /\ told' = "gone"
    /\ IF "text" \in outgoing
       THEN outgoing' = {} /\ UNCHANGED born
       ELSE outgoing' = {"delete"} /\ born' = [born EXCEPT !["delete"] = today]
    /\ UNCHANGED <<today, relaySide, recipientSide>>

\* Mutant: asked about for as long as a message can be queued.
AskedAboutLonger == told = "sent" /\ ~Past(born["text"], QueueTtl)

\* Only a message young enough for an answer is asked about.
AskedAbout == told = "sent" /\ ~Past(born["text"], SeenIdTtl)

FlushDeliveredChecks ==
    /\ AskedAbout /\ seenAt["text"] # Never
    /\ told' = "delivered"
    /\ UNCHANGED <<today, born, outgoing, relaySide, recipientSide>>

---------------------------------------------------------------------------
(* The relay and the recipient. *)

\* What is consumed without a dedup row fails to open.  The text finds its tombstone, or
\* goes to the history, and the delete takes it from there.
Consume(e) ==
    /\ stored[e] # Never /\ e \notin consumed
    /\ consumed' = consumed \union {e} /\ dedup' = [dedup EXCEPT ![e] = today]
    /\ IF e = "text" THEN inHistory' = (buried = Never) /\ UNCHANGED buried
                     ELSE inHistory' = FALSE /\ buried' = today
    /\ overdue' = (overdue \/ Past(stored[e], QueueTtl))
    /\ UNCHANGED <<today, senderSide, relaySide>>

\* The ack of what was consumed now or is a duplicate.
Ack(e) ==
    /\ stored[e] # Never /\ dedup[e] # Never
    /\ stored' = [stored EXCEPT ![e] = Never] /\ seenAt' = [seenAt EXCEPT ![e] = today]
    /\ acked' = acked \union {e}
    /\ UNCHANGED <<today, senderSide, recipientSide>>

PurgeAlarm ==
    /\ stored' = Swept(stored, QueueTtl) /\ seenAt' = Swept(seenAt, SeenIdTtl)
    /\ <<stored, seenAt>>' # <<stored, seenAt>>
    /\ UNCHANGED <<today, senderSide, acked, recipientSide>>

\* Mutant: a tombstone goes with the relay's seen ids.
TombstoneExpiredEarly == Past(buried, SeenIdTtl)

TombstoneExpired == Past(buried, QueueTtl)

PruneExpired ==
    /\ dedup' = Swept(dedup, QueueTtl) /\ buried' = IF TombstoneExpired THEN Never ELSE buried
    /\ <<dedup, buried>>' # <<dedup, buried>>
    /\ UNCHANGED <<today, senderSide, relaySide, inHistory, consumed, overdue>>

\* Rows keep an alarm pending, so none stays longer than an interval past its time.
NextDay ==
    /\ today < LastDay /\ today' = today + 1
    /\ \A e \in Mail : ~Past(stored[e], QueueTtl + Interval - 1)
    /\ UNCHANGED <<senderSide, relaySide, recipientSide>>

---------------------------------------------------------------------------
RetentionInit ==
    /\ today = 1 /\ born = [e \in Mail |-> Never] /\ outgoing = {} /\ told = "none"
    /\ stored = born /\ seenAt = born /\ acked = {}
    /\ dedup = born /\ buried = Never /\ inHistory = FALSE /\ consumed = {} /\ overdue = FALSE

RetentionNext ==
    \/ MakeText \/ DeleteText \/ FlushDeliveredChecks
    \/ \E e \in Mail : GiveUp(e) \/ Retransmit(e) \/ Consume(e) \/ Ack(e)
    \/ PurgeAlarm \/ PruneExpired \/ NextDay

---------------------------------------------------------------------------
RetentionTypeOK ==
    /\ today \in 1 .. LastDay /\ {born, stored, seenAt, dedup} \subseteq Dates
    /\ buried \in 0 .. LastDay /\ outgoing \subseteq Mail
    /\ told \in {"none", "unknown", "sent", "delivered", "gone"}
    /\ inHistory \in BOOLEAN /\ consumed \subseteq Mail /\ acked \subseteq consumed
    /\ overdue \in BOOLEAN

\* A tombstone outlives its text: whoever processed the delete never shows the text again,
\* unless the relay handed something over past its time (constants.ts TOMBSTONE_TTL_MS).
TombstoneOutlives == "delete" \in consumed /\ inHistory => overdue

\* The relay never stores again what the recipient consumed: its memory of an id outlasts
\* the sender's retries (constants.ts, the chain of horizons).
MemoryOutlastsRetries ==
    [][\A e \in consumed : stored[e] = Never => stored'[e] = Never]_retentionVars

\* Whatever the sender asks about is answered by what happened to it: an id that the relay
\* does not know was not acked (client.ts flushDeliveredChecks).
AskedIsRemembered == AskedAbout /\ "text" \in acked => seenAt["text"] # Never
=============================================================================
