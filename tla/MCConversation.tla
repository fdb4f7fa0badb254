--------------------------- MODULE MCConversation ---------------------------
(* Small instances of the layers of a conversation, side by side: the       *)
(* initial state chooses which layer moves, the others stand still.         *)
EXTENDS Sessions, Ratchet, Fanout, Retention
CONSTANTS
    alice, bob, hello,
    a1, a2, b1, b2,
    Layers,                             \* the layers that this run lets move
    SentByInitiator, SentByResponder,   \* values of MaxSent
    MaxFaults                           \* bound: losses, deletes and restarts together
VARIABLE layer

Ends == [p \in End |-> IF p = "initiator" THEN SentByInitiator ELSE SentByResponder]
FromAlice == [t \in Text |-> alice]
OneEach == [d \in Device |-> 1]

\* Own devices the writer knows of only if it writes to one device.
FewCopies == partners = {} \/ listed = {b1}

ConversationInit ==
    /\ layer \in Layers
    /\ SessionsInit /\ RatchetInit
    /\ FanoutInit /\ FewCopies
    /\ RetentionInit
    /\ layer = "copies" \/ (listed = {b1} /\ partners = {})

SessionsStep ==
    /\ layer = "sessions" /\ SessionsNext
    /\ losses'[alice] + losses'[bob] + deletes' + crashes' <= MaxFaults
    /\ UNCHANGED <<ratchetVars, fanoutVars, retentionVars, layer>>
RatchetStep ==
    /\ layer = "ratchet" /\ RatchetNext
    /\ UNCHANGED <<sessionVars, fanoutVars, retentionVars, layer>>
CopiesStep ==
    /\ layer = "copies" /\ FanoutNext
    /\ cuts' = 0 \/ listed = {b1}
    /\ UNCHANGED <<sessionVars, ratchetVars, retentionVars, layer>>
RetentionStep ==
    /\ layer = "retention" /\ RetentionNext
    /\ UNCHANGED <<sessionVars, ratchetVars, fanoutVars, layer>>

ConversationSpec ==
    /\ ConversationInit
    /\ [][SessionsStep \/ RatchetStep \/ CopiesStep \/ RetentionStep]_
           <<sessionVars, ratchetVars, fanoutVars, retentionVars, layer>>
    /\ FairSessions /\ FairFanout

---------------------------------------------------------------------------
\* Each layer is a state its code can be in: a book holds so many sessions of a peer, a
\* ratchet so many skipped keys of so many steps, a row's status is one that was heard.
ConversationTypeOK ==
    SessionsTypeOK /\ RatchetTypeOK /\ FanoutTypeOK /\ RetentionTypeOK

\* Every envelope opens, once: no two share a message key, one that was not opened yet
\* still can be as far as the bounds on skipped keys reach, and the key of one that was
\* is kept no longer (ratchet.ts ratchetDecrypt, ratchetSession.ts encrypt).
EnvelopesOpenOnce == KeysUsedOnce /\ UnopenedOpens /\ OpenedIsForgotten

\* What a lost session made unreadable is sent again and read in the end, and what was
\* deleted meanwhile is not (client.ts honorRetryRequest, collectResendable).
ResendsRepair == SentIsRead /\ [](\A d \in Device : NotResent(d))

\* What one device of an account received or deleted the others show or delete in the
\* end (client.ts forwardToOwnDevices, syncDeleteToOwnDevices).
OthersFollow == ReadOnAll /\ DeletedOnAll

\* Who forgets does so late enough: a tombstone outlives its text, the relay's memory of
\* an id the sender's retries, and the answer the question (constants.ts, pruneExpired).
ForgettingIsSafe ==
    [](TombstoneOutlives /\ AskedIsRemembered) /\ MemoryOutlastsRetries
=============================================================================
