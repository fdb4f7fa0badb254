------------------------------ MODULE Sessions ------------------------------
(***************************************************************************)
(* The session books of two devices and the recovery that runs when they   *)
(* disagree: src/src/session/sessionBook.ts, the book half of              *)
(* src/src/net/inbound.ts and src/src/net/client.ts, and the retry         *)
(* receipts of client.ts (ask, honour, resend) with their ledger in        *)
(* src/src/trust/contactStore.ts.                                          *)
(*                                                                         *)
(* A session is the number of the initial that opened it; Ratchet.tla      *)
(* shows that an envelope opens at a device holding its session, so here   *)
(* it opens exactly when the receiver's book holds it.  Outbox, acks and   *)
(* the relay's own failures are in Delivery.tla: here a commit reaches the *)
(* recipient's queue, and each connection drains the queue once, in order, *)
(* leaving behind what did not open.                                       *)
(***************************************************************************)
EXTENDS Naturals, Sequences, FiniteSets, SequencesExt, Lists

CONSTANTS
    Device,        \* the two devices
    Text,          \* contents; owner of a text: the device that sends it
    Author,        \* [Text -> Device]
    MaxBook,       \* MAX_SESSIONS_PER_PEER
    AskAfter,      \* RETRY_REQUEST_AFTER_ATTEMPTS
    Poison,        \* POISON_MAX_ATTEMPTS
    MaxAsks,       \* RETRY_REQUEST_MAX_ATTEMPTS
    MaxResend,     \* RETRY_RESEND_MAX_MESSAGES
    MaxLosses,     \* bound: restores of each device, [Device -> Nat]
    MaxDeletes,    \* bound: deletes
    MaxSessions,   \* bound: sessions ever opened
    MaxCrashes     \* bound: restarts, and bundles that could not be fetched

ASSUME SessionsAssumption ==
    /\ IsFiniteSet(Device) /\ Cardinality(Device) = 2 /\ Author \in [Text -> Device]
    /\ {MaxBook, AskAfter, Poison, MaxAsks, MaxResend} \subseteq Nat \ {0}
    /\ AskAfter < Poison
    /\ MaxLosses \in [Device -> Nat]
    /\ {MaxDeletes, MaxSessions, MaxCrashes} \subseteq Nat

VARIABLES
    book,      \* each device's book for the other: sessions, most recently used first
    current,   \* book.currentId (0: no current session)
    queue,     \* the relay's queue for each device, with what the device has made of it:
               \*   each envelope's failed attempts, and whether this connection drained it
    kept,      \* contents in the history
    tomb,      \* tombstones of deleted contents
    ledger,    \* retry ledger: [attempts, asked, honored], the last two inside their interval
    ask,       \* RAM: maybeRequestRetry in progress
    asked,     \* RAM: askedRetryFrom
    resend,    \* RAM: honorRetryRequest in progress, the rows still to queue
    refresh,   \* a session refresh is still owed (the move-refresh list)
    opens,     \* history: sessions opened
    mail,      \* history: envelopes committed
    sent,      \* history: contents sent, oldest first
    read,      \* history: contents ever filed by their recipient
    losses, deletes, crashes,
    cut        \* history: what cut a request or a resend short: "closed" (a restart or a
               \*   restore), "unfetched" (no bundle for a new session)

bookVars == <<book, current>>
histVars == <<kept, tomb>>
retryVars == <<ledger, ask, asked, resend>>
countVars == <<losses, deletes, crashes, cut>>
sessionVars == <<book, current, queue, kept, tomb, ledger, ask, asked,
                 resend, refresh, opens, mail, sent, read, losses, deletes, crashes, cut>>

Peer(d) == CHOOSE e \in Device : e # d

NoLedger == [attempts |-> 0, asked |-> FALSE, honored |-> FALSE]
Idle == <<>>

---------------------------------------------------------------------------
(* The book. *)

\* Mutant: nobody makes room.
PromoteSessionKeepsAll(b, s) == <<s>> \o b

\* A promoted session is current and most recently used; the least recently
\* used of the others make room.
PromoteSession(b, s) == IF Len(b) < MaxBook THEN <<s>> \o b
                        ELSE <<s>> \o SubSeq(b, 1, MaxBook - 1)

\* A session that sent or received moves to the front of the recency order.
UpdateSession(b, s) == <<s>> \o Remaining(b, {s})

\* decryptOrder only decides which sessions are tried first: a normal envelope
\* opens under the one session it was sealed with, if the book holds it.  An
\* initial opens with the prekeys it was built from, and a restore discards them.
Decrypts(d, env) ==
    IF env.kind = "initial" THEN env.prekeys = losses[d]
    ELSE env.session \in Range(book[d])

---------------------------------------------------------------------------
(* Sending. *)

\* What every send path does under the session lock: seal under the current
\* session, or open one when there is none, and commit book and envelope at once.
CanOpenSession == opens < MaxSessions

Commit(d, body) ==
    LET fresh == current[d] = 0
        s == IF fresh THEN opens + 1 ELSE current[d]
        env == [id |-> mail + 1, session |-> s,
                kind |-> IF fresh THEN "initial" ELSE "normal",
                prekeys |-> losses[Peer(d)], body |-> body, fails |-> 0, tried |-> FALSE]
    IN  /\ fresh => CanOpenSession
        /\ opens' = IF fresh THEN opens + 1 ELSE opens
        /\ mail' = mail + 1
        /\ book' = [book EXCEPT ![d] = IF fresh THEN PromoteSession(@, s)
                                       ELSE UpdateSession(@, s)]
        /\ current' = [current EXCEPT ![d] = s]
        /\ queue' = [queue EXCEPT ![Peer(d)] = Append(@, env)]

SendText(d, c) ==
    /\ Author[c] = d /\ c \notin Range(sent)
    /\ Commit(d, [type |-> "text", of |-> c])
    /\ sent' = Append(sent, c)
    /\ kept' = [kept EXCEPT ![d] = @ \union {c}]
    /\ UNCHANGED <<tomb, retryVars, refresh, read, countVars>>

\* deleteForEveryone: the sender's row goes and the peer is told.
DeleteForEveryone(d, c) ==
    /\ Author[c] = d /\ c \in kept[d] /\ deletes < MaxDeletes
    /\ Commit(d, [type |-> "delete", of |-> c])
    /\ kept' = [kept EXCEPT ![d] = @ \ {c}]
    /\ tomb' = [tomb EXCEPT ![d] = @ \union {c}]
    /\ deletes' = deletes + 1
    /\ UNCHANGED <<retryVars, refresh, sent, read, losses, crashes, cut>>

\* The recipient deletes its own copy.
DeleteForMe(d, c) ==
    /\ Author[c] # d /\ c \in kept[d] /\ deletes < MaxDeletes
    /\ kept' = [kept EXCEPT ![d] = @ \ {c}]
    /\ tomb' = [tomb EXCEPT ![d] = @ \union {c}]
    /\ deletes' = deletes + 1
    /\ UNCHANGED <<bookVars, queue, retryVars, refresh, opens, mail, sent, read,
                   losses, crashes, cut>>

\* sendSessionRefresh, from the move-refresh list: nothing to do when a session
\* is current already.
SendSessionRefresh(d) ==
    /\ refresh[d]
    /\ refresh' = [refresh EXCEPT ![d] = FALSE]
    /\ IF current[d] = 0
       THEN Commit(d, [type |-> "refresh"])
       ELSE UNCHANGED <<bookVars, queue, opens, mail>>
    /\ UNCHANGED <<histVars, retryVars, sent, read, countVars>>

---------------------------------------------------------------------------
(* Receiving. *)

\* The oldest envelope this connection has not drained yet, by its place.
Undrained(d) == {i \in DOMAIN queue[d] : ~queue[d][i].tried}
Due(d) == CHOOSE i \in Undrained(d) : \A j \in Undrained(d) : i <= j
Drop(d, env) == Remaining(queue[d], {env})

\* Mutant: the tombstone is not consulted.
FiledHistoryAnyway(d, body) ==
    IF body.type = "text" THEN kept[d] \union {body.of}
    ELSE IF body.type = "delete" THEN kept[d] \ {body.of}
    ELSE kept[d]

\* planHistory: a text is filed unless it is tombstoned, a delete removes the row
\* and leaves a tombstone.
FiledHistory(d, body) ==
    IF body.type = "text" /\ body.of \notin tomb[d] THEN kept[d] \union {body.of}
    ELSE IF body.type = "delete" THEN kept[d] \ {body.of}
    ELSE kept[d]

Entombed(d, body) ==
    IF body.type = "delete" THEN tomb[d] \union {body.of} ELSE tomb[d]

\* An envelope that opened: the book, the plaintext's effect and the ack in one
\* commit, then clearRetryAsk, then the honouring of a request.
Opened(d, env, b) ==
    /\ book' = [book EXCEPT ![d] = b]
    /\ queue' = [queue EXCEPT ![d] = Drop(d, env)]
    /\ kept' = [kept EXCEPT ![d] = FiledHistory(d, env.body)]
    /\ tomb' = [tomb EXCEPT ![d] = Entombed(d, env.body)]
    /\ read' = IF env.body.type = "text" /\ env.body.of \notin tomb[d]
               THEN read \union {env.body.of} ELSE read
    /\ asked' = [asked EXCEPT ![d] = FALSE]
    /\ ledger' = [ledger EXCEPT ![d] =
                     IF asked[d] THEN [@ EXCEPT !.attempts = 0, !.asked = FALSE] ELSE @]

Resendable(d) == Remaining(sent, {c \in Text : Author[c] # d \/ c \notin kept[d] \/ c \in tomb[d]})

\* Mutant: the newest row is left out.
CollectedShort(d) ==
    LET rows == Resendable(d)
    IN  SubSeq(rows, 1, Len(rows) - 1)

\* honorRetryRequest: at most once per interval, and not while one is running.
\* The rows are collected at once and queued one by one.
Collected(d) ==
    LET rows == Resendable(d)
    IN  IF Len(rows) <= MaxResend THEN rows
        ELSE SubSeq(rows, Len(rows) - MaxResend + 1, Len(rows))

ReceiveInitial(d) ==
    /\ Undrained(d) # {}
    /\ LET env == queue[d][Due(d)] IN
       /\ env.kind = "initial" /\ Decrypts(d, env)
       /\ Opened(d, env, PromoteSession(book[d], env.session))
       /\ current' = [current EXCEPT ![d] = env.session]
       /\ resend' = [resend EXCEPT ![d] =
                        IF env.body.type = "retry" /\ @ = Idle THEN <<"honor">> ELSE @]
    /\ UNCHANGED <<ask, refresh, opens, mail, sent, countVars>>

ReceiveNormal(d) ==
    /\ Undrained(d) # {}
    /\ LET env == queue[d][Due(d)] IN
       /\ env.kind = "normal" /\ Decrypts(d, env)
       /\ Opened(d, env, UpdateSession(book[d], env.session))
       /\ resend' = [resend EXCEPT ![d] =
                        IF env.body.type = "retry" /\ @ = Idle THEN <<"honor">> ELSE @]
    /\ UNCHANGED <<current, ask, refresh, opens, mail, sent, countVars>>

\* Mutant: what cannot be opened is never given up.
FailToOpenForEver(d) ==
    /\ Undrained(d) # {}
    /\ LET env == queue[d][Due(d)] IN
       /\ ~Decrypts(d, env)
       /\ ask' = [ask EXCEPT ![d] =
                     IF env.fails + 1 >= AskAfter /\ ~asked[d] /\ @ = "none"
                     THEN "wanted" ELSE @]
       /\ queue' = [queue EXCEPT ![d][Due(d)].tried = TRUE,
                                 ![d][Due(d)].fails = IF @ + 1 < Poison THEN @ + 1 ELSE @]
    /\ UNCHANGED <<bookVars, histVars, ledger, asked, resend, refresh, opens, mail,
                   sent, read, countVars>>

\* Nothing opens it: the failure is counted, and from the second on the peer
\* is asked; at the poison bound it is acked and dropped, and the peer is asked.
FailToOpen(d) ==
    /\ Undrained(d) # {}
    /\ LET env == queue[d][Due(d)]
           n == env.fails + 1
       IN
       /\ ~Decrypts(d, env)
       /\ ask' = [ask EXCEPT ![d] =
                     IF n >= AskAfter /\ ~asked[d] /\ @ = "none" THEN "wanted" ELSE @]
       /\ queue' = [queue EXCEPT ![d] =
                       IF n >= Poison THEN Drop(d, env)
                       ELSE [@ EXCEPT ![Due(d)] = [env EXCEPT !.fails = n, !.tried = TRUE]]]
    /\ UNCHANGED <<bookVars, histVars, ledger, asked, resend, refresh, opens, mail,
                   sent, read, countVars>>

\* A new socket drains the queue from the front again.
Redrained(d) == [i \in DOMAIN queue[d] |-> [queue[d][i] EXCEPT !.tried = FALSE]]

Reconnect(d) ==
    /\ \E i \in DOMAIN queue[d] : queue[d][i].tried
    /\ queue' = [queue EXCEPT ![d] = Redrained(d)]
    /\ UNCHANGED <<bookVars, histVars, retryVars, refresh, opens, mail, sent, read,
                   countVars>>

---------------------------------------------------------------------------
(* Retry receipts. *)

\* maybeRequestRetry, the ledger half: the attempt is counted before anything is
\* sent, and a peer asked inside the interval, or too often, is not asked.
RecordAsk(d) ==
    /\ ask[d] = "wanted"
    /\ IF asked[d] \/ ledger[d].attempts >= MaxAsks \/ ledger[d].asked
       THEN ask' = [ask EXCEPT ![d] = "none"] /\ UNCHANGED <<ledger, asked>>
       ELSE /\ ledger' = [ledger EXCEPT ![d].attempts = @ + 1, ![d].asked = TRUE]
            /\ asked' = [asked EXCEPT ![d] = TRUE]
            /\ ask' = [ask EXCEPT ![d] = "recorded"]
    /\ UNCHANGED <<bookVars, queue, histVars, resend, refresh, opens, mail, sent,
                   read, countVars>>

\* ... and the sending half.
SendRetryRequest(d) ==
    /\ ask[d] = "recorded"
    /\ Commit(d, [type |-> "retry"])
    /\ ask' = [ask EXCEPT ![d] = "none"]
    /\ UNCHANGED <<histVars, ledger, asked, resend, refresh, sent, read,
                   countVars>>

\* No session is current and the peer's bundle cannot be fetched: the attempt is
\* given back, and this run of the program has asked all the same.
AskFails(d) ==
    /\ ask[d] = "recorded" /\ current[d] = 0 /\ crashes < MaxCrashes
    /\ ask' = [ask EXCEPT ![d] = "none"]
    /\ ledger' = [ledger EXCEPT ![d].attempts = IF @ = 0 THEN 0 ELSE @ - 1]
    /\ crashes' = crashes + 1
    /\ cut' = cut \union {"unfetched"}
    /\ UNCHANGED <<bookVars, queue, histVars, asked, resend, refresh, opens, mail,
                   sent, read, losses, deletes>>

Honor(d) ==
    /\ resend[d] = <<"honor">>
    /\ IF ledger[d].honored
       THEN resend' = [resend EXCEPT ![d] = Idle] /\ UNCHANGED ledger
       ELSE /\ ledger' = [ledger EXCEPT ![d].honored = TRUE]
            /\ resend' = [resend EXCEPT ![d] = Collected(d)]
    /\ UNCHANGED <<bookVars, queue, histVars, ask, asked, refresh, opens, mail, sent,
                   read, countVars>>

QueueResend(d) ==
    /\ resend[d] \notin {Idle, <<"honor">>}
    /\ Commit(d, [type |-> "text", of |-> Head(resend[d])])
    /\ resend' = [resend EXCEPT ![d] = Tail(@)]
    /\ UNCHANGED <<histVars, ledger, ask, asked, refresh, sent, read,
                   countVars>>

\* The same of a resend: the rows left are given up.
ResendFails(d) ==
    /\ resend[d] \notin {Idle, <<"honor">>} /\ current[d] = 0 /\ crashes < MaxCrashes
    /\ resend' = [resend EXCEPT ![d] = Idle]
    /\ crashes' = crashes + 1
    /\ cut' = cut \union {"unfetched"}
    /\ UNCHANGED <<bookVars, queue, histVars, ledger, ask, asked, refresh, opens, mail,
                   sent, read, losses, deletes>>

\* RETRY_REQUEST_MIN_INTERVAL_MS or RETRY_HONOR_MIN_INTERVAL_MS passes.
IntervalPasses(d) ==
    /\ \/ ledger[d].asked /\ ledger' = [ledger EXCEPT ![d].asked = FALSE]
       \/ ledger[d].honored /\ ledger' = [ledger EXCEPT ![d].honored = FALSE]
    /\ UNCHANGED <<bookVars, queue, histVars, ask, asked, resend, refresh, opens,
                   mail, sent, read, countVars>>

---------------------------------------------------------------------------
(* Losses. *)

RamLost(d) ==
    /\ ask' = [ask EXCEPT ![d] = "none"]
    /\ asked' = [asked EXCEPT ![d] = FALSE]
    /\ resend' = [resend EXCEPT ![d] = Idle]
    /\ cut' = IF ask[d] # "none" \/ resend[d] # Idle THEN cut \union {"closed"} ELSE cut

\* The program is closed and opened again.
Restart(d) ==
    /\ crashes < MaxCrashes
    /\ crashes' = crashes + 1
    /\ RamLost(d)
    /\ queue' = [queue EXCEPT ![d] = Redrained(d)]
    /\ UNCHANGED <<bookVars, histVars, ledger, refresh, opens, mail, sent,
                   read, losses, deletes>>

\* The restored device has tried none of what is queued for it.
Untouched(d) == [i \in DOMAIN queue[d] |-> [queue[d][i] EXCEPT !.fails = 0, !.tried = FALSE]]

\* The device is restored from its backup or a move file: contacts survive, the
\* sessions, the history, the tombstones and the ledger do not, and the imported
\* contacts are to be greeted.
Restore(d) ==
    /\ losses[d] < MaxLosses[d]
    /\ losses' = [losses EXCEPT ![d] = @ + 1]
    /\ book' = [book EXCEPT ![d] = <<>>]
    /\ current' = [current EXCEPT ![d] = 0]
    /\ queue' = [queue EXCEPT ![d] = Untouched(d)]
    /\ kept' = [kept EXCEPT ![d] = {}]
    /\ tomb' = [tomb EXCEPT ![d] = {}]
    /\ ledger' = [ledger EXCEPT ![d] = NoLedger]
    /\ RamLost(d)
    /\ refresh' \in {[refresh EXCEPT ![d] = r] : r \in BOOLEAN}
    /\ UNCHANGED <<opens, mail, sent, read, deletes, crashes>>

---------------------------------------------------------------------------
SessionsInit ==
    /\ book = [d \in Device |-> <<>>] /\ current = [d \in Device |-> 0]
    /\ queue = [d \in Device |-> <<>>]
    /\ kept = [d \in Device |-> {}] /\ tomb = [d \in Device |-> {}]
    /\ ledger = [d \in Device |-> NoLedger]
    /\ ask = [d \in Device |-> "none"] /\ asked = [d \in Device |-> FALSE]
    /\ resend = [d \in Device |-> Idle] /\ refresh = [d \in Device |-> FALSE]
    /\ opens = 0 /\ mail = 0 /\ sent = <<>> /\ read = {}
    /\ losses = [d \in Device |-> 0] /\ deletes = 0 /\ crashes = 0
    /\ cut = {}

Retrying(d) == RecordAsk(d) \/ SendRetryRequest(d) \/ Honor(d) \/ QueueResend(d)
Receiving(d) == ReceiveInitial(d) \/ ReceiveNormal(d) \/ FailToOpen(d)

SessionsNext ==
    \E d \in Device :
        \/ \E c \in Text : SendText(d, c) \/ DeleteForEveryone(d, c) \/ DeleteForMe(d, c)
        \/ SendSessionRefresh(d)
        \/ Receiving(d) \/ Reconnect(d)
        \/ Retrying(d) \/ AskFails(d) \/ ResendFails(d) \/ IntervalPasses(d)
        \/ Restart(d) \/ Restore(d)

SessionsSpec == SessionsInit /\ [][SessionsNext]_sessionVars

\* The browser delivers what has arrived and runs what is queued, a connection
\* that drained is followed by another, and clocks advance.
FairSessions ==
    \A d \in Device :
        /\ WF_sessionVars(Receiving(d)) /\ WF_sessionVars(Reconnect(d))
        /\ WF_sessionVars(Retrying(d)) /\ WF_sessionVars(IntervalPasses(d))

---------------------------------------------------------------------------
Body == [type : {"text", "delete"}, of : Text] \union [type : {"refresh", "retry"}]
SessionId == 1 .. opens
SessionEnvelope ==
    [id : 1 .. mail, session : SessionId, kind : {"initial", "normal"}, prekeys : Nat,
     body : Body, fails : 0 .. Poison - 1, tried : BOOLEAN]

\* Types, and what makes a book one: no session twice, no more than the bound,
\* and a current session the book holds.
SessionsTypeOK ==
    \A d \in Device :
        /\ Range(book[d]) \subseteq SessionId /\ IsInjective(book[d])
        /\ Len(book[d]) <= MaxBook
        /\ current[d] \in Range(book[d]) \union {0}
        /\ Range(queue[d]) \subseteq SessionEnvelope
        /\ kept[d] \subseteq Text /\ tomb[d] \subseteq Text
        /\ ledger[d] \in [attempts : 0 .. MaxAsks, asked : BOOLEAN, honored : BOOLEAN]
        /\ ask[d] \in {"none", "wanted", "recorded"} /\ asked[d] \in BOOLEAN
        /\ resend[d] = <<"honor">> \/ Range(resend[d]) \subseteq Text
        /\ refresh[d] \in BOOLEAN /\ cut \subseteq {"closed", "unfetched"}

\* A text a device has deleted does not come back to its history: not by a
\* resend that was collected before the delete, nor by a redelivery after it
\* (inbound.ts planHistory against client.ts queueResend).
NotResent(d) == kept[d] \cap tomb[d] = {}
DeletedIsNotResent == \A d \in Device : NotResent(d)

Withdrawn(c) == c \notin kept[Author[c]]

\* Whatever sessions are lost on either side, a text sent is read: the session
\* refresh, the poison bound, the request and the resend add up.  Not if its
\* author deleted or lost it, and not if a restart, a restore or an unfetched
\* bundle cut short a request (client.ts maybeRequestRetry, honorRetryRequest).
SentIsRead ==
    \A c \in Text : (c \in Range(sent)) ~> (c \in read \/ Withdrawn(c) \/ cut # {})

\* What maybeRequestRetry says of a request that could not be sent, its attempt
\* given back: "the next redelivery tries again once the throttle allows".
UnsentAskIsRepeated ==
    [][\A d \in Device :
          /\ FailToOpen(d) /\ queue[d][Due(d)].fails + 1 >= AskAfter
          /\ ledger[d].attempts = 0 /\ ~ledger[d].asked
          => ask'[d] = "wanted"]_sessionVars

\* Requests and resends do not feed each other for ever: with no more losses
\* both ends come to rest with nothing queued.
RetriesDieDown ==
    <>[](\A d \in Device : ask[d] = "none" /\ resend[d] = Idle /\ queue[d] = <<>>)
=============================================================================
