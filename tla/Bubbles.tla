------------------------------ MODULE Bubbles ------------------------------
(***************************************************************************)
(* One message the user sends, as the windows of the device show it: the   *)
(* optimistic bubble of src/src/ui/useNightjar.ts (send, deleteMessage,    *)
(* markStatus, markFailed), and the saved row whose delivery status several *)
(* windows write at once (markDelivery of src/src/net/client.ts under a    *)
(* lock, historyMarkFailed and historyRemove of                            *)
(* src/src/storage/sessionStore.ts without it).                            *)
(*                                                                         *)
(* Screens has the texts that are received.  What the relay does with the  *)
(* message is in Delivery; here it only gives the windows their reasons to *)
(* write.  The retry horizon may pass at any time.                         *)
(***************************************************************************)
EXTENDS Naturals, Sequences, FiniteSets, SequencesExt

CONSTANTS
    Page,        \* tabs of the device
    MaxClosings  \* bound: tabs closed

ASSUME BubblesAssumption == IsFiniteSet(Page) /\ MaxClosings \in Nat

Mark == {"none", "sent", "delivered"}
Rank(s) == CASE s = "none" -> 0 [] s = "sent" -> 1 [] s = "delivered" -> 2
OwnRow == [status : Mark, failed : BOOLEAN]
NoOwn == [status |-> "absent", failed |-> FALSE]
Fresh == [status |-> "none", failed |-> FALSE]

VARIABLES
    own,         \* the saved message
    queued,      \* its outbox row
    relay,       \* what the relay made of it
    marking,     \* RAM: runs of markDelivery, of which one holds the conversation's lock
    failing,     \* RAM: [Page -> what is left of giving the message up]
    removing,    \* RAM: [Page -> what is left of deleting it]
    composing,   \* RAM: the windows whose send has not committed
    starting,    \* [Page -> how far activate is]
    snapshot,    \* RAM: [Page -> the row as loadAllHistory read it]
    bubble,      \* RAM: [Page -> the bubble]
    mailbox,     \* [Page -> render events it has not handled]
    pressed, kept, removed,  \* history: the user has sent it, it was saved, its row was removed
    missed,      \* history: an event met no bubble, or a tab was closed with one to tell
    closings

ownVars == <<own, queued>>
taskVars == <<marking, failing, removing, composing>>
windowVars == <<starting, snapshot, bubble, mailbox>>
bubblePast == <<pressed, kept, removed, missed, closings>>
bubbleVars == <<ownVars, relay, taskVars, windowVars, bubblePast>>

Running(w) == starting[w] # "off"
AppendedNow == [kind |-> "append", status |-> "none"]
DeletedNow == [kind |-> "delete", status |-> "none"]
FailedNow == [kind |-> "failed", status |-> "none"]
MovedTo(s) == [kind |-> "status", status |-> s]
Render == {AppendedNow, DeletedNow, FailedNow, MovedTo("sent"), MovedTo("delivered")}

\* Mutant: an event overwrites the status, whatever the bubble says.
RenderedAnyhow(b, e) ==
    CASE e.kind = "append" -> IF b = NoOwn THEN Fresh ELSE b
      [] e.kind = "delete" -> NoOwn
      [] e.kind = "failed" -> IF b = NoOwn THEN b ELSE [b EXCEPT !.failed = TRUE]
      [] OTHER -> IF b = NoOwn THEN b ELSE [b EXCEPT !.status = e.status]

\* appendMessage, removeBubble, markFailed and markStatus: a bubble's status only moves
\* forward, and a failed one is not relabelled.
Rendered(b, e) ==
    CASE e.kind = "append" -> IF b = NoOwn THEN Fresh ELSE b
      [] e.kind = "delete" -> NoOwn
      [] e.kind = "failed" -> IF b = NoOwn THEN b ELSE [b EXCEPT !.failed = TRUE]
      [] OTHER -> IF b = NoOwn \/ b.failed \/ b.status = "delivered" THEN b
                  ELSE [b EXCEPT !.status = e.status]

\* What the windows in ws make of an event, now or when they have come to it.
ShownIn(ws, e) == [w \in Page |-> IF w \in ws THEN Rendered(bubble[w], e) ELSE bubble[w]]
Cast(w, e) ==
    [x \in Page |-> IF x # w /\ Running(x) THEN Append(mailbox[x], e) ELSE mailbox[x]]

\* An event that finds no bubble, or one that a history read earlier is about to replace,
\* is lost on what is shown then.
Misses(w, e) == e # AppendedNow /\ (bubble[w] = NoOwn \/ starting[w] = "loading")

\* This window first, then the others.
TellAll(w, e) ==
    /\ bubble' = ShownIn({w}, e) /\ mailbox' = Cast(w, e)
    /\ UNCHANGED <<starting, snapshot>>

---------------------------------------------------------------------------
(* A window starts: the channel, the connection, the history. *)

StartPage(w) ==
    /\ starting[w] = "off" /\ starting' = [starting EXCEPT ![w] = "connecting"]
    /\ UNCHANGED <<ownVars, relay, taskVars, snapshot, bubble, mailbox, bubblePast>>

\* Told, and still to be written: handleSendError and deleteMessage.
ToldUnwritten ==
    \E x \in Page : removing[x] # <<>> \/ (failing[x] # <<>> /\ Last(failing[x]) = "drop")

ReadHistory(w) ==
    /\ starting[w] = "connecting" /\ starting' = [starting EXCEPT ![w] = "loading"]
    /\ snapshot' = [snapshot EXCEPT ![w] = own]
    /\ missed' = (missed \/ ToldUnwritten)
    /\ UNCHANGED <<ownVars, relay, taskVars, bubble, mailbox, pressed, kept, removed, closings>>

\* mergeHistory: what was read, and the bubble only when there was no row.
ShowHistory(w) ==
    /\ starting[w] = "loading" /\ starting' = [starting EXCEPT ![w] = "ready"]
    /\ bubble' = [bubble EXCEPT ![w] = IF snapshot[w] # NoOwn THEN snapshot[w] ELSE @]
    /\ snapshot' = [snapshot EXCEPT ![w] = NoOwn]
    /\ UNCHANGED <<ownVars, relay, taskVars, mailbox, bubblePast>>

HearRender(w) ==
    /\ mailbox[w] # <<>>
    /\ bubble' = ShownIn({w}, Head(mailbox[w]))
    /\ missed' = (missed \/ Misses(w, Head(mailbox[w])))
    /\ mailbox' = [mailbox EXCEPT ![w] = Tail(@)]
    /\ UNCHANGED <<ownVars, relay, taskVars, starting, snapshot, pressed, kept, removed, closings>>

---------------------------------------------------------------------------
(* Sending. *)

\* The bubble comes before anything is written.
Press(w) ==
    /\ starting[w] = "ready" /\ ~pressed /\ pressed' = TRUE
    /\ composing' = {w}
    /\ TellAll(w, AppendedNow)
    /\ UNCHANGED <<ownVars, relay, marking, failing, removing, kept, removed, missed, closings>>

\* A window that was not told of the bubble and has read the history misses the message;
\* one that deleted the bubble meanwhile has it saved again.
SaveOwn(w) ==
    /\ w \in composing /\ composing' = {}
    /\ own' = Fresh /\ queued' = TRUE /\ kept' = TRUE
    /\ missed' = (missed \/ \E x \in Page : starting[x] \in {"loading", "ready"}
                                  /\ bubble[x] = NoOwn /\ mailbox[x] = <<>>)
    /\ UNCHANGED <<relay, marking, failing, removing, windowVars, pressed, removed, closings>>

\* A refused key, or devices that could not be reached: only the bubble says so.
SendFails(w) ==
    /\ w \in composing /\ composing' = {}
    /\ TellAll(w, FailedNow)
    /\ UNCHANGED <<ownVars, relay, marking, failing, removing, bubblePast>>

RelayAnswers ==
    /\ \/ relay = "none" /\ queued /\ relay' \in {"stored", "refused"}
       \/ relay = "stored" /\ relay' = "taken"
    /\ UNCHANGED <<ownVars, taskVars, windowVars, bubblePast>>

---------------------------------------------------------------------------
(* The status of the saved row. *)

\* What a window has heard that the row does not say yet.
Reported(s) == IF s = "sent" THEN relay \in {"stored", "taken"} ELSE relay = "taken"

\* The lock of the conversation, which the windows share: held until the row is written.
ConversationFree == \A k \in marking : k.written

\* markDelivery reads ...
ReadMark(w, s) ==
    /\ Running(w) /\ ConversationFree /\ Reported(s)
    /\ own # NoOwn /\ own.status \notin {s, "delivered"}
    /\ marking' = marking \union {[by |-> w, to |-> s, read |-> own, written |-> FALSE]}
    /\ UNCHANGED <<ownVars, relay, failing, removing, composing, windowVars, bubblePast>>

\* Mutant: the row is put as it was read.
HistoryUpdateBlind(current, new) == new
\* A row that is gone stays so, and one that was marked failed meanwhile stays failed.
HistoryUpdate(current, new) ==
    IF current = NoOwn THEN NoOwn ELSE [new EXCEPT !.failed = @ \/ current.failed]

\* ... writes ...
WriteMark(k) ==
    /\ ~k.written
    /\ own' = HistoryUpdate(own, [k.read EXCEPT !.status = k.to])
    /\ marking' = (marking \ {k}) \union {[k EXCEPT !.written = TRUE]}
    /\ UNCHANGED <<queued, relay, failing, removing, composing, windowVars, bubblePast>>

\* ... and tells, whether the row was still there or not.
TellMark(k) ==
    /\ k.written /\ marking' = marking \ {k}
    /\ TellAll(k.by, MovedTo(k.to))
    /\ missed' = (missed \/ Misses(k.by, MovedTo(k.to)))
    /\ UNCHANGED <<ownVars, relay, failing, removing, composing, pressed, kept, removed, closings>>

\* What fire does with the relay's answer beside that.
RemoveOutbox ==
    /\ queued /\ relay \in {"stored", "taken"} /\ queued' = FALSE
    /\ UNCHANGED <<own, relay, taskVars, windowVars, bubblePast>>

---------------------------------------------------------------------------
(* Giving up, without the lock. *)

\* handleSendError tells first; flushOutbox, past the horizon, last.
GivesUp(w) ==
    /\ Running(w) /\ queued /\ failing[w] = <<>>
    /\ failing' = [failing EXCEPT ![w] = IF relay = "refused" THEN <<"tell", "mark", "drop">>
                                         ELSE <<"mark", "drop", "tell">>]
    /\ UNCHANGED <<ownVars, relay, marking, removing, composing, windowVars, bubblePast>>

GivingUp(w, step) ==
    /\ failing[w] # <<>> /\ Head(failing[w]) = step
    /\ failing' = [failing EXCEPT ![w] = Tail(@)]
    /\ UNCHANGED <<relay, marking, removing, composing, pressed, kept, removed, closings>>

\* historyMarkFailed reads and writes in one transaction.
HistoryMarkFailed(w) ==
    /\ GivingUp(w, "mark")
    /\ own' = IF own = NoOwn THEN NoOwn ELSE [own EXCEPT !.failed = TRUE]
    /\ UNCHANGED <<queued, windowVars, missed>>

DropOutbox(w) ==
    /\ GivingUp(w, "drop") /\ queued' = FALSE
    /\ UNCHANGED <<own, windowVars, missed>>

TellFailed(w) ==
    /\ GivingUp(w, "tell") /\ TellAll(w, FailedNow)
    /\ missed' = (missed \/ Misses(w, FailedNow))
    /\ UNCHANGED ownVars

---------------------------------------------------------------------------
(* Deleting. *)

\* The bubble goes first; of a failed message nothing is asked of anybody.  What is still
\* being sent is saved after all, and a window that has not heard of it yet shows it.
DeleteMessage(w) ==
    /\ starting[w] = "ready" /\ bubble[w] # NoOwn /\ removing[w] = <<>>
    /\ removing' = [removing EXCEPT ![w] =
                       IF bubble[w].failed THEN <<"row">> ELSE <<"row", "outbox">>]
    /\ TellAll(w, DeletedNow)
    /\ missed' = (missed \/ composing # {} \/ \E x \in Page : Contains(mailbox[x], AppendedNow))
    /\ UNCHANGED <<ownVars, relay, marking, failing, composing, pressed, kept, removed, closings>>

RemoveStep(w) ==
    /\ removing[w] # <<>>
    /\ removing' = [removing EXCEPT ![w] = Tail(@)]
    /\ IF Head(removing[w]) = "row"
       THEN own' = NoOwn /\ removed' = (removed \/ kept) /\ UNCHANGED queued
       ELSE queued' = FALSE /\ UNCHANGED <<own, removed>>
    /\ UNCHANGED <<relay, marking, failing, composing, windowVars, pressed, kept, missed, closings>>

\* The tab is closed; what it was about to write or tell is lost.
ClosePage(w) ==
    /\ Running(w) /\ closings < MaxClosings /\ closings' = closings + 1
    /\ starting' = [starting EXCEPT ![w] = "off"]
    /\ snapshot' = [snapshot EXCEPT ![w] = NoOwn] /\ bubble' = [bubble EXCEPT ![w] = NoOwn]
    /\ mailbox' = [mailbox EXCEPT ![w] = <<>>]
    /\ marking' = {k \in marking : k.by # w} /\ composing' = composing \ {w}
    /\ failing' = [failing EXCEPT ![w] = <<>>] /\ removing' = [removing EXCEPT ![w] = <<>>]
    /\ missed' = (missed \/ marking # marking' \/ failing[w] # <<>> \/ removing[w] # <<>>)
    /\ UNCHANGED <<ownVars, relay, pressed, kept, removed>>

---------------------------------------------------------------------------
BubblesInit ==
    /\ own = NoOwn /\ queued = FALSE /\ relay = "none"
    /\ marking = {} /\ composing = {}
    /\ failing = [w \in Page |-> <<>>] /\ removing = failing /\ mailbox = failing
    /\ starting = [w \in Page |-> "off"]
    /\ snapshot = [w \in Page |-> NoOwn] /\ bubble = snapshot
    /\ pressed = FALSE /\ kept = FALSE /\ removed = FALSE /\ missed = FALSE /\ closings = 0

BubblesNext ==
    \/ \E w \in Page :
          \/ StartPage(w) \/ ReadHistory(w) \/ ShowHistory(w) \/ HearRender(w)
          \/ Press(w) \/ SaveOwn(w) \/ SendFails(w)
          \/ ReadMark(w, "sent") \/ ReadMark(w, "delivered")
          \/ GivesUp(w) \/ HistoryMarkFailed(w) \/ DropOutbox(w) \/ TellFailed(w)
          \/ DeleteMessage(w) \/ RemoveStep(w) \/ ClosePage(w)
    \/ \E k \in marking : WriteMark(k) \/ TellMark(k)
    \/ RelayAnswers \/ RemoveOutbox

BubblesSpec == BubblesInit /\ [][BubblesNext]_bubbleVars

---------------------------------------------------------------------------
BubblesTypeOK ==
    /\ own \in OwnRow \union {NoOwn} /\ queued \in BOOLEAN
    /\ relay \in {"none", "stored", "refused", "taken"}
    /\ Cardinality({k \in marking : ~k.written}) <= 1
    /\ marking \subseteq [by : Page, to : Mark, read : OwnRow, written : BOOLEAN]
    /\ \A w \in Page :
          /\ {snapshot[w], bubble[w]} \subseteq OwnRow \union {NoOwn}
          /\ \A i \in DOMAIN mailbox[w] : mailbox[w][i] \in Render
          /\ ~Running(w) => bubble[w] = NoOwn /\ mailbox[w] = <<>> /\ removing[w] = <<>>
    /\ kept => pressed

\* Whichever windows write at once: the status of a saved message never goes back, a
\* message marked failed stays so, and one that was removed stays removed (client.ts
\* markDelivery reads, seals and puts in three steps; sessionStore.ts historyUpdate).
RowKeepsMore ==
    [][/\ own # NoOwn /\ own' # NoOwn => /\ Rank(own'.status) >= Rank(own.status)
                                         /\ own.failed => own'.failed
       /\ removed => own' = NoOwn]_bubbleVars

AllTold ==
    /\ marking = {} /\ composing = {}
    /\ \A w \in Page : failing[w] = <<>> /\ removing[w] = <<>> /\ mailbox[w] = <<>>

\* When everything was written, told and heard, every window shows the message as it is
\* saved: there or not, failed or not, and with its status unless it failed; although
\* the window that sends, the one that hears of the delivery and the one that gives up
\* need not be the same (useNightjar.ts).  Excepted is a message of which an event found
\* no bubble, or whose bubble a history read earlier replaced, or that a closed tab had
\* something left to tell of.
BubblesAgree ==
    kept /\ AllTold /\ ~missed => \A w \in Page : starting[w] = "ready" =>
        IF own = NoOwn THEN bubble[w] = NoOwn
        ELSE /\ bubble[w] # NoOwn /\ bubble[w].failed = own.failed
             /\ own.failed \/ bubble[w].status = own.status
=============================================================================
