----------------------------- MODULE MCContacts -----------------------------
(* A person the device knows already, one message, and few events at a time; *)
(* and beside it the windows that show a conversation, its received texts or *)
(* one message of the user.  The initial state chooses which of the three    *)
(* moves, the others stand still.                                            *)
EXTENDS Contacts, Screens, Bubbles
CONSTANTS
    hello, w1, w2, n1, n2,
    MaxEvents,     \* bound: deliveries, edits, cuts, ticks, rotation, its list and answers
    Layers         \* the layers that this run lets move
VARIABLE layer

Events ==
    Cardinality(heard) + edits + cuts + (now - 1) + Cardinality(asking)
        + (IF published["new"] > 0 THEN 1 ELSE 0) + (IF rotated THEN 1 ELSE 0)

MCContactsInit ==
    /\ layer \in Layers
    /\ ContactsInit
    /\ contacts = {"old"} /\ named = contacts
    /\ lists["old"] # 1 /\ (lists["old"] = 2 <=> claims["second"] = "old")
    /\ layer = "contacts" \/ lists["old"] = 0
    /\ ScreensInit
    /\ layer = "screens" \/ saved = {}
    /\ BubblesInit

ContactsStep ==
    /\ layer = "contacts" /\ ContactsNext /\ Events' <= MaxEvents
    /\ UNCHANGED <<screenVars, bubbleVars, layer>>

\* With two texts no window leaves, and nothing is cleared.
FewNotes == leaves' + clears' = 0 \/ came' \union erased' \subseteq {n1}
ScreensStep ==
    /\ layer = "screens" /\ ScreensNext /\ FewNotes
    /\ UNCHANGED <<contactsVars, bubbleVars, layer>>

\* Two writes run at a time and two events are on their way at most, three in all; one
\* less of each where a tab is closed; w1 sends.
Busy ==
    Cardinality(marking) + Cardinality(composing)
        + Cardinality({w \in Page : failing[w] # <<>>})
        + Cardinality({w \in Page : removing[w] # <<>>})
Behind == Len(mailbox[w1]) + Len(mailbox[w2])
FewWrite ==
    /\ composing' \subseteq {w1}
    /\ LET few == IF closings' > 0 THEN 1 ELSE 2 IN
       Busy' <= few /\ Behind' <= few /\ Busy' + Behind' <= few + 1
BubblesStep ==
    /\ layer = "bubbles" /\ BubblesNext /\ FewWrite
    /\ UNCHANGED <<contactsVars, screenVars, layer>>

MCContactsSpec ==
    /\ MCContactsInit
    /\ [][ContactsStep \/ ScreensStep \/ BubblesStep]_<<contactsVars, screenVars, bubbleVars, layer>>
    /\ FairContacts

\* What is stored about a person and what is shown of a conversation are states their
\* code can be in: one row per message and place, a marker for every rename in progress,
\* no row beside its own tombstone, nothing posted to a window that has no channel.
ContactsAndScreensTypeOK == ContactsTypeOK /\ ScreensTypeOK /\ BubblesTypeOK

\* Every window that has come to the end of what it was told shows the conversation as it
\* is saved: its received texts and the user's own message (useNightjar.ts).
WindowsAgree == ScreensAgree /\ BubblesAgree

\* A rename or a delete that is over has moved or removed all it was asked for
\* (client.ts applyRotation, deleteConversation).
ChangesFinish == DeleteFinishes /\ RenameFinishes

\* What was settled does not come back: neither a person the user deleted, by the
\* relay or by an answer that was on its way, nor a device list that was superseded, nor
\* a message that was removed or the status it had before (contactStore.ts
\* recordFirstContact, putKnownRoster; sessionStore.ts historyUpdate).
NothingComesBack == DeletedIsNotRelearned /\ ListsNeverGoBack /\ RowKeepsMore
=============================================================================
