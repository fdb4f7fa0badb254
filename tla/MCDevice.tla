------------------------------ MODULE MCDevice ------------------------------
(* Small instances of what a device does beside its conversations: its      *)
(* vault, its connection, its wake-ups, and the links, files and transfers  *)
(* that keys and history leave it by.  The initial state chooses which of   *)
(* them moves, the others stand still.                                      *)
EXTENDS Vault, Connection, Wakeup, Linking, Transfers
CONSTANTS
    t1, t2, ask, partner, e1, e2, l1, l2, mail, m1, m2,
    Layers           \* the layers that this run lets move
VARIABLE layer

\* The first message is on the other device or a plain one of this device; the second is
\* young on this device, or known to the other alone.
FewRows ==
    /\ unit[m1] = NoRow => saved[m1] = [status |-> "sent", failed |-> FALSE]
    /\ ~(saved[m1].failed /\ unit[m1].failed)
    /\ saved[m2] = NoRow \/ unit[m2] = NoRow
    /\ contact /\ saved[m2] \in {NoRow, [status |-> "sent", failed |-> FALSE]}
    /\ unit[m1].status \in {"none", "sent"} /\ unit[m2].status \in {"none", "delivered"}
    /\ ~unit[m2].failed /\ ahead \in {{}, {m2} \cap Of(unit)}

DeviceInit ==
    /\ layer \in Layers
    /\ VaultInit /\ ConnectionInit /\ WakeupInit
    /\ LinkingInit
    /\ IF layer = "linking" THEN \A s \in DOMAIN mix : Cardinality(mix[s]) > 1
       ELSE parts = 1 /\ \A s \in DOMAIN mix : mix[s] = Block
    /\ TransfersInit
    /\ IF layer = "history" THEN FewRows
       ELSE saved = Nothing /\ unit = Nothing /\ ahead = {} /\ contact

\* Nothing is looked at beyond a state that two tabs at work at once have made.  Pending
\* renames and deletes, which no property asks for, are seen before the first upheaval only.
VaultStep ==
    /\ layer = "vault" /\ VaultNext /\ ~strays
    /\ sealed'["markers"] = {} \/ upheavals' = 0
    /\ UNCHANGED <<connectionVars, wakeupVars, linkingVars, transferVars, layer>>
ConnectionStep ==
    /\ layer = "connection" /\ ConnectionNext
    /\ UNCHANGED <<vaultVars, wakeupVars, linkingVars, transferVars, layer>>
WakeupStep ==
    /\ layer = "wakeup" /\ WakeupNext
    /\ UNCHANGED <<vaultVars, connectionVars, linkingVars, transferVars, layer>>

\* Frames are either few and seen in any order, with every other thing that
\* may happen beside them, or all of them, in order, as far as the mixed ones.
FewFrames ==
    /\ shownCodes' <= 1 /\ sentOver' = 0 /\ parts = 1
    /\ Len(seals') > 1 => decoder'.seen \subseteq {1, 2, 4}
    /\ seeing'.seal = 0 /\ seeing' # NoFrame => decoder'.seen \subseteq {1, 4, 5}
FramesInOrder ==
    /\ seeing'.seal = 1 \/ seeing' = NoFrame
    /\ seeing'.seq \in 0..3 /\ Len(seals') <= 1
    /\ \A s \in 1..3 : s < seeing'.seq => s \in decoder'.seen
    /\ \A s \in DOMAIN mix : mix[s] = Block
LinkingStep ==
    /\ layer = "linking" /\ LinkingNext /\ (FewFrames \/ FramesInOrder)
    /\ UNCHANGED <<vaultVars, connectionVars, wakeupVars, transferVars, layer>>

\* An import and an export do not meet, nothing happens after the export, and none begins
\* once the program was closed without a deletion to resume.  A code is
\* shown for what comes before anything else happens, and again if the panel was closed;
\* one message is deleted by itself.
HistoryStep ==
    /\ layer = "history" /\ TransfersNext
    /\ unit = Nothing \/ export'.at = "idle"
    /\ wanted' => unit # Nothing
    /\ unit # Nothing /\ ~wanted => wanted'
    /\ wanted /\ ~wanted' => import.at # import'.at \/ import.at = "contacts"
    /\ closed /\ deletion = "none" /\ export.at = "idle" => export'.at = "idle"
    /\ ~Made /\ Cardinality(queued') <= 1 /\ Cardinality(erased') <= 1
    /\ UNCHANGED <<vaultVars, connectionVars, wakeupVars, linkingVars, layer>>

DeviceSpec ==
    /\ DeviceInit
    /\ [][VaultStep \/ ConnectionStep \/ WakeupStep \/ LinkingStep \/ HistoryStep]_
           <<vaultVars, connectionVars, wakeupVars, linkingVars, transferVars, layer>>
    /\ FairConnection /\ FairWakeup

\* Each part of the device is a state its code can be in, and keeps its bounds: a stage
\* holds the identity lock alone, a device has so many push endpoints, a link so many
\* chunks, a transfer so many rows at once.
DeviceTypeOK == VaultTypeOK /\ ConnectionTypeOK /\ WakeupTypeOK /\ LinkingTypeOK /\ TransfersTypeOK

\* A page has one live socket, and every request it sends ends, in one way only
\* (client.ts tryReconnect, transport.ts request).
PageIsAnswered == RequestsEnd /\ LateIsIgnored /\ []OneSocket

\* Mail is announced to whoever is not looking, and goes when its time is over, also when
\* nothing else ever arrives (inbox.ts pushNudge, alarm).
MailIsAnnounced == HiddenIsNudged /\ ExpiredGoes

\* A link is joined once, from one whole payload, and the screen's frames make up no
\* other (fountain.ts, LinkDevicePanel.tsx, useNightjar.ts completeLink).
LinkArrives == OneJoin /\ KnowsWhatItSaw
=============================================================================
