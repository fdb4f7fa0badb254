------------------------------ MODULE Transfers ------------------------------
(***************************************************************************)
(* Saved messages leave a device and enter another: the merge of what      *)
(* another device of the account sent (importHistoryTransfer of            *)
(* src/src/net/client.ts), the gathering of what is sent to one            *)
(* (prepareHistoryTransfer) and of a move file (exportMoveData), while the *)
(* program goes on: messages are marked and deleted, and the conversation  *)
(* is deleted whole (deleteConversation).                                  *)
(*                                                                         *)
(* One conversation; the messages are the user's own, since only they have *)
(* a status.  Contacts has the deletion of a conversation in full, Vault   *)
(* the writing of a move file on the new device.                           *)
(***************************************************************************)
EXTENDS Naturals, FiniteSets

CONSTANTS
    Msg,          \* messages of the conversation
    Batch         \* rows the import writes in one transaction

ASSUME TransfersAssumption == IsFiniteSet(Msg) /\ Batch \in Nat \ {0}

Status == {"unknown", "sent", "delivered"}
Rank(s) == CASE s = "unknown" -> 0 [] s = "sent" -> 1 [] s = "delivered" -> 2
SavedRow == [status : Status, failed : BOOLEAN]
NoRow == [status |-> "none", failed |-> FALSE]
SavedRows == [Msg -> SavedRow \union {NoRow}]
Nothing == [m \in Msg |-> NoRow]
Of(rs) == {m \in Msg : rs[m] # NoRow}

VARIABLES
    saved,        \* saved messages
    erased,       \* messages with a tombstone
    contact,      \* the person is in the contact list
    deletion,     \* where deleteConversation is
    marker,       \* its dismissal marker: from before, during or after the export
    queued,       \* messages in the outbox
    unit,         \* the messages the other device sent
    ahead,        \* those stamped by a clock that is ahead
    wanted,       \* RAM: a code for saved messages is shown, historySecretRef
    import,       \* RAM: importHistoryTransfer
    export,       \* RAM: exportMoveData or sealHistoryFor, and what it made in the end
    overtaken,    \* marked or deleted while the import held them
    closed        \* the program was closed once

deviceVars == <<saved, erased, contact, deletion, marker, queued>>
transferVars == <<deviceVars, unit, ahead, wanted, import, export, overtaken, closed>>

NoImport == [at |-> "idle", contact |-> FALSE, erased |-> {}, prior |-> Nothing, todo |-> {},
         batch |-> Nothing]
NoExport == [at |-> "idle", erased |-> {}, rows |-> Nothing, contact |-> FALSE]

---------------------------------------------------------------------------
(* The import. *)

\* decodeHistoryUnit drops what it does not take for a message, too new a stamp included.
DecodedUnit(rs, early) == [m \in Msg |-> IF m \in early THEN NoRow ELSE rs[m]]

\* The panel shows a code while it is open.
StartHistoryRequest ==
    /\ ~wanted /\ wanted' = TRUE
    /\ UNCHANGED <<deviceVars, unit, ahead, import, export, overtaken, closed>>

CancelHistoryRequest ==
    /\ wanted /\ wanted' = FALSE
    /\ UNCHANGED <<deviceVars, unit, ahead, import, export, overtaken, closed>>

\* What another device of this account sealed for that code.
ImportReadsContacts ==
    /\ import.at = "idle" /\ unit # Nothing /\ wanted
    /\ import' = [NoImport EXCEPT !.at = "contacts", !.contact = contact, !.erased = erased]
    /\ UNCHANGED <<deviceVars, unit, ahead, wanted, export, overtaken, closed>>

ImportReadsRows ==
    /\ import.at = "contacts"
    /\ import' = [import EXCEPT !.at = "rows", !.prior = saved,
                                !.todo = Of(DecodedUnit(unit, ahead))]
    /\ UNCHANGED <<deviceVars, unit, ahead, wanted, export, overtaken, closed>>

\* Mutant: what comes in wins.
MergedIncoming(new, had) == new

\* The side that knows more is kept.
Merged(new, had) ==
    [status |-> IF had.status = "delivered"
                   \/ (had.status = "sent" /\ new.status = "unknown")
                THEN had.status ELSE new.status,
     failed |-> new.failed \/ had.failed]

\* Mutant: only the tombstones of the beginning count.
RefusedThen(m) == ~import.contact \/ m \in import.erased

\* No contact when the import began, or deleted by now.
Refused(m) == ~import.contact \/ m \in import.erased \/ m \in erased

\* Mutant: one row too many.
FullLate == Cardinality(Of(import.batch)) > Batch

Full == Cardinality(Of(import.batch)) >= Batch

ImportTakes(m) ==
    /\ import.at = "rows" /\ m \in import.todo /\ ~Full
    /\ import' = [import EXCEPT !.todo = @ \ {m},
                     !.batch[m] = IF Refused(m) THEN NoRow ELSE Merged(unit[m], import.prior[m])]
    /\ UNCHANGED <<deviceVars, unit, ahead, wanted, export, overtaken, closed>>

ImportFlushes ==
    /\ import.at = "rows" /\ Of(import.batch) # {} /\ (Full \/ import.todo = {})
    /\ saved' = [m \in Msg |-> IF import.batch[m] # NoRow THEN import.batch[m] ELSE saved[m]]
    /\ import' = [import EXCEPT !.batch = Nothing]
    /\ UNCHANGED <<erased, contact, deletion, marker, queued, unit, ahead, wanted, export, overtaken,
                   closed>>

\* The code is spent, a newer one if the panel was opened again meanwhile.
ImportEnds ==
    /\ import.at = "rows" /\ import.todo = {} /\ import.batch = Nothing
    /\ import' = NoImport /\ unit' = Nothing /\ wanted' = FALSE
    /\ UNCHANGED <<deviceVars, ahead, export, overtaken, closed>>

\* The app locks, and nothing can be sealed any more; what was written stays.
ImportFails ==
    /\ import.at = "rows" /\ import.todo # {} /\ import' = NoImport
    /\ UNCHANGED <<deviceVars, unit, ahead, wanted, export, overtaken, closed>>

\* The import's copy of a row is older than what becomes of the row now.
Overtakes(m) ==
    IF import.at = "rows" /\ (m \in import.todo \/ import.batch[m] # NoRow) THEN {m} ELSE {}

---------------------------------------------------------------------------
(* The program goes on. *)

Send(m) ==
    /\ contact /\ deletion = "none"
    /\ saved[m] = NoRow /\ m \notin erased \union queued /\ unit[m] = NoRow
    /\ saved' = [saved EXCEPT ![m] = [status |-> "unknown", failed |-> FALSE]]
    /\ queued' = queued \union {m}
    /\ UNCHANGED <<erased, contact, deletion, marker, unit, ahead, wanted, import, export, overtaken,
                   closed>>

\* historyUpdate of markDelivery: of a row that is there, and never back.
MarkDelivery(m, s) ==
    /\ saved[m] # NoRow /\ saved[m].status \notin {s, "delivered"}
    /\ saved' = [saved EXCEPT ![m].status = s]
    /\ queued' = queued \ {m}
    /\ overtaken' = overtaken \union Overtakes(m)
    /\ UNCHANGED <<erased, contact, deletion, marker, unit, ahead, wanted, import, export, closed>>

MarkFailed(m) ==
    /\ saved[m] # NoRow /\ ~saved[m].failed /\ m \in queued
    /\ saved' = [saved EXCEPT ![m].failed = TRUE] /\ queued' = queued \ {m}
    /\ overtaken' = overtaken \union Overtakes(m)
    /\ UNCHANGED <<erased, contact, deletion, marker, unit, ahead, wanted, import, export, closed>>

\* A delete of another device of the account: applyDeleteTx.
DeleteArrives(m) ==
    /\ m \notin erased
    /\ saved' = [saved EXCEPT ![m] = NoRow] /\ erased' = erased \union {m}
    /\ overtaken' = overtaken \union (IF import.batch[m] # NoRow THEN {m} ELSE {})
    /\ UNCHANGED <<contact, deletion, marker, queued, unit, ahead, wanted, import, export, closed>>

Made == export.at \in {"written", "sealed"}

\* deleteConversation, one write at a time.
DeleteConversation ==
    /\ deletion = "none" /\ contact /\ deletion' = "marking"
    /\ UNCHANGED <<saved, erased, contact, marker, queued, unit, ahead, wanted, import, export, overtaken,
                   closed>>

MarkDismissed ==
    /\ deletion = "marking" /\ deletion' = "removing"
    /\ marker' = CASE export.at = "idle" -> "before" [] Made -> "after"
                 [] OTHER -> "since"
    /\ UNCHANGED <<saved, erased, contact, queued, unit, ahead, wanted, import, export, overtaken, closed>>

RemoveContact ==
    /\ deletion = "removing" /\ deletion' = "sweeping"
    /\ contact' = FALSE /\ queued' = {}
    /\ UNCHANGED <<saved, erased, marker, unit, ahead, wanted, import, export, overtaken, closed>>

\* What was there when the deletion began; here, all there is.
SweepHistory ==
    /\ deletion = "sweeping" /\ deletion' = "done"
    /\ saved' = Nothing
    /\ overtaken' = overtaken \union UNION {Overtakes(m) : m \in Msg}
    /\ UNCHANGED <<erased, contact, marker, queued, unit, ahead, wanted, import, export, closed>>

\* The program is closed; a deletion that was begun is resumed with the sweep.
ProgramCloses ==
    /\ ~closed /\ closed' = TRUE
    /\ import' = NoImport /\ wanted' = FALSE
    /\ export' = IF Made THEN export ELSE NoExport
    /\ deletion' = IF deletion \in {"marking", "removing"} THEN "sweeping" ELSE deletion
    /\ marker' = IF marker = "since" THEN "before" ELSE marker
    /\ UNCHANGED <<saved, erased, contact, queued, unit, ahead, overtaken>>

---------------------------------------------------------------------------
(* The export: history first, contacts and markers last. *)

\* Refused while a message waits in the outbox.
ExportBegins ==
    /\ export.at = "idle" /\ queued = {}
    /\ export' = [NoExport EXCEPT !.at = "started", !.erased = erased]
    /\ UNCHANGED <<deviceVars, unit, ahead, wanted, import, overtaken, closed>>

ExportReadsRows ==
    /\ export.at = "started"
    /\ export' = [export EXCEPT !.at = "rows",
                     !.rows = [m \in Msg |-> IF m \in export.erased THEN NoRow ELSE saved[m]]]
    /\ UNCHANGED <<deviceVars, unit, ahead, wanted, import, overtaken, closed>>

ExportReadsContacts ==
    /\ export.at = "rows"
    /\ export' = [export EXCEPT !.at = "contacts", !.contact = contact]
    /\ UNCHANGED <<deviceVars, unit, ahead, wanted, import, overtaken, closed>>

\* Mutant: deletions are not looked for again.
KeptAnyway == export.contact

\* Whether the person goes into the file.
PersonKept == export.contact /\ marker # "since"

\* SavedRows go with their contact, or are left out as orphans.  An app that locked while
\* the file was sealed hands it to nobody.
ExportEnds ==
    /\ export.at = "contacts"
    /\ \/ export' = [export EXCEPT !.at = "written", !.contact = PersonKept,
                                   !.rows = IF PersonKept THEN @ ELSE Nothing]
       \/ export' = NoExport
    /\ UNCHANGED <<deviceVars, unit, ahead, wanted, import, overtaken, closed>>

---------------------------------------------------------------------------
(* What is sent to another device of the account, which its list of devices names:   *)
(* the markers first, then contacts, history last.                                   *)

HistoryBegins ==
    /\ export.at = "idle"
    /\ export' = [NoExport EXCEPT !.at = "sending", !.erased = erased]
    /\ UNCHANGED <<deviceVars, unit, ahead, wanted, import, overtaken, closed>>

HistoryReadsContacts ==
    /\ export.at = "sending"
    /\ export' = [export EXCEPT !.at = "people", !.contact = contact]
    /\ UNCHANGED <<deviceVars, unit, ahead, wanted, import, overtaken, closed>>

\* Whether a message that is there goes along.
Sent(m) == m \notin export.erased /\ export.contact

\* If the app locked meanwhile its rows cannot be opened, and nothing is sent.
SealHistoryFor ==
    /\ export.at = "people"
    /\ \/ export' = [export EXCEPT !.at = "sealed",
                        !.rows = [m \in Msg |-> IF Sent(m) THEN saved[m] ELSE NoRow]]
       \/ export' = NoExport
    /\ UNCHANGED <<deviceVars, unit, ahead, wanted, import, overtaken, closed>>

---------------------------------------------------------------------------
TransfersInit ==
    /\ saved \in SavedRows /\ unit \in SavedRows /\ ahead \in SUBSET Msg
    /\ erased = {} /\ contact \in BOOLEAN /\ deletion = "none" /\ marker = "none" /\ queued = {}
    /\ wanted = FALSE /\ import = NoImport /\ export = NoExport /\ overtaken = {} /\ closed = FALSE

TransfersNext ==
    \/ StartHistoryRequest \/ CancelHistoryRequest
    \/ ImportReadsContacts \/ ImportReadsRows \/ ImportFlushes \/ ImportEnds \/ ImportFails
    \/ \E m \in Msg : ImportTakes(m) \/ Send(m) \/ MarkFailed(m) \/ DeleteArrives(m)
    \/ \E m \in Msg, s \in {"sent", "delivered"} : MarkDelivery(m, s)
    \/ DeleteConversation \/ MarkDismissed \/ RemoveContact \/ SweepHistory \/ ProgramCloses
    \/ ExportBegins \/ ExportReadsRows \/ ExportReadsContacts \/ ExportEnds
    \/ HistoryBegins \/ HistoryReadsContacts \/ SealHistoryFor

TransfersSpec == TransfersInit /\ [][TransfersNext]_transferVars

---------------------------------------------------------------------------
TransfersTypeOK ==
    /\ saved \in SavedRows /\ erased \subseteq Msg /\ contact \in BOOLEAN /\ queued \subseteq Msg
    /\ deletion \in {"none", "marking", "removing", "sweeping", "done"}
    /\ marker \in {"none", "before", "since", "after"}
    /\ unit \in SavedRows /\ ahead \subseteq Msg
    /\ import \in [at : {"idle", "contacts", "rows"}, contact : BOOLEAN, erased : SUBSET Msg,
                   prior : SavedRows, todo : SUBSET Msg, batch : SavedRows]
    /\ Cardinality(Of(import.batch)) <= Batch
    /\ wanted \in BOOLEAN
    /\ export \in [at : {"idle", "started", "rows", "contacts", "written",
                         "sending", "people", "sealed"},
                   erased : SUBSET Msg, rows : SavedRows, contact : BOOLEAN]
    /\ overtaken \subseteq Msg /\ closed \in BOOLEAN

\* A row that stays never loses its status nor that it failed, to whatever was known of it
\* on the other device; unless it changed while the import held it (importHistoryTransfer).
MergeKeepsMore ==
    [][\A m \in Msg \ overtaken : saved[m] # NoRow /\ saved'[m] # NoRow =>
          /\ Rank(saved'[m].status) >= Rank(saved[m].status)
          /\ saved[m].failed => saved'[m].failed]_transferVars

\* A deleted message does not come back with an import, whenever the delete arrives; unless
\* the import had it in the batch it writes next.
StaysDeleted(n) == n \in erased => saved[n] = NoRow \/ n \in overtaken

\* An import brings no deleted message back and makes no message that stays less than it
\* was (importHistoryTransfer).
ImportLosesNothing == [](\A n \in Msg : StaysDeleted(n)) /\ MergeKeepsMore

\* A move file has nothing of a conversation whose deletion was marked while the file was
\* gathered; and neither the file nor what is sent to another device has a message without
\* its contact, or one that was deleted before it began (exportMoveData,
\* prepareHistoryTransfer).
FileIsNotTorn ==
    Made =>
        /\ Of(export.rows) # {} => export.contact
        /\ \A m \in export.erased : export.rows[m] = NoRow
        /\ export.at = "written" /\ marker = "since" => ~export.contact

\* What client.ts says of the merge: delivered is never walked back.
NeverWalkedBack ==
    [][\A m \in Msg : saved[m].status = "delivered" /\ saved'[m] # NoRow =>
          saved'[m].status = "delivered"]_transferVars

\* What client.ts says of the import: it must not become a way to undo a delete.
DeleteIsNotUndone == \A m \in erased : saved[m] = NoRow

\* What client.ts says of the gathering: a deletion that lands in it cannot resurrect.
DeletionIsNotMoved ==
    [][export.at = "contacts" /\ export'.at = "written" /\ marker # "none" =>
          ~export'.contact]_transferVars
=============================================================================
