# Nightjar in TLA+

Models of Nightjar's client and relay, checked with TLC on small instances and,
where stated, proved with TLAPS for every value of the constants. Nightjar is a
browser messenger over a Cloudflare Worker: clients keep their keys, ratchets and
history in IndexedDB; one *Inbox* Durable Object per device queues its envelopes;
one *Directory* Durable Object keeps invites, bundles, device lists and rotations.

Paths below are relative to the repository; `src/` inside it is the client,
`worker/` the relay.

## 1. Inventory

| Component | Code | State | Operations | Talks to |
|---|---|---|---|---|
| Client send path | `src/net/client.ts` | outbox rows, history rows with a status | send, retransmit, cancel, delete-for-everyone, mark sent/delivered/failed | session store, transport |
| Transport | `src/net/transport.ts` | one socket, pending requests, sent waiters | connect, request with a deadline, raw, dispatch | Inbox |
| Inbox | `worker/inbox.ts` | `envelopes`, `seen`, `meta`, `subs` tables; authed sockets | auth + drain, deliver, ack, delivery report and check, purge alarm, push nudge | other inboxes, Directory |
| Inbound processing | `src/net/inbound.ts` | dedup markers, failure counters, books, history, tombstones | one decision per envelope, then the ack | session store, contacts, prekeys |
| Session store | `src/storage/sessionStore.ts` | the IndexedDB stores above | multi-store transactions, aging | every client part |
| Prekeys | `src/storage/prekeyStore.ts`, `src/crypto/prekeys.ts` | signed and one-time private halves, `publishedSpkId`, `regUnconfirmed` | register, replenish, rotate, prune, consume | Directory through the Inbox |
| Directory | `worker/directory.ts` | users, spks, opks, vends, invites, claims, rosters, rotations | register, publish, fetch + vend, invites, device lists, rotations | inboxes |
| Sessions | `src/session/sessionBook.ts`, `src/crypto/ratchet.ts` | up to 5 sessions per peer, skipped keys | promote, decrypt in order, archive, evict, retry receipts | inbound, send path |
| Contacts | `src/trust/contactStore.ts` | records, names, deletion markers, pending work, retry ledger | first contact, verify, delete, rename, resume | client |
| Accounts and devices | `src/crypto/roster.ts`, `rotation.ts`, `link.ts` | device list versions, rotation chain, link ceremony | publish, follow, link, remove | Directory |
| Move, restore, history transfer | `src/storage/restore.ts`, `src/crypto/move.ts`, `historyTransfer.ts` | staged import, pending flag, files | gather, seal, stage, reload, import, re-register | stores |
| App lock | `src/storage/appLockStore.ts` | wrapped data key, sealed stores | enrol, unlock, re-wrap, reset | stores |
| Locks and tabs | `src/storage/lock.ts`, `src/net/crossTab.ts` | Web Locks or a mutex | withLock, render broadcasts | client |
| User interface | `src/ui/useNightjar.ts` and its views | the conversation in memory, the phase of the page | activate, send, delete, lock, restore, move, link | client, stores, other tabs |
| Push | `worker/push.ts`, `public/sw.js` | subscriptions | subscribe, nudge, drop | Inbox |
| Optical transfer | `src/net/fountain.ts`, `src/ui/qr*.ts` | fountain decoder | add a frame, peel | linking, move |
| Wire and crypto | `src/wire`, `src/crypto/{x3dh,message,primitives}.ts` | none | encode, decode, derive | all |

What is hard here: sockets die at any point of a conversation between two
processes that both persist and both retransmit; the client must not acknowledge
what it has not made durable; the Directory serves public keys whose private
halves live on a device that may be restored, moved, or interrupted between its
local commit and the Directory's answer; deletes race with what they delete; a
contact changes its id while messages, lists and deletes that name the old one are
on their way; and several devices and several tabs act for one account.
`PROJECT.json` lists each hazard at its line with the properties that watch it;
every one listed has at least one.

What makes each part correct:

- *Delivery*: an envelope is never nobody's; it is applied at most once; nothing is
  acked before its decision is durable; a deleted text does not come back; a status
  is never ahead of the facts nor moves backwards; everything settles.
- *Several devices*: what one device of an account received or deleted the others show
  or delete in the end; "delivered" means delivered to the person it is for.
- *Sessions*: a message key seals one envelope; what did not open yet still opens as
  far as the bounds reach; a lost session is repaired, and the repair comes to rest.
- *Aging*: what remembers a message (dedup rows, seen ids, tombstones) outlives whatever
  can still bring the message back.
- *Prekeys*: a one-time prekey reaches one peer; what the Directory serves can be
  answered; an initial that cites a live signed prekey opens.
- *Directory accounts*: accounts are never more than the invites spent; rotations
  always arrive somewhere; only the device's own account retires its prekeys.
- *Accounts on devices*: the key of the account is always on disk somewhere; no device
  disappears from the list unasked; an unfinished link leaves nothing behind.
- *Contacts*: overlapping answers, announcements and interrupted renames and deletes all
  finish; who was deleted stays deleted; a contact is as trusted as the user made it.
- *Screens*: every window shows what is saved once it has heard what it was told.
- *One browser*: whatever it holds is of one identity under one key; a restore that is
  cut anywhere leads to a restored device or to the restore screen; the relay does not
  go on serving prekeys of a state that is gone.
- *Connection*: one live socket; every request ends, once. *Wake-up*: a hidden device is
  nudged; what is past its time goes although nothing else happens.
- *Links and transfers*: a device joins once, from one whole payload; an import or an
  export neither brings back what was deleted nor loses what was known.

## 2. Modules

Delivery and the relay:

| Module | What it is |
|---|---|
| `Courier` | abstract specification of the delivery path: post, read once, drop without a session, lose only with an excuse |
| `Delivery` | the delivery path: sender outbox, sockets, Inbox, recipient; the inductive invariant `IInv` |
| `DeliveryCourier` | refinement mapping to `Courier`, fairness, liveness |
| `DeliveryProofs` | TLAPS proofs about `Delivery`, and that it implements `Courier` |
| `MCDelivery`, `MCDeliveryBounded` | constants, and a bounded next-state relation, for TLC |
| `Prekeys`, `MCPrekeys` | one owner's prekeys, the Directory's rows and vends, the peers that fetch them |
| `PrekeysProofs` | TLAPS proofs about `Prekeys` |
| `Directory`, `MCDirectory` | the Directory's accounts under any signed request |

Accounts and people (`MCAccounts`):

| Module | What it is |
|---|---|
| `Accounts` | the devices of one account (extends `Directory`, whose actions answer their requests) |
| `Trust` | whom one device knows and how far it trusts them: invites, joiners, parked records, safety numbers, dismissals |
| `AccountsProofs` | TLAPS proofs about `Directory`, `Accounts` and the composition with `Trust` |
| `TrustProofs` | TLAPS proofs about `Trust` |

A contact and its windows (`MCContacts`):

| Module | What it is |
|---|---|
| `Contacts` | one person's records, lists, claims and history through messages, rotations, deletions and restarts |
| `Screens` | several windows that show received texts: hydration, telling, clearing, locking |
| `Bubbles` | the user's own message in those windows, and the row whose status they write at once |

A conversation (`MCConversation`):

| Module | What it is |
|---|---|
| `Ratchet` | one double-ratchet session, its skipped keys and the save before the release |
| `Sessions` | two session books, lost sessions, retry receipts and their ledger |
| `Fanout` | one message among all devices of two accounts, and its deletion |
| `Retention` | the clocks by which outbox rows, seen ids, queued rows, dedup rows and tombstones go |
| `Lists` | what is left of a list: `Array.prototype.filter`, as the two above use it |
| `RatchetProofs` | TLAPS proofs about `Ratchet` |
| `ConversationProofs` | TLAPS proofs about `Sessions`, `Fanout` and `Retention`, and about the four layers together |

A device (`MCDevice`):

| Module | What it is |
|---|---|
| `Vault` | what one browser keeps, and lock, restore, move, link, reset and erase in two tabs |
| `Connection` | sockets, authentication, requests with deadlines, reconnection |
| `Wakeup` | presence, subscriptions, nudges and the alarm |
| `Linking` | a link over the relay and over a screen: codes, chunks, the fountain decoder |
| `Transfers` | merging, gathering and sealing saved messages while they change |
| `DeviceProofs` | TLAPS proofs about each of the five, and about them together |

How they compose. `Accounts` extends `Directory`: a request in `wire` becomes the
Directory's own action. `DeliveryCourier` instantiates `Courier`. The layers of a
composite MC module have disjoint variables: the initial state chooses in `layer`
which of them moves (`Layers` names those the run lets move), and the others stand
still. One layer takes from another only what that one shows: `Sessions` that an
envelope opens at a device that holds its session (`Ratchet`), `Fanout` that a copy
which was not lost arrives (`Delivery`), `Delivery` that a seen id outlives the retries
(`Retention`), `Screens` and `Bubbles` that a handler's commit is one transaction
(`Delivery`, `Fanout`).

Definitions named `...Late`, `NoDedup`, `Always`, `Unlocked` and the like, each after
a comment that starts with "Mutant:", are wrong variants of the definition that
follows them. No specification uses them: they are put in its place to see that the
property they are aimed at fails.

## 3. The models and the code

### Delivery and the code

| Model | Code |
|---|---|
| `SendText` | `sendOneCopy`: ratchet, outbox row and history row in `saveBookWithOutbox`, then `fire` |
| `CancelQueued`, `SendDelete` | `deleteForEveryone`: the outbox row decides between the two |
| `Authenticate` | `handleAuth` + `drainQueue` |
| `FlushOutbox` | `afterConnect` → `flushOutbox`: fail past the horizon, otherwise fire again |
| `RelayStore`, `RelayDecline`, `RelayRefuse` | `doSend` and the recipient's `handleDeliver`; decline is `queue_full`, `not_registered`, `internal`, which the sender only warns about; refuse is `bad_to`, `too_large`, `bad_envelope`, which drops the row (`handleSendError`) |
| `RelayAck` | `doAck` and the report to the sender's inbox (`handleDelivered`), best effort |
| `RelayExpire`, `RelayForget` | `alarm` |
| `RecvDuplicate`, `RecvDecrypt`, `RecvFail`, `RecvRetryLater` | `processInbound` with `planHistory`, under the per-peer lock; retry-later is `AppLockedError`, an unreadable book, `HistoryPersistError` |
| `SendAck` | the ack in `handleDeliver`, after the decision, lost without a socket |
| `RecvSent`, `RecvDelivered`, `DeliveredCheck`, `Marked` | `fire`'s waiter, `markDeliveredEnvelope`, `flushDeliveredChecks`, `markDelivery` |
| `Disconnect`, `Crash`, `LoseFrame` | the socket's end; the process's end; a frame still in flight then |

Abstractions. Frames are sets, so their order is not promised, and equal frames in
flight collapse. A device has one socket at a time; a frame written on a socket that
has ended may still arrive (`live = FALSE`) but its answer finds nobody. A session is
named by its initial envelope (`Via`), and an envelope decrypts when that initial was
processed; the ratchet itself is in `Ratchet`. `flushOutbox` is one step (its rows are
independent), and so are `RecvSent`'s two writes, the first of which is best effort.
`confirmed = FALSE` in `RelayStore` covers every failure between the stored row and
the "sent" answer. Time is the one bit `aged`: older than the sender's seven-day
retry horizon. The relay keeps queued rows 30 days and seen ids 8 days, both longer,
so both act only on aged envelopes. `Age` waits for the envelope's frames to leave
the wire.

### Prekeys and the code

| Model | Code |
|---|---|
| `StartRegister` | `registerUnderLock` up to its request: a new set under ids from 1, `regUnconfirmed`, then the request |
| `StartReplenish`, `StartRotate`, `RetryPublish` | `maybeReplenishOpks`, `maybeRotateSpk` up to their request |
| `HearReply` | what follows the answer: `confirmRegistration`, `markSpkPublished` (best effort), the tracked count |
| `Prune` | `pruneRetiredSpks` |
| `GiveUp`, `Reconnect`, `LoseRequest` | the request's deadline; a new connection with the Directory's count; a request that never arrives |
| `DirRegister`, `DirPublish`, `VendOpk`, `Fetch` | `register`, `publishBundle`, `vendOpk`, `fetchBundle` |
| `FetchOnly`, `OpenSession` | `addContact`; `openInitiatorEntry`, with the prekey strip (`Usable`) |
| `Dismiss`, `DismissalLapses` | `deleteConversation` → `markDismissed`, `getDismissal` with the vend window |
| `RestoreOwner`, `RestorePeer`, `PeerReregisters` | `stageRestore`, `stageMove`, and the forced `reregister` |
| `OpenInitial`, `DropInitial` | `handleInitial` with `x3dhRespond` and `consumeOpk`; the poison drop |

A key pair is the number it was generated under, so two pairs that share an id are
told apart. The Directory serves one device's requests in the order they were sent,
or loses them: they travel one socket and one Durable Object stub. The replenish lock
is `task`. A vend is `fresh` for `OPK_VEND_TTL_MS`; a signed prekey is retired when
no initial in flight can cite it, which is what its grace period is for. The `doubt`
of an initial is history: whether a re-registration, of the owner or of the moved
peer, was outstanding when it was built (for a move, also while it is under way).
`forgone` is history too: the one-time pairs whose peer kept neither the session nor the
mark of a dismissal that would stop it from being vended the same pair again (a session
evicted from its book, a contact deleted a second time while the first mark stands).
`Restorable`, `Evictable` and `Redeletable` say which peers may meet such an incident.

### Directory, Accounts and the code

| Model | Code |
|---|---|
| `MintInvite`, `RegisterNew`, `RegisterAgain` | `mintInvite`; `register` with `redeemInvite` in the transaction that adds the user, or for an id that has a row |
| `InviteLapses`, `PurgeInvites` | the clock against `INVITE_TTL_MS`; `alarm` |
| `IsAccount`, `ChainLens`, `Live` | `accountKeyOf`, and its callers' rotation check |
| `PublishRoster`, `Retired` | `publishRoster` with `dropUnlistedDevices` and `rotatedInto` |
| `RegisterDevice`, `ClaimDevice` | `registerDevice`, `claimDevice` |
| `PublishRotation` | `publishRotation`, with the claims it carries over |
| `Authorize`, `RemoveDevice`, `SignAndSend` | `authorizeDevice`, `removeDevice`: fetch the list, sign the next version, publish |
| `StartJoin`, `StoreJoin`, `Abandon` | `completeLink`: `stageLink`, `registerAsDevice`, and the undo of a failure |
| `StartRotate`, `StoreRotation`, `StartRelist`, `ListAnswered` | `rotateAccount`, one step per request; `Persist` is `saveAccountKey` |
| `Claim`, `Republish` | `afterConnect`; `doPublish` |
| `Restart` | boot: `loadAccountKey`, or the device's own key |
| `GiveUp`, `Heard`, `LoseRequest` | the transport's deadline, a lost answer, a request that never arrives |

An id stands for the key it is the hash of, so a signature is the id that made it, and
`Directory` lets anybody send whatever its keys can sign. `accountKeyOf` takes any one
of several rotations that lead to an id: `ChainLens` is the set it may report. Origins
and `acted` are history. The list of a device's account is read and signed in one step
and published in another, however much later: what a slow answer to the read could
change is covered by the late request. `Fallible` names the tasks whose answers may be
lost and `Breakable` those a restart may cut short: in `AccountsLife` every task is in both.
`torn` is history: the devices whose last join a restart cut short. Siblings do not follow
a rotation (`handleRotation` finds no contact record of one's own account), so their account
changes only by a new link.

### Trust and the code

| Model | Code |
|---|---|
| `Recorded`, `Raised` | `recordFirstContact`: a new record, or the trust of an old one raised and never lowered |
| `Dismiss`, `RemoveContact`, `RemoveFromLedger`, `Trimmed` | `remove` in its two writes, the dismissal ledger with its bound and its aging |
| `RenameAccount`, `RenamedLevel` | `renameAccount`: what a rotation makes of a verified record |
| `HearInitial`, `AddContact`, `Join`, `AddInviteContact`, `OpenFromCode`, `EnsureContact` | who becomes a contact, and at what level |
| `BeginFlush` … `EndFlush` | `flushPendingTrust`: parked records and the inviter's pin, in the steps of its awaits |
| `BeginSync` … `EndSync`, `ByRelay` | `syncInviteContacts`: the relay's list of who joined, one bundle at a time |
| `OpenPanel`, `Scan`, `Verdict`, `AskOrLeave`, `MarkVerified`, `Unverify` | `Messenger.openVerify`, `SafetyNumber`, `compareScannedSafetyNumber` |
| `Tick`, `Purged` | the clock; the relay's purge of redemptions |

### Contacts and the code

| Model | Code |
|---|---|
| `AccountForDevice`, `Naming` | `accountForDevice`: a listed device, then a claim, then the device's own id |
| `PlanText`, `PlanDelete`, `CommitInbound` | `processInbound`: whom it attributes to and what it plans, before the commit; then the contact `handleDeliver` records |
| `RecoverContact`, `AskForList`, `PutKnownRoster`, `HandleHello` | what is learnt of a person in the background, recorded when the answer comes |
| `FollowRotation`, `HandleRotation`, `RenameHistory`, `RenameAccount`, `MoveKeyed`, `RepointDeviceClaims`, `ClearPendingRename` | `applyRotation`, one step for each write |
| `SetPendingDelete`, `MarkDismissed`, `RemoveContact`, `SweepHistory`, `ClearPendingDelete` | `deleteConversation`, one step for each write |
| `ResumePendingRenames`, `ResumePendingDeletes` | `afterConnect` after a restart (`Cut`) |

The person has one account, which rotates once, and two devices, of which the first
has the id of the account. A message keeps the time it was handled, so that a delete
can be told from what came after it.

### Screens, Bubbles and the code

| Model | Code |
|---|---|
| `Activate`, `HistoryLoadAll`, `Hydrate`, `MergeHistory` | `activate`: the channel first, then rows, then markers, then the merge with what came meanwhile |
| `TextArrives`, `DeleteArrives`, `Tell`, `Hear` | `handleDeliver` commits, its handler renders here and posts to the other windows |
| `Sweep`, `DropConversation` | `clearMessages`: the rows first, then the bubbles everywhere |
| `Leave` | `lockNow` and `teardownLive`, or a closed tab |
| `Press`, `SaveOwn`, `SendFails` | `send`: the bubble before the commit, its failure |
| `RelayAnswers`, `Reported`, `ReadMark`, `WriteMark`, `TellMark` | `markDelivery`: read, seal and put under the conversation's lock, then the handler |
| `GivesUp`, `GivingUp`, `HistoryMarkFailed`, `DropOutbox`, `TellFailed` | `handleSendError` and the horizon of `flushOutbox`; `historyMarkFailed` takes no lock |
| `DeleteMessage`, `RemoveStep` | `deleteMessage` and `historyRemove`, without the lock too |
| `Rendered`, `Cast`, `HearRender` | the bubble's changes, and the render events |

`crossed` and `missed` are history: what met a clear, a lock, or its own delete
between a commit and its telling, or found no bubble. The invariants leave those out;
section 5 says what then happens.

### Ratchet, Sessions and the code

| Model | Code |
|---|---|
| `KdfRk`, `MessageKey`, `RatchetEncrypt`, `RatchetDecrypt`, `SkipMessageKeys`, `DhRatchet`, `PruneSkippedKeys` | the functions of the same names in `ratchet.ts` |
| `Compute`, `Save`, `Release`, `Receive`, `Crash` | `ratchetSession.ts`: compute on a copy, save, hand over |
| `PromoteSession`, `UpdateSession`, `Decrypts` | `sessionBook.ts` |
| `SendText`, `DeleteForEveryone`, `DeleteForMe`, `SendSessionRefresh`, `Commit` | the senders, each on the current session or one it opens |
| `ReceiveInitial`, `ReceiveNormal`, `FailToOpen`, `Drop` | `inbound.ts`: opened, counted, asked about, poisoned |
| `Reconnect`, `Redrained`, `Due` | a connection drains the queue once |
| `RecordAsk`, `SendRetryRequest`, `AskFails`, `Honor`, `Collected`, `QueueResend`, `ResendFails`, `IntervalPasses` | `maybeRequestRetry`, `honorRetryRequest`, `collectResendable`, `queueResend`, and the ledger's intervals |
| `Restart`, `Restore` | what RAM loses; what a move or a restore loses |

`Remaining`, of `Lists`, is `Array.prototype.filter` on the stored keys, the sessions of a book
and the rows of a queue. The cryptography is symbolic: a root key is the sequence of
agreements mixed into it, a message key a chain and an index, and a ciphertext opens when
the receiver derives the key it was sealed under.

### Fanout, Retention and the code

| Model | Code |
|---|---|
| `WriteText`, `SendCopy`, `Fire`, `RelayTakes` | `sendText` over the devices it knows, `sendOneCopy`, the socket or the next flush |
| `SentHeard`, `DeliveredHeard`, `Traced`, `Raised` | `markDelivery`, `markDeliveredEnvelope`, `noteSentRef`, `historyUpdate` |
| `AskToDelete` | `deleteForEveryone` with its count of the outbox rows |
| `Plan`, `StoreRow`, `Erase`, `LockFree` | `planHistory` reads the marker, then the commit, under a lock that names the sending device |
| `PassedOn`, `DeletePassedOn`, `RunErrand`, `Siblings` | `forwardToOwnDevices`, `syncToOwnDevices`, `syncDeleteToOwnDevices`: work kept in memory |
| `MakeText`, `GiveUp`, `Retransmit`, `DeleteText`, `FlushDeliveredChecks` | the sender's clocks: outbox horizon, the age of a question |
| `Consume`, `PruneExpired`, `TombstoneExpired` | the recipient's: dedup rows and tombstones, pruned on connect |
| `PurgeAlarm`, `NextDay` | the relay's: queued rows and seen ids, swept by the alarm |

### Vault and the code

An operation of several writes is the list of steps still `todo` in its tab; closing
the tab drops the rest. `StageSteps` is `stageRestore`, `stageRestoreEnrolled` and
`stageMove`; `ResetSteps` is `resetLock`; `EraseSteps` is `eraseThisDevice`. `Boot` is the
start of `useNightjar`, `Enroll`, `Unlock`, `Rewrap`, `LockNow` the methods of
`AppLockStore` behind the page's handlers, `Save` any store written through the
`SessionSealer`, `Register` the next connect, `CompleteRestore` and `ClearMarkers` what it
does after a restore or a pending delete. `Evict` is a browser that clears the store
and keeps the mark (`persist.ts`). A blob is the data key it is sealed under and the
identity it belongs to. `StageBegins` notes in `unmarked` a file staged by a page that was left
open where the mark is gone (a linked device's reset, an erasure by another page).

### Connection, Wakeup and the code

`Connect`, `FirstConnect`, `TryReconnect`, `TimerFires`, `Kick`, `Rejected`, `ConnectTimeout`,
`CloseEvent`, `FailAll`, `RequestSent`, `Resolve`, `ClientHears` and `RequestTimeout` are the
handlers and timers of `transport.ts` and of `connect` to `close` of `client.ts`; `Accept`,
`InboxHears`, `Authenticated`, `InboxAnswers` and `Dying` the Inbox's, with an await
between a request and its answer. In `Wakeup`, `Toggle` and `Beat` are the page's
visibility handlers, `Hear`, `AuthDone` and `Notice` the Inbox's view of it,
`Subscribe`, `Unsubscribe`, `Surplus`, `NudgeUnlessWatched` and `PushAnswered` its
subscriptions, and `Alarm` with `Again` its alarm. Time is in heartbeats; a frame arrives within
one or its socket is dead.

### Linking, Transfers and the code

`StartLinking` to `JoinFails` are the new device (`useNightjar.ts`, `LinkNewDevice.tsx`,
`OpticalReceive.tsx`): `HandleLinkChunk` collects a transfer over the relay, `Glimpse` and
`Decoded` a frame of the camera, and either calls `CompleteLink`, `StageLink`, `Joined`.
`SendLinkPayload`, `SealLinkForOptical`, `Stream` and `Authorize` are the device that
scanned. The decoder is `Push`, `Reduced` and `Absorb` of `fountain.ts`, the last a step of the
recursive function `Absorbed`, on blocks abstracted to the set of source blocks XORed
into them; it is checked against what a set of frames determines in any order, the least
set closed under peeling (`KnowsWhatItSaw`).

`ImportReadsContacts` to `ImportEnds` are `importHistoryTransfer`, with its batches;
`ExportBegins` to `ExportEnds` are `exportMoveData`; `HistoryBegins` to `SealHistoryFor` are
`prepareHistoryTransfer`. Beside them messages are sent, marked and deleted, and the
conversation is deleted whole.

## 4. Runs

| Run | Asks | Instance |
|---|---|---|
| `DeliverySafe` | `Custody`, `ExactlyOnce`, `DeleteWins`, `DecidedRightly` | two texts of one session, the second ephemeral; a delete on its own session; queue of 2, poison bound 2, one broken socket, 3 frames in flight |
| `DeliveryLive` | `StatusIsEarned`, `NothingGoesBack`, `PathSettles`, `ImplementsCourier` | one text, proper or one the relay refuses, every incident, no bound on broken sockets |
| `PrekeysLife` | `VendedOnce`, `ServedIsHeld`, `SureInitialsOpen` | batch 1, threshold 1, ceiling 2, 2 initials in flight, in two scenes; *visited*: one peer that opens, deletes once or twice, is moved and loses its session, one that only fetches, 4 key pairs, 1 interrupted RPC, 1 forgetful peer; *interrupted*: both peers only fetch, 5 key pairs, 3 interrupted RPCs |
| `DirectoryOpen` | `AccountsArePaidFor`, `RotationsArrive`, `RetiredByItsOwn` | three interchangeable ids, two codes of which one ages, lists whose versions sum to 2, chains of 2 |
| `AccountsLife` | `KeyIsHeld`, `LinkedIsMember`, `NoSilentRemoval`, `TrustIsEarned`, `DeletedStaysDeleted` | *accounts*: two devices, one invite, one new key, two requests in flight, versions to 2, every answer lossy, every task breakable, the devices interchangeable; *trust*: an inviter, a joiner, the id the joiner rotates to, ledgers of 1, one mishap |
| `ContactsLife` | `ChangesFinish`, `MarkersClear`, `WindowsAgree`, `NothingComesBack` | *contacts*: a known person with two devices, one word that each may send, three events of cut, edit, tick, rotation, list, delivery and answer; *screens*: two windows, two texts, or one text with two clears and one leave; *bubbles*: two windows, one message, one closed tab |
| `ConversationLife` | `EnvelopesOpenOnce`, `ResendsRepair`, `RetriesDieDown`, `DeliveredIsTrue`, `OthersFollow`, `ForgettingIsSafe` | *ratchet*: four envelopes one way and two the other, skip bound 1, one day; *sessions*: one text, books of 2, two losses, deletes or restarts in any mixture; *copies*: two devices on each side, one closed program; *retention*: horizons of 1, 2 and 3 days, an alarm every day, 7 days |
| `DeviceLife` | `KeepsItsIdentity`, `RestoreRepublishes`, `PageIsAnswered`, `MailIsAnnounced`, `LinkArrives`, `FileIsNotTorn`, `ImportLosesNothing` | *vault*: two tabs, two data keys, two identities, two upheavals; *connection*: three sockets, a plain request and a link chunk; *wakeup*: two endpoints of which one is kept, two sockets, one envelope, TTLs of 1 and 2; *linking*: three blocks, five frames, two codes, two attempts over the relay; *history*: two messages, batches of 1 |
| `ArrivedIsHeard` | finding: the answer to a link chunk names a request nobody waits for | the connection |
| `CancelledInTime` | finding: a delete says nothing was sent although a copy was | the copies |
| `DevicesStayTheirs` | finding: after a rotation the first device's messages are filed under the retired account | the contact |
| `RunAgainIsSafe` | finding: a rotation run again writes over the only key of the account it led to | the accounts, one device, two new keys |

Each passing run of a composite module has one type invariant beside the properties
above (`AccountsTypeOK`, `ContactsAndScreensTypeOK`, `ConversationTypeOK`, `DeviceTypeOK`). Properties that ask one question of the same run are one conjunction (`WindowsAgree`,
`PageIsAnswered`, `ForgettingIsSafe`, ...), whose parts are named and commented in their
modules.

The bounds are named constants of the modules and MC modules. Why they are enough:

- *Delivery*. Two envelopes of one session and a delete are the fewest that show a poison
  drop, a reused session and a reordered delete; a queue of two rows is full when the
  third arrives, and still holds a text and the envelope that overtakes it; one break
  reaches every lost frame and every redelivery, and `DeliveryLive` has no bound on breaks.
- *Prekeys*. Four key pairs are a registration and its repetition, or a registration, a
  replenishment that reuses an id, and a rotation: enough for what peers meet. The scene
  of interruptions has five, because three faults are what it takes to lose the answer of
  a registration, reconnect, and replenish before the recovery. One
  peer, once, leaves no trace of a vend (`MaxMishaps`): the pair it is vended again and
  the pairs of the other peer are both still there to go wrong.
- *Directory and accounts*. Three ids are a stranger and a chain of two, or an account, its
  device and the account it becomes; two versions are a list and the one that drops a
  device. One new key, because after a second one the key of the first is rightly gone and `over` excuses most of what the property says;
  two requests are one of each device, or
  one and a late one. The two devices and their ids are interchangeable (`Swapped`): the
  initial state, every action and every property treat them alike, no constant tells them
  apart, and the layer of trust does not mention them.
- *Trust*. A ledger of one entry trims with the second; three times and a lifetime of one
  are a mark before, in and after its life.
- *Contacts*. Three events are any two that meet in a third's interval (a restart of a
  rename during a delete, a message between a rotation and its list); each operation is
  several steps, so the states are many more than the events.
- *Screens, bubbles*. Two windows are one that acts and one that hears; two texts show an
  order; while a window leaves or clears, one text is enough to be crossed. In
  `Bubbles` two writes run at a time and two events are on their way, three in all.
- *Ratchet*. Skip bound 1 makes the second skipped key push out the first, and four
  envelopes reach a second ratchet step on both sides with one still undelivered.
- *Sessions*. Asking after two failures, dropping after three and two requests keep the
  order of the code's 2, 5 and 3 (`AskAfter < Poison`). Two incidents are a loss on each side or a
  loss and a delete.
- *Copies*. Two devices of each account have one that is told directly and one that hears
  from its sibling; the list may name either, both or one too few.
- *Retention*. The code's 7, 8 and 30 days and the daily alarm become 1, 2, 3 and 1: the same
  order with the smallest differences, which the assumption `RetentionAssumption` asks for.
- *Vault*. Two tabs: the one that replaces an identity and the one that is told. Two
  upheavals are a restore cut short and the next one. Behaviours in which both tabs write at
  once are followed up to that write (`strays`). Pending renames and deletes, which no
  property there asks for, are seen before the first upheaval only.
- *Connection*. Three sockets: the one that dies, its successor, and one that a late event
  of the first could supersede.
- *Linking*. Three blocks are the fewest for which a mixture of two is useful; five frames
  are the first pass and two mixtures. A mixture of one block repeats a frame of the first
  pass, so the run takes mixtures of two and three.
- *Transfers*. Two rows with batches of one are a row that is written and one still held;
  the first is on the other device and here in any state, or here alone, the second is
  young here, or known to the other alone. A program that was closed while no
  deletion was at work is as one that was not, so no export begins then.

Deadlock is not checked: every system here may come to rest.

Fairness.

- *Delivery* (`DeliveryCourier`). `scheduleReconnect` retries for as long as the process
  runs, so connecting is weakly fair. Sockets end sooner or later (idle timeouts, network
  changes, Durable Object restarts) and the outbox is flushed only by a new connect, so
  disconnecting is weakly fair too. Flushing, storing, refusing, acking and processing
  can be interrupted by each disconnection and are strongly fair: a relay that fails
  every attempt for ever, or an app that is never unlocked, delivers nothing. Nothing is
  assumed of time.
- *Sessions*: receiving, reconnecting, running a started retry and the passing of the
  ledger's interval are weakly fair: each is a callback or a timer that the browser runs.
- *Contacts*: a started rename or delete goes on unless the program is closed (weak); its
  resumption takes turns with other catch-up work in the model, so it is strongly fair.
- *Connection*: only the deadline of a request (`setTimeout`) is fair; that is all `RequestsEnd` needs.
- *Wakeup*: only the alarm is fair, as the platform promises; that is all `ExpiredGoes` needs.
- *Fanout*: progress of what was begun (loops, sockets, forwards) is weakly fair; closing a
  program is not, and it loses the forwards that were only in memory.

## 5. Findings

With a run each:

- `ArrivedIsHeard`: `sendLinkPayload` waits under one fresh id and sends the frame under
  another, so the acceptance of a chunk never settles the wait, which ends at its
  deadline; no second chunk is ever sent.
- `CancelledInTime`: `deleteForEveryone` counts every outbox row with the content id, and the
  copies for the author's own devices carry it too. With one of those still queued and
  the recipient's only copy taken, the count matches: no delete is sent, and the caller
  is told that nothing had been.
- `DevicesStayTheirs`: a person's first device, whose id is the retired account's, never
  needed a claim, so none is carried over by `applyRotation`, and its next message is filed
  under the retired account.
- `RunAgainIsSafe`: `rotateAccount` generates a key on every call and stores it over the one
  before. When the rotation was recorded and the rest of the call fails, a second call
  stores another key over the successor's and is refused (`rotation_exists`): nobody holds
  the key of the account any more.

Stated in a module, violated in TLC, and without a run of their own because they are
smaller or would repeat an instance:

| Property | What happens |
|---|---|
| `CancelledIsNeverRead` (`Delivery`) | `deleteForEveryone` takes a standing outbox row for "not delivered"; it stands until the relay's answer is heard, so the text may have been read. The same gap makes a text that `flushOutbox` fails at the horizon one that may have been read |
| `ServedTogether` (`Prekeys`) | `maybeReplenishOpks` does not look at `regUnconfirmed` |
| `RetiresItsOwn` (`Directory`) | a sibling that does not follow a rotation claims the retired account on every connect; `claimDevice` accepts it and takes back what the rotation carried over |
| `UnsentAskIsRepeated` (`Sessions`) | `maybeRequestRetry` notes a peer in `askedRetryFrom` before sending and leaves it there when the send throws |
| `StoredKeyOpens` (`Ratchet`) | `assertWithinSkipBound` judges an envelope of an older chain as one of a new chain: numbered past `MAX_SKIP` it is refused before its stored key is looked up, which `ratchetDecrypt` says "handles an out-of-order arrival directly" |
| `SelfHeals` (`Connection`) | a frame written on an open socket before its authentication is answered `unauthenticated`, which rejects the connect; the retry finds the socket open and returns, and nothing is left that would make a connection |
| `DeletedIsNowhere` (`Contacts`) | a rotation moves the history to the new id between a deletion's mark and its sweep: the deletion ends, and its rows are left in a conversation without a contact |
| `RowOrTombstone` (`Fanout`) | the marker is read before the write under a lock that names the sending device, so two devices' copies can leave a row beside its marker; it is not shown |
| `KnowsWhatItSaw` with `FreshIds = FALSE` (`Linking`) | `HistoryTransferPanel` makes one transfer id per mount; sealed again after going back, another payload is streamed under it, and the receiver mixes the two |
| `RegisteredKeepsKey` (`Linking`) | a camera frame that was being decoded when the link completed by the relay starts a second join, whose failure undoes the first's key |
| `NeverWalkedBack`, `DeleteIsNotUndone`, `DeletionIsNotMoved` (`Transfers`) | an import writes what it read before a mark or a delete; a move file can carry a conversation whose deletion was marked after its contacts were read |
| `ResetClearsAll`, `CrashIsRouted` (`Vault`) | `wipeLocalData` leaves pending deletes, renames and claims under the discarded key; the page that a linked device's reset leaves can open a backup, whose stage runs without the mark, so that a crash during it boots a fresh identity over what was staged (three upheavals: link, reset, file) |

Exceptions that a passing property names, because the code behaves so:

- `KeyIsHeld` lets a key go that a later rotation or link wrote another over (`over`); the
  run `RunAgainIsSafe` shows why that matters.
- `LinkedIsMember` names the one way in which an account key stays without the membership: a
  restart between `stageLink` and `registerAsDevice` (`useNightjar.ts:1603`), until the
  device joins again (`torn`).
- `DeletedStaysDeleted` leaves out a relay that purges a redemption up to a day after the
  dismissal lapsed (`contactStore.ts:102` says they expire together; `directory.ts`'s alarm
  is daily), so `syncInviteContacts` can add the person again.
- `KeepsItsIdentity` leaves out what a file was staged over where the mark was gone
  (`unmarked`), and what two tabs at work at once leave (`strays`).
- `ForgettingIsSafe` leaves out a queued text that the alarm has not purged yet although its
  time is past: its tombstone was pruned on the day.
- `WindowsAgree` and `NothingComesBack` leave out `crossed` and `missed` texts: one that arrives
  between a sweep and `dropConversation` loses its bubble until a reload; a handler in
  flight at `lockNow` appends to a locked page and tells no other window; a delete taken
  by one window while the text is still being told by another lingers on screen; a send
  that overlaps another window's hydration is missed there; rows cleared after a window
  read its history are shown by that window.
- `SureInitialsOpen` leaves out initials built while a re-registration was outstanding
  (`doubt`), and those built on a one-time pair whose peer lost every trace of its vend
  (`forgone`): a peer whose session was evicted, or that deletes the owner again while the
  first mark stands, is vended the prekey it has used once more, for seven days. The
  incidents themselves happen in the run, and spoil the initials of that pair only.
- `ServedIsHeld` says nothing while a registration is unconfirmed. What a replenishment
  publishes beside the old set in that time (`ServedTogether` above) is left there for the
  purging recovery; what the property catches is a replenishment that passes for the
  recovery, and the scene of interruptions in `PrekeysLife` reaches it (with the mutant
  `HearReplyConfirms`).
- `LinkArrives` is asked of the panel that names each seal anew (`LinkDevicePanel`,
  `FreshIds`); the one that does not (`HistoryTransferPanel`) is the entry `KnowsWhatItSaw`
  above. The same slip made in the first panel (`StreamOnce`) breaks `LinkArrives`.
- `ImportLosesNothing` asks for what is deleted before the import takes up the row, its awaits
  included; a mark or a delete that overtakes a row held in the batch is
  `NeverWalkedBack` and `DeleteIsNotUndone` above.

Smaller things met while modelling, where the code and its comments differ or a step of
several can be cut; none is covered by a property:

- *Aging.* A text first refused, retransmitted on its seventh day and queued for long can
  arrive after a later message's decryption pruned its skipped key (`constants.ts:95` says a late
  retry never does); retry receipts repair it. `flushDeliveredChecks` cuts off on the
  message's own time, so a text picked up after eight days is never marked delivered.
- *Sessions and prekeys.* `maxOpkId` can fall, which costs a batch one prekey. A crash between
  the commit of a session and `recordFirstContact` leaves a session without a contact until
  `recoverContact`; one in `joinWithInvite` loses the inviter's pin.
- *Deletes and renames.* A crash between `renameAccount`'s map write and `moveKeyed` loses an
  alias or a dismissal; tombstones are not re-keyed by a rename; a message filed under the
  retired id between `renameHistory` and `renameAccount` stays there; deleting while `sendText`
  resolves devices re-creates the row. A parked record of somebody who wrote after being
  deleted is refused. `drainMoveRefresh` writes back the list it held over a rename.
- *Own devices.* The copy for one's own device marks the row `sent`, and its expiry marks the
  recipient's message failed; `handleSendError` uses the entry's recipient for both.
- *Restore and lock.* `replaceAll*` keeps pending deletes, renames and claims; a browser on the lock
  screen can unlock with the old identity while another tab stages a new one; `resetLock`
  tells the other tabs last.
- *Transfers.* `prepareHistoryTransfer` does not look for a deletion while it gathers (as
  `exportMoveData` does); the end of one import clears the secret of a newer history code
  (`useNightjar.ts:1842`); a conversation deleted during an import is written back in part;
  seals of two sizes under one id stop the receiver, whose `FountainError` is swallowed.
- *Screens.* `mergeHistory` lets an older row win over a live bubble's status; `openVerify` can show
  another contact's panel after an await; `activate` shows its error page when the first
  connection fails, while the client goes on reconnecting, and sets `ready` after a lock.

## 6. Proofs

Every theorem holds for any value of the module's constants that satisfies its named
assumption (`ConstantsAssumption`, `DirectoryAssumption`, `TrustAssumption`, ...: kinds and
ranges only, evaluated by TLC on the runs). No theorem
assumes more: joins may be cut short, peers may lose their sessions, be restored and
delete the owner again, and what such an incident spoils is named by a history variable
in the property (`torn`, `forgone`) and followed by the invariants.

| Module | Theorems | The inductive invariant |
|---|---|---|
| `DeliveryProofs` | `TypeCorrect`, `CustodyHolds`, `ExactlyOnceHolds`, `DecidedRightlyHolds`, `DeleteWinsHolds`, `StatusIsEarnedHolds`, `NothingGoesBackHolds`, `CourierImplemented` | `IInv` of `Delivery` |
| `PrekeysProofs` | `PrekeysTypesHold`, `VendedOnceHolds`, `ServedIsHeldHolds`, `SureInitialsOpenHolds` | `Vending`, `Serving`, `Opening`, each holding the one before |
| `AccountsProofs`, of the Directory | `DirTypeCorrect`, `RotationsArriveHolds`, `AccountsArePaidForHolds`, `RetiredByItsOwnHolds` | `DirTypeOK`, `RotationsArrive` itself, `Paid`, `Claimed` |
| the same, of the devices | `TypeHolds`, `LinkedIsMemberHolds`, `KeyIsHeldHolds`, `NoSilentRemovalHolds` | `Shaped`, `Joined`, `Announced`, `Listed` |
| the same, with trust | `AccountsLayersMoveAlone`, `AccountsTypesHold`, `AccountsAreSafe` | those of the layers |
| `TrustProofs` | `TrustTypesHold`, `TrustIsEarnedHolds`, `DeletedStaysDeletedHolds` | `Typed`, `Earned`, `Timed` and `KeptOut` |
| `ConversationProofs`, of the session books | `SessionsTypesHold`, `DeletedIsNotResentHolds` | `SessionsInv` |
| the same, of a fan-out | `FanoutTypesHold`, `DeliveredIsTrueHolds` | `FanoutInv` |
| the same, of the clocks | `RetentionTypesHold`, `ForgettingIsSafeHolds` | `Forgotten` |
| the same, of all four layers | `ConversationLayersMoveAlone`, `ConversationTypesHold`, `ConversationIsSafe` | those of the layers |
| `RatchetProofs` | `RatchetTypesHold`, `OpenedOnce` (and `EnvelopesOpenOnceHolds` of `ConversationProofs`) | `RatchetInv` |
| `ContactsProofs` | `ContactsAndScreensTypesHold`, `ChangesFinishHolds`, `WindowsAgreeHolds`, `NothingComesBackHolds`, `LayersMoveAlone`, `ContactsAreSafe` | `ContactsInv`, `ScreensInv`, `BubblesInv` |
| `DeviceProofs`, of the vault | `VaultTypesHold`, `RestoreRepublishesHolds`, `KeepsItsIdentityHolds` | `VaultInv` |
| the same, of transfers | `TransfersTypesHold`, `FileIsNotTornHolds`, `ImportLosesNothingHolds` | `Gathering`, `Merging` |
| the same, of sockets | `ConnectionTypesHold`, `OneSocketHolds`, `LateIsIgnoredHolds` | `ConnectionInv` |
| the same, of presence and nudges | `WakeupTypesHold`, `HiddenIsNudgedHolds` | `WakeupInv` |
| the same, of links | `LinkingTypesHold`, `OneJoinHolds` | `LinkingInv` |
| the same, of all five layers | `DeviceLayersMoveAlone`, `DeviceTypesHold`, `DeviceIsSafe` | those of the layers |

Why the properties are not inductive as they stand, and what is added:

- *Delivery*. `Custody` says that an envelope is somewhere; whether it may leave one place
  depends on why the other place has it. `IInv` adds where a row, an upward and a
  downward frame can be (`Placed`), that an acked envelope was decided durably
  (`Decided`), and what a status or a report implies. That `Delivery` implements `Courier`
  needs one more fact, `OpenedIsRead`: an initial is opened exactly when it was read, so
  that a drop for want of a session in `Delivery` is one in `Courier`. `CourierStep` goes
  through the actions: posting, committing a decision and losing for good are each a
  step of the courier, every other action maps to no step.
- *Prekeys*. `VendedOnce` speaks of what was handed out; what may be handed out next is in
  the requests on the wire and in the rows, where each pair is offered once (`Offered`),
  and a vended row stays its peer's (`VendedTheirs`). `ServedIsHeld` needs to know which
  answer the owner still waits for (`Listening`) and, while the owner is sure of what it
  has published, that whatever is on the wire is held too (`Kept`). `Unspoilt` adds the
  used prekey that a peer could be vended again: it is `Barred` by the session, by the mark
  of a dismissal, or recorded in `forgone`.
- *Directory*. `AccountsArePaidFor` compares numbers of accounts and invites. `Paid` gives
  each live account its origin, a registered id that spent an invite, and keeps two live
  accounts from sharing one. `RetiredByItsOwn` is about what a device list deletes of others:
  `Claimed` says that every claim was made by the device itself, for that account or for
  one that has become it, and `WalksLead` that a walk along the rotations ends where they lead.
- *Accounts*. `Shaped` ties each task to the one request it waits for. `Announced`: a successor
  was generated by a device that had stored its key before asking. `NoSilentRemoval` is an
  action property of a list stored long after it was signed: `Carried` says of every list
  on the wire that, if it can still be stored, it is the list before it with what was
  added, without what somebody asked to remove; for a rotation's first list this rests
  on a key being announced once (`Unique`) and on which accounts are signed for
  (`Signing`).
- *Trust*. `TrustIsEarned` needs what the verify panel and the two halves of the flush hold in
  RAM (`Earned`). `DeletedStaysDeleted` needs the times: a mark lives as long as the
  relay's redemption can be read again (`Timed`), and whoever is gone has no record, a mark
  among the newest that fit or one that outlived its reason, and is not in what a flush or
  a sync still has to do (`KeptOut`). That the bounded ledger never pushes out a mark in
  use is `FewMarks` with `TrimmedKeeps`.
- *Sessions*. That a book holds no session twice rests on what is in the queue: an initial
  opens a session which its recipient does not hold, and no two queued initials open the
  same one (`Initials`), so that receiving one puts a new session in front of the book. That
  a text deleted stays deleted rests on what may be queued and resent being of texts
  that were sent (`Posted`, `Texts`). `QueueComes` says that both survive whatever a drain
  makes of the queue: it keeps an order-free part of it, at places none of which is taken twice.
- *Fanout*. `DeliveredIsTrue` is about a report, which follows a copy that some loop made.
  `FanoutInv` says of each loop which copies are made and which are still to make: every
  copy once, those to the own devices after those to the person, and a delete only of what
  was there to delete.
- *Retention*. `Forgotten` dates everything: a row, a mark or a question of a text is not older
  than what it answers to, and it goes within its period plus one sweep.
- *Ratchet*. The two ends take turns, so how far each end has come determines what every
  key is. `RatchetInv` says so for the chains, and of every envelope passed over that its key
  is kept, had no room, was too old when the store was pruned, or was used. `KeysUsedOnce`,
  `UnopenedOpens` and `OpenedIsForgotten` are read off from it.
- *Contacts*. A text is filed in one place and moves one way, from the second machine to the
  old account to the new one. `ContactsInv` says which places each pass of a rename or a
  sweep has left empty and why nothing fills them again, until the markers are cleared;
  the exception is the order of sweep and move that `DevicesStayTheirs` and section 5 name.
- *Screens*. `WindowsAgree` speaks of windows with nothing on its way. `ScreensInv` says what is on
  its way: a saved text is shown or is being told; a deleted one is shown only where its
  delete is to come; in every queue the text comes before its delete.
- *Bubbles*. `BubblesInv` compares what a window shows, or will show once it has drawn the
  history it read, with the row: never more than the row has, and less only where an event
  is to come; and the lock keeps one writer at work.
- *Vault*. What is on disk between two steps depends on which steps are left, so `VaultInv` says
  so: a tab's plan is a suffix of one of five operations (`IsPlan`), `PlanIsOrdered` gives what a
  next step implies about the rest of its plan, and `Wiped` and `Staged` say what the steps that are
  not left any more have done. `KeysHeld` and `AtWork` say which page may write under which key,
  `UnderOneKey`, `OfOneIdentity` and `ServedAsOwn` what is written. All but the types and `Served`
  hold only while one tab at a time is at work (`~strays`).
- *Connection*. A second socket could come only from a second routine that connects.
  `Waits` gives each socket being opened a routine of its own, and `Begun` says that neither
  a retry nor its timer starts before the first attempt is over.
- *Wakeup*. `HiddenIsNudged` is about the moment a row is stored, while what a page last said may
  still be in its socket's queue: `Unwatched` says of every socket of a page nobody sees
  that it said so, that this is the last thing in its queue, or that it is dead and
  what it said fades in time. `Single` keeps a page from having a second socket.
- *Linking*. `OneJoin` counts the runs of `completeLink`: `Joining` says that one is at work exactly
  while the screen shows joining, when no chunk is awaited and no frame looked at, so
  that none is begun, unless a join began while the camera was decoding a frame (`overlapped`,
  section 5).
- *Transfers*. `ImportLosesNothing` is about the moment a batch is written, and the batch was
  merged with rows read before: `Merging` says that what is to be written is still the
  merge of what was sent with the row that is there, unless the row was overtaken.

Action properties (`NothingGoesBack`, `NoSilentRemoval`, `HiddenIsNudged`, and the step parts of
`ImportLosesNothing`, `KeepsItsIdentity`, `DecidedRightly`) follow step by step from the same
invariants. What is proved of a layer holds of the specification a run checks, since a behaviour
of the composition is one of each layer's (`AccountsLayersMoveAlone`, `LayersMoveAlone`,
`ConversationLayersMoveAlone`, `DeviceLayersMoveAlone`): whichever layer moves, the others
stand still and keep their types. `AccountsAreSafe`, `ContactsAreSafe`, `ConversationIsSafe` and
`DeviceIsSafe` collect what follows for the four composite runs.

Model-checked only:

- liveness, since neither fairness nor ENABLED is in the prover's reach: `PathSettles`,
  `MarkersClear`, `ResendsRepair`, `RetriesDieDown`, `OthersFollow`, `RequestsEnd` (in
  `PageIsAnswered`) and `ExpiredGoes` (in `MailIsAnnounced`); of the refinement of `Courier`, the
  safety part is proved and is all that `Courier` states;
- an induction over data: `KnowsWhatItSaw`, the half of `LinkArrives` about the fountain decoder.
  `Absorbed` and the peeling it is compared with are recursive functions, whose values
  for every argument are out of the prover's reach. For the same reason `LinkingTypesHold`
  says of the decoder which stream it takes in and which frames it has seen.

The safety halves of `ResendsRepair`, `PageIsAnswered`, `MailIsAnnounced` and `LinkArrives` are proved
(`DeletedIsNotResentHolds`, `OneSocketHolds` and `LateIsIgnoredHolds`, `HiddenIsNudgedHolds`,
`OneJoinHolds`).

TLC checked the strengthened invariants before they were proved. The work on the vault showed
that a file staged by a page left open where the mark is gone breaks what had been claimed of
one identity; the property names that case now (`unmarked`). The work on the bubbles showed
two overlapping cases in `Rendered`, of which TLC had taken the first; they exclude each other now.

## 7. Plan

The modules and proofs that were planned are done. What would add most: the decoder as a
module whose steps are single reductions, so that `KnowsWhatItSaw` is an invariant of its
own; and the liveness properties, should a prover for them come into reach.

## 8. Not modelled

Pure formats and primitives (`src/wire`, `src/crypto/primitives.ts`, `message.ts`: no state, taken
as symbolic); rendering, QR drawing and layout (`src/ui/qr.ts`, views); logging and wording;
the bytes and sizes of frames, except where a size is refused; the service worker's caching; the
worker's HTTP routes other than the socket; `src/crypto/move.ts` and `historyTransfer.ts`
beyond what their files carry and which secret opens them; admin endpoints beyond minting.
The cryptography is assumed to do what its names say. Storage is assumed to keep what a
committed transaction wrote, but for `Evict`.
