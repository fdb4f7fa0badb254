------------------------------- MODULE Linking -------------------------------
(***************************************************************************)
(* A new device joins an account: it shows a code with a secret in it, and *)
(* the device that scanned the code hands over the account, over the relay *)
(* (sendLinkPayload and handleLinkChunk of src/src/net/client.ts) or as a  *)
(* stream of codes on its screen (src/src/net/fountain.ts,                 *)
(* OpticalSend.tsx, OpticalReceive.tsx).  Whatever opens with the secret   *)
(* is joined (completeLink of useNightjar.ts).                             *)
(*                                                                         *)
(* Accounts has what a join means at the Directory; here are the two ways  *)
(* a payload arrives, at the same time if the user tries both.  A block of *)
(* a transfer is abstracted to the set of source blocks XORed into it.     *)
(***************************************************************************)
EXTENDS Naturals, Sequences, FiniteSets, FiniteSetsExt

CONSTANTS
    Blocks,       \* blocks of a transfer
    MaxSeq,       \* bound: frames of a screen that differ
    MaxPending,   \* transfers over the relay that are kept incomplete
    MaxCodes,     \* bound: codes the new device shows
    MaxRelay,     \* bound: attempts to send over the relay
    MaxSeals,     \* bound: payloads sealed for the screen
    FreshIds      \* whether the panel names each payload it shows anew

ASSUME LinkingAssumption ==
    /\ Blocks \in Nat \ {0, 1} /\ MaxSeq \in Nat /\ MaxSeq >= Blocks
    /\ MaxPending \in Nat \ {0} /\ MaxCodes \in Nat \ {0} /\ {MaxRelay, MaxSeals} \subseteq Nat
    /\ FreshIds \in BOOLEAN

Block == 1 .. Blocks
Code == 1 .. MaxCodes
Seal == 0 .. MaxSeals       \* 0 for that of another pair of devices in the same room
CodeFrame == [seal : Seal, seq : 1 .. MaxSeq]
NoFrame == [seal |-> 0, seq |-> 0]
Mixture == [cover : SUBSET Block, data : SUBSET (Seal \X Block)]
Known == [Block -> SUBSET (Seal \X Block)]    \* {} for a block that is not known
FreshDecoder == [stream |-> {}, known |-> [b \in Block |-> {}], pending |-> <<>>, seen |-> {}]

VARIABLES
    mix,          \* [sequence numbers past the first pass -> blocks their frame covers]
    parts,        \* chunks the payload needs over the relay
    shownCodes,   \* codes shown so far; the number of a code stands for its secret
    secret,       \* linkSecretRef, 0 for none
    linkState,
    awaiting,     \* the secret of linkAwait, 0 for none
    buffer,       \* ids of the incomplete transfers it keeps, oldest first
    sentOver,     \* attempts over the relay, the number of one stands for its transfer id
    air,          \* chunks under way
    target,       \* RAM of the other device: the code it scanned, 0 for none
    seals,        \* the codes of the payloads it sealed for its screen, the last is shown
    scanning,     \* the camera view is mounted
    seeing,       \* the frame a tick is decoding
    decoder,
    joins,        \* runs of completeLink at work: how many are where
    keySaved, joined,
    overlapped    \* a join began while a frame was being decoded

decoderVars == <<scanning, seeing, decoder>>
joinVars == <<joins, keySaved, joined>>
relayVars == <<sentOver, air>>
senderVars == <<relayVars, target, seals>>
linkingVars == <<mix, parts, shownCodes, secret, linkState, awaiting, buffer, senderVars,
                 decoderVars, joinVars, overlapped>>

---------------------------------------------------------------------------
(* The fountain decoder. *)

\* A first pass with the blocks themselves, then mixtures that depend on the number only.
CoveredBlocks(seq) == IF seq <= Blocks THEN {seq} ELSE mix[seq]

Xor(a, b) == (a \ b) \union (b \ a)
EncodeFrame(f) == {<<f.seal, b>> : b \in CoveredBlocks(f.seq)}

\* Mutant: a second showing goes on with the first one's name.
StreamOnce(k) == IF k = 0 THEN 0 ELSE 1

\* The id a payload's frames carry: LinkDevicePanel takes one for each seal,
\* HistoryTransferPanel one for as long as it is open.
Stream(k) == IF FreshIds \/ k = 0 THEN k ELSE 1

\* What is known is XORed out of a frame.
Reduced(values, cover, data) ==
    FoldSet(LAMBDA b, rest : Xor(values[b], rest), data, cover)

Revealed(values, left, data) == [b \in Block |-> IF b \in left THEN data ELSE values[b]]

\* Mutant: what was held back is not looked at again.
AbsorbOnce(w, h) ==
    LET left == {b \in h.cover : w.known[b] = {}}
        reduced == Reduced(w.known, h.cover, h.data) IN
    IF left = {} THEN w
    ELSE IF Cardinality(left) > 1
         THEN [w EXCEPT !.pending = Append(@, [cover |-> left, data |-> reduced])]
         ELSE [w EXCEPT !.known = Revealed(w.known, left, reduced)]

\* A frame with one unknown block reveals it; what was held back is to be reduced again,
\* before what is still to be absorbed.
Absorb(w, h) ==
    LET left == {b \in h.cover : w.known[b] = {}}
        reduced == Reduced(w.known, h.cover, h.data) IN
    IF left = {} THEN w
    ELSE IF Cardinality(left) > 1
         THEN [w EXCEPT !.pending = Append(@, [cover |-> left, data |-> reduced])]
         ELSE [w EXCEPT !.known = Revealed(w.known, left, reduced), !.pending = <<>>,
                        !.carry = w.pending \o @]

AllKnown(d) == \A b \in Block : d.known[b] # {}

\* What is carried is absorbed, or kept as it is once every block is known.
Absorbed[w \in [known : Known, pending : Seq(Mixture), carry : Seq(Mixture)]] ==
    IF w.carry = <<>> THEN w
    ELSE LET h == Head(w.carry) rest == [w EXCEPT !.carry = Tail(@)] IN
         Absorbed[IF AllKnown(w) THEN [rest EXCEPT !.pending = Append(@, h)] ELSE Absorb(rest, h)]

\* push: the first transfer seen is the only one, and a repeat adds nothing.
Push(d, f) ==
    IF d.stream \notin {{}, {Stream(f.seal)}} \/ AllKnown(d) \/ f.seq \in d.seen THEN d
    ELSE LET frame == [cover |-> CoveredBlocks(f.seq), data |-> EncodeFrame(f)]
             w == Absorbed[[known |-> d.known, pending |-> d.pending, carry |-> <<frame>>]]
         IN  [stream |-> {Stream(f.seal)}, known |-> w.known, pending |-> w.pending,
              seen |-> d.seen \union {f.seq}]

---------------------------------------------------------------------------
(* The new device. *)

\* startLinking: a fresh code; what was awaited under the last one is forgotten.
StartLinking ==
    /\ linkState \in {"idle", "waiting"} /\ ~joined /\ shownCodes < MaxCodes
    /\ shownCodes' = shownCodes + 1
    /\ secret' = shownCodes' /\ awaiting' = shownCodes' /\ buffer' = <<>>
    /\ linkState' = "waiting"
    /\ UNCHANGED <<mix, parts, senderVars, decoderVars, joinVars, overlapped>>

CancelLinking ==
    /\ linkState = "waiting" /\ ~scanning
    /\ linkState' = "idle" /\ secret' = 0 /\ awaiting' = 0 /\ buffer' = <<>>
    /\ UNCHANGED <<mix, parts, shownCodes, senderVars, decoderVars, joinVars,
                   overlapped>>

\* Mutant: the camera goes on.
ViewWhenJoiningOn == scanning

\* LinkNewDevice: the camera view goes once the device is joining.
ViewWhenJoining == FALSE

\* The start of completeLink.
CompleteLink ==
    /\ awaiting' = 0 /\ buffer' = <<>>
    /\ IF joined
       THEN linkState' = "idle" /\ secret' = 0 /\ UNCHANGED <<joins, scanning, overlapped>>
       ELSE /\ linkState' = "joining" /\ UNCHANGED secret
            /\ joins' = [joins EXCEPT !.staging = @ + 1]
            /\ scanning' = ViewWhenJoining
            /\ overlapped' = (overlapped \/ seeing' # NoFrame)
    /\ UNCHANGED <<keySaved, joined>>

\* Mutant: one transfer too many is kept.
KeptLate(id) ==
    IF Len(buffer) > MaxPending THEN Append(Tail(buffer), id) ELSE Append(buffer, id)

\* Room is made by dropping the oldest.
Kept(id) ==
    IF Len(buffer) >= MaxPending THEN Append(Tail(buffer), id) ELSE Append(buffer, id)

\* openLink: every part is there, and sealed under the secret of the code on the screen.
OpenLink(c) == parts = 1 /\ c.secret = awaiting

\* handleLinkChunk of a first chunk; no second one ever follows (see SendLinkPayload).
HandleLinkChunk(c) ==
    /\ c \in air /\ air' = air \ {c}
    /\ UNCHANGED <<seeing, decoder>>
    /\ IF awaiting # 0 /\ OpenLink(c)
       THEN CompleteLink
       ELSE /\ buffer' = IF awaiting # 0 /\ parts > 1 THEN Kept(c.id) ELSE buffer
            /\ UNCHANGED <<linkState, secret, awaiting, joinVars, scanning, overlapped>>
    /\ UNCHANGED <<mix, parts, shownCodes, sentOver, target, seals>>

OpenCamera ==
    /\ linkState = "waiting" /\ ~scanning /\ seeing = NoFrame
    /\ scanning' = TRUE /\ decoder' = FreshDecoder
    /\ UNCHANGED <<mix, parts, shownCodes, secret, linkState, awaiting, buffer, senderVars, seeing, joinVars, overlapped>>

CloseCamera ==
    /\ scanning /\ scanning' = FALSE
    /\ UNCHANGED <<mix, parts, shownCodes, secret, linkState, awaiting, buffer, senderVars, seeing, decoder, joinVars, overlapped>>

\* A tick begins to decode what the camera sees.
Glimpse(f) ==
    /\ scanning /\ seeing = NoFrame
    /\ f.seal \in {0, Len(seals)}
    /\ seeing' = f
    /\ UNCHANGED <<mix, parts, shownCodes, secret, linkState, awaiting, buffer, senderVars, scanning, decoder, joinVars, overlapped>>

\* openOpticalLink: linking still, and what was put together opens.
OpenOpticalLink(d) ==
    \E k \in DOMAIN seals : seals[k] = secret /\ \A b \in Block : d.known[b] = {<<k, b>>}

\* The rest of the tick, which does not ask whether the view is still there; a complete
\* payload is handed over, and the view ends.
Decoded ==
    LET d == Push(decoder, seeing) IN
    /\ seeing # NoFrame /\ seeing' = NoFrame /\ decoder' = d
    /\ IF AllKnown(d) /\ OpenOpticalLink(d)
       THEN CompleteLink
       ELSE /\ scanning' = (scanning /\ ~AllKnown(d))
            /\ UNCHANGED <<secret, linkState, awaiting, buffer, joinVars, overlapped>>
    /\ UNCHANGED <<mix, parts, shownCodes, senderVars>>

\* stageLink: the account key, then the contacts.
StageLink ==
    /\ joins.staging > 0
    /\ joins' = [staging |-> joins.staging - 1, registering |-> joins.registering + 1]
    /\ keySaved' = TRUE
    /\ UNCHANGED <<mix, parts, shownCodes, secret, linkState, awaiting, buffer, senderVars, decoderVars, joined, overlapped>>

\* registerAsDevice refuses a device that is registered; it may fail otherwise too.
Joined ==
    /\ joins.registering > 0 /\ ~joined
    /\ joins' = [joins EXCEPT !.registering = @ - 1]
    /\ joined' = TRUE /\ secret' = 0 /\ linkState' = "done"
    /\ UNCHANGED <<mix, parts, shownCodes, awaiting, buffer, senderVars, decoderVars,
                   keySaved, overlapped>>

JoinFails(at) ==
    /\ joins[at] > 0 /\ joins' = [joins EXCEPT ![at] = @ - 1]
    /\ keySaved' = FALSE /\ secret' = 0 /\ linkState' = "idle"
    /\ UNCHANGED <<mix, parts, shownCodes, awaiting, buffer, senderVars, decoderVars,
                   joined, overlapped>>

---------------------------------------------------------------------------
(* The device that scanned a code. *)

\* sealLink, of one part.
SealLink(id, code) == [id |-> id, secret |-> code]

\* The panel scans a code, and the device it names goes on the account's list (see
\* Accounts).
Authorize(code) ==
    /\ target # code /\ code <= shownCodes /\ target' = code
    /\ UNCHANGED <<mix, parts, shownCodes, secret, linkState, awaiting, buffer, relayVars, seals,
                   decoderVars, joinVars, overlapped>>

\* handleDeliverLink: to the live sockets of the device, if it has one; nothing is kept.
Reached(c) == {air, air \union {c}}

\* doSendLink, from a registered socket.
RelayLink(c) == air' \in Reached(c)

\* The request that carries a chunk waits for another id than the one that is answered, so
\* it times out and the rest is not sent.
SendLinkPayload ==
    /\ target # 0 /\ sentOver < MaxRelay
    /\ sentOver' = sentOver + 1
    /\ RelayLink(SealLink(sentOver', target))
    /\ UNCHANGED <<mix, parts, shownCodes, secret, linkState, awaiting, buffer, target, seals,
                   decoderVars, joinVars, overlapped>>

\* showOptically: each time the user chooses the screen.
SealLinkForOptical ==
    /\ target # 0 /\ Len(seals) < MaxSeals
    /\ seals' = Append(seals, target)
    /\ UNCHANGED <<mix, parts, shownCodes, secret, linkState, awaiting, buffer, relayVars, target,
                   decoderVars, joinVars, overlapped>>

---------------------------------------------------------------------------
LinkingInit ==
    /\ mix \in [Blocks + 1 .. MaxSeq -> SUBSET Block \ {{}}] /\ parts \in {1, 2}
    /\ shownCodes = 0 /\ secret = 0 /\ linkState = "idle" /\ awaiting = 0 /\ buffer = <<>>
    /\ sentOver = 0 /\ air = {} /\ target = 0 /\ seals = <<>>
    /\ scanning = FALSE /\ seeing = NoFrame /\ decoder = FreshDecoder
    /\ joins = [staging |-> 0, registering |-> 0] /\ keySaved = FALSE /\ joined = FALSE /\ overlapped = FALSE

LinkingNext ==
    \/ StartLinking \/ CancelLinking \/ OpenCamera \/ CloseCamera \/ Decoded
    \/ \E c \in air : HandleLinkChunk(c)
    \/ \E f \in CodeFrame : Glimpse(f)
    \/ StageLink \/ Joined \/ \E at \in DOMAIN joins : JoinFails(at)
    \/ \E code \in Code : Authorize(code)
    \/ SendLinkPayload \/ SealLinkForOptical

LinkingSpec == LinkingInit /\ [][LinkingNext]_linkingVars

---------------------------------------------------------------------------
\* What is kept of transfers that do not complete is bounded; nothing is awaited but the
\* code that is shown.
LinkingTypeOK ==
    /\ mix \in [Blocks + 1 .. MaxSeq -> SUBSET Block \ {{}}] /\ parts \in {1, 2}
    /\ shownCodes \in 0 .. MaxCodes /\ secret \in 0 .. shownCodes
    /\ overlapped \/ awaiting \in {0, secret}
    /\ linkState \in {"idle", "waiting", "joining", "done"}
    /\ buffer \in Seq(1 .. sentOver) /\ Len(buffer) <= MaxPending
    /\ sentOver \in 0 .. MaxRelay /\ air \subseteq [id : 1 .. sentOver, secret : Code]
    /\ target \in 0 .. shownCodes /\ seals \in Seq(Code) /\ Len(seals) <= MaxSeals
    /\ scanning \in BOOLEAN /\ seeing \in CodeFrame \union {NoFrame}
    /\ decoder.stream \subseteq Seal /\ Cardinality(decoder.stream) <= 1 /\ decoder.seen \subseteq 1 .. MaxSeq
    /\ joins \in [staging : Nat, registering : Nat]
    /\ keySaved \in BOOLEAN /\ joined \in BOOLEAN /\ overlapped \in BOOLEAN

\* The blocks that frames seen determine one after another: the least set that contains
\* every block some frame covers beside blocks of the set.
Peeled(seen) ==
    LET bases == {K \in SUBSET Block :
                      \A s \in seen : Cardinality(CoveredBlocks(s) \ K) # 1}
    IN {b \in Block : \A K \in bases : b \in K}

\* In whatever order frames are caught, missed, repeated and mixed with those of another
\* screen or of an earlier showing, the decoder knows exactly the blocks that its frames
\* determine, all of one payload (push and absorb of FountainDecoder).
KnowsWhatItSaw ==
    \E k \in Seal : \A b \in Block :
        decoder.known[b] = IF b \in Peeled(decoder.seen) THEN {<<k, b>>} ELSE {}

\* One payload is joined at a time, whichever way it came, and a device that joined
\* keeps the account key; unless a join began while a frame was being decoded
\* (handleLinkChunk, openOpticalLink, completeLink).
OneJoin ==
    overlapped \/ (joins.staging + joins.registering <= 1 /\ (joined => keySaved))

\* Without the exception.
RegisteredKeepsKey == joined /\ joins.staging + joins.registering = 0 => keySaved
=============================================================================
