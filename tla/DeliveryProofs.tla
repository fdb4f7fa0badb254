--------------------------- MODULE DeliveryProofs ---------------------------
(***************************************************************************)
(* Invariants of Delivery, for every set of devices, envelopes and bounds, *)
(* and that it implements Courier.                                         *)
(***************************************************************************)
EXTENDS DeliveryCourier, TLAPS

USE DEF Env, Status, UpFrame, DownFrame, senderVars, relayVars, recipientVars

\* The frames the two sides construct are frames.
LEMMA FrameTypes ==
  ASSUME NEW e \in Env
  PROVE  /\ SendFrame(e) \in UpFrame
         /\ AckFrame(e) \in UpFrame
         /\ \A kind \in {"deliver", "sent", "refused", "delivered"} :
              DownTo(kind, e) \in DownFrame
BY DEF SendFrame, AckFrame, DownTo

\* The state of every row, flag and frame keeps its type.
THEOREM TypeCorrect == Spec => []TypeOK
<1>1. Init => TypeOK
  BY ConstantsAssumption DEF Init, TypeOK
<1>2. TypeOK /\ [Next]_vars => TypeOK'
  <2> SUFFICES ASSUME TypeOK, [Next]_vars
               PROVE  TypeOK'
    OBVIOUS
  <2> USE ConstantsAssumption DEF TypeOK
  <2>1. ASSUME NEW d \in Device, Authenticate(d)
        PROVE  TypeOK'
    <3>1. down' \subseteq DownFrame
      BY <2>1, FrameTypes DEF Authenticate
    <3> QED
      BY <2>1, <3>1 DEF Authenticate
  <2>2. ASSUME NEW d \in Device, FlushOutbox(d)
        PROVE  TypeOK'
    <3>1. up' \subseteq UpFrame
      BY <2>2, FrameTypes DEF FlushOutbox
    <3>2. failed' \subseteq Text
      BY <2>2 DEF FlushOutbox, Flagged
    <3> QED
      BY <2>2, <3>1, <3>2 DEF FlushOutbox
  <2>3. ASSUME NEW d \in Device, CloseSocket(d)
        PROVE  /\ conn' \in [Device -> {"down", "authed", "ready"}]
               /\ up' \subseteq UpFrame
               /\ down' \subseteq DownFrame
    <3>1. \A f \in UpFrame : [f EXCEPT !.live = FALSE] \in UpFrame
      OBVIOUS
    <3> QED
      BY <2>3, <3>1 DEF CloseSocket
  <2>4. ASSUME NEW d \in Device, Disconnect(d) \/ Crash(d)
        PROVE  TypeOK'
    BY <2>3, <2>4 DEF Disconnect, Crash
  <2>5. ASSUME NEW f \in up, LoseFrame(f)
        PROVE  TypeOK'
    BY <2>5 DEF LoseFrame
  <2>6. ASSUME NEW m \in Text, SendText(m) \/ CancelQueued(m) \/ DeliveredCheck(m)
        PROVE  TypeOK'
    BY <2>6, FrameTypes DEF SendText, CancelQueued, DeliveredCheck, Put
  <2>7. ASSUME NEW c \in Control, SendDelete(c)
        PROVE  TypeOK'
    BY <2>7, FrameTypes DEF SendDelete, Put
  <2>8. ASSUME NEW f \in up, Relay(f)
        PROVE  TypeOK'
    <3>1. ASSUME NEW confirmed \in BOOLEAN, RelayStore(f, confirmed)
          PROVE  TypeOK'
      BY <3>1, FrameTypes DEF RelayStore, Reply
    <3>2. CASE RelayDecline(f) \/ RelayRefuse(f)
      BY <3>2, FrameTypes DEF RelayDecline, RelayRefuse
    <3>3. CASE RelayAck(f)
      BY <3>3, FrameTypes DEF RelayAck, Reply
    <3> QED
      BY <2>8, <3>1, <3>2, <3>3 DEF Relay
  <2>9. ASSUME NEW e \in Env, RecvDuplicate(e) \/ RecvRetryLater(e) \/ SendAck(e)
        PROVE  TypeOK'
    BY <2>9, FrameTypes DEF RecvDuplicate, RecvRetryLater, SendAck, Take, Put
  <2>10. ASSUME NEW e \in Env, RecvDecrypt(e)
         PROVE  TypeOK'
    BY <2>10 DEF RecvDecrypt, PlanHistory, Take
  <2>11. ASSUME NEW e \in Env, RecvFail(e)
         PROVE  TypeOK'
    <3>1. fails' \in [Env -> 0 .. (PoisonMax - 1)]
      BY <2>11 DEF RecvFail, Poisoned
    <3> QED
      BY <2>11, <3>1 DEF RecvFail, Take
  <2>12. ASSUME NEW e \in Env, Notice(e)
         PROVE  TypeOK'
    <3>1. ASSUME NEW status \in Status, outRow' \in Marked(e, status)
          PROVE  outRow' \in [Text -> Status]
      BY <3>1 DEF Marked
    <3> QED
      BY <2>12, <3>1 DEF Notice, RecvSent, RecvRefused, RecvDelivered, Flagged
  <2>13. ASSUME NEW e \in Env, RelayExpire(e) \/ RelayForget(e) \/ Age(e)
         PROVE  TypeOK'
    BY <2>13 DEF RelayExpire, RelayForget, Age
  <2>14. CASE UNCHANGED vars
    BY <2>14 DEF vars
  <2> QED
    BY <2>1, <2>2, <2>4, <2>5, <2>6, <2>7, <2>8, <2>9, <2>10, <2>11, <2>12, <2>13, <2>14
       DEF Next, Receive
<1> QED
  BY <1>1, <1>2, PTL DEF Spec
-----------------------------------------------------------------------------
\* The inductive step, in three parts.  First: what frames and rows imply of
\* each other survives every step.
Placed == RowsPlaced /\ UpPlaced /\ DownPlaced

LEMMA PlacedStep ==
  ASSUME TypeOK, TypeOK', Placed, [Next]_vars
  PROVE  Placed'
<1> USE ConstantsAssumption DEF TypeOK, Placed
<1>1. ASSUME NEW d \in Device, Authenticate(d)
      PROVE  Placed'
  <2>1. DownPlaced'
    BY <1>1 DEF Authenticate, RowsPlaced, DownPlaced, DownTo
  <2> QED
    BY <1>1, <2>1 DEF Authenticate, RowsPlaced, UpPlaced
<1>2. ASSUME NEW d \in Device, FlushOutbox(d)
      PROVE  Placed'
  <2>1. UpPlaced'
    BY <1>2 DEF FlushOutbox, RowsPlaced, UpPlaced, SendFrame
  <2> QED
    BY <1>2, <2>1 DEF FlushOutbox, RowsPlaced, DownPlaced
<1>3. ASSUME NEW d \in Device, Disconnect(d) \/ Crash(d)
      PROVE  Placed'
  <2>1. CloseSocket(d) /\ UNCHANGED <<senderVars, relayVars, recipientVars, aged>>
    BY <1>3 DEF Disconnect, Crash
  <2>2. \A f \in up' : \E g \in up : g.kind = f.kind /\ g.env = f.env
    <3>1. ASSUME NEW f \in up'
          PROVE  \E g \in up : g.kind = f.kind /\ g.env = f.env
      <4>1. PICK g \in up : f = IF Sender(g) = d THEN [g EXCEPT !.live = FALSE] ELSE g
        BY <2>1, <3>1 DEF CloseSocket
      <4>2. g.kind = f.kind /\ g.env = f.env
        BY <4>1
      <4> QED
        BY <4>2
    <3> QED
      BY <3>1
  <2>3. UpPlaced'
    BY <2>1, <2>2 DEF UpPlaced
  <2>4. DownPlaced'
    BY <2>1 DEF CloseSocket, DownPlaced
  <2>5. RowsPlaced'
    BY <1>3, <2>1 DEF Disconnect, Crash, RowsPlaced
  <2> QED
    BY <2>3, <2>4, <2>5
<1>4. ASSUME NEW f \in up, LoseFrame(f)
      PROVE  Placed'
  BY <1>4 DEF LoseFrame, RowsPlaced, UpPlaced, DownPlaced
<1>5. ASSUME NEW m \in Text, SendText(m)
      PROVE  Placed'
  <2>1. UpPlaced'
    BY <1>5 DEF SendText, RowsPlaced, UpPlaced, Put, SendFrame
  <2> QED
    BY <1>5, <2>1 DEF SendText, RowsPlaced, DownPlaced
<1>6. ASSUME NEW m \in Text, CancelQueued(m) \/ DeliveredCheck(m)
      PROVE  Placed'
  BY <1>6 DEF CancelQueued, DeliveredCheck, RowsPlaced, UpPlaced, DownPlaced
<1>7. ASSUME NEW c \in Control, SendDelete(c)
      PROVE  Placed'
  <2>1. c \notin made
    BY <1>7 DEF SendDelete, Deleted
  <2>2. UpPlaced'
    BY <1>7, <2>1 DEF SendDelete, RowsPlaced, UpPlaced, Put, SendFrame
  <2> QED
    BY <1>7, <2>2 DEF SendDelete, RowsPlaced, DownPlaced
<1>8. ASSUME NEW f \in up, Relay(f)
      PROVE  Placed'
  <2>1. ASSUME NEW confirmed \in BOOLEAN, RelayStore(f, confirmed)
        PROVE  Placed'
    <3>1. f.env \in made /\ f.env \in queue' \cup relaySeen
      BY <2>1 DEF RelayStore, UpPlaced, Known
    <3>2. queue \subseteq queue' /\ queue' \subseteq queue \cup {f.env}
      BY <2>1 DEF RelayStore
    <3>3. DownPlaced'
      BY <2>1, <3>1, <3>2 DEF RelayStore, DownPlaced, Reply, DownTo
    <3>4. UpPlaced'
      BY <2>1 DEF RelayStore, UpPlaced
    <3> QED
      BY <2>1, <3>1, <3>2, <3>3, <3>4 DEF RelayStore, RowsPlaced
  <2>2. CASE RelayDecline(f) \/ RelayRefuse(f)
    <3>1. DownPlaced'
      BY <2>2 DEF RelayDecline, RelayRefuse, DownPlaced, DownTo
    <3> QED
      BY <2>2, <3>1 DEF RelayDecline, RelayRefuse, RowsPlaced, UpPlaced
  <2>3. CASE RelayAck(f)
    <3>1. f.env \in seen
      BY <2>3 DEF RelayAck, UpPlaced
    <3>2. DownPlaced'
      BY <2>3, <3>1 DEF RelayAck, DownPlaced, Reply, DownTo
    <3> QED
      BY <2>3, <3>1, <3>2 DEF RelayAck, RowsPlaced, UpPlaced
  <2> QED
    BY <1>8, <2>1, <2>2, <2>3 DEF Relay
<1>9. ASSUME NEW e \in Env, Receive(e) \/ RecvRetryLater(e)
      PROVE  Placed'
  <2>1. /\ UNCHANGED <<up, made, outbox, queue, relaySeen, aged>>
        /\ down' \subseteq down
        /\ Arrived(e)
        /\ seen \subseteq seen' /\ seen' \subseteq seen \cup {e}
        /\ unacked' \subseteq unacked \cup (seen' \cap {e})
    BY <1>9 DEF Receive, RecvDuplicate, RecvDecrypt, RecvFail, RecvRetryLater, Take, Fresh
  <2>2. e \in made /\ e \in queue \cup relaySeen \cup aged
    BY <2>1 DEF DownPlaced, Arrived, DownTo
  <2> QED
    BY <2>1, <2>2 DEF RowsPlaced, UpPlaced, DownPlaced
<1>10. ASSUME NEW e \in Env, Notice(e)
       PROVE  Placed'
  BY <1>10 DEF Notice, RecvSent, RecvRefused, RecvDelivered, RowsPlaced, UpPlaced, DownPlaced
<1>11. ASSUME NEW e \in Env, SendAck(e)
       PROVE  Placed'
  <2>1. UpPlaced'
    BY <1>11 DEF SendAck, RowsPlaced, UpPlaced, Put, AckFrame
  <2> QED
    BY <1>11, <2>1 DEF SendAck, RowsPlaced, DownPlaced
<1>12. ASSUME NEW e \in Env, RelayExpire(e) \/ RelayForget(e)
       PROVE  Placed'
  BY <1>12 DEF RelayExpire, RelayForget, RowsPlaced, UpPlaced, DownPlaced
<1>13. ASSUME NEW e \in Env, Age(e)
       PROVE  Placed'
  BY <1>13 DEF Age, RowsPlaced, UpPlaced, DownPlaced
<1>14. CASE UNCHANGED vars
  BY <1>14 DEF vars, RowsPlaced, UpPlaced, DownPlaced
<1> QED
  BY <1>1, <1>2, <1>3, <1>4, <1>5, <1>6, <1>7, <1>8, <1>9, <1>10, <1>11, <1>12, <1>13, <1>14
     DEF Next
\* Second: what the recipient has decided, it has decided once and durably.
\* Only processInbound's two outcomes touch its state.
Decided == DecidedDurably /\ ExactlyOnce /\ DeleteWins

LEMMA DecidedStep ==
  ASSUME TypeOK, Decided, [Next]_vars
  PROVE  Decided'
<1> USE ConstantsAssumption DEF TypeOK, Decided, DecidedDurably, ExactlyOnce, DeleteWins
<1>1. CASE UNCHANGED recipientVars
  BY <1>1
<1>2. ASSUME NEW e \in Env, RecvDecrypt(e)
      PROVE  Decided'
  <2>1. e \notin seen /\ applied[e] = 0
    <3>1. e \notin seen
      BY <1>2 DEF RecvDecrypt, Fresh
    <3>2. applied[e] \in Nat /\ applied[e] <= 1 /\ applied[e] # 1
      BY <3>1
    <3> QED
      BY <3>1, <3>2
  <2>2. /\ seen' = seen \cup {e}
        /\ applied' = [applied EXCEPT ![e] = 1]
        /\ PlanHistory(e)
    BY <1>2, <2>1 DEF RecvDecrypt
  <2>3. ExactlyOnce'
    BY <2>2
  <2>4. DeleteWins' /\ inRow \cup tomb \subseteq inRow' \cup tomb'
    BY <2>2 DEF PlanHistory
  <2>5. e \in Text \ Ephemeral => e \in inRow' \cup tomb'
    BY <2>2 DEF PlanHistory
  <2>6. DecidedDurably'
    BY <2>2, <2>4, <2>5
  <2> QED
    BY <2>3, <2>4, <2>6
<1>3. ASSUME NEW e \in Env, RecvFail(e)
      PROVE  Decided'
  <2>1. /\ UNCHANGED <<applied, inRow, tomb>>
        /\ e \notin seen
        /\ seen \subseteq seen' /\ seen' \subseteq seen \cup {e}
    BY <1>3 DEF RecvFail, Fresh
  <2> QED
    BY <2>1
<1> QED
  BY <1>1, <1>2, <1>3
     DEF Next, vars, Authenticate, FlushOutbox, Disconnect, Crash, LoseFrame, SendText,
         CancelQueued, SendDelete, DeliveredCheck, Relay, RelayStore, RelayDecline,
         RelayRefuse, RelayAck, Receive, RecvDuplicate, RecvRetryLater, Notice, RecvSent,
         RecvRefused, RecvDelivered, SendAck, RelayExpire, RelayForget, Age

\* Third: custody, and the sender's status, which follows it.  `Held' is where an
\* envelope must be before its outbox row may go.
Held(e) == e \in queue \cup seen \cup aged

LEMMA HeldStep ==
  ASSUME TypeOK, Placed, [Next]_vars, NEW e \in Env, Held(e)
  PROVE  Held(e)'
<1> USE DEF TypeOK, Placed, Held
<1>1. CASE UNCHANGED <<queue, seen, aged>>
  BY <1>1
<1>2. ASSUME NEW f \in up, Relay(f)
      PROVE  Held(e)'
  <2>1. CASE RelayAck(f)
    BY <2>1 DEF RelayAck, UpPlaced
  <2>2. CASE ~RelayAck(f)
    BY <1>2, <2>2 DEF Relay, RelayStore, RelayDecline, RelayRefuse
  <2> QED
    BY <2>1, <2>2
<1>3. ASSUME NEW g \in Env, Receive(g)
      PROVE  Held(e)'
  BY <1>3 DEF Receive, RecvDuplicate, RecvDecrypt, RecvFail
<1>4. ASSUME NEW g \in Env, RelayExpire(g) \/ RelayForget(g) \/ Age(g)
      PROVE  Held(e)'
  BY <1>4 DEF RelayExpire, RelayForget, Age
<1> QED
  BY <1>1, <1>2, <1>3, <1>4
     DEF Next, vars, Authenticate, FlushOutbox, Disconnect, Crash, LoseFrame, SendText,
         CancelQueued, SendDelete, DeliveredCheck, RecvRetryLater, Notice, RecvSent,
         RecvRefused, RecvDelivered, SendAck

LEMMA CustodyStep ==
  ASSUME TypeOK, TypeOK', Placed, Custody, [Next]_vars
  PROVE  Custody'
<1> USE ConstantsAssumption DEF TypeOK, Placed
<1> SUFFICES ASSUME NEW e \in Env,
                    e \in made', e \notin aged', e \notin cancelled', e \notin Malformed
             PROVE  e \in outbox' \/ Held(e)'
  BY DEF Custody, Held
<1>1. CASE e \in made /\ e \notin aged \cup cancelled
  <2>1. CASE Held(e)
    BY <2>1, HeldStep
  <2>2. CASE ~Held(e)
    <3>1. e \in outbox
      BY <1>1, <2>2 DEF Custody, Held
    <3>2. DownTo("sent", e) \notin down /\ DownTo("refused", e) \notin down
      BY <2>2 DEF DownPlaced, RowsPlaced, Held, DownTo
    <3>3. ASSUME NEW d \in Device, FlushOutbox(d)
          PROVE  e \in outbox'
      BY <1>1, <3>1, <3>3 DEF FlushOutbox
    <3>4. ASSUME NEW g \in Env, Notice(g)
          PROVE  e \in outbox'
      BY <3>1, <3>2, <3>4 DEF Notice, RecvSent, RecvRefused, RecvDelivered
    <3>5. ASSUME NEW m \in Text, SendText(m) \/ CancelQueued(m) \/ DeliveredCheck(m)
          PROVE  e \in outbox'
      BY <3>1, <3>5 DEF SendText, CancelQueued, DeliveredCheck
    <3>6. ASSUME NEW c \in Control, SendDelete(c)
          PROVE  e \in outbox'
      BY <3>1, <3>6 DEF SendDelete
    <3>7. ASSUME UNCHANGED outbox
          PROVE  e \in outbox'
      BY <3>1, <3>7
    <3> QED
      BY <3>3, <3>4, <3>5, <3>6, <3>7
         DEF Next, vars, senderVars, Authenticate, Disconnect, Crash, LoseFrame, Relay,
             RelayStore, RelayDecline, RelayRefuse, RelayAck, Receive, RecvDuplicate,
             RecvDecrypt, RecvFail, RecvRetryLater, SendAck, RelayExpire, RelayForget, Age
  <2> QED
    BY <2>1, <2>2
<1>2. CASE e \notin made
  <2>1. ASSUME NEW m \in Text, SendText(m)
        PROVE  e \in outbox'
    BY <1>2, <2>1 DEF SendText
  <2>2. ASSUME NEW c \in Control, SendDelete(c)
        PROVE  e \in outbox'
    BY <1>2, <2>2 DEF SendDelete
  <2>3. CASE UNCHANGED made
    BY <1>2, <2>3
  <2> QED
    BY <2>1, <2>2, <2>3
       DEF Next, vars, Authenticate, FlushOutbox, Disconnect, Crash, LoseFrame,
           CancelQueued, DeliveredCheck, Relay, RelayStore, RelayDecline, RelayRefuse,
           RelayAck, Receive, RecvDuplicate, RecvDecrypt, RecvFail, RecvRetryLater, Notice,
           RecvSent, RecvRefused, RecvDelivered, SendAck, RelayExpire, RelayForget, Age
<1>3. aged \subseteq aged' /\ cancelled \subseteq cancelled'
  BY DEF Next, vars, Authenticate, FlushOutbox, Disconnect, Crash, LoseFrame, SendText,
         CancelQueued, SendDelete, DeliveredCheck, Relay, RelayStore, RelayDecline,
         RelayRefuse, RelayAck, Receive, RecvDuplicate, RecvDecrypt, RecvFail,
         RecvRetryLater, Notice, RecvSent, RecvRefused, RecvDelivered, SendAck,
         RelayExpire, RelayForget, Age
<1> QED
  BY <1>1, <1>2, <1>3

LEMMA StatusStep ==
  ASSUME TypeOK, Placed, StatusIsEarned, [Next]_vars
  PROVE  StatusIsEarned'
<1> USE DEF TypeOK, Placed
<1> SUFFICES ASSUME NEW m \in Text
             PROVE  /\ outRow'[m] = "delivered" => m \in seen'
                    /\ outRow'[m] = "sent" => Held(m)'
  BY DEF StatusIsEarned, Held
<1>1. seen \subseteq seen'
  BY DEF Next, vars, Authenticate, FlushOutbox, Disconnect, Crash, LoseFrame, SendText,
         CancelQueued, SendDelete, DeliveredCheck, Relay, RelayStore, RelayDecline,
         RelayRefuse, RelayAck, Receive, RecvDuplicate, RecvDecrypt, RecvFail,
         RecvRetryLater, Notice, RecvSent, RecvRefused, RecvDelivered, SendAck,
         RelayExpire, RelayForget, Age
<1>2. CASE outRow'[m] = outRow[m]
  BY <1>1, <1>2, HeldStep DEF StatusIsEarned, Held
<1>3. ASSUME outRow'[m] # outRow[m], NEW n \in Text, SendText(n) \/ CancelQueued(n)
      PROVE  outRow'[m] \in {"unknown", "absent"}
  BY <1>3 DEF SendText, CancelQueued
<1>4. ASSUME outRow'[m] # outRow[m], NEW c \in Control, SendDelete(c)
      PROVE  outRow'[m] = "absent"
  BY <1>4, ConstantsAssumption DEF SendDelete
<1>5. ASSUME outRow'[m] # outRow[m], NEW n \in Text, DeliveredCheck(n)
      PROVE  outRow'[m] = "delivered" /\ m \in seen
  BY <1>5 DEF DeliveredCheck, SeenCheck, RowsPlaced
<1>6. ASSUME outRow'[m] # outRow[m], NEW e \in Env, Notice(e)
      PROVE  \/ outRow'[m] = "delivered" /\ m \in seen
             \/ outRow'[m] = "sent" /\ Held(m)
  BY <1>6 DEF Notice, RecvSent, RecvRefused, RecvDelivered, Marked, DownPlaced, RowsPlaced,
              DownTo, Held
<1> QED
  BY <1>1, <1>2, <1>3, <1>4, <1>5, <1>6, HeldStep
     DEF Next, vars, Authenticate, FlushOutbox, Disconnect, Crash, LoseFrame, Relay,
         RelayStore, RelayDecline, RelayRefuse, RelayAck, Receive, RecvDuplicate,
         RecvDecrypt, RecvFail, RecvRetryLater, SendAck, RelayExpire, RelayForget, Age

-----------------------------------------------------------------------------
\* The inductive invariant, for every set of devices and envelopes.
THEOREM Inductive == Spec => []IInv
<1>1. Init => IInv
  BY DEF Init, IInv, RowsPlaced, UpPlaced, DownPlaced, DecidedDurably, Custody, ExactlyOnce,
         DeleteWins, StatusIsEarned
<1>2. TypeOK /\ TypeOK' /\ IInv /\ [Next]_vars => IInv'
  BY PlacedStep, DecidedStep, CustodyStep, StatusStep DEF IInv, Placed, Decided
<1> QED
  BY <1>1, <1>2, TypeCorrect, PTL DEF Spec

\* No message is lost in silence: younger than the retry horizon, it is in the
\* sender's outbox or the relay's queue until the recipient has decided it.
THEOREM CustodyHolds == Spec => []Custody
BY Inductive, PTL DEF IInv

\* No envelope's decryption is committed twice.
THEOREM ExactlyOnceHolds == Spec => []ExactlyOnce
BY Inductive, PTL DEF IInv

\* No ack without history.
THEOREM AckedIsDurableHolds == Spec => []AckedIsDurable
<1>1. IInv => AckedIsDurable
  BY DEF IInv, RowsPlaced, DecidedDurably, AckedIsDurable
<1> QED
  BY <1>1, Inductive, PTL

\* A text and its delete never leave the text in the history.
THEOREM DeleteWinsHolds == Spec => []DeleteWins
BY Inductive, PTL DEF IInv

\* A sender's "sent" and "delivered" are never ahead of the facts.
THEOREM StatusIsEarnedHolds == Spec => []StatusIsEarned
BY Inductive, PTL DEF IInv

\* A decided envelope never re-enters the relay's queue.
THEOREM NoResurrectionHolds == Spec => NoResurrection
<1>1. ASSUME TypeOK, IInv, [Next]_vars
      PROVE  \A e \in Env : e \in queue' \ queue => e \notin seen
  <2> SUFFICES ASSUME NEW e \in Env, e \in queue', e \notin queue
               PROVE  e \notin seen
    OBVIOUS
  <2> USE <1>1 DEF TypeOK
  <2>1. PICK f \in up, confirmed \in BOOLEAN : RelayStore(f, confirmed)
    BY DEF Next, vars, Authenticate, FlushOutbox, Disconnect, Crash, LoseFrame, SendText,
           CancelQueued, SendDelete, DeliveredCheck, Relay, RelayDecline, RelayRefuse,
           RelayAck, Receive, RecvDuplicate, RecvDecrypt, RecvFail, RecvRetryLater, Notice,
           RecvSent, RecvRefused, RecvDelivered, SendAck, RelayExpire, RelayForget, Age
  <2>2. e = f.env /\ f.kind = "send" /\ ~Known(e)
    BY <2>1 DEF RelayStore
  <2> QED
    BY <2>2 DEF IInv, UpPlaced, RowsPlaced, Known
<1> QED
  BY <1>1, TypeCorrect, Inductive, PTL DEF Spec, NoResurrection

\* A row's status moves forward only: every way to write it looks at what is there.
THEOREM StatusMonotoneHolds == Spec => StatusMonotone
<1>1. ASSUME TypeOK, [Next]_vars
      PROVE  \A m \in Text : (m \in made) => Rank(outRow'[m]) >= Rank(outRow[m])
  <2> SUFFICES ASSUME NEW m \in Text, m \in made
               PROVE  Rank(outRow'[m]) >= Rank(outRow[m])
    OBVIOUS
  <2> USE <1>1 DEF TypeOK, Status
  <2>0. CASE outRow'[m] = outRow[m]
    BY <2>0 DEF Rank
  <2>1. CASE \E n \in Text : SendText(n) \/ CancelQueued(n) \/ DeliveredCheck(n)
    BY <2>1 DEF SendText, CancelQueued, DeliveredCheck, Rank
  <2>2. CASE \E c \in Control : SendDelete(c)
    BY <2>2, ConstantsAssumption DEF SendDelete, Rank
  <2>3. CASE \E e \in Env : Notice(e)
    BY <2>3 DEF Notice, RecvSent, RecvRefused, RecvDelivered, Marked, Rank
  <2> QED
    BY <2>0, <2>1, <2>2, <2>3
       DEF Next, vars, senderVars, Authenticate, FlushOutbox, Disconnect, Crash, LoseFrame,
           Relay, RelayStore, RelayDecline, RelayRefuse, RelayAck, Receive, RecvDuplicate,
           RecvDecrypt, RecvFail, RecvRetryLater, SendAck, RelayExpire, RelayForget, Age
<1> QED
  BY <1>1, TypeCorrect, PTL DEF Spec, StatusMonotone

\* Neither the sender's rows nor the relay's queue go back.
THEOREM NothingGoesBackHolds == Spec => NothingGoesBack
BY NoResurrectionHolds, StatusMonotoneHolds DEF NothingGoesBack

\* What is seen without being applied could not be opened.
THEOREM PoisonHolds == Spec => PoisonOnlyWithoutSession
<1>1. ASSUME TypeOK, [Next]_vars
      PROVE  \A e \in Env : (e \in seen' \ seen /\ applied'[e] = 0) => Via[e] \notin opened
  <2> SUFFICES ASSUME NEW e \in Env, e \in seen' \ seen, applied'[e] = 0
               PROVE  Via[e] \notin opened
    OBVIOUS
  <2> USE <1>1 DEF TypeOK
  <2>1. PICK n \in Env : RecvDecrypt(n) \/ RecvFail(n)
    BY DEF Next, vars, Authenticate, FlushOutbox, Disconnect, Crash, LoseFrame, SendText,
           CancelQueued, SendDelete, DeliveredCheck, Relay, RelayStore, RelayDecline,
           RelayRefuse, RelayAck, Receive, RecvDuplicate, RecvRetryLater, Notice,
           RecvSent, RecvRefused, RecvDelivered, SendAck, RelayExpire, RelayForget, Age
  <2>2. CASE RecvDecrypt(n)
    BY <2>2 DEF RecvDecrypt
  <2>3. CASE RecvFail(n)
    BY <2>3 DEF RecvFail, Decryptable
  <2> QED
    BY <2>1, <2>2, <2>3
<1> QED
  BY <1>1, TypeCorrect, PTL DEF Spec, PoisonOnlyWithoutSession

\* Whatever is decided is decided rightly: filed if it could be opened.
THEOREM DecidedRightlyHolds == Spec => DecidedRightly
BY AckedIsDurableHolds, PoisonHolds DEF DecidedRightly

-----------------------------------------------------------------------------
(* The courier: the initial state is one of Courier's, and every step, on  *)
(* the mapped state, is a step of Courier or changes nothing.              *)

\* What an opened session is to the courier: an initial that was read.
OpenedIsRead == \A i \in Initials : i \in opened <=> applied[i] = 1

\* The book of the recipient holds exactly the sessions whose initial was read.
LEMMA OpenedIsReadAlways == Spec => []OpenedIsRead
<1>1. Init => OpenedIsRead
  BY DEF Init, OpenedIsRead, Initials
<1>2. ASSUME TypeOK, IInv, OpenedIsRead, [Next]_vars
      PROVE  OpenedIsRead'
  <2> USE <1>2 DEF TypeOK, OpenedIsRead, Initials
  <2>1. CASE UNCHANGED <<opened, applied>>
    BY <2>1
  <2>2. ASSUME NEW e \in Env, RecvDecrypt(e)
        PROVE  OpenedIsRead'
    <3>1. applied[e] = 0
      <4>1. e \notin seen
        BY <2>2 DEF RecvDecrypt, Fresh
      <4>2. applied[e] \in Nat /\ applied[e] <= 1 /\ applied[e] # 1
        BY <4>1 DEF IInv, ExactlyOnce
      <4> QED
        BY <4>2
    <3>2. /\ applied' = [applied EXCEPT ![e] = 1]
          /\ opened' = IF Via[e] = e THEN opened \cup {e} ELSE opened
      BY <2>2, <3>1 DEF RecvDecrypt
    <3> QED
      BY <3>2
  <2> QED
    BY <2>1, <2>2
       DEF Next, vars, Authenticate, FlushOutbox, Disconnect, Crash, LoseFrame, SendText,
           CancelQueued, SendDelete, DeliveredCheck, Relay, RelayStore, RelayDecline,
           RelayRefuse, RelayAck, Receive, RecvDuplicate, RecvFail, RecvRetryLater, Notice,
           RecvSent, RecvRefused, RecvDelivered, SendAck, RelayExpire, RelayForget, Age
<1> QED
  BY <1>1, <1>2, TypeCorrect, Inductive, PTL DEF Spec

-----------------------------------------------------------------------------
Excused == aged \cup cancelled \cup Malformed

\* What a step that commits no envelope can do to what carries one: only copy it
\* further, or let go of it.
LEMMA NothingFromNothing ==
  ASSUME TypeOK, [Next]_vars, UNCHANGED made, NEW e \in Env, Carried(e)'
  PROVE  Carried(e)
<1> USE DEF TypeOK, Carried, DownTo
<1>1. ASSUME NEW d \in Device, Authenticate(d)
      PROVE  Carried(e)
  BY <1>1 DEF Authenticate
<1>2. ASSUME NEW d \in Device, FlushOutbox(d)
      PROVE  Carried(e)
  BY <1>2 DEF FlushOutbox, SendFrame
<1>3. ASSUME NEW d \in Device, Disconnect(d) \/ Crash(d)
      PROVE  Carried(e)
  <2>1. CloseSocket(d) /\ UNCHANGED <<outbox, queue>>
    BY <1>3 DEF Disconnect, Crash
  <2>2. \A f \in up' : \E g \in up : g.kind = f.kind /\ g.env = f.env
    <3>1. ASSUME NEW f \in up'
          PROVE  \E g \in up : g.kind = f.kind /\ g.env = f.env
      <4>1. PICK g \in up : f = IF Sender(g) = d THEN [g EXCEPT !.live = FALSE] ELSE g
        BY <2>1, <3>1 DEF CloseSocket
      <4>2. g.kind = f.kind /\ g.env = f.env
        BY <4>1
      <4> QED
        BY <4>2
    <3> QED
      BY <3>1
  <2>3. down' \subseteq down
    BY <2>1 DEF CloseSocket
  <2> QED
    BY <2>1, <2>2, <2>3
<1>4. ASSUME NEW f \in up, Relay(f)
      PROVE  Carried(e)
  <2>1. ASSUME NEW confirmed \in BOOLEAN, RelayStore(f, confirmed)
        PROVE  Carried(e)
    BY <2>1 DEF RelayStore, Reply
  <2>2. CASE RelayDecline(f) \/ RelayRefuse(f)
    BY <2>2 DEF RelayDecline, RelayRefuse
  <2>3. CASE RelayAck(f)
    BY <2>3 DEF RelayAck, Reply
  <2> QED
    BY <1>4, <2>1, <2>2, <2>3 DEF Relay
<1>5. ASSUME NEW m \in Text, CancelQueued(m) \/ DeliveredCheck(m)
      PROVE  Carried(e)
  BY <1>5 DEF CancelQueued, DeliveredCheck
<1>6. ASSUME NEW g \in Env, Receive(g) \/ RecvRetryLater(g)
      PROVE  Carried(e)
  BY <1>6 DEF Receive, RecvDuplicate, RecvDecrypt, RecvFail, RecvRetryLater, Take
<1>7. ASSUME NEW g \in Env, Notice(g)
      PROVE  Carried(e)
  BY <1>7 DEF Notice, RecvSent, RecvRefused, RecvDelivered
<1>8. ASSUME NEW g \in Env, SendAck(g)
      PROVE  Carried(e)
  BY <1>8 DEF SendAck, Put, AckFrame
<1>9. ASSUME NEW g \in Env, RelayExpire(g) \/ RelayForget(g) \/ Age(g)
      PROVE  Carried(e)
  BY <1>9 DEF RelayExpire, RelayForget, Age
<1>10. ASSUME NEW f \in up, LoseFrame(f)
       PROVE  Carried(e)
  BY <1>10 DEF LoseFrame
<1>11. CASE UNCHANGED vars
  BY <1>11 DEF vars
<1>12. ~ \E m \in Text : SendText(m)
  BY DEF SendText
<1>13. ~ \E c \in Control : SendDelete(c)
  BY DEF SendDelete, Deleted
<1> QED
  BY <1>1, <1>2, <1>3, <1>4, <1>5, <1>6, <1>7, <1>8, <1>9, <1>10, <1>11, <1>12, <1>13
     DEF Next

\* A step that commits nothing and decides nothing loses what it lets go of, and each
\* envelope lost has its excuse.
LEMMA UndecidedStep ==
  ASSUME TypeOK, TypeOK', IInv, IInv', [Next]_vars, UNCHANGED <<made, seen, applied>>
  PROVE  \E lost \in SUBSET Env : Promise!Lose(lost)
<1> DEFINE lost == {e \in Env : PhaseOf(e) = "carried" /\ ~Carried(e)'}
<1>1. aged \subseteq aged' /\ cancelled \subseteq cancelled'
  BY DEF Next, vars, Authenticate, FlushOutbox, Disconnect, Crash, LoseFrame, SendText,
         CancelQueued, SendDelete, DeliveredCheck, Relay, RelayStore, RelayDecline,
         RelayRefuse, RelayAck, Receive, RecvDuplicate, RecvDecrypt, RecvFail,
         RecvRetryLater, Notice, RecvSent, RecvRefused, RecvDelivered, SendAck,
         RelayExpire, RelayForget, Age
<1>2. Excused \subseteq Excused' /\ Excused' \subseteq Env
  BY <1>1, ConstantsAssumption DEF Excused, TypeOK
<1>3. ASSUME NEW e \in lost
      PROVE  e \in Excused' /\ phaseMap[e] = "carried"
  <2>1. e \in made \ seen
    BY <1>3 DEF PhaseOf
  <2>2. e \notin outbox' \cup queue' \cup seen'
    BY <1>3, <2>1 DEF Carried
  <2> QED
    BY <1>3, <2>1, <2>2 DEF IInv, Custody, Excused, phaseMap
<1>4. ASSUME NEW e \in Env
      PROVE  PhaseOf(e)' = IF e \in lost THEN "gone" ELSE PhaseOf(e)
  <2>1. Carried(e)' => Carried(e)
    BY NothingFromNothing
  <2> QED
    BY <2>1 DEF PhaseOf
<1>5. phaseMap' = [e \in Env |-> IF e \in lost THEN "gone" ELSE phaseMap[e]]
  BY <1>4 DEF phaseMap
<1>6. Promise!Lose(lost)
  BY <1>2, <1>3, <1>5 DEF Promise!Lose, Excused
<1> QED
  BY <1>6

\* A commit posts the envelope it commits.
LEMMA CommitStep ==
  ASSUME TypeOK, IInv, NEW e \in Env, e \notin made, made' = made \cup {e},
         outbox' = outbox \cup {e}, up' = Put(From[e], {SendFrame(e)}),
         UNCHANGED <<down, queue, seen, applied, aged, cancelled>>
  PROVE  Promise!Post(e)
<1>1. e \notin seen
  BY DEF IInv, RowsPlaced
<1>2. PhaseOf(e) = "new" /\ PhaseOf(e)' = "carried"
  BY <1>1 DEF PhaseOf, Carried
<1>3. ASSUME NEW g \in Env \ {e}
      PROVE  PhaseOf(g)' = PhaseOf(g)
  BY <1>3 DEF PhaseOf, Carried, Put, SendFrame
<1>4. phaseMap' = [phaseMap EXCEPT ![e] = "carried"]
  BY <1>2, <1>3 DEF phaseMap
<1> QED
  BY <1>2, <1>4 DEF Promise!Post, Promise!Move, phaseMap

\* Only what the decided envelope is changes when it is decided: it was carried until
\* then, by the frame the recipient took.
LEMMA DecidingStep ==
  ASSUME TypeOK, IInv, NEW e \in Env, Fresh(e), Take(e), seen' = seen \cup {e},
         NEW what, PhaseOf(e)' = what,
         \A g \in Env \ {e} : applied'[g] = applied[g],
         UNCHANGED <<made, outbox, queue, up, aged, cancelled>>
  PROVE  Promise!Move(e, "carried", what)
<1>1. PhaseOf(e) = "carried"
  BY DEF PhaseOf, Carried, Fresh, Arrived, IInv, DownPlaced, DownTo
<1>2. ASSUME NEW g \in Env \ {e}
      PROVE  PhaseOf(g)' = PhaseOf(g)
  BY <1>2 DEF PhaseOf, Carried, Take, DownTo
<1>3. phaseMap' = [phaseMap EXCEPT ![e] = what]
  BY <1>2 DEF phaseMap
<1> QED
  BY <1>1, <1>3 DEF Promise!Move, phaseMap

\* The session an envelope needs is open exactly when the courier has had it read.
LEMMA SameSessions ==
  ASSUME TypeOK, IInv, OpenedIsRead, NEW e \in Env
  PROVE  Decryptable(e) <=> Promise!HasSession(e)
<1>1. Via[e] \in Initials
  BY ConstantsAssumption DEF Initials
<1>2. Via[e] \in opened <=> applied[Via[e]] = 1
  BY <1>1 DEF OpenedIsRead
<1>3. Via[e] \in Env /\ (applied[Via[e]] = 1 => Via[e] \in seen)
  BY <1>1 DEF Initials, IInv, ExactlyOnce
<1>4. seen \subseteq made
  BY DEF IInv, RowsPlaced
<1>5. phaseMap[Via[e]] = "read" <=> applied[Via[e]] = 1
  BY <1>3, <1>4 DEF phaseMap, PhaseOf
<1> QED
  BY <1>2, <1>5 DEF Decryptable, Promise!HasSession, Initials

\* Every step of the delivery path is a step of the courier, or none.
LEMMA CourierStep ==
  ASSUME TypeOK, TypeOK', IInv, IInv', OpenedIsRead, [Next]_vars
  PROVE  [Promise!CourierNext]_(Promise!courierVars)
<1> USE ConstantsAssumption DEF TypeOK
<1>1. ASSUME NEW m \in Text, SendText(m)
      PROVE  Promise!CourierNext
  <2>1. Promise!Post(m)
    BY <1>1, CommitStep DEF SendText
  <2> QED
    BY <2>1 DEF Promise!CourierNext
<1>2. ASSUME NEW c \in Control, SendDelete(c)
      PROVE  Promise!CourierNext
  <2>1. c \notin made
    BY <1>2 DEF SendDelete, Deleted
  <2>2. Promise!Post(c)
    BY <1>2, <2>1, CommitStep DEF SendDelete
  <2> QED
    BY <2>2 DEF Promise!CourierNext
<1>3. ASSUME NEW e \in Env, RecvDecrypt(e)
      PROVE  Promise!CourierNext
  <2>1. applied[e] = 0
    <3>1. e \notin seen
      BY <1>3 DEF RecvDecrypt, Fresh
    <3>2. applied[e] \in Nat /\ applied[e] <= 1 /\ applied[e] # 1
      BY <3>1 DEF IInv, ExactlyOnce
    <3> QED
      BY <3>2
  <2>2. /\ Fresh(e) /\ Take(e) /\ Decryptable(e)
        /\ seen' = seen \cup {e}
        /\ applied' = [applied EXCEPT ![e] = 1]
        /\ UNCHANGED <<made, outbox, queue, up, aged, cancelled>>
    BY <1>3, <2>1 DEF RecvDecrypt
  <2>3. e \in made
    BY <2>2 DEF Fresh, Arrived, IInv, DownPlaced, DownTo
  <2>4. PhaseOf(e)' = "read"
    BY <2>2, <2>3 DEF PhaseOf
  <2>5. Promise!Move(e, "carried", "read")
    BY <2>2, <2>4, DecidingStep
  <2>6. Promise!HasSession(e)
    BY <2>2, SameSessions
  <2> QED
    BY <2>5, <2>6 DEF Promise!CourierNext, Promise!Read
<1>4. ASSUME NEW e \in Env, RecvFail(e), seen' # seen
      PROVE  Promise!CourierNext
  <2>1. /\ Fresh(e) /\ Take(e) /\ ~Decryptable(e)
        /\ seen' = seen \cup {e}
        /\ UNCHANGED <<made, outbox, queue, up, aged, cancelled, applied>>
    BY <1>4 DEF RecvFail
  <2>2. e \in made /\ e \notin seen
    BY <2>1 DEF Fresh, Arrived, IInv, DownPlaced, DownTo
  <2>3. applied[e] # 1
    BY <2>2 DEF IInv, ExactlyOnce
  <2>4. PhaseOf(e)' = "dropped"
    BY <2>1, <2>2, <2>3 DEF PhaseOf
  <2>5. Promise!Move(e, "carried", "dropped")
    BY <2>1, <2>4, DecidingStep
  <2>6. ~Promise!HasSession(e)
    BY <2>1, SameSessions
  <2> QED
    BY <2>5, <2>6 DEF Promise!CourierNext, Promise!Drop
<1>5. CASE UNCHANGED <<made, seen, applied>>
  BY <1>5, UndecidedStep DEF Promise!CourierNext
<1> QED
  BY <1>1, <1>2, <1>3, <1>4, <1>5
     DEF Next, vars, Authenticate, FlushOutbox, Disconnect, Crash, LoseFrame, CancelQueued,
         DeliveredCheck, Relay, RelayStore, RelayDecline, RelayRefuse, RelayAck, Receive,
         RecvDuplicate, RecvFail, RecvRetryLater, Notice, RecvSent, RecvRefused,
         RecvDelivered, SendAck, RelayExpire, RelayForget, Age

\* The delivery path is a courier: it reads every envelope at most once, drops one only
\* without its session, and loses one only with an excuse, whatever sockets, frames and
\* processes come and go.
THEOREM CourierImplemented == Spec => ImplementsCourier
<1>1. Init => Promise!CourierInit
  BY ConstantsAssumption DEF Init, Promise!CourierInit, phaseMap, PhaseOf
<1> QED
  BY <1>1, CourierStep, TypeCorrect, Inductive, OpenedIsReadAlways, PTL
     DEF Spec, ImplementsCourier, Promise!CourierSpec
=============================================================================
