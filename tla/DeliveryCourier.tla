--------------------------- MODULE DeliveryCourier ---------------------------
(***************************************************************************)
(* Delivery implements Courier: what an envelope is, from end to end, given *)
(* where its copies are.                                                   *)
(***************************************************************************)
EXTENDS Delivery

\* Some durable row or some frame still carries the envelope.
Carried(e) ==
  \/ e \in outbox \cup queue
  \/ \E f \in up : f.kind = "send" /\ f.env = e
  \/ DownTo("deliver", e) \in down

PhaseOf(e) ==
  CASE e \notin made -> "new"
    [] e \in seen /\ applied[e] = 1 -> "read"
    [] e \in seen /\ applied[e] # 1 -> "dropped"
    [] e \in made \ seen /\ Carried(e) -> "carried"
    [] e \in made \ seen /\ ~Carried(e) -> "gone"

phaseMap == [e \in Env |-> PhaseOf(e)]

Promise == INSTANCE Courier
             WITH phase <- phaseMap, excused <- aged \cup cancelled \cup Malformed

\* Delivery implements the abstract courier: every step is a step of Courier on
\* the mapped state, or changes nothing there.
ImplementsCourier == Promise!CourierSpec

-----------------------------------------------------------------------------
(* Fairness.  The client reconnects on a timer for as long as it runs, the *)
(* relay keeps answering, sockets do not live forever (and the outbox is   *)
(* flushed only by a new one), and the app is eventually unlocked.  Since  *)
(* each of these can be interrupted again and again, what happens to a     *)
(* frame is strongly fair.  Time (Age, RelayExpire, RelayForget) is not    *)
(* fair: nothing below is true only because the envelope grew old.         *)

Confirm(e) == \E f \in up : f.env = e /\ f.live /\ RelayStore(f, TRUE)
Reject(e)  == \E f \in up : f.env = e /\ f.live /\ RelayRefuse(f)
AckRow(e)  == \E f \in up : f.env = e /\ RelayAck(f)
Vanish(e)  == \E f \in up : f.env = e /\ LoseFrame(f)
AckOnline(e) == Open(To[e]) /\ SendAck(e)

Fairness ==
  /\ \A d \in Device : /\ WF_vars(Authenticate(d)) /\ WF_vars(Disconnect(d))
                       /\ SF_vars(FlushOutbox(d))
  /\ \A e \in Env : /\ SF_vars(Confirm(e)) /\ SF_vars(Reject(e)) /\ SF_vars(AckRow(e))
                    /\ SF_vars(Notice(e)) /\ SF_vars(Receive(e)) /\ SF_vars(AckOnline(e))
                    /\ WF_vars(Vanish(e))

FairSpec == Spec /\ Fairness

\* End to end: a message is eventually decided by its recipient, unless it was
\* cancelled, refused for good, or outlived the retry horizon first.
EventuallyDecided ==
  \A e \in Env : e \in made ~> e \in seen \cup aged \cup cancelled \cup Malformed

\* The sender does not keep an outbox row forever.
OutboxSettles == \A e \in Env : e \in outbox ~> e \notin outbox

\* The relay does not keep a row its recipient can reach forever: a lost ack is
\* repaired by the redelivery it causes.
QueueDrains == \A e \in Env : e \in queue ~> e \notin queue

\* The abstract courier's liveness, on the mapped state.
CourierSettles == Promise!Settles
=============================================================================
