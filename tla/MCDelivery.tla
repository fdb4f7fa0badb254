----------------------------- MODULE MCDelivery -----------------------------
(* Constants for small instances of Delivery: one conversation from a to b. *)
EXTENDS DeliveryCourier
CONSTANTS a, b, m1, m2, c1

AllFromA == [e \in Env |-> a]
AllToB   == [e \in Env |-> b]
EachItsOwn == [e \in Env |-> e]
ControlOpensItsOwn == [e \in Env |-> IF e \in Control THEN e ELSE m1]
DeletesM1 == [c \in Control |-> m1]

\* One text of several, which may be one that the relay refuses; and for one text the
\* Fairness of DeliveryCourier.
OneText == Next /\ Cardinality(made') <= 1
FairToIt ==
  /\ \A d \in Device : /\ WF_vars(Authenticate(d)) /\ WF_vars(Disconnect(d))
                       /\ SF_vars(FlushOutbox(d))
  /\ SF_vars(\E e \in Env : Confirm(e)) /\ SF_vars(\E e \in Env : Reject(e))
  /\ SF_vars(\E e \in Env : AckRow(e)) /\ SF_vars(\E e \in Env : Notice(e))
  /\ SF_vars(\E e \in Env : Receive(e)) /\ SF_vars(\E e \in Env : AckOnline(e))
  /\ WF_vars(\E e \in Env : Vanish(e))
OneTextSpec == Init /\ [][OneText]_vars /\ FairToIt

\* The path settles, whatever is lost on it: an envelope is decided or too old, the outbox
\* and the queue let go of it, and so does the courier they implement (client.ts
\* flushOutbox, inbox.ts drainQueue).
PathSettles == EventuallyDecided /\ OutboxSettles /\ QueueDrains /\ CourierSettles
=============================================================================
