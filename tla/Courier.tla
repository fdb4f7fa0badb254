------------------------------- MODULE Courier -------------------------------
(***************************************************************************)
(* What the delivery path promises, without outboxes, sockets, queues or   *)
(* acknowledgements: every envelope is posted once and then carried until  *)
(* the recipient reads it, once, or drops it because it holds no session   *)
(* that opens it.  It can be lost only with an excuse: it is older than    *)
(* the sender's retry horizon, its sender cancelled it, or the relay       *)
(* refuses it for good.                                                    *)
(***************************************************************************)
CONSTANTS Env, Via

VARIABLES phase, excused
courierVars == <<phase, excused>>

Phase == {"new", "carried", "read", "dropped", "gone"}
CourierTypeOK == phase \in [Env -> Phase] /\ excused \subseteq Env

CourierInit ==
  /\ phase = [e \in Env |-> "new"]
  /\ excused \subseteq Env

HasSession(e) == Via[e] = e \/ phase[Via[e]] = "read"

Move(e, from, to) ==
  /\ phase[e] = from
  /\ phase' = [phase EXCEPT ![e] = to]
  /\ UNCHANGED excused

Post(e) == Move(e, "new", "carried")
Read(e) == Move(e, "carried", "read") /\ HasSession(e)
Drop(e) == Move(e, "carried", "dropped") /\ ~HasSession(e)

\* Envelopes become excusable, and some that are may be lost.
Lose(lost) ==
  /\ excused \subseteq excused'
  /\ excused' \subseteq Env
  /\ lost \subseteq excused'
  /\ \A e \in lost : phase[e] = "carried"
  /\ phase' = [e \in Env |-> IF e \in lost THEN "gone" ELSE phase[e]]

CourierNext ==
  \/ \E e \in Env : Post(e) \/ Read(e) \/ Drop(e)
  \/ \E lost \in SUBSET Env : Lose(lost)

CourierSpec == CourierInit /\ [][CourierNext]_courierVars

\* Every envelope posted is eventually read, dropped or lost with an excuse.
Settles == \A e \in Env : phase[e] = "carried" ~> phase[e] # "carried"
=============================================================================
