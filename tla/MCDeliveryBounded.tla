-------------------------- MODULE MCDeliveryBounded --------------------------
(* Instances with several envelopes: the sockets that end, the frames in    *)
(* flight and the envelopes that may outlive the retry horizon are bounded. *)
EXTENDS MCDelivery
CONSTANTS MaxBreaks, MaxFrames, MayAge
VARIABLE breaks

SocketEnds == \E d \in Device : Open(d) /\ ~Open(d)'
BoundedInit == Init /\ breaks = 0
BoundedNext ==
  /\ Next
  /\ breaks' = IF SocketEnds THEN breaks + 1 ELSE breaks
  /\ breaks' <= MaxBreaks
  /\ Cardinality(up') + Cardinality(down') <= MaxFrames
  /\ aged' \subseteq MayAge
BoundedSpec == BoundedInit /\ [][BoundedNext]_<<vars, breaks>>
=============================================================================
