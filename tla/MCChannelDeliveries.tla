-------------------------- MODULE MCChannelDeliveries --------------------------
(* Small instances of ChannelDeliveries for TLC. *)
EXTENDS ChannelDeliveries, TLC

CONSTANTS d1, d2, d3, l1, l2, g1, g2

\* d2 has another target than d1 and d3
TwoLanes == [d \in Deliveries |-> IF d = d2 THEN l2 ELSE l1]

\* a delivery that was settled long ago, one with an attempt left, and a dead
\* letter that an operator has just retried
Gone == [NoRow EXCEPT !.status = "pruned"]
LastTry == [NoRow EXCEPT !.status = "failed", !.attempts = MaxAttempts - 1]
Retried == [NoRow EXCEPT !.status = "failed", !.attempts = MaxAttempts]

Outset(one, two, rows, spent) ==
  [served |-> g1 :> one @@ g2 :> two, row |-> rows, disruptions |-> spent]

\* one gateway with a delivery for each of two lanes, two gateways that race for
\* one delivery, or an operator who retries more than the queue holds
QueueRaceOrRetries ==
  {Outset({d1, d2}, {}, d1 :> LastTry @@ d2 :> LastTry @@ d3 :> Gone, 0),
   Outset({d1}, {d1}, d1 :> NoRow @@ d2 :> Gone @@ d3 :> Gone, 0),
   Outset({d1, d2, d3}, {}, [d \in Deliveries |-> Retried], MaxDisruptions)}

OneDelivery == {[served |-> g1 :> {d1}, row |-> d1 :> NoRow, disruptions |-> 0]}
=============================================================================
