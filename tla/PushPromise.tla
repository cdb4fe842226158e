---------------------------- MODULE PushPromise ----------------------------
(***************************************************************************)
(* What docs/web-push-reliability.md promises of automatic alerts, without *)
(* leases, workers, retries or crashes: an event is queued for a set of    *)
(* browsers at once or never, every queued delivery is settled, once, and  *)
(* a settled event is forgotten but never comes back.                      *)
(***************************************************************************)
CONSTANTS Events, Browsers

VARIABLE fate

Deliveries == Events \X Browsers
Settled == {"accepted", "failed", "expired", "cancelled"}
Fates == {"none", "waiting", "closed"} \cup Settled

Init == fate = [d \in Deliveries |-> "none"]

\* The event happens while alerts are enabled: it waits for the browsers B known at that moment
Enqueue(e, B) ==
  /\ B # {}
  /\ \A b \in Browsers : fate[<<e, b>>] = "none"
  /\ fate' = [d \in Deliveries |-> IF d[1] # e THEN fate[d]
                                   ELSE IF d[2] \in B THEN "waiting" ELSE "none"]

\* Deliveries settle, together when one cause settles them all
Settle(D) ==
  /\ D # {} /\ \A d \in D : fate[d] = "waiting"
  /\ \A d \in D : fate'[d] \in Settled
  /\ \A d \in Deliveries \ D : fate'[d] = fate[d]
  /\ fate' \in [Deliveries -> Fates]

\* Its lifetime is over and nothing waits: what is left of the event may be forgotten
Close(e) ==
  /\ \A b \in Browsers : fate[<<e, b>>] # "waiting"
  /\ fate' = [d \in Deliveries |-> IF d[1] = e THEN "closed" ELSE fate[d]]

Next ==
  \/ \E e \in Events : Close(e) \/ \E B \in SUBSET Browsers : Enqueue(e, B)
  \/ \E D \in SUBSET Deliveries : Settle(D)

SettlesEventually == \A d \in Deliveries : fate[d] = "waiting" ~> fate[d] # "waiting"

Promise == Init /\ [][Next]_fate
=============================================================================
