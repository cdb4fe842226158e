----------------------------- MODULE PushOutbox -----------------------------
(***************************************************************************)
(* The durable outbox of browser alerts and the worker that drains it:     *)
(* src/src/modules/notifications/push, with the health incident that       *)
(* leaseIsEligible looks up.                                               *)
(*                                                                         *)
(* Time is left out: an event expires at any time, a retry is due and a    *)
(* lease left by a dead process runs out at any time after it was written. *)
(* The last second of an event's lifetime counts as expired.  An attempt   *)
(* starts in the turn that claims its row, so a claim, the eligibility     *)
(* check and the start of the request are one step.  A call in flight      *)
(* holds the row's lease token exactly while the row is leased: nothing is *)
(* claimed while a call is open (drainBatch).                              *)
(***************************************************************************)
EXTENDS Integers, FiniteSets

CONSTANTS Events,        \* event keys; each stands for its event type too
          HealthEvents,  \* keys of health incidents
          Browsers,      \* rows of push_subscriptions
          NoEvent,
          MaxAttempts,   \* MAX_PUSH_ATTEMPTS, 12 in the source
          BatchSize,     \* deliveries claimed together, 4 in the source
          MaxOps         \* bound: operator requests, crashes and stops in a behaviour

ASSUME PushAssumption ==
  /\ HealthEvents \subseteq Events /\ NoEvent \notin Events
  /\ MaxAttempts \in Nat \ {0} /\ BatchSize \in Nat \ {0} /\ MaxOps \in Nat

VARIABLES event,      \* push_events
          expired,    \* events past expires_at_ms
          status,     \* push_deliveries.status
          attempts,   \* push_deliveries.attempts
          subs,       \* push_subscriptions: not registered yet, on, or deleted for good
          enabled,    \* push_config: the event types that are pushed
          incident,   \* projects.health_incident_key
          isDown,     \* last_status = 'down' and not paused
          identityOk, \* the signing identity can be decrypted
          worker,     \* up, stopping (stop() was called) or down
          call,       \* the request of each attempt in flight
          sent,       \* requests made for a delivery (observed)
          got,        \* whether the push service accepted one, and the answer was lost (observed)
          ops

tables == <<event, expired, status, attempts, subs, enabled>>
health == <<incident, isDown>>
observed == <<sent, got>>
pushVars == <<tables, health, observed, identityOk, worker, call, ops>>

Deliveries == Events \X Browsers
Live == {"pending", "retry", "leased"}

Operate == ops < MaxOps /\ ops' = ops + 1
Running == worker # "down"
Registered == {b \in Browsers : subs[b] = "on"}
NoCalls == \A d \in Deliveries : call[d] = "none"

\* status of the deliveries in D that are live becomes s
Settle(D, s) == [d \in Deliveries |-> IF d \in D /\ status[d] \in Live THEN s ELSE status[d]]

PushInit ==
  /\ event = [e \in Events |-> "none"] /\ expired = {}
  /\ status = [d \in Deliveries |-> "none"] /\ attempts = [d \in Deliveries |-> 0]
  /\ subs \in [Browsers -> {"new", "on"}] /\ enabled = Events
  /\ incident = NoEvent /\ isDown = FALSE
  /\ identityOk = TRUE /\ worker = "up"
  /\ call = [d \in Deliveries |-> "none"]
  /\ sent = [d \in Deliveries |-> 0] /\ got = [d \in Deliveries |-> "no"]
  /\ ops = 0

-----------------------------------------------------------------------------
(* Producers *)

MutEnqueue(e) ==
  IF e \notin expired /\ e \in enabled /\ Registered # {}
    THEN /\ event' = [event EXCEPT ![e] = "live"]
         /\ status' = [d \in Deliveries |-> IF d[1] = e /\ d[2] \in Registered THEN "pending" ELSE status[d]]
    ELSE UNCHANGED <<event, status>>

\* enqueuePushEventTx: once per event key, for the browsers there are; skipped when disabled
Enqueue(e) ==
  IF event[e] = "none" /\ e \notin expired /\ e \in enabled /\ Registered # {}
    THEN /\ event' = [event EXCEPT ![e] = "live"]
         /\ status' = [d \in Deliveries |-> IF d[1] = e /\ d[2] \in Registered THEN "pending" ELSE status[d]]
    ELSE UNCHANGED <<event, status>>

\* dispatchNotification of a deploy, rollback or update failure, once more for the same key
Dispatch(e) ==
  /\ Running /\ e \notin HealthEvents
  /\ Enqueue(e)
  /\ UNCHANGED <<expired, attempts, subs, enabled, health, observed, identityOk, worker, call, ops>>

\* HealthChecker.checkOnce, down: a new incident key and its event in one transaction
HealthDown(e) ==
  /\ Running /\ ~isDown /\ e \in HealthEvents /\ event[e] = "none" /\ e \notin expired /\ incident # e
  /\ incident' = e /\ isDown' = TRUE
  /\ Enqueue(e)
  /\ UNCHANGED <<expired, attempts, subs, enabled, observed, identityOk, worker, call, ops>>

MutHealthUp ==
  /\ Running /\ incident # NoEvent
  /\ event' = [event EXCEPT ![incident] = IF @ = "live" THEN "cancelled" ELSE @]
  /\ status' = [d \in Deliveries |-> IF d[1] = incident /\ status[d] \in {"pending", "retry"}
                                       THEN "cancelled" ELSE status[d]]
  /\ incident' = NoEvent /\ isDown' = FALSE
  /\ UNCHANGED <<expired, attempts, subs, enabled, observed, identityOk, worker, call, ops>>

\* ... up: cancelEvent on the incident
HealthUp ==
  /\ Running /\ incident # NoEvent
  /\ event' = [event EXCEPT ![incident] = IF @ = "live" THEN "cancelled" ELSE @]
  /\ status' = Settle({incident} \X Browsers, "cancelled")
  /\ incident' = NoEvent /\ isDown' = FALSE
  /\ UNCHANGED <<expired, attempts, subs, enabled, observed, identityOk, worker, call, ops>>

\* setProjectPaused: last_status becomes unknown, the incident key stays
PauseProject ==
  /\ Running /\ isDown
  /\ isDown' = FALSE
  /\ UNCHANGED <<tables, incident, observed, identityOk, worker, call, ops>>

-----------------------------------------------------------------------------
(* Operator *)

\* updatePushConfig, cancelDisabledDeliveries included
SetConfig(T) ==
  /\ Running /\ Operate
  /\ T # enabled
  /\ enabled' = T
  /\ status' = Settle((Events \ T) \X Browsers, "cancelled")
  /\ UNCHANGED <<event, expired, attempts, subs, health, observed, identityOk, worker, call>>

\* savePushSubscription of a new endpoint
SaveSubscription(b) ==
  /\ Running /\ subs[b] = "new"
  /\ subs' = [subs EXCEPT ![b] = "on"]
  /\ UNCHANGED <<event, expired, status, attempts, enabled, health, observed, identityOk, worker, call, ops>>

\* deletePushSubscriptionTx
DeleteSubscription(b) ==
  /\ Running /\ Operate
  /\ subs[b] = "on"
  /\ subs' = [subs EXCEPT ![b] = "gone"]
  /\ status' = Settle(Events \X {b}, "cancelled")
  /\ UNCHANGED <<event, expired, attempts, enabled, health, observed, identityOk, worker, call>>

\* The host secret or the database is replaced, or repaired
ToggleIdentity ==
  /\ Operate
  /\ identityOk' = ~identityOk
  /\ UNCHANGED <<tables, health, observed, worker, call>>

-----------------------------------------------------------------------------
(* The worker *)

Due == {d \in Deliveries : status[d] \in Live /\ d[1] \notin expired}

\* leaseIsEligible, of a row claimed in this very turn
Eligible(d) == /\ event[d[1]] = "live"
               /\ d[1] \in enabled
               /\ subs[d[2]] = "on"
               /\ d[1] \in HealthEvents => isDown /\ incident = d[1]

Leased(d) == IF attempts[d] < MaxAttempts THEN "leased" ELSE "permanent_failure"

MutAttemptUncounted(D) ==
  LET go == {d \in D : Eligible(d)}
      started == {d \in go : attempts[d] < MaxAttempts}
  IN  /\ attempts' = [d \in Deliveries |->
                        IF d \in D /\ status[d] # "leased" THEN attempts[d] + 1 ELSE attempts[d]]
      /\ status' = [d \in Deliveries |-> IF d \in go THEN Leased(d)
                                         ELSE IF d \in D THEN "cancelled"
                                         ELSE IF d[1] \in expired /\ status[d] \in Live THEN "expired"
                                         ELSE status[d]]
      /\ call' = [d \in Deliveries |-> IF d \in started THEN IF identityOk THEN "open" ELSE "blocked"
                                       ELSE call[d]]
      /\ sent' = [d \in Deliveries |-> IF d \in started /\ identityOk THEN sent[d] + 1 ELSE sent[d]]

MutAttemptKeepsLeases(D) ==
  LET go == {d \in D : Eligible(d)}
      started == {d \in go : attempts[d] < MaxAttempts}
  IN  /\ attempts' = [d \in Deliveries |-> IF d \in D THEN attempts[d] + 1 ELSE attempts[d]]
      /\ status' = [d \in Deliveries |-> IF d \in go THEN Leased(d)
                                         ELSE IF d \in D THEN "cancelled"
                                         ELSE IF d[1] \in expired /\ status[d] \in {"pending", "retry"}
                                           THEN "expired"
                                         ELSE status[d]]
      /\ call' = [d \in Deliveries |-> IF d \in started THEN IF identityOk THEN "open" ELSE "blocked"
                                       ELSE call[d]]
      /\ sent' = [d \in Deliveries |-> IF d \in started /\ identityOk THEN sent[d] + 1 ELSE sent[d]]

\* claimDueDeliveries of D, then attempt(lease) of each up to its request: expired rows are
\* closed, D is leased and counted, ineligible rows are cancelled, rows past the retry limit
\* fail, the others are sent
Attempt(D) ==
  LET go == {d \in D : Eligible(d)}
      started == {d \in go : attempts[d] < MaxAttempts}
  IN  /\ attempts' = [d \in Deliveries |-> IF d \in D THEN attempts[d] + 1 ELSE attempts[d]]
      /\ status' = [d \in Deliveries |-> IF d \in go THEN Leased(d)
                                         ELSE IF d \in D THEN "cancelled"
                                         ELSE IF d[1] \in expired /\ status[d] \in Live THEN "expired"
                                         ELSE status[d]]
      /\ call' = [d \in Deliveries |-> IF d \in started THEN IF identityOk THEN "open" ELSE "blocked"
                                       ELSE call[d]]
      /\ sent' = [d \in Deliveries |-> IF d \in started /\ identityOk THEN sent[d] + 1 ELSE sent[d]]

MutPoll ==
  /\ worker = "up"
  /\ \E D \in SUBSET Due : Cardinality(D) <= BatchSize /\ Attempt(D) /\ (D # {} \/ status' # status)
  /\ UNCHANGED <<event, expired, subs, enabled, health, got, identityOk, worker, ops>>

\* One claim of drainBatch: the claims before it have settled
Poll ==
  /\ worker = "up" /\ NoCalls
  /\ \E D \in SUBSET Due : Cardinality(D) <= BatchSize /\ Attempt(D) /\ (D # {} \/ status' # status)
  /\ UNCHANGED <<event, expired, subs, enabled, health, got, identityOk, worker, ops>>

\* The push service accepts the request; its answer is on its way
Accept(d) ==
  /\ call[d] = "open"
  /\ call' = [call EXCEPT ![d] = "accepted"]
  /\ got' = [got EXCEPT ![d] = IF @ = "no" THEN "yes" ELSE @]
  /\ UNCHANGED <<tables, health, sent, identityOk, worker, ops>>

\* finishDelivery: only while this attempt still owns the row
Finish(d, s) == status' = [status EXCEPT ![d] = IF @ = "leased" THEN s ELSE @]

Retried(d) == IF attempts[d] >= MaxAttempts THEN "permanent_failure" ELSE "retry"

\* The transaction at the end of attempt
Complete(d) ==
  /\ call[d] \in {"open", "accepted"}
  /\ call' = [call EXCEPT ![d] = "none"]
  /\ \/ /\ call[d] = "accepted"                                  \* 2xx
        /\ Finish(d, "accepted") /\ UNCHANGED <<subs, got>>
     \/ /\ call[d] = "open"                                      \* 401, 403, other 4xx
        /\ Finish(d, "permanent_failure") /\ UNCHANGED <<subs, got>>
     \/ /\ call[d] = "open"                                      \* 404, 410
        /\ IF status[d] = "leased"
             THEN /\ subs' = [subs EXCEPT ![d[2]] = "gone"]
                  /\ status' = [Settle(Events \X {d[2]}, "cancelled") EXCEPT ![d] = "expired"]
             ELSE Finish(d, "expired") /\ UNCHANGED subs
        /\ UNCHANGED got
     \/ /\ Finish(d, Retried(d))                                 \* 5xx, timeout, connection lost
        /\ got' = [got EXCEPT ![d] = IF call[d] = "accepted" THEN "lost" ELSE @]
        /\ UNCHANGED subs
  /\ UNCHANGED <<event, expired, attempts, enabled, health, sent, identityOk, worker, ops>>

\* ... of an attempt that found no signing identity: suspendDelivery, if still eligible
Suspend(d) ==
  /\ call[d] = "blocked"
  /\ call' = [call EXCEPT ![d] = "none"]
  /\ IF status[d] # "leased" THEN UNCHANGED <<status, attempts>>
     ELSE IF d[1] \in expired THEN Finish(d, "expired") /\ UNCHANGED attempts
     ELSE IF ~Eligible(d) THEN Finish(d, "cancelled") /\ UNCHANGED attempts
     ELSE Finish(d, "retry") /\ attempts' = [attempts EXCEPT ![d] = @ - 1]
  /\ UNCHANGED <<event, expired, subs, enabled, health, observed, identityOk, worker, ops>>

\* cleanupOldEvents: thirty days, far beyond every lifetime
Cleanup(e) ==
  /\ worker = "up" /\ NoCalls /\ event[e] # "none" /\ e \in expired
  /\ \A b \in Browsers : status[<<e, b>>] \notin Live
  /\ event' = [event EXCEPT ![e] = "none"]
  /\ status' = [d \in Deliveries |-> IF d[1] = e THEN "none" ELSE status[d]]
  /\ attempts' = [d \in Deliveries |-> IF d[1] = e THEN 0 ELSE attempts[d]]
  /\ UNCHANGED <<expired, subs, enabled, health, observed, identityOk, worker, call, ops>>

\* stop(): calls in flight may still commit, nothing is claimed
Stop ==
  /\ Operate
  /\ worker = "up" /\ worker' = "stopping"
  /\ UNCHANGED <<tables, health, observed, identityOk, call>>

\* The process dies, at any point or after the drain: calls in flight are abandoned
Crash ==
  /\ Operate
  /\ worker # "down" /\ worker' = "down"
  /\ call' = [d \in Deliveries |-> "none"]
  /\ got' = [d \in Deliveries |-> IF call[d] = "accepted" THEN "lost" ELSE got[d]]
  /\ UNCHANGED <<tables, health, sent, identityOk>>

Boot ==
  /\ worker # "up"
  /\ worker = "down" \/ NoCalls
  /\ worker' = "up"
  /\ UNCHANGED <<tables, health, observed, identityOk, call, ops>>

\* Time passes
Expire(e) ==
  /\ e \notin expired
  /\ expired' = expired \cup {e}
  /\ UNCHANGED <<event, status, attempts, subs, enabled, health, observed, identityOk, worker, call, ops>>

PushNext ==
  \/ \E e \in Events : Dispatch(e) \/ HealthDown(e) \/ Expire(e) \/ Cleanup(e)
  \/ HealthUp \/ PauseProject \/ ToggleIdentity
  \/ \E T \in SUBSET Events : SetConfig(T)
  \/ \E b \in Browsers : SaveSubscription(b) \/ DeleteSubscription(b)
  \/ \E d \in Deliveries : Accept(d) \/ Complete(d) \/ Suspend(d)
  \/ Poll \/ Stop \/ Crash \/ Boot

\* Time passes, requests time out, a stopped process boots again and its worker polls
PushFairness ==
  /\ \A e \in Events : WF_pushVars(Expire(e))
  /\ \A d \in Deliveries : WF_pushVars(Complete(d)) /\ WF_pushVars(Suspend(d))
  /\ WF_pushVars(Boot) /\ WF_pushVars(Poll)

PushSpec == PushInit /\ [][PushNext]_pushVars /\ PushFairness

-----------------------------------------------------------------------------
(* Disabling a type, deleting a browser (by request or because the push service reports
   it gone) and recovery cancel what is unsent, leases included: nothing live waits for
   a browser, a preference or an event that is no more (web-push-reliability.md,
   "Ownership and invariants"). *)
NothingWaitsInVain ==
  \A d \in Deliveries : status[d] \in Live =>
    event[d[1]] = "live" /\ d[1] \in enabled /\ subs[d[2]] = "on"

(* A delivery is submitted at most MaxAttempts times, however often the process crashed
   between a claim and its outcome ("a maximum of 12 attempts"). *)
SubmissionsBounded == \A d \in Deliveries : sent[d] <= MaxAttempts

(* "Submission is at least once": a delivery the push service accepted is submitted
   again only when that answer was lost, to a crash or to the network. *)
ResentOnlyIfAnswerLost ==
  [][\A d \in Deliveries : sent'[d] > sent[d] => got[d] # "yes"]_pushVars

Fate ==
  [d \in Deliveries |->
     IF event[d[1]] = "none" THEN IF d[1] \in expired THEN "closed" ELSE "none"
     ELSE IF status[d] \in Live THEN "waiting"
     ELSE IF status[d] = "permanent_failure" THEN "failed"
     ELSE status[d]]

Abstract == INSTANCE PushPromise WITH fate <- Fate

(* The outbox implements PushPromise: an event is queued for all browsers in one step,
   once per event key, and each delivery is settled once. *)
KeepsPromise == Abstract!Promise

(* Every queued delivery is settled in the end, whatever crashed or was suspended: a
   lease a dead process left is taken over or expires with its event. *)
DeliveriesSettle == Abstract!SettlesEventually

=============================================================================
