--------------------------- MODULE PushOutboxProofs ---------------------------
(***************************************************************************)
(* PushOutbox proved for every set of events and browsers, limit on        *)
(* attempts, batch size and number of operator requests, crashes and       *)
(* stops: nothing waits for what is no more, submissions are bounded and   *)
(* repeated only when an answer was lost, and the outbox with its leases,  *)
(* retries and crashes implements PushPromise.  That deliveries are        *)
(* settled in the end is left to TLC.                                      *)
(***************************************************************************)
EXTENDS PushOutbox, TLAPS

-----------------------------------------------------------------------------
(* The inductive invariant *)

Over == {"accepted", "permanent_failure", "expired", "cancelled"}

PushTypeOK ==
  /\ event \in [Events -> {"none", "live", "cancelled"}]
  /\ status \in [Deliveries -> {"none"} \cup Live \cup Over]
  /\ attempts \in [Deliveries -> Nat]
  /\ subs \in [Browsers -> {"new", "on", "gone"}]
  /\ incident \in Events \cup {NoEvent}
  /\ call \in [Deliveries -> {"none", "open", "accepted", "blocked"}]
  /\ sent \in [Deliveries -> Nat]
  /\ got \in [Deliveries -> {"no", "yes", "lost"}]

\* An event that is not in the table has no deliveries; if it may still come it never had any
Unknown ==
  \A d \in Deliveries : event[d[1]] = "none" =>
    /\ status[d] = "none" /\ call[d] = "none"
    /\ d[1] \notin expired => sent[d] = 0 /\ got[d] = "no" /\ attempts[d] = 0

\* Every request was counted before it was made, and so is one that waits for an identity
Counted ==
  \A d \in Deliveries : event[d[1]] # "none" =>
    sent[d] + (IF call[d] = "blocked" THEN 1 ELSE 0) <= attempts[d]

\* The row of a call in flight is leased to it, or settled
InFlight == \A d \in Deliveries : call[d] # "none" => status[d] \notin {"pending", "retry"}

\* An accepted request is about to be recorded, or its row is settled
Answered == \A d \in Deliveries : got[d] = "yes" => call[d] = "accepted" \/ status[d] \notin Live

PushInv == /\ PushTypeOK
           /\ NothingWaitsInVain /\ SubmissionsBounded
           /\ Unknown /\ Counted /\ InFlight /\ Answered

-----------------------------------------------------------------------------
LEMMA InDeliveries ==
  ASSUME NEW d \in Deliveries
  PROVE  d[1] \in Events /\ d[2] \in Browsers
BY DEF Deliveries

LEMMA PushInitInv == PushInit => PushInv
<1> SUFFICES ASSUME PushInit PROVE PushInv
  OBVIOUS
<1>1. PushTypeOK
  BY DEF PushInit, PushTypeOK
<1>2. \A d \in Deliveries : /\ status[d] = "none" /\ call[d] = "none" /\ attempts[d] = 0
                            /\ sent[d] = 0 /\ got[d] = "no" /\ event[d[1]] = "none"
  BY InDeliveries DEF PushInit
<1>3. NothingWaitsInVain /\ SubmissionsBounded /\ Unknown
  BY <1>2, PushAssumption DEF NothingWaitsInVain, SubmissionsBounded, Unknown, Live
<1>4. Counted /\ InFlight /\ Answered
  BY <1>2 DEF Counted, InFlight, Answered
<1> QED
  BY <1>1, <1>3, <1>4 DEF PushInv

(* An event is queued only when it is in the table for the first time. *)
LEMMA EnqueueKeeps ==
  ASSUME PushInv, NEW e \in Events, Enqueue(e), incident' \in Events \cup {NoEvent},
         UNCHANGED <<expired, attempts, subs, enabled, observed, call>>
  PROVE  PushInv'
<1>1. UNCHANGED <<sent, got>>
  BY DEF observed
<1>2. CASE UNCHANGED <<event, status>>
  <2>1. PushTypeOK'
    BY <1>1, <1>2 DEF PushInv, PushTypeOK
  <2>2. NothingWaitsInVain' /\ SubmissionsBounded' /\ Unknown' /\ Counted' /\ InFlight' /\ Answered'
    BY <1>1, <1>2 DEF PushInv, NothingWaitsInVain, SubmissionsBounded, Unknown, Counted, InFlight,
                      Answered
  <2> QED
    BY <2>1, <2>2 DEF PushInv
<1>3. CASE /\ event[e] = "none" /\ e \notin expired /\ e \in enabled
           /\ event' = [event EXCEPT ![e] = "live"]
           /\ status' = [d \in Deliveries |-> IF d[1] = e /\ d[2] \in Registered THEN "pending"
                                              ELSE status[d]]
  <2>1. PushTypeOK'
    BY <1>1, <1>3 DEF PushInv, PushTypeOK, Live
  <2>2. ASSUME NEW d \in Deliveries
        PROVE  /\ event'[d[1]] = IF d[1] = e THEN "live" ELSE event[d[1]]
               /\ status'[d] = IF d[1] = e /\ d[2] \in Registered THEN "pending" ELSE status[d]
               /\ d[2] \in Registered => subs[d[2]] = "on"
               /\ d[1] = e => /\ status[d] = "none" /\ call[d] = "none"
                              /\ sent[d] = 0 /\ got[d] = "no" /\ attempts[d] = 0
    BY <1>3, InDeliveries DEF PushInv, PushTypeOK, Unknown, Registered
  <2>3. NothingWaitsInVain'
    BY <1>3, <2>2 DEF PushInv, NothingWaitsInVain, Live
  <2>4. SubmissionsBounded' /\ Unknown' /\ Counted'
    BY <1>1, <2>2 DEF PushInv, SubmissionsBounded, Unknown, Counted
  <2>5. InFlight' /\ Answered'
    BY <1>1, <2>2 DEF PushInv, InFlight, Answered
  <2> QED
    BY <2>1, <2>3, <2>4, <2>5 DEF PushInv
<1> QED
  BY <1>2, <1>3 DEF Enqueue

(* What cancels deliveries, of an event, a type or a browser, cancels all that wait for it. *)
LEMMA SettleKeeps ==
  ASSUME PushInv, NEW D, status' = Settle(D, "cancelled"), incident' \in Events \cup {NoEvent},
         event' \in [Events -> {"none", "live", "cancelled"}],
         subs' \in [Browsers -> {"new", "on", "gone"}],
         \A e \in Events : event'[e] = "none" <=> event[e] = "none",
         \A d \in Deliveries \ D : /\ event[d[1]] = "live" => event'[d[1]] = "live"
                                   /\ d[1] \in enabled => d[1] \in enabled'
                                   /\ subs[d[2]] = "on" => subs'[d[2]] = "on",
         UNCHANGED <<expired, attempts, observed, call>>
  PROVE  PushInv'
<1>1. UNCHANGED <<sent, got>>
  BY DEF observed
<1>2. ASSUME NEW d \in Deliveries
      PROVE  /\ status'[d] = IF d \in D /\ status[d] \in Live THEN "cancelled" ELSE status[d]
             /\ event'[d[1]] = "none" <=> event[d[1]] = "none"
  BY InDeliveries DEF Settle
<1>3. PushTypeOK'
  <2>1. status' \in [Deliveries -> {"none"} \cup Live \cup Over]
    BY DEF PushInv, PushTypeOK, Settle, Over
  <2> QED
    BY <1>1, <2>1 DEF PushInv, PushTypeOK
<1>4. NothingWaitsInVain'
  BY <1>2 DEF PushInv, NothingWaitsInVain, Live
<1>5. SubmissionsBounded' /\ Unknown' /\ Counted'
  BY <1>1, <1>2 DEF PushInv, SubmissionsBounded, Unknown, Counted, Live
<1>6. InFlight' /\ Answered'
  BY <1>1, <1>2 DEF PushInv, InFlight, Answered, Live
<1> QED
  BY <1>3, <1>4, <1>5, <1>6 DEF PushInv

LEMMA HealthUpKeeps ==
  ASSUME PushInv, HealthUp
  PROVE  PushInv'
<1>1. /\ incident \in Events /\ event \in [Events -> {"none", "live", "cancelled"}]
      /\ event' = [event EXCEPT ![incident] = IF @ = "live" THEN "cancelled" ELSE @]
      /\ status' = Settle({incident} \X Browsers, "cancelled") /\ incident' = NoEvent
      /\ UNCHANGED <<expired, attempts, subs, enabled, observed, call>>
  BY DEF HealthUp, PushInv, PushTypeOK
<1>2. /\ event' \in [Events -> {"none", "live", "cancelled"}]
      /\ \A e \in Events : event'[e] = "none" <=> event[e] = "none"
      /\ \A e \in Events : e # incident => event'[e] = event[e]
  BY <1>1
<1>3. \A d \in Deliveries \ ({incident} \X Browsers) :
        /\ event[d[1]] = "live" => event'[d[1]] = "live"
        /\ d[1] \in enabled => d[1] \in enabled'
        /\ subs[d[2]] = "on" => subs'[d[2]] = "on"
  BY <1>1, <1>2 DEF Deliveries
<1>4. subs' \in [Browsers -> {"new", "on", "gone"}] /\ incident' \in Events \cup {NoEvent}
  BY <1>1 DEF PushInv, PushTypeOK
<1> QED
  BY <1>1, <1>2, <1>3, <1>4, SettleKeeps

LEMMA OperatorKeeps ==
  ASSUME PushInv,
         \/ \E T \in SUBSET Events : SetConfig(T)
         \/ \E b \in Browsers : DeleteSubscription(b)
  PROVE  PushInv'
<1>1. ASSUME NEW T \in SUBSET Events, SetConfig(T) PROVE PushInv'
  <2>1. /\ enabled' = T /\ status' = Settle((Events \ T) \X Browsers, "cancelled")
        /\ UNCHANGED <<event, expired, attempts, subs, incident, observed, call>>
    BY <1>1 DEF SetConfig, health
  <2>2. \A d \in Deliveries \ ((Events \ T) \X Browsers) : d[1] \in T
    BY DEF Deliveries
  <2> QED
    BY <2>1, <2>2, SettleKeeps DEF PushInv, PushTypeOK
<1>2. ASSUME NEW b \in Browsers, DeleteSubscription(b) PROVE PushInv'
  <2>1. /\ subs' = [subs EXCEPT ![b] = "gone"] /\ status' = Settle(Events \X {b}, "cancelled")
        /\ UNCHANGED <<event, expired, attempts, enabled, incident, observed, call>>
    BY <1>2 DEF DeleteSubscription, health
  <2>2. subs' \in [Browsers -> {"new", "on", "gone"}] /\ \A c \in Browsers : c # b => subs'[c] = subs[c]
    BY <2>1 DEF PushInv, PushTypeOK
  <2>3. \A d \in Deliveries \ (Events \X {b}) : d[2] \in Browsers /\ d[2] # b
    BY DEF Deliveries
  <2> QED
    BY <2>1, <2>2, <2>3, SettleKeeps DEF PushInv, PushTypeOK
<1> QED
  BY <1>1, <1>2

-----------------------------------------------------------------------------
(* The worker *)

(* A claim: what it leases was live and eligible, and is sent only below the limit. *)
LEMMA PollKeeps ==
  ASSUME PushInv, Poll
  PROVE  PushInv'
<1>1. PICK D \in SUBSET Due : Attempt(D)
  BY DEF Poll
<1>2. UNCHANGED <<event, expired, subs, enabled, incident, got>> /\ \A d \in Deliveries : call[d] = "none"
  BY DEF Poll, health, NoCalls
<1>3. ASSUME NEW d \in Deliveries
      PROVE  /\ attempts'[d] = IF d \in D THEN attempts[d] + 1 ELSE attempts[d]
             /\ status'[d] = IF d \in D /\ Eligible(d) THEN Leased(d)
                             ELSE IF d \in D THEN "cancelled"
                             ELSE IF d[1] \in expired /\ status[d] \in Live THEN "expired"
                             ELSE status[d]
             /\ call'[d] = IF d \in D /\ Eligible(d) /\ attempts[d] < MaxAttempts
                             THEN IF identityOk THEN "open" ELSE "blocked" ELSE "none"
             /\ sent'[d] = IF d \in D /\ Eligible(d) /\ attempts[d] < MaxAttempts /\ identityOk
                             THEN sent[d] + 1 ELSE sent[d]
             /\ d \in D => status[d] \in Live
  BY <1>1, <1>2 DEF Attempt, Due
<1>4. ASSUME NEW d \in Deliveries
      PROVE  /\ event[d[1]] \in {"none", "live", "cancelled"}
             /\ status[d] \in {"none"} \cup Live \cup Over
             /\ attempts[d] \in Nat /\ sent[d] \in Nat /\ got[d] \in {"no", "yes", "lost"}
  BY InDeliveries DEF PushInv, PushTypeOK
<1>5. PushTypeOK'
  <2>1. status' \in [Deliveries -> {"none"} \cup Live \cup Over]
    BY <1>1, <1>3, <1>4 DEF Attempt, Leased, Live, Over
  <2>2. attempts' \in [Deliveries -> Nat] /\ sent' \in [Deliveries -> Nat]
    BY <1>1, <1>3, <1>4 DEF Attempt
  <2>3. call' \in [Deliveries -> {"none", "open", "accepted", "blocked"}]
    BY <1>1, <1>3 DEF Attempt
  <2> QED
    BY <1>2, <2>1, <2>2, <2>3 DEF PushInv, PushTypeOK
<1>6. NothingWaitsInVain'
  BY <1>2, <1>3 DEF PushInv, NothingWaitsInVain, Eligible, Live, Leased
<1>7. SubmissionsBounded' /\ Counted'
  <2>1. ASSUME NEW d \in Deliveries PROVE sent'[d] <= MaxAttempts
    BY <1>2, <1>3, <1>4, PushAssumption DEF PushInv, SubmissionsBounded, Counted, Eligible
  <2>2. ASSUME NEW d \in Deliveries, event[d[1]] # "none"
        PROVE  sent'[d] + (IF call'[d] = "blocked" THEN 1 ELSE 0) <= attempts'[d]
    <3>1. sent[d] <= attempts[d]
      BY <1>2, <1>4, <2>2 DEF PushInv, Counted
    <3> QED
      BY <1>3, <1>4, <3>1
  <2> QED
    BY <1>2, <2>1, <2>2 DEF SubmissionsBounded, Counted
<1>8. Unknown' /\ InFlight' /\ Answered'
  <2>1. Unknown'
    BY <1>2, <1>3 DEF PushInv, Unknown, Live
  <2>2. InFlight'
    BY <1>3 DEF InFlight, Leased
  <2>3. Answered'
    BY <1>2, <1>3 DEF PushInv, Answered, Live
  <2> QED
    BY <2>1, <2>2, <2>3
<1> QED
  BY <1>5, <1>6, <1>7, <1>8 DEF PushInv

LEMMA AcceptKeeps ==
  ASSUME PushInv, NEW d \in Deliveries, Accept(d)
  PROVE  PushInv'
<1>1. /\ call[d] = "open" /\ call' = [call EXCEPT ![d] = "accepted"]
      /\ got' = [got EXCEPT ![d] = IF @ = "no" THEN "yes" ELSE @]
      /\ UNCHANGED <<event, expired, status, attempts, subs, enabled, incident, sent>>
  BY DEF Accept, tables, health
<1>2. PushTypeOK'
  BY <1>1 DEF PushInv, PushTypeOK
<1>3. \A x \in Deliveries : /\ call'[x] = IF x = d THEN "accepted" ELSE call[x]
                            /\ x # d => got'[x] = got[x]
  BY <1>1 DEF PushInv, PushTypeOK
<1>4. NothingWaitsInVain' /\ SubmissionsBounded'
  BY <1>1 DEF PushInv, NothingWaitsInVain, SubmissionsBounded
<1>5. Unknown' /\ Counted'
  BY <1>1, <1>3 DEF PushInv, Unknown, Counted
<1>6. InFlight' /\ Answered'
  BY <1>1, <1>3 DEF PushInv, InFlight, Answered
<1> QED
  BY <1>2, <1>4, <1>5, <1>6 DEF PushInv

(* The end of an attempt settles its row, gives it back, or settles all its browser has; an
   accepted request is settled, or its answer lost. *)
LEMMA CompleteMoves ==
  ASSUME PushInv, NEW d \in Deliveries, Complete(d)
  PROVE  /\ call[d] \in {"open", "accepted"} /\ call' = [call EXCEPT ![d] = "none"]
         /\ UNCHANGED <<event, expired, attempts, enabled, incident, sent>>
         /\ subs' \in [Browsers -> {"new", "on", "gone"}]
         /\ status' \in [Deliveries -> {"none"} \cup Live \cup Over]
         /\ got' \in [Deliveries -> {"no", "yes", "lost"}]
         /\ \A x \in Deliveries : \/ status'[x] = status[x]
                                  \/ status[x] \in Live /\ status'[x] \in Over
                                  \/ x = d /\ status[x] = "leased" /\ status'[x] = "retry"
         /\ \A x \in Deliveries : subs[x[2]] = "on" => subs'[x[2]] = "on" \/ status'[x] \notin Live
         /\ status'[d] # "leased"
         /\ \A x \in Deliveries \ {d} : got'[x] = got[x]
         /\ got'[d] = "yes" => status'[d] \notin Live
<1>1. /\ call[d] \in {"open", "accepted"} /\ call' = [call EXCEPT ![d] = "none"]
      /\ UNCHANGED <<event, expired, attempts, enabled, incident, sent>>
  BY DEF Complete, health
<1>2. /\ status \in [Deliveries -> {"none"} \cup Live \cup Over] /\ status[d] \notin {"pending", "retry"}
      /\ subs \in [Browsers -> {"new", "on", "gone"}] /\ got \in [Deliveries -> {"no", "yes", "lost"}]
      /\ got[d] = "yes" => call[d] = "accepted" \/ status[d] \notin Live
      /\ d[2] \in Browsers
  BY <1>1, InDeliveries DEF PushInv, PushTypeOK, InFlight, Answered
<1>3. ASSUME NEW s \in Over \cup {"retry"}, Finish(d, s)
      PROVE  /\ status' \in [Deliveries -> {"none"} \cup Live \cup Over]
             /\ \A x \in Deliveries \ {d} : status'[x] = status[x]
             /\ status'[d] = IF status[d] = "leased" THEN s ELSE status[d]
  BY <1>2, <1>3 DEF Finish, Live, Over
<1>4. ASSUME NEW s \in Over, Finish(d, s), UNCHANGED <<subs, got>>
      PROVE  /\ subs' \in [Browsers -> {"new", "on", "gone"}]
             /\ status' \in [Deliveries -> {"none"} \cup Live \cup Over]
             /\ got' \in [Deliveries -> {"no", "yes", "lost"}]
             /\ \A x \in Deliveries : \/ status'[x] = status[x]
                                      \/ status[x] \in Live /\ status'[x] \in Over
                                      \/ x = d /\ status[x] = "leased" /\ status'[x] = "retry"
             /\ \A x \in Deliveries : subs[x[2]] = "on" => subs'[x[2]] = "on" \/ status'[x] \notin Live
             /\ status'[d] # "leased"
             /\ \A x \in Deliveries \ {d} : got'[x] = got[x]
             /\ got'[d] = "yes" => status'[d] \notin Live
  BY <1>2, <1>3, <1>4 DEF Live, Over
<1>5. CASE Finish(d, "accepted") /\ UNCHANGED <<subs, got>>
  BY <1>1, <1>4, <1>5 DEF Over
<1>6. CASE Finish(d, "permanent_failure") /\ UNCHANGED <<subs, got>>
  BY <1>1, <1>4, <1>6 DEF Over
<1>7. CASE Finish(d, "expired") /\ UNCHANGED <<subs, got>>
  BY <1>1, <1>4, <1>7 DEF Over
<1>8. CASE /\ status[d] = "leased"
           /\ subs' = [subs EXCEPT ![d[2]] = "gone"]
           /\ status' = [Settle(Events \X {d[2]}, "cancelled") EXCEPT ![d] = "expired"]
           /\ UNCHANGED got
  <2>1. ASSUME NEW x \in Deliveries
        PROVE  /\ status'[x] = IF x = d THEN "expired"
                               ELSE IF x[2] = d[2] /\ status[x] \in Live THEN "cancelled" ELSE status[x]
               /\ subs'[x[2]] = IF x[2] = d[2] THEN "gone" ELSE subs[x[2]]
    BY <1>2, <1>8, InDeliveries DEF Settle, Deliveries
  <2>2. /\ status' \in [Deliveries -> {"none"} \cup Live \cup Over]
        /\ subs' \in [Browsers -> {"new", "on", "gone"}]
    BY <1>2, <1>8, <2>1 DEF Settle, Over
  <2> QED
    BY <1>1, <1>2, <1>8, <2>1, <2>2 DEF Live, Over
<1>9. CASE /\ Finish(d, Retried(d)) /\ UNCHANGED subs
           /\ got' = [got EXCEPT ![d] = IF call[d] = "accepted" THEN "lost" ELSE @]
  <2>1. Retried(d) \in {"permanent_failure", "retry"} /\ Retried(d) \in Over \cup {"retry"}
    BY DEF Retried, Over
  <2>2. /\ got' \in [Deliveries -> {"no", "yes", "lost"}]
        /\ \A x \in Deliveries \ {d} : got'[x] = got[x]
        /\ got'[d] = "yes" => got[d] = "yes" /\ call[d] # "accepted"
    BY <1>2, <1>9
  <2>3. /\ status' \in [Deliveries -> {"none"} \cup Live \cup Over]
        /\ \A x \in Deliveries \ {d} : status'[x] = status[x]
        /\ status'[d] = IF status[d] = "leased" THEN Retried(d) ELSE status[d]
    BY <1>3, <1>9, <2>1
  <2> QED
    BY <1>1, <1>2, <1>9, <2>1, <2>2, <2>3 DEF Live, Over
<1> QED
  BY <1>5, <1>6, <1>7, <1>8, <1>9 DEF Complete

LEMMA CompleteKeeps ==
  ASSUME PushInv, NEW d \in Deliveries, Complete(d)
  PROVE  PushInv'
<1>1. /\ call[d] \in {"open", "accepted"} /\ call' = [call EXCEPT ![d] = "none"]
      /\ UNCHANGED <<event, expired, attempts, enabled, incident, sent>>
      /\ subs' \in [Browsers -> {"new", "on", "gone"}]
      /\ status' \in [Deliveries -> {"none"} \cup Live \cup Over]
      /\ got' \in [Deliveries -> {"no", "yes", "lost"}]
  BY CompleteMoves
<1>2. ASSUME NEW x \in Deliveries
      PROVE  /\ \/ status'[x] = status[x]
                \/ status[x] \in Live /\ status'[x] \in Over
                \/ x = d /\ status[x] = "leased" /\ status'[x] = "retry"
             /\ subs[x[2]] = "on" => subs'[x[2]] = "on" \/ status'[x] \notin Live
             /\ x # d => got'[x] = got[x]
  BY CompleteMoves
<1>3. got'[d] = "yes" => status'[d] \notin Live
  BY CompleteMoves
<1>4. \A x \in Deliveries : call'[x] = IF x = d THEN "none" ELSE call[x]
  BY <1>1 DEF PushInv, PushTypeOK
<1>5. PushTypeOK'
  BY <1>1 DEF PushInv, PushTypeOK
<1>6. NothingWaitsInVain'
  BY <1>1, <1>2 DEF PushInv, NothingWaitsInVain, Live, Over
<1>7. SubmissionsBounded' /\ Unknown' /\ Counted'
  <2>1. event[d[1]] # "none"
    BY <1>1 DEF PushInv, Unknown
  <2>2. \A x \in Deliveries : event[x[1]] = "none" => x # d /\ status[x] = "none"
    BY <2>1 DEF PushInv, Unknown
  <2>3. Unknown'
    BY <1>1, <1>2, <1>4, <2>2 DEF PushInv, Unknown, Live
  <2>4. SubmissionsBounded' /\ Counted'
    BY <1>1, <1>4 DEF PushInv, SubmissionsBounded, Counted
  <2> QED
    BY <2>3, <2>4
<1>8. InFlight' /\ Answered'
  BY <1>2, <1>3, <1>4 DEF PushInv, InFlight, Answered, Live, Over
<1> QED
  BY <1>5, <1>6, <1>7, <1>8 DEF PushInv

(* An attempt without an identity made no request: taking its count back loses nothing. *)
LEMMA SuspendKeeps ==
  ASSUME PushInv, NEW d \in Deliveries, Suspend(d)
  PROVE  PushInv'
<1>1. /\ call[d] = "blocked" /\ call' = [call EXCEPT ![d] = "none"]
      /\ UNCHANGED <<event, expired, subs, enabled, incident, sent, got>>
  BY DEF Suspend, health, observed
<1>2. /\ status \in [Deliveries -> {"none"} \cup Live \cup Over] /\ status[d] \notin {"pending", "retry"}
      /\ attempts \in [Deliveries -> Nat] /\ sent \in [Deliveries -> Nat]
      /\ event[d[1]] # "none" /\ sent[d] + 1 <= attempts[d]
  BY <1>1 DEF PushInv, PushTypeOK, InFlight, Unknown, Counted
<1>3. \/ UNCHANGED <<status, attempts>>
      \/ /\ status' = [status EXCEPT ![d] = IF @ = "leased" THEN "expired" ELSE @] /\ UNCHANGED attempts
      \/ /\ status' = [status EXCEPT ![d] = IF @ = "leased" THEN "cancelled" ELSE @] /\ UNCHANGED attempts
      \/ /\ status[d] = "leased" /\ status' = [status EXCEPT ![d] = IF @ = "leased" THEN "retry" ELSE @]
         /\ attempts' = [attempts EXCEPT ![d] = @ - 1]
  BY DEF Suspend, Finish
<1>4. /\ status' \in [Deliveries -> {"none"} \cup Live \cup Over]
      /\ \A x \in Deliveries : \/ status'[x] = status[x]
                               \/ status[x] \in Live /\ status'[x] \in Over
                               \/ x = d /\ status[x] = "leased" /\ status'[x] = "retry"
  BY <1>2, <1>3 DEF Live, Over
<1>5. /\ attempts' \in [Deliveries -> Nat]
      /\ \A x \in Deliveries \ {d} : attempts'[x] = attempts[x]
      /\ sent[d] <= attempts'[d]
  BY <1>2, <1>3
<1>6. \A x \in Deliveries : call'[x] = IF x = d THEN "none" ELSE call[x]
  BY <1>1 DEF PushInv, PushTypeOK
<1>7. PushTypeOK'
  BY <1>1, <1>4, <1>5 DEF PushInv, PushTypeOK
<1>8. NothingWaitsInVain' /\ SubmissionsBounded'
  BY <1>1, <1>4 DEF PushInv, NothingWaitsInVain, SubmissionsBounded, Live, Over
<1>9. Unknown'
  BY <1>1, <1>2, <1>4, <1>5, <1>6 DEF PushInv, Unknown, Live
<1>10. Counted'
  BY <1>1, <1>2, <1>5, <1>6 DEF PushInv, Counted
<1>11. InFlight' /\ Answered'
  BY <1>1, <1>4, <1>6 DEF PushInv, InFlight, Answered, Live, Over
<1> QED
  BY <1>7, <1>8, <1>9, <1>10, <1>11 DEF PushInv

-----------------------------------------------------------------------------
(* What is left: forgetting an event, the process, the clock *)

LEMMA CleanupKeeps ==
  ASSUME PushInv, NEW e \in Events, Cleanup(e)
  PROVE  PushInv'
<1>1. /\ e \in expired /\ event' = [event EXCEPT ![e] = "none"]
      /\ status' = [d \in Deliveries |-> IF d[1] = e THEN "none" ELSE status[d]]
      /\ attempts' = [d \in Deliveries |-> IF d[1] = e THEN 0 ELSE attempts[d]]
      /\ UNCHANGED <<expired, subs, enabled, incident, sent, got, call>>
      /\ \A d \in Deliveries : call[d] = "none"
  BY DEF Cleanup, health, observed, NoCalls
<1>2. PushTypeOK'
  <2>1. status' \in [Deliveries -> {"none"} \cup Live \cup Over]
    BY <1>1 DEF PushInv, PushTypeOK
  <2>2. attempts' \in [Deliveries -> Nat] /\ event' \in [Events -> {"none", "live", "cancelled"}]
    BY <1>1 DEF PushInv, PushTypeOK
  <2> QED
    BY <1>1, <2>1, <2>2 DEF PushInv, PushTypeOK
<1>3. \A d \in Deliveries : /\ event'[d[1]] = IF d[1] = e THEN "none" ELSE event[d[1]]
                            /\ status'[d] = IF d[1] = e THEN "none" ELSE status[d]
                            /\ attempts'[d] = IF d[1] = e THEN 0 ELSE attempts[d]
  BY <1>1, InDeliveries DEF PushInv, PushTypeOK
<1>4. NothingWaitsInVain' /\ SubmissionsBounded'
  BY <1>1, <1>3 DEF PushInv, NothingWaitsInVain, SubmissionsBounded, Live
<1>5. Unknown' /\ Counted'
  BY <1>1, <1>3 DEF PushInv, Unknown, Counted
<1>6. InFlight' /\ Answered'
  BY <1>1, <1>3 DEF PushInv, InFlight, Answered, Live
<1> QED
  BY <1>2, <1>4, <1>5, <1>6 DEF PushInv

LEMMA CrashKeeps ==
  ASSUME PushInv, Crash
  PROVE  PushInv'
<1>1. /\ call' = [d \in Deliveries |-> "none"]
      /\ got' = [d \in Deliveries |-> IF call[d] = "accepted" THEN "lost" ELSE got[d]]
      /\ UNCHANGED <<event, expired, status, attempts, subs, enabled, incident, sent>>
  BY DEF Crash, tables, health
<1>2. PushTypeOK'
  BY <1>1 DEF PushInv, PushTypeOK
<1>3. NothingWaitsInVain' /\ SubmissionsBounded' /\ Unknown'
  BY <1>1 DEF PushInv, NothingWaitsInVain, SubmissionsBounded, Unknown
<1>4. ASSUME NEW d \in Deliveries, event'[d[1]] # "none"
      PROVE  sent'[d] + (IF call'[d] = "blocked" THEN 1 ELSE 0) <= attempts'[d]
  <2>1. /\ sent[d] \in Nat /\ attempts[d] \in Nat
        /\ sent[d] + (IF call[d] = "blocked" THEN 1 ELSE 0) <= attempts[d]
    BY <1>1, <1>4 DEF PushInv, PushTypeOK, Counted
  <2> QED
    BY <1>1, <2>1
<1>5. InFlight' /\ Answered'
  BY <1>1 DEF PushInv, InFlight, Answered
<1> QED
  BY <1>2, <1>3, <1>4, <1>5 DEF PushInv, Counted

LEMMA QuietKeeps ==
  ASSUME PushInv,
         \/ \E e \in Events : Expire(e)
         \/ \E b \in Browsers : SaveSubscription(b)
         \/ PauseProject \/ ToggleIdentity \/ Stop \/ Boot \/ UNCHANGED pushVars
  PROVE  PushInv'
<1>1. /\ UNCHANGED <<event, status, attempts, enabled, incident, call, sent, got>>
      /\ expired \subseteq expired'
      /\ subs' = subs \/ \E b \in Browsers : subs[b] = "new" /\ subs' = [subs EXCEPT ![b] = "on"]
  BY DEF Expire, SaveSubscription, PauseProject, ToggleIdentity, Stop, Boot, pushVars, tables, health,
         observed
<1>2. PushTypeOK'
  BY <1>1 DEF PushInv, PushTypeOK
<1>3. \A b \in Browsers : subs[b] = "on" => subs'[b] = "on"
  BY <1>1 DEF PushInv, PushTypeOK
<1>4. NothingWaitsInVain' /\ SubmissionsBounded' /\ Unknown' /\ Counted'
  BY <1>1, <1>3, InDeliveries DEF PushInv, NothingWaitsInVain, SubmissionsBounded, Unknown, Counted
<1>5. InFlight' /\ Answered'
  BY <1>1 DEF PushInv, InFlight, Answered
<1> QED
  BY <1>2, <1>4, <1>5 DEF PushInv

LEMMA ProducersKeep ==
  ASSUME PushInv, NEW e \in Events, Dispatch(e) \/ HealthDown(e)
  PROVE  PushInv'
<1>1. Enqueue(e) /\ UNCHANGED <<expired, attempts, subs, enabled, observed, call>>
  BY DEF Dispatch, HealthDown
<1>2. incident' \in Events \cup {NoEvent}
  BY DEF Dispatch, HealthDown, health, PushInv, PushTypeOK
<1> QED
  BY <1>1, <1>2, EnqueueKeeps

LEMMA PushNextInv == PushInv /\ [PushNext]_pushVars => PushInv'
<1> SUFFICES ASSUME PushInv, [PushNext]_pushVars PROVE PushInv'
  OBVIOUS
<1>1. CASE \E e \in Events : Dispatch(e) \/ HealthDown(e)
  BY <1>1, ProducersKeep
<1>2. CASE \E e \in Events : Cleanup(e)
  BY <1>2, CleanupKeeps
<1>3. CASE HealthUp
  BY <1>3, HealthUpKeeps
<1>4. CASE \/ \E T \in SUBSET Events : SetConfig(T)
           \/ \E b \in Browsers : DeleteSubscription(b)
  BY <1>4, OperatorKeeps
<1>5. CASE \E d \in Deliveries : Accept(d) \/ Complete(d) \/ Suspend(d)
  BY <1>5, AcceptKeeps, CompleteKeeps, SuspendKeeps
<1>6. CASE Poll
  BY <1>6, PollKeeps
<1>7. CASE Crash
  BY <1>7, CrashKeeps
<1>8. CASE \/ \E e \in Events : Expire(e)
           \/ \E b \in Browsers : SaveSubscription(b)
           \/ PauseProject \/ ToggleIdentity \/ Stop \/ Boot \/ UNCHANGED pushVars
  BY <1>8, QuietKeeps
<1> QED
  BY <1>1, <1>2, <1>3, <1>4, <1>5, <1>6, <1>7, <1>8 DEF PushNext

LEMMA PushInvariant == PushSpec => []PushInv
BY PushInitInv, PushNextInv, PTL DEF PushSpec

(* Nothing live waits for an event, a preference or a browser that is no more, for every set
   of events and browsers, every batch size and every limit. *)
THEOREM NothingInVain == PushSpec => []NothingWaitsInVain
<1>1. PushInv => NothingWaitsInVain
  BY DEF PushInv
<1> QED
  BY <1>1, PushInvariant, PTL

(* No delivery is submitted more than MaxAttempts times, whatever crashed between a claim and
   its outcome and however often an identity was missing. *)
THEOREM BoundedSubmissions == PushSpec => []SubmissionsBounded
<1>1. PushInv => SubmissionsBounded
  BY DEF PushInv
<1> QED
  BY <1>1, PushInvariant, PTL

(* A delivery whose acceptance is known is not submitted again. *)
THEOREM ResentOnlyAfterLoss == PushSpec => ResentOnlyIfAnswerLost
<1> DEFINE Honest == \A d \in Deliveries : sent'[d] > sent[d] => got[d] # "yes"
<1>1. ASSUME PushInv, [PushNext]_pushVars PROVE [Honest]_pushVars
  <2>1. CASE Poll
    <3>1. PICK D \in SUBSET Due : Attempt(D)
      BY <2>1 DEF Poll
    <3>2. ASSUME NEW d \in Deliveries, sent'[d] > sent[d]
          PROVE  got[d] # "yes"
      <4>1. d \in D
        BY <1>1, <3>1, <3>2 DEF Attempt, PushInv, PushTypeOK
      <4> QED
        BY <1>1, <2>1, <4>1 DEF Due, Poll, NoCalls, PushInv, Answered
    <3> QED
      BY <3>2
  <2>2. CASE ~Poll
    <3>1. sent' = sent
      BY <1>1, <2>2 DEF PushNext, Dispatch, HealthDown, Expire, Cleanup, HealthUp, PauseProject,
                        ToggleIdentity, SetConfig, SaveSubscription, DeleteSubscription, Accept, Complete,
                        Suspend, Stop, Crash, Boot, pushVars, observed
    <3> QED
      BY <1>1, <3>1 DEF PushInv, PushTypeOK
  <2> QED
    BY <2>1, <2>2
<1> QED
  BY <1>1, PushInvariant, PTL DEF PushSpec, ResentOnlyIfAnswerLost

-----------------------------------------------------------------------------
(* The outbox implements PushPromise *)

FateOf(d) ==
  IF event[d[1]] = "none" THEN IF d[1] \in expired THEN "closed" ELSE "none"
  ELSE IF status[d] \in Live THEN "waiting"
  ELSE IF status[d] = "permanent_failure" THEN "failed"
  ELSE status[d]

LEMMA FateIs == /\ Fate = [d \in Deliveries |-> FateOf(d)]
                /\ Fate' = [d \in Deliveries |-> FateOf(d)']
BY DEF Fate, FateOf

(* A step that only moves rows that were live settles those it leaves not live. *)
LEMMA SettlingStep ==
  ASSUME PushInv, PushInv', UNCHANGED expired,
         \A e \in Events : event'[e] = "none" <=> event[e] = "none",
         \A d \in Deliveries : status'[d] = status[d] \/ (status[d] \in Live /\ status'[d] \in Live \cup Over)
  PROVE  Abstract!Next \/ UNCHANGED Fate
<1> DEFINE D == {d \in Deliveries : status[d] \in Live /\ status'[d] \notin Live}
<1>1. ASSUME NEW d \in Deliveries
      PROVE  /\ event'[d[1]] = "none" <=> event[d[1]] = "none"
             /\ status[d] \in Live => event[d[1]] # "none"
             /\ status'[d] = status[d] \/ (status[d] \in Live /\ status'[d] \in Live \cup Over)
             /\ status'[d] \in {"none"} \cup Live \cup Over
  BY InDeliveries DEF PushInv, PushTypeOK, Unknown, Live
<1>2. ASSUME NEW d \in Deliveries \ D
      PROVE  FateOf(d)' = FateOf(d)
  BY <1>1 DEF FateOf
<1>3. CASE D = {}
  BY <1>2, <1>3, FateIs
<1>4. CASE D # {}
  <2>1. D \in SUBSET Abstract!Deliveries
    BY DEF Deliveries, Abstract!Deliveries
  <2>2. \A d \in D : FateOf(d) = "waiting" /\ FateOf(d)' \in {"accepted", "failed", "expired", "cancelled"}
    BY <1>1 DEF FateOf, Live, Over
  <2>3. \A d \in Deliveries : FateOf(d)' \in {"none", "waiting", "closed", "accepted",
                                               "failed", "expired", "cancelled"}
    BY <1>1 DEF FateOf, Live, Over
  <2>4. \A d \in D : Fate[d] = "waiting" /\ Fate'[d] \in Abstract!Settled
    BY <2>2, FateIs DEF Abstract!Settled
  <2>5. \A d \in Abstract!Deliveries \ D : Fate'[d] = Fate[d]
    BY <1>2, FateIs DEF Abstract!Deliveries, Deliveries
  <2>6. Fate' \in [Abstract!Deliveries -> Abstract!Fates]
    BY <2>3, FateIs DEF Abstract!Fates, Abstract!Settled, Abstract!Deliveries, Deliveries
  <2>7. Abstract!Settle(D)
    BY <1>4, <2>4, <2>5, <2>6 DEF Abstract!Settle
  <2> QED
    BY <2>1, <2>7 DEF Abstract!Next
<1> QED
  BY <1>3, <1>4

(* An event that is queued waits for the browsers of that moment, and never came before. *)
LEMMA EnqueueStep ==
  ASSUME PushInv, NEW e \in Events, Enqueue(e), UNCHANGED <<expired, subs>>
  PROVE  Abstract!Next \/ UNCHANGED Fate
<1>1. CASE UNCHANGED <<event, status>>
  BY <1>1, FateIs DEF FateOf
<1>2. CASE /\ event[e] = "none" /\ e \notin expired /\ Registered # {}
           /\ event' = [event EXCEPT ![e] = "live"]
           /\ status' = [d \in Deliveries |-> IF d[1] = e /\ d[2] \in Registered THEN "pending"
                                              ELSE status[d]]
  <2>1. ASSUME NEW d \in Deliveries
        PROVE  FateOf(d)' = IF d[1] # e THEN FateOf(d)
                            ELSE IF d[2] \in Registered THEN "waiting" ELSE "none"
    <3>1. d[1] = e => status[d] = "none"
      BY <1>2 DEF PushInv, Unknown
    <3>2. event'[d[1]] = IF d[1] = e THEN "live" ELSE event[d[1]]
      BY <1>2, InDeliveries DEF PushInv, PushTypeOK
    <3> QED
      BY <1>2, <3>1, <3>2 DEF FateOf, Live
  <2>2. \A b \in Browsers : Fate[<<e, b>>] = "none"
    BY <1>2, FateIs DEF FateOf, Deliveries
  <2>3. Fate' = [d \in Abstract!Deliveries |-> IF d[1] # e THEN Fate[d]
                                               ELSE IF d[2] \in Registered THEN "waiting" ELSE "none"]
    BY <2>1, FateIs DEF Abstract!Deliveries, Deliveries
  <2>4. Abstract!Enqueue(e, Registered)
    BY <1>2, <2>2, <2>3 DEF Abstract!Enqueue
  <2>5. Registered \in SUBSET Browsers
    BY DEF Registered
  <2> QED
    BY <2>4, <2>5 DEF Abstract!Next
<1> QED
  BY <1>1, <1>2 DEF Enqueue

(* An event that never came can no longer come; one that is over is forgotten. *)
LEMMA CloseStep ==
  ASSUME PushInv, NEW e \in Events, Expire(e) \/ Cleanup(e)
  PROVE  Abstract!Next \/ UNCHANGED Fate
<1>1. CASE Expire(e)
  <2>1. expired' = expired \cup {e} /\ UNCHANGED <<event, status>>
    BY <1>1 DEF Expire
  <2>2. CASE event[e] = "none"
    <3>1. \A b \in Browsers : Fate[<<e, b>>] # "waiting"
      BY <2>2, FateIs DEF FateOf, Deliveries
    <3>2. \A d \in Deliveries : FateOf(d)' = IF d[1] = e THEN "closed" ELSE FateOf(d)
      BY <2>1, <2>2, InDeliveries DEF FateOf
    <3>3. Fate' = [d \in Abstract!Deliveries |-> IF d[1] = e THEN "closed" ELSE Fate[d]]
      BY <3>2, FateIs DEF Abstract!Deliveries, Deliveries
    <3> QED
      BY <3>1, <3>3 DEF Abstract!Next, Abstract!Close
  <2>3. CASE event[e] # "none"
    <3>1. \A d \in Deliveries : FateOf(d)' = FateOf(d)
      BY <2>1, <2>3, InDeliveries DEF FateOf
    <3> QED
      BY <3>1, FateIs
  <2> QED
    BY <2>2, <2>3
<1>2. CASE Cleanup(e)
  <2>1. /\ event[e] # "none" /\ e \in expired /\ expired' = expired
        /\ event' = [event EXCEPT ![e] = "none"]
        /\ status' = [d \in Deliveries |-> IF d[1] = e THEN "none" ELSE status[d]]
        /\ \A b \in Browsers : status[<<e, b>>] \notin Live
    BY <1>2 DEF Cleanup
  <2>2. \A b \in Browsers : Fate[<<e, b>>] # "waiting"
    <3>1. ASSUME NEW b \in Browsers PROVE Fate[<<e, b>>] # "waiting"
      <4>1. <<e, b>> \in Deliveries /\ status[<<e, b>>] \in {"none"} \cup Live \cup Over
        BY DEF Deliveries, PushInv, PushTypeOK
      <4> QED
        BY <2>1, <4>1, FateIs DEF FateOf, Over
    <3> QED
      BY <3>1
  <2>3. \A d \in Deliveries : event'[d[1]] = IF d[1] = e THEN "none" ELSE event[d[1]]
    BY <2>1, InDeliveries DEF PushInv, PushTypeOK
  <2>4. \A d \in Deliveries : FateOf(d)' = IF d[1] = e THEN "closed" ELSE FateOf(d)
    BY <2>1, <2>3 DEF FateOf
  <2>5. Fate' = [d \in Abstract!Deliveries |-> IF d[1] = e THEN "closed" ELSE Fate[d]]
    BY <2>4, FateIs DEF Abstract!Deliveries, Deliveries
  <2> QED
    BY <2>2, <2>5 DEF Abstract!Next, Abstract!Close
<1> QED
  BY <1>1, <1>2

LEMMA WorkerStep ==
  ASSUME PushInv, PushInv', Poll \/ \E d \in Deliveries : Accept(d) \/ Complete(d) \/ Suspend(d)
  PROVE  Abstract!Next \/ UNCHANGED Fate
<1>1. UNCHANGED <<event, expired>>
  BY DEF Poll, Accept, Complete, Suspend, tables
<1>2. CASE Poll
  <2>1. PICK D \in SUBSET Due : Attempt(D)
    BY <1>2 DEF Poll
  <2>2. \A d \in Deliveries : status'[d] = status[d] \/ (status[d] \in Live /\ status'[d] \in Live \cup Over)
    BY <2>1 DEF Attempt, Due, Leased, Live, Over
  <2> QED
    BY <1>1, <2>2, SettlingStep
<1>3. ASSUME NEW d \in Deliveries, Accept(d) PROVE Abstract!Next \/ UNCHANGED Fate
  BY <1>1, <1>3, SettlingStep DEF Accept, tables
<1>4. ASSUME NEW d \in Deliveries, Complete(d) PROVE Abstract!Next \/ UNCHANGED Fate
  <2>1. \A x \in Deliveries : status'[x] = status[x] \/ (status[x] \in Live /\ status'[x] \in Live \cup Over)
    BY <1>4, CompleteMoves DEF Live
  <2> QED
    BY <1>1, <2>1, SettlingStep
<1>5. ASSUME NEW d \in Deliveries, Suspend(d) PROVE Abstract!Next \/ UNCHANGED Fate
  <2>1. status \in [Deliveries -> {"none"} \cup Live \cup Over]
    BY DEF PushInv, PushTypeOK
  <2>2. \A x \in Deliveries : status'[x] = status[x] \/ (status[x] \in Live /\ status'[x] \in Live \cup Over)
    BY <1>5, <2>1 DEF Suspend, Finish, Live, Over
  <2> QED
    BY <1>1, <2>2, SettlingStep
<1> QED
  BY <1>2, <1>3, <1>4, <1>5

LEMMA CancelStep ==
  ASSUME PushInv, PushInv',
         \/ HealthUp
         \/ \E T \in SUBSET Events : SetConfig(T)
         \/ \E b \in Browsers : DeleteSubscription(b)
  PROVE  Abstract!Next \/ UNCHANGED Fate
<1>1. expired' = expired /\ \A e \in Events : event'[e] = "none" <=> event[e] = "none"
  BY DEF HealthUp, SetConfig, DeleteSubscription, PushInv, PushTypeOK
<1>2. PICK D : status' = Settle(D, "cancelled")
  BY DEF HealthUp, SetConfig, DeleteSubscription
<1>3. \A d \in Deliveries : status'[d] = status[d] \/ (status[d] \in Live /\ status'[d] \in Live \cup Over)
  BY <1>2 DEF Settle, Over
<1> QED
  BY <1>1, <1>3, SettlingStep

(* The outbox with its leases, batches, retries, suspensions, crashes and restarts implements
   PushPromise: an event is queued for all its browsers at once and once, and every delivery
   is settled at most once. *)
THEOREM PromiseKept == PushSpec => KeepsPromise
<1>1. PushInit => Abstract!Init
  <2> SUFFICES ASSUME PushInit PROVE Abstract!Init
    OBVIOUS
  <2>1. \A d \in Deliveries : FateOf(d) = "none"
    BY InDeliveries DEF PushInit, FateOf
  <2> QED
    BY <2>1, FateIs DEF Abstract!Init, Abstract!Deliveries, Deliveries
<1>2. PushInv /\ PushInv' /\ [PushNext]_pushVars => Abstract!Next \/ UNCHANGED Fate
  <2> SUFFICES ASSUME PushInv, PushInv', [PushNext]_pushVars PROVE Abstract!Next \/ UNCHANGED Fate
    OBVIOUS
  <2>1. CASE \E e \in Events : Dispatch(e) \/ HealthDown(e)
    BY <2>1, EnqueueStep DEF Dispatch, HealthDown
  <2>2. CASE \E e \in Events : Expire(e) \/ Cleanup(e)
    BY <2>2, CloseStep
  <2>3. CASE Poll \/ \E d \in Deliveries : Accept(d) \/ Complete(d) \/ Suspend(d)
    BY <2>3, WorkerStep
  <2>4. CASE \/ HealthUp
             \/ \E T \in SUBSET Events : SetConfig(T)
             \/ \E b \in Browsers : DeleteSubscription(b)
    BY <2>4, CancelStep
  <2>5. CASE \/ \E b \in Browsers : SaveSubscription(b)
             \/ PauseProject \/ ToggleIdentity \/ Stop \/ Crash \/ Boot \/ UNCHANGED pushVars
    <3>1. UNCHANGED <<event, expired, status>>
      BY <2>5 DEF SaveSubscription, PauseProject, ToggleIdentity, Stop, Crash, Boot, pushVars, tables
    <3> QED
      BY <3>1 DEF Fate
  <2> QED
    BY <2>1, <2>2, <2>3, <2>4, <2>5 DEF PushNext
<1> QED
  BY <1>1, <1>2, PushInvariant, PTL DEF PushSpec, KeepsPromise, Abstract!Promise

=============================================================================
