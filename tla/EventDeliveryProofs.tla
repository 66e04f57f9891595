------------------------ MODULE EventDeliveryProofs ------------------------
(***************************************************************************)
(* What EventDelivery guarantees for any number of events, processes,      *)
(* delivery slots, crashes and store failures, and any limits.             *)
(***************************************************************************)
EXTENDS EventDelivery, TLAPS

\* A breaker stays a breaker under the three calls the dispatcher makes.
LEMMA BreakerClosure ==
  ASSUME NEW b \in Breaker, NEW at \in Nat
  PROVE  /\ AfterAllow(b, at) \in Breaker
         /\ AfterSuccess(b) \in Breaker
         /\ AfterFailure(b, at) \in Breaker
  BY BreakerAssumption
     DEF Breaker, CircuitState, ClosedBreaker, AfterAllow, AfterSuccess, AfterFailure

\* So does a claim, and completing keeps a record a record.
LEMMA RecordClosure ==
  ASSUME NEW r \in IdempotencyRecord, NEW at \in Nat
  PROVE  /\ NoRecord \in IdempotencyRecord
         /\ InFlight(at) \in IdempotencyRecord
         /\ AfterComplete(r) \in IdempotencyRecord
         /\ AfterComplete(r).status = "COMPLETED"
         /\ AfterComplete(r).expires = r.expires
  BY ClaimAssumption
     DEF IdempotencyRecord, ClaimStatus, NoRecord, InFlight, AfterComplete

\* The slots a delivery passes through.
LEMMA IdleClosure == IdleTask \in Task /\ IdleTask.pc = "idle" /\ IdleTask.at = 0
  BY DEF IdleTask, Task

LEMMA BegunClosure ==
  ASSUME NEW e \in Events, NEW at \in Nat
  PROVE  /\ Begun(e, at) \in Task
         /\ Begun(e, at).pc = "begin"
         /\ Begun(e, at).event = e
         /\ Begun(e, at).at = at
  BY DEF IdleTask, Task, Busy, Begun

LEMMA ReplyingClosure ==
  ASSUME NEW e \in Events, NEW b \in BOOLEAN
  PROVE  /\ Replying(e, b) \in Task
         /\ Replying(e, b).pc = "reply"
         /\ Replying(e, b).event = e
         /\ Replying(e, b).at = 0
         /\ Replying(e, b).ack = b
  BY DEF IdleTask, Task, Busy, Replying

\* A slot that is not idle serves an event, and moving on keeps it a slot.
LEMMA BusyFields ==
  ASSUME NEW k \in Task, k.pc # "idle"
  PROVE  k \in Busy /\ k.event \in Events /\ k.at \in Nat /\ k.attempt \in Nat
  BY DEF Task, Busy, IdleTask

LEMMA TaskAt == ASSUME NEW k \in Task PROVE k.at \in Nat
  BY DEF Task, Busy, IdleTask

LEMMA BusyClosure ==
  ASSUME NEW k \in Task, k.pc # "idle", NEW n \in Nat
  PROVE  /\ [k EXCEPT !.pc = "handle", !.attempt = n] \in Task
         /\ [k EXCEPT !.attempt = n] \in Task
         /\ [k EXCEPT !.pc = "commit"] \in Task
<1>1. k \in Busy
  BY BusyFields
<1>2. [k EXCEPT !.pc = "handle", !.attempt = n] \in Busy
  BY <1>1 DEF Busy
<1>3. [k EXCEPT !.attempt = n] \in Busy
  BY <1>1 DEF Busy
<1>4. [k EXCEPT !.pc = "commit"] \in Busy
  BY <1>1 DEF Busy
<1> QED
  BY <1>2, <1>3, <1>4 DEF Task

-----------------------------------------------------------------------------
LEMMA InitType == Init => TypeOK
  BY RecordClosure, BreakerAssumption, 0 \in Nat
     DEF Init, TypeOK, Task, IdleTask, Working, Breaker, CircuitState, ClosedBreaker,
         NoRecord, IdempotencyRecord, ClaimStatus

\* Every step keeps the type.
LEMMA StepType == TypeOK /\ [Next]_vars => TypeOK'
<1> SUFFICES ASSUME TypeOK, [Next]_vars PROVE TypeOK'
  OBVIOUS
<1> USE DeliveryAssumption DEF TypeOK
<1>1. ASSUME NEW e \in Events, Publish(e) PROVE TypeOK'
  BY <1>1 DEF Publish
<1>2. ASSUME NEW e \in Events, Park(e) PROVE TypeOK'
  BY <1>2 DEF Park
<1>3. ASSUME NEW t \in Tasks, NEW e \in Events, ReceiveUnsupported(t, e) PROVE TypeOK'
  <2>1. task' \in [Tasks -> Task]
    BY <1>3, ReplyingClosure DEF ReceiveUnsupported, Reply
  <2>2. given' \in [Events -> Nat]
    BY <1>3 DEF ReceiveUnsupported, Receiving
  <2>3. deadLetters' \in [Procs -> SUBSET Events] /\ everDead' \subseteq Events
    BY <1>3 DEF ReceiveUnsupported, DeadLetter
  <2> QED
    BY <1>3, <2>1, <2>2, <2>3 DEF ReceiveUnsupported, Receiving
<1>4. ASSUME NEW t \in Tasks, NEW e \in Events, ReceiveRefused(t, e) PROVE TypeOK'
  <2>1. task' \in [Tasks -> Task]
    <3>1. (Transport = "pull") \in BOOLEAN
      OBVIOUS
    <3>2. Replying(e, Transport = "pull") \in Task
      BY <3>1, ReplyingClosure
    <3> QED
      BY <1>4, <3>2 DEF ReceiveRefused, Reply
  <2>2. given' \in [Events -> Nat]
    BY <1>4 DEF ReceiveRefused, Receiving
  <2> QED
    BY <1>4, <2>1, <2>2 DEF ReceiveRefused, Receiving
<1>5. ASSUME NEW t \in Tasks, NEW e \in Events, ReceiveAdmitted(t, e) PROVE TypeOK'
  <2>1. breaker' \in [Procs -> Breaker]
    BY <1>5, BreakerClosure DEF ReceiveAdmitted
  <2>2. task' \in [Tasks -> Task]
    <3>1. Begun(e, now) \in Task
      BY <1>5, BegunClosure DEF TypeOK
    <3> QED
      BY <1>5, <3>1 DEF ReceiveAdmitted
  <2>3. given' \in [Events -> Nat]
    BY <1>5 DEF ReceiveAdmitted, Receiving
  <2> QED
    BY <1>5, <2>1, <2>2, <2>3 DEF ReceiveAdmitted, Receiving
<1>6. ASSUME NEW t \in Tasks, Claim(t) PROVE TypeOK'
  <2>1. task[t].event \in Events /\ task[t].at \in Nat
    BY <1>6, BusyFields DEF Claim
  <2>2. task' \in [Tasks -> Task]
    BY <1>6, BusyClosure DEF Claim
  <2> QED
    BY <1>6, <2>1, <2>2, RecordClosure DEF Claim
<1>7. ASSUME NEW t \in Tasks, Dedupe(t) PROVE TypeOK'
  BY <1>7, BusyFields, ReplyingClosure DEF Dedupe, Reply
<1>8. ASSUME NEW t \in Tasks, HandlerSucceeds(t) PROVE TypeOK'
  <2>1. task[t].event \in Events
    BY <1>8, BusyFields DEF HandlerSucceeds
  <2>2. task' \in [Tasks -> Task]
    BY <1>8, BusyClosure DEF HandlerSucceeds
  <2>3. breaker' \in [Procs -> Breaker]
    BY <1>8, BreakerClosure DEF HandlerSucceeds
  <2> QED
    BY <1>8, <2>1, <2>2, <2>3 DEF HandlerSucceeds
<1>9. ASSUME NEW t \in Tasks, NEW class \in FailureClass, HandlerFails(t, class) PROVE TypeOK'
  <2>1. breaker' \in [Procs -> Breaker]
    BY <1>9, BreakerClosure DEF HandlerFails
  <2>2. task[t].pc # "idle" /\ task[t].event \in Events /\ task[t].attempt + 1 \in Nat
    BY <1>9, BusyFields DEF HandlerFails
  <2>3. task' \in [Tasks -> Task]
    <3>1. Replying(task[t].event, TRUE) \in Task
      BY <2>2, ReplyingClosure
    <3>2. [task[t] EXCEPT !.attempt = task[t].attempt + 1] \in Task
      BY <2>2, BusyClosure
    <3> QED
      BY <1>9, <3>1, <3>2 DEF HandlerFails, Reply
  <2>4. records' \in [Events -> IdempotencyRecord]
    BY <1>9, RecordClosure DEF HandlerFails, Abandon
  <2>5. deadLetters' \in [Procs -> SUBSET Events] /\ everDead' \subseteq Events
    <3>1. DeadLetter(ProcOf[t], task[t].event) \/ UNCHANGED <<deadLetters, everDead>>
      BY <1>9 DEF HandlerFails
    <3> QED
      BY <2>2, <3>1 DEF DeadLetter
  <2> QED
    BY <1>9, <2>1, <2>3, <2>4, <2>5 DEF HandlerFails
<1>10. ASSUME NEW t \in Tasks, Commit(t) PROVE TypeOK'
  BY <1>10, RecordClosure, BusyFields, ReplyingClosure DEF Commit, Reply
<1>11. ASSUME NEW t \in Tasks, StoreFails(t) PROVE TypeOK'
  <2>1. Replying(task[t].event, FALSE) \in Task
    BY <1>11, BusyFields, ReplyingClosure DEF StoreFails
  <2>2. CASE Transport = "push"
    <3>1. task' = [task EXCEPT ![t] = Replying(task[t].event, FALSE)] /\ pulling' = pulling
      BY <1>11, <2>2 DEF StoreFails, Reply
    <3>2. task' \in [Tasks -> Task]
      BY <2>1, <3>1
    <3>3. /\ storeFailures' \in Nat
          /\ UNCHANGED <<now, broker, given, breaker, records, deadLetters, crashes,
                         effects, everDead, firstClaim>>
      BY <1>11 DEF StoreFails
    <3> QED
      BY <3>1, <3>2, <3>3
  <2>3. CASE Transport # "push"
    <3>1. task' \in [Tasks -> Task]
      BY <1>11, <2>3, IdleClosure DEF StoreFails
    <3>2. pulling' \in [Procs -> BOOLEAN]
      BY <1>11, <2>3 DEF StoreFails
    <3> QED
      BY <1>11, <3>1, <3>2 DEF StoreFails
  <2> QED
    BY <2>2, <2>3
<1>12. ASSUME NEW t \in Tasks, Answer(t) PROVE TypeOK'
  BY <1>12, IdleClosure, BusyFields DEF Answer
<1>13. ASSUME NEW p \in Procs, Crash(p) PROVE TypeOK'
  <2>1. task' \in [Tasks -> Task]
    BY <1>13, IdleClosure DEF Crash
  <2>2. breaker' \in [Procs -> Breaker]
    BY <1>13 DEF Crash, ClosedBreaker, Breaker, CircuitState
  <2>3. records' \in [Events -> IdempotencyRecord]
    BY <1>13, RecordClosure DEF Crash, NoRecord, IdempotencyRecord, ClaimStatus
  <2> QED
    BY <1>13, <2>1, <2>2, <2>3 DEF Crash
<1>14. CASE Tick
  BY <1>14 DEF Tick
<1>15. CASE UNCHANGED vars
  BY <1>15 DEF vars
<1> QED
  BY <1>1, <1>2, <1>3, <1>4, <1>5, <1>6, <1>7, <1>8, <1>9, <1>10, <1>11, <1>12,
     <1>13, <1>14, <1>15 DEF Next, Receive, Work

\* Type correctness: every variable keeps the shape its Python object has.
THEOREM TypeCorrect == Spec => []TypeOK
<1>1. Init => TypeOK
  BY InitType
<1>2. TypeOK /\ [Next]_vars => TypeOK'
  BY StepType
<1> QED
  BY <1>1, <1>2, PTL DEF Spec

-----------------------------------------------------------------------------
\* A step that touches no record, effect or first claim, and starts no handler,
\* keeps what is claimed about claims; time may pass in it.
LEMMA QuietStep ==
  ASSUME TypeOK, TypeOK', Durable, ClaimsInv,
         UNCHANGED <<records, effects, firstClaim>>,
         now' >= now,
         \A u \in Tasks :
           /\ task'[u].at <= now'
           /\ task'[u].pc \in {"handle", "commit"} =>
                /\ task[u].pc = task'[u].pc
                /\ task[u].event = task'[u].event
                /\ task[u].at = task'[u].at
  PROVE  ClaimsInv'
<1> USE DeliveryAssumption, ClaimAssumption
<1>1. \A u \in Tasks, e \in Events :
        Holds(u, e)' => Holds(u, e) /\ task[u].at = task'[u].at /\ task[u].pc = task'[u].pc
  BY DEF Holds
<1>2. \A u \in Tasks : task[u].at \in Nat /\ task'[u].at \in Nat
  BY TaskAt DEF TypeOK
<1>3. ExclusiveUnlessExpired'
  <2> SUFFICES ASSUME NEW e \in Events, NEW t \in Tasks, NEW u \in Tasks, t # u,
                      Holds(t, e)', Holds(u, e)'
               PROVE  Expired(t)' \/ Expired(u)'
    BY DEF ExclusiveUnlessExpired
  <2>1. Expired(t) \/ Expired(u)
    BY <1>1 DEF ClaimsInv, ExclusiveUnlessExpired
  <2> QED
    BY <1>1, <1>2, <2>1 DEF Expired, TypeOK
<1>4. CompletedHasEffect' /\ DuplicateNeedsExpiry'
  BY DEF ClaimsInv, CompletedHasEffect, DuplicateNeedsExpiry, TypeOK
<1>5. HolderInv'
  <2> SUFFICES ASSUME NEW t \in Tasks, NEW e \in Events, Holds(t, e)'
               PROVE  /\ records[e].status # "ABSENT"
                      /\ firstClaim[e] <= task'[t].at
                      /\ task'[t].at + ClaimTTL <= records[e].expires
                      /\ task'[t].pc = "commit" => effects[e] > 0
                      /\ task'[t].pc = "handle" /\ effects[e] > 0 =>
                           now' >= firstClaim[e] + ClaimTTL
    BY DEF ClaimsInv, HolderInv
  <2>1. Holds(t, e) /\ task[t].at = task'[t].at /\ task[t].pc = task'[t].pc
    BY <1>1
  <2>2. now \in Nat /\ now' \in Nat /\ firstClaim[e] \in Nat
    BY DEF TypeOK
  <2> QED
    BY <2>1, <2>2 DEF ClaimsInv, HolderInv
<1> QED
  BY <1>3, <1>4, <1>5 DEF ClaimsInv

\* A fresh claim: the record was absent, or its claim had run out by the clock
\* the claimant read, so whoever still holds it has expired.
LEMMA ClaimStep ==
  ASSUME TypeOK, TypeOK', Durable, ClaimsInv, NEW t \in Tasks, Claim(t)
  PROVE  ClaimsInv'
<1> USE DeliveryAssumption, ClaimAssumption
<1> DEFINE e == task[t].event
           at == task[t].at
           rec == records[e]
<1>1. /\ e \in Events /\ at \in Nat /\ now \in Nat /\ at <= now
      /\ rec \in IdempotencyRecord /\ firstClaim[e] \in Nat /\ firstClaim'[e] \in Nat
  BY BusyFields DEF Claim, ClaimsInv, HolderInv, TypeOK
<1>2. rec.status = "ABSENT" \/ (rec.status = "IN_FLIGHT" /\ at >= rec.expires)
  BY DEF Claim, Claimable, ShouldExecute, ClaimOutcome, IsClaimable
<1>3. /\ records' = [records EXCEPT ![e] = InFlight(at)]
      /\ records'[e].status = "IN_FLIGHT" /\ records'[e].expires = at + ClaimTTL
      /\ \A f \in Events : f # e => records'[f] = records[f]
  BY <1>1 DEF Claim, InFlight, TypeOK
<1>4. /\ task'[t].pc = "handle" /\ task'[t].event = e /\ task'[t].at = at
      /\ \A u \in Tasks : u # t => task'[u] = task[u]
      /\ UNCHANGED <<now, effects>>
  BY <1>1, BusyFields DEF Claim, TypeOK, Busy
<1>5. \A f \in Events : f # e => firstClaim'[f] = firstClaim[f]
  BY DEF Claim, TypeOK
<1>6. /\ rec.status = "ABSENT" => firstClaim'[e] = at
      /\ rec.status # "ABSENT" => firstClaim'[e] = firstClaim[e]
  BY <1>1 DEF Claim, TypeOK
<1>7. \A u \in Tasks : Holds(u, e) => at >= task[u].at + ClaimTTL /\ rec.status = "IN_FLIGHT"
  <2> SUFFICES ASSUME NEW u \in Tasks, Holds(u, e)
               PROVE  at >= task[u].at + ClaimTTL /\ rec.status = "IN_FLIGHT"
    OBVIOUS
  <2>1. rec.status # "ABSENT" /\ task[u].at + ClaimTTL <= rec.expires
    BY <1>1 DEF ClaimsInv, HolderInv
  <2>2. task[u].at \in Nat /\ rec.expires \in Nat
    BY <1>1, TaskAt DEF TypeOK, IdempotencyRecord
  <2> QED
    BY <1>1, <1>2, <2>1, <2>2
<1>8. \A u \in Tasks, f \in Events :
        Holds(u, f)' => (u = t /\ f = e) \/ (u # t /\ Holds(u, f) /\ task'[u] = task[u])
  BY <1>4 DEF Holds
<1>9. ExclusiveUnlessExpired'
  <2> SUFFICES ASSUME NEW f \in Events, NEW u \in Tasks, NEW w \in Tasks, u # w,
                      Holds(u, f)', Holds(w, f)'
               PROVE  Expired(u)' \/ Expired(w)'
    BY DEF ExclusiveUnlessExpired
  <2>1. task[u].at \in Nat /\ task[w].at \in Nat
    BY TaskAt DEF TypeOK
  <2>2. CASE u = t
    BY <1>1, <1>4, <1>7, <1>8, <2>1, <2>2 DEF Expired
  <2>3. CASE w = t
    BY <1>1, <1>4, <1>7, <1>8, <2>1, <2>3 DEF Expired
  <2>4. CASE u # t /\ w # t
    BY <1>4, <1>8, <2>4 DEF ClaimsInv, ExclusiveUnlessExpired, Expired
  <2> QED
    BY <2>2, <2>3, <2>4
<1>10. CompletedHasEffect'
  BY <1>3, <1>4 DEF ClaimsInv, CompletedHasEffect
<1>11. \A f \in Events : effects[f] > 0 => firstClaim'[f] = firstClaim[f]
  BY <1>5, <1>6 DEF ClaimsInv, HolderInv
<1>12. DuplicateNeedsExpiry'
  BY <1>4, <1>11 DEF ClaimsInv, DuplicateNeedsExpiry, TypeOK
<1>13. \A f \in Events :
         /\ records'[f].status # "ABSENT" => records'[f].expires >= firstClaim'[f] + ClaimTTL
         /\ effects'[f] > 0 => records'[f].status # "ABSENT"
  <2> SUFFICES ASSUME NEW f \in Events
               PROVE  /\ records'[f].status # "ABSENT" =>
                           records'[f].expires >= firstClaim'[f] + ClaimTTL
                      /\ effects'[f] > 0 => records'[f].status # "ABSENT"
    OBVIOUS
  <2>1. CASE f # e
    BY <1>3, <1>4, <1>5, <2>1 DEF ClaimsInv, HolderInv
  <2>2. CASE f = e
    <3>1. firstClaim'[e] <= at
      <4>1. rec.expires \in Nat
        BY <1>1 DEF IdempotencyRecord
      <4> QED
        BY <1>1, <1>2, <1>6, <4>1 DEF ClaimsInv, HolderInv
    <3> QED
      BY <1>1, <1>3, <2>2, <3>1
  <2> QED
    BY <2>1, <2>2
<1>14. ASSUME NEW u \in Tasks, NEW f \in Events, Holds(u, f)'
       PROVE  /\ records'[f].status # "ABSENT"
              /\ firstClaim'[f] <= task'[u].at
              /\ task'[u].at + ClaimTTL <= records'[f].expires
              /\ task'[u].pc = "commit" => effects'[f] > 0
              /\ task'[u].pc = "handle" /\ effects'[f] > 0 =>
                   now' >= firstClaim'[f] + ClaimTTL
  <2>0. task[u].at \in Nat /\ rec.expires \in Nat
    BY <1>1, TaskAt DEF TypeOK, IdempotencyRecord
  <2>1. CASE u = t /\ f = e
    <3>1. effects[e] > 0 => at >= firstClaim[e] + ClaimTTL /\ firstClaim'[e] = firstClaim[e]
      BY <1>1, <1>2, <1>6, <2>0 DEF ClaimsInv, HolderInv
    <3>2. firstClaim'[e] <= at
      BY <1>1, <1>2, <1>6, <2>0 DEF ClaimsInv, HolderInv
    <3> QED
      BY <1>1, <1>3, <1>4, <2>1, <3>1, <3>2 DEF TypeOK
  <2>2. CASE u # t /\ Holds(u, f) /\ task'[u] = task[u] /\ f = e
    <3>1. firstClaim'[f] = firstClaim[f]
      BY <1>6, <1>7, <2>2
    <3> QED
      BY <1>1, <1>3, <1>4, <1>7, <2>0, <2>2, <3>1 DEF ClaimsInv, HolderInv
  <2>3. CASE u # t /\ Holds(u, f) /\ task'[u] = task[u] /\ f # e
    BY <1>3, <1>4, <1>5, <2>3 DEF ClaimsInv, HolderInv
  <2> QED
    BY <1>8, <1>14, <2>1, <2>2, <2>3
<1>15. \A u \in Tasks : task'[u].at <= now'
  BY <1>1, <1>4 DEF ClaimsInv, HolderInv
<1>16. HolderInv'
  BY <1>13, <1>14, <1>15 DEF HolderInv
<1> QED
  BY <1>9, <1>10, <1>12, <1>16 DEF ClaimsInv

\* A handler that returns: any other holder of the event shows, by exclusion,
\* that a claim on it has run out.
LEMMA SuccessStep ==
  ASSUME TypeOK, TypeOK', Durable, ClaimsInv, NEW t \in Tasks, HandlerSucceeds(t)
  PROVE  ClaimsInv'
<1> USE DeliveryAssumption, ClaimAssumption
<1> DEFINE e == task[t].event
<1>1. e \in Events /\ now \in Nat /\ Holds(t, e) /\ task[t].pc = "handle"
  BY BusyFields DEF HandlerSucceeds, Holds, TypeOK
<1>2. /\ effects'[e] = effects[e] + 1
      /\ \A f \in Events : effects[f] \in Nat /\ (f # e => effects'[f] = effects[f])
      /\ UNCHANGED <<now, records, firstClaim>>
  BY <1>1 DEF HandlerSucceeds, TypeOK
<1>3. \A u \in Tasks : /\ task'[u].at = task[u].at /\ task'[u].event = task[u].event
                       /\ u # t => task'[u] = task[u]
                       /\ task[u].at \in Nat
  BY TaskAt DEF HandlerSucceeds, TypeOK, Busy, Task
<1>4. task'[t].pc = "commit"
  BY <1>1, BusyFields DEF HandlerSucceeds, TypeOK, Busy
<1>5. \A u \in Tasks, f \in Events : Holds(u, f)' => Holds(u, f)
  BY <1>1, <1>3 DEF Holds
<1>6. ASSUME NEW u \in Tasks, u # t, Holds(u, e)
      PROVE  now >= firstClaim[e] + ClaimTTL
  <2>1. Expired(t) \/ Expired(u)
    BY <1>1, <1>6 DEF ClaimsInv, ExclusiveUnlessExpired
  <2>2. firstClaim[e] <= task[t].at /\ firstClaim[e] <= task[u].at
    BY <1>1, <1>6 DEF ClaimsInv, HolderInv
  <2> QED
    BY <1>1, <1>3, <2>1, <2>2 DEF Expired, TypeOK
<1>7. ExclusiveUnlessExpired'
  BY <1>2, <1>3, <1>5 DEF ClaimsInv, ExclusiveUnlessExpired, Expired
<1>8. CompletedHasEffect'
  BY <1>2 DEF ClaimsInv, CompletedHasEffect
<1>9. DuplicateNeedsExpiry'
  BY <1>1, <1>2 DEF ClaimsInv, DuplicateNeedsExpiry, HolderInv
<1>10. ASSUME NEW u \in Tasks, NEW f \in Events, Holds(u, f)'
       PROVE  /\ records'[f].status # "ABSENT"
              /\ firstClaim'[f] <= task'[u].at
              /\ task'[u].at + ClaimTTL <= records'[f].expires
              /\ task'[u].pc = "commit" => effects'[f] > 0
              /\ task'[u].pc = "handle" /\ effects'[f] > 0 =>
                   now' >= firstClaim'[f] + ClaimTTL
  <2>1. Holds(u, f)
    BY <1>5, <1>10
  <2>2. CASE u = t
    BY <1>1, <1>2, <1>3, <1>4, <2>1, <2>2 DEF ClaimsInv, HolderInv, Holds
  <2>3. CASE u # t /\ f = e
    BY <1>1, <1>2, <1>3, <1>6, <2>1, <2>3 DEF ClaimsInv, HolderInv
  <2>4. CASE u # t /\ f # e
    BY <1>1, <1>2, <1>3, <2>1, <2>4 DEF ClaimsInv, HolderInv
  <2> QED
    BY <2>2, <2>3, <2>4
<1>11. HolderInv'
  BY <1>1, <1>2, <1>3, <1>10 DEF ClaimsInv, HolderInv
<1> QED
  BY <1>7, <1>8, <1>9, <1>11 DEF ClaimsInv

\* Completing a claim, one's own or the one that took it over.
LEMMA CommitStep ==
  ASSUME TypeOK, TypeOK', Durable, ClaimsInv, NEW t \in Tasks, Commit(t)
  PROVE  ClaimsInv'
<1> USE DeliveryAssumption, ClaimAssumption
<1> DEFINE e == task[t].event
<1>1. e \in Events /\ Holds(t, e) /\ task[t].pc = "commit" /\ effects[e] > 0
  BY BusyFields DEF Commit, Holds, TypeOK, ClaimsInv, HolderInv
<1>2. /\ records'[e].status = "COMPLETED" /\ records'[e].expires = records[e].expires
      /\ \A f \in Events : f # e => records'[f] = records[f]
      /\ UNCHANGED <<now, effects, firstClaim>>
  BY <1>1, RecordClosure DEF Commit, TypeOK
<1>3. /\ task'[t].pc = "reply" /\ task'[t].at = 0
      /\ \A u \in Tasks : u # t => task'[u] = task[u]
  <2>1. task' = [task EXCEPT ![t] = Replying(e, TRUE)]
    BY DEF Commit, Reply
  <2>2. Replying(e, TRUE).pc = "reply" /\ Replying(e, TRUE).at = 0
    BY <1>1, ReplyingClosure
  <2> QED
    BY <2>1, <2>2 DEF TypeOK
<1>4. \A u \in Tasks, f \in Events : Holds(u, f)' => u # t /\ Holds(u, f)
  BY <1>3 DEF Holds
<1>5. ExclusiveUnlessExpired'
  BY <1>2, <1>3, <1>4 DEF ClaimsInv, ExclusiveUnlessExpired, Expired
<1>6. CompletedHasEffect' /\ DuplicateNeedsExpiry'
  BY <1>1, <1>2 DEF ClaimsInv, CompletedHasEffect, DuplicateNeedsExpiry
<1>7. HolderInv'
  <2>1. \A f \in Events : records[f].status # "ABSENT" <=> records'[f].status # "ABSENT"
    BY <1>1, <1>2 DEF ClaimsInv, HolderInv
  <2>2. \A f \in Events : records'[f].expires = records[f].expires
    BY <1>2
  <2>3. \A u \in Tasks : task'[u].at <= now'
    BY <1>2, <1>3 DEF ClaimsInv, HolderInv, TypeOK
  <2> QED
    BY <1>2, <1>3, <1>4, <2>1, <2>2, <2>3 DEF ClaimsInv, HolderInv
<1> QED
  BY <1>5, <1>6, <1>7 DEF ClaimsInv

-----------------------------------------------------------------------------
LEMMA ClaimsInductive ==
  ASSUME Durable, TypeOK, TypeOK', ClaimsInv, [Next]_vars
  PROVE  ClaimsInv'
<1>0. /\ now \in Nat /\ \A u \in Tasks : task[u].at <= now /\ task[u].at \in Nat
      /\ ProcOf \in [Tasks -> Procs]
  BY TaskAt, DeliveryAssumption DEF ClaimsInv, HolderInv, TypeOK
<1>1. ASSUME NEW e \in Events, Publish(e) \/ Park(e) PROVE ClaimsInv'
  BY <1>0, <1>1, QuietStep DEF Publish, Park
<1>2. ASSUME NEW t \in Tasks, NEW e \in Events, Receive(t, e) PROVE ClaimsInv'
  <2>1. UNCHANGED <<now, records, effects, firstClaim>>
    BY <1>2 DEF Receive, ReceiveUnsupported, ReceiveRefused, ReceiveAdmitted, Receiving
  <2>2. /\ task'[t].pc \in {"begin", "reply"} /\ task'[t].at <= now
        /\ \A u \in Tasks : u # t => task'[u] = task[u]
    <3>1. CASE ReceiveUnsupported(t, e) \/ ReceiveRefused(t, e)
      <4>1. PICK b \in BOOLEAN : Reply(t, e, b)
        <5>1. TRUE \in BOOLEAN /\ (Transport = "pull") \in BOOLEAN
          OBVIOUS
        <5> QED
          BY <3>1, <5>1 DEF ReceiveUnsupported, ReceiveRefused
      <4> QED
        BY <1>0, <4>1, ReplyingClosure DEF Reply, TypeOK
    <3>2. CASE ReceiveAdmitted(t, e)
      <4>1. task' = [task EXCEPT ![t] = Begun(e, now)]
        BY <3>2 DEF ReceiveAdmitted
      <4> QED
        BY <1>0, <4>1, BegunClosure DEF TypeOK
    <3> QED
      BY <1>2, <3>1, <3>2 DEF Receive
  <2> QED
    BY <1>0, <2>1, <2>2, QuietStep
<1>3. ASSUME NEW t \in Tasks, Claim(t) PROVE ClaimsInv'
  BY <1>3, ClaimStep
<1>4. ASSUME NEW t \in Tasks, HandlerSucceeds(t) PROVE ClaimsInv'
  BY <1>4, SuccessStep
<1>5. ASSUME NEW t \in Tasks, Commit(t) PROVE ClaimsInv'
  BY <1>5, CommitStep
<1>6. ASSUME NEW t \in Tasks, NEW b \in BOOLEAN, task[t].pc # "idle",
             Reply(t, task[t].event, b), UNCHANGED <<now, records, effects, firstClaim>>
      PROVE  ClaimsInv'
  <2>1. task'[t].pc = "reply" /\ task'[t].at = 0 /\ \A u \in Tasks : u # t => task'[u] = task[u]
    BY <1>6, BusyFields, ReplyingClosure DEF Reply, TypeOK
  <2> QED
    BY <1>0, <1>6, <2>1, QuietStep
<1>7. ASSUME NEW t \in Tasks, Dedupe(t) PROVE ClaimsInv'
  BY <1>6, <1>7 DEF Dedupe
<1>8. ASSUME NEW t \in Tasks, NEW class \in FailureClass, HandlerFails(t, class)
      PROVE  ClaimsInv'
  <2>1. UNCHANGED <<now, records, effects, firstClaim>> /\ task[t].pc = "handle"
    BY <1>8 DEF HandlerFails, Abandon
  <2>2. CASE Reply(t, task[t].event, TRUE)
    BY <1>6, <2>1, <2>2
  <2>3. CASE task' = [task EXCEPT ![t].attempt = @ + 1]
    <3>1. \A u \in Tasks : /\ task'[u].at = task[u].at /\ task'[u].pc = task[u].pc
                           /\ task'[u].event = task[u].event
      BY <2>1, <2>3, BusyFields DEF TypeOK, Busy
    <3> QED
      BY <1>0, <2>1, <3>1, QuietStep
  <2> QED
    BY <1>8, <2>2, <2>3 DEF HandlerFails
<1>9. ASSUME NEW t \in Tasks, StoreFails(t) \/ Answer(t) PROVE ClaimsInv'
  <2>1. UNCHANGED <<now, records, effects, firstClaim>> /\ task[t].pc # "idle"
    BY <1>9 DEF StoreFails, Answer
  <2>2. CASE Reply(t, task[t].event, FALSE)
    BY <1>6, <2>1, <2>2
  <2>3. CASE \A u \in Tasks : task'[u] = IdleTask \/ task'[u] = task[u]
    BY <1>0, <2>1, <2>3, IdleClosure, QuietStep
  <2> QED
    BY <1>9, <2>2, <2>3 DEF StoreFails, Answer, TypeOK
<1>10. ASSUME NEW p \in Procs, Crash(p) PROVE ClaimsInv'
  <2>1. \A u \in Tasks : task'[u] = IdleTask \/ task'[u] = task[u]
    BY <1>10 DEF Crash
  <2> QED
    BY <1>0, <1>10, <2>1, IdleClosure, QuietStep DEF Crash
<1>11. CASE Tick
  <2>1. now' = now + 1 /\ UNCHANGED <<task, records, effects, firstClaim>>
    BY <1>11 DEF Tick
  <2> QED
    BY <1>0, <2>1, QuietStep
<1>12. CASE UNCHANGED vars
  BY <1>0, <1>12, QuietStep DEF vars
<1> QED
  BY <1>1, <1>2, <1>3, <1>4, <1>5, <1>7, <1>8, <1>9, <1>10, <1>11, <1>12
     DEF Next, Work

LEMMA InitClaims == Init => ClaimsInv
  BY IdleClosure, ClaimAssumption
     DEF Init, ClaimsInv, HolderInv, ExclusiveUnlessExpired, CompletedHasEffect,
         DuplicateNeedsExpiry, Holds, IdleTask, NoRecord

\* With the durable dedupe store, the claims bound what redelivery, crashes and
\* failing store calls can do, for any number of them and of workers.
LEMMA ClaimsHold == ASSUME Durable PROVE Spec => []ClaimsInv
<1>1. TypeOK /\ TypeOK' /\ ClaimsInv /\ [Next]_vars => ClaimsInv'
  BY ClaimsInductive
<1> QED
  BY <1>1, InitClaims, TypeCorrect, PTL DEF Spec

\* Two deliveries of one event are in the handler together only after the claim
\* of one of them has expired.
THEOREM MutualExclusionOfHandlers ==
  ASSUME Durable PROVE Spec => []ExclusiveUnlessExpired
<1>1. ClaimsInv => ExclusiveUnlessExpired
  BY DEF ClaimsInv
<1> QED
  BY <1>1, ClaimsHold, PTL

\* A second effect of one event needs the first claim on it to have expired.
THEOREM ExactlyOnceUntilExpiry ==
  ASSUME Durable PROVE Spec => []DuplicateNeedsExpiry
<1>1. ClaimsInv => DuplicateNeedsExpiry
  BY DEF ClaimsInv
<1> QED
  BY <1>1, ClaimsHold, PTL

\* A run about to be committed has had its effect, whatever becomes of its claim.
LEMMA CompletionInductive ==
  ASSUME TypeOK, CompletionInv, [Next]_vars
  PROVE  CompletionInv'
<1> SUFFICES ASSUME NEW e \in Events
             PROVE  /\ records'[e].status = "COMPLETED" => effects'[e] > 0
                    /\ \A t \in Tasks : task'[t].pc = "commit" /\ task'[t].event = e => effects'[e] > 0
  <2>1. \A t \in Tasks : task'[t].pc = "commit" => task'[t].event \in Events
    BY StepType, BusyFields DEF TypeOK
  <2> QED
    BY <2>1 DEF CompletionInv, CompletedHasEffect
<1>1. ASSUME UNCHANGED effects, records'[e].status = "COMPLETED" => effects[e] > 0,
             \A t \in Tasks : task'[t].pc = "commit" => task'[t] = task[t]
      PROVE  /\ records'[e].status = "COMPLETED" => effects'[e] > 0
             /\ \A t \in Tasks : task'[t].pc = "commit" /\ task'[t].event = e => effects'[e] > 0
  BY <1>1 DEF CompletionInv
<1>2. records[e].status = "COMPLETED" => effects[e] > 0
  BY DEF CompletionInv, CompletedHasEffect
<1>3. ASSUME NEW t \in Tasks, HandlerSucceeds(t)
      PROVE  /\ records'[e].status = "COMPLETED" => effects'[e] > 0
             /\ \A u \in Tasks : task'[u].pc = "commit" /\ task'[u].event = e => effects'[e] > 0
  <2>1. /\ task[t].event \in Events /\ task'[t].event = task[t].event
        /\ \A u \in Tasks : u # t => task'[u] = task[u]
    BY <1>3, BusyFields DEF HandlerSucceeds, TypeOK, Busy
  <2>2. effects'[task[t].event] > 0 /\ \A f \in Events : effects[f] > 0 => effects'[f] > 0
    BY <1>3, <2>1 DEF HandlerSucceeds, TypeOK
  <2> QED
    BY <1>2, <1>3, <2>1, <2>2 DEF HandlerSucceeds, CompletionInv
<1>4. ASSUME NEW t \in Tasks, Commit(t)
      PROVE  /\ records'[e].status = "COMPLETED" => effects'[e] > 0
             /\ \A u \in Tasks : task'[u].pc = "commit" /\ task'[u].event = e => effects'[e] > 0
  <2>1. task[t].event \in Events /\ effects[task[t].event] > 0
    BY <1>4, BusyFields DEF Commit, CompletionInv, TypeOK
  <2>2. task'[t].pc = "reply" /\ \A u \in Tasks : u # t => task'[u] = task[u]
    BY <1>4, <2>1, ReplyingClosure DEF Commit, Reply, TypeOK
  <2>3. e = task[t].event \/ records'[e] = records[e]
    BY <1>4 DEF Commit, TypeOK
  <2> QED
    BY <1>1, <1>2, <1>4, <2>1, <2>2, <2>3 DEF Commit
<1>5. ASSUME NEW t \in Tasks, Claim(t)
      PROVE  UNCHANGED effects /\ (records'[e].status = "COMPLETED" => effects[e] > 0)
             /\ \A u \in Tasks : task'[u].pc = "commit" => task'[u] = task[u]
  <2>1. e = task[t].event \/ records'[e] = records[e]
    BY <1>5 DEF Claim, TypeOK
  <2>2. e = task[t].event => records'[e].status = "IN_FLIGHT"
    BY <1>5 DEF Claim, InFlight, TypeOK
  <2>3. task'[t].pc = "handle" /\ \A u \in Tasks : u # t => task'[u] = task[u]
    BY <1>5, BusyFields DEF Claim, TypeOK, Busy
  <2> QED
    BY <1>2, <1>5, <2>1, <2>2, <2>3 DEF Claim
<1>6. ASSUME NEW t \in Tasks, NEW class \in FailureClass, HandlerFails(t, class)
      PROVE  UNCHANGED effects /\ (records'[e].status = "COMPLETED" => effects[e] > 0)
             /\ \A u \in Tasks : task'[u].pc = "commit" => task'[u] = task[u]
  <2>1. records'[e] = records[e] \/ records'[e] = NoRecord
    BY <1>6 DEF HandlerFails, Abandon, TypeOK
  <2>2. task'[t].pc # "commit" /\ \A u \in Tasks : u # t => task'[u] = task[u]
    <3>1. task[t] \in Busy /\ task[t].pc = "handle" /\ task[t].event \in Events
      BY <1>6, BusyFields DEF HandlerFails, TypeOK
    <3>2. CASE Reply(t, task[t].event, TRUE)
      BY <3>1, <3>2, ReplyingClosure DEF Reply, TypeOK
    <3>3. CASE task' = [task EXCEPT ![t].attempt = @ + 1]
      BY <3>1, <3>3 DEF TypeOK, Busy
    <3> QED
      BY <1>6, <3>2, <3>3 DEF HandlerFails
  <2> QED
    BY <1>2, <1>6, <2>1, <2>2 DEF HandlerFails, NoRecord
<1>7. ASSUME NEW t \in Tasks, NEW b \in BOOLEAN, task[t].pc # "idle", Reply(t, task[t].event, b)
      PROVE  \A u \in Tasks : task'[u].pc = "commit" => task'[u] = task[u]
  BY <1>7, BusyFields, ReplyingClosure DEF Reply, TypeOK
<1>8. ASSUME NEW t \in Tasks, Dedupe(t) \/ StoreFails(t) \/ Answer(t)
      PROVE  /\ UNCHANGED <<effects, records>>
             /\ \A u \in Tasks : task'[u].pc = "commit" => task'[u] = task[u]
  BY <1>7, <1>8, IdleClosure DEF Dedupe, StoreFails, Answer, TypeOK
<1>9. ASSUME NEW t \in Tasks, NEW f \in Events, Receive(t, f)
      PROVE  /\ UNCHANGED <<effects, records>>
             /\ \A u \in Tasks : task'[u].pc = "commit" => task'[u] = task[u]
  <2>1. UNCHANGED <<effects, records>>
    BY <1>9 DEF Receive, ReceiveUnsupported, ReceiveRefused, ReceiveAdmitted, Receiving
  <2>2. CASE ReceiveAdmitted(t, f)
    <3>1. task' = [task EXCEPT ![t] = Begun(f, now)] /\ Begun(f, now).pc = "begin"
      BY <2>2, BegunClosure DEF ReceiveAdmitted, TypeOK
    <3> QED
      BY <2>1, <3>1 DEF TypeOK
  <2>3. ASSUME NEW b \in BOOLEAN, Reply(t, f, b)
        PROVE  \A u \in Tasks : task'[u].pc = "commit" => task'[u] = task[u]
    BY <2>3, ReplyingClosure DEF Reply, TypeOK
  <2> QED
    BY <1>9, <2>1, <2>2, <2>3 DEF Receive, ReceiveUnsupported, ReceiveRefused
<1>10. ASSUME NEW p \in Procs, Crash(p)
       PROVE  UNCHANGED effects /\ (records'[e].status = "COMPLETED" => effects[e] > 0)
              /\ \A u \in Tasks : task'[u].pc = "commit" => task'[u] = task[u]
  BY <1>2, <1>10, IdleClosure DEF Crash, NoRecord
<1>11. ASSUME NEW f \in Events, Publish(f) \/ Park(f) PROVE UNCHANGED <<effects, records, task>>
  BY <1>11 DEF Publish, Park
<1>12. CASE Tick \/ UNCHANGED vars
  BY <1>1, <1>2, <1>12 DEF Tick, vars
<1> QED
  BY <1>1, <1>2, <1>3, <1>4, <1>5, <1>6, <1>8, <1>9, <1>10, <1>11, <1>12 DEF Next, Work

LEMMA CompletionHolds == Spec => []CompletionInv
<1>1. Init => CompletionInv
  BY IdleClosure DEF Init, CompletionInv, CompletedHasEffect, NoRecord
<1>2. TypeOK /\ CompletionInv /\ [Next]_vars => CompletionInv'
  BY CompletionInductive
<1> QED
  BY <1>1, <1>2, TypeCorrect, PTL DEF Spec

\* A COMPLETED record stands for a finished run although complete() is unfenced,
\* in a durable store and in one that dies with its process.
THEOREM CompletionIsEarned == Spec => []CompletedHasEffect
<1>1. CompletionInv => CompletedHasEffect
  BY DEF CompletionInv
<1> QED
  BY <1>1, CompletionHolds, PTL

\* No call on a breaker leaves it open below the threshold, or shut above it.
LEMMA BreakerCallsConsistent ==
  ASSUME NEW b \in Breaker, NEW at \in Nat, BreakerConsistent(b)
  PROVE  /\ BreakerConsistent(AfterAllow(b, at))
         /\ BreakerConsistent(AfterSuccess(b))
         /\ BreakerConsistent(AfterFailure(b, at))
  BY BreakerAssumption
     DEF Breaker, CircuitState, BreakerConsistent, ClosedBreaker, AfterAllow, AfterSuccess, AfterFailure

\* Whatever calls the deliveries of a process make on its breaker, and in
\* whatever order, it is shut exactly while the failures stay under the threshold.
THEOREM BreakersNeverDrift == Spec => []BreakersConsistent
<1>1. BreakerConsistent(ClosedBreaker)
  BY BreakerAssumption DEF BreakerConsistent, ClosedBreaker
<1>2. Init => BreakersConsistent
  BY <1>1 DEF Init, BreakersConsistent
<1>3. TypeOK /\ BreakersConsistent /\ [Next]_vars => BreakersConsistent'
  <2> SUFFICES ASSUME TypeOK, BreakersConsistent, [Next]_vars, NEW p \in Procs
               PROVE  BreakerConsistent(breaker'[p])
    BY DEF BreakersConsistent, BreakerConsistent
  <2>1. breaker[p] \in Breaker /\ now \in Nat /\ BreakerConsistent(breaker[p])
    BY DEF TypeOK, BreakersConsistent
  <2>2. \/ breaker'[p] \in {breaker[p], ClosedBreaker, AfterSuccess(breaker[p])}
        \/ breaker'[p] \in {AfterAllow(breaker[p], now), AfterFailure(breaker[p], now)}
    <3>1. ASSUME NEW t \in Tasks, NEW e \in Events, Receive(t, e)
          PROVE  breaker'[p] \in {breaker[p], AfterAllow(breaker[p], now)}
      BY <3>1 DEF Receive, ReceiveUnsupported, ReceiveRefused, ReceiveAdmitted, TypeOK
    <3>2. ASSUME NEW t \in Tasks, HandlerSucceeds(t)
          PROVE  breaker'[p] \in {breaker[p], AfterSuccess(breaker[p])}
      BY <3>2 DEF HandlerSucceeds, TypeOK
    <3>3. ASSUME NEW t \in Tasks, NEW class \in FailureClass, HandlerFails(t, class)
          PROVE  breaker'[p] \in {breaker[p], AfterFailure(breaker[p], now)}
      BY <3>3 DEF HandlerFails, TypeOK
    <3>4. ASSUME NEW q \in Procs, Crash(q) PROVE breaker'[p] \in {breaker[p], ClosedBreaker}
      BY <3>4 DEF Crash, TypeOK
    <3>5. ASSUME NEW t \in Tasks, Claim(t) \/ Dedupe(t) \/ Commit(t) \/ StoreFails(t) \/ Answer(t)
          PROVE  breaker' = breaker
      BY <3>5 DEF Claim, Dedupe, Commit, StoreFails, Answer
    <3>6. ASSUME NEW e \in Events, Publish(e) \/ Park(e) PROVE breaker' = breaker
      BY <3>6 DEF Publish, Park
    <3>7. CASE Tick \/ UNCHANGED vars
      BY <3>7 DEF Tick, vars
    <3> QED
      BY <3>1, <3>2, <3>3, <3>4, <3>5, <3>6, <3>7 DEF Next, Work
  <2> QED
    BY <1>1, <2>1, <2>2, BreakerCallsConsistent
<1> QED
  BY <1>2, <1>3, TypeCorrect, PTL DEF Spec

-----------------------------------------------------------------------------
\* What accounts for an event is never taken away: a claim in flight only ends
\* as a completion, which comes after an effect.
LEMMA AccountedStays ==
  ASSUME Durable, TypeOK, ClaimsInv, [Next]_vars
  PROVE  \A e \in Events : Accounted(e) => Accounted(e)'
<1> SUFFICES ASSUME NEW e \in Events, Accounted(e) PROVE Accounted(e)'
  OBVIOUS
<1> USE DEF Accounted
<1>1. ASSUME NEW t \in Tasks, Claim(t) PROVE Accounted(e)'
  BY <1>1, BusyFields DEF Claim, InFlight, TypeOK
<1>2. ASSUME NEW t \in Tasks, HandlerSucceeds(t) PROVE Accounted(e)'
  BY <1>2, BusyFields DEF HandlerSucceeds, TypeOK
<1>3. ASSUME NEW t \in Tasks, NEW class \in FailureClass, HandlerFails(t, class)
      PROVE  Accounted(e)'
  BY <1>3 DEF HandlerFails, Abandon, DeadLetter
<1>4. ASSUME NEW t \in Tasks, Commit(t) PROVE Accounted(e)'
  <2>1. Holds(t, task[t].event) /\ task[t].event \in Events /\ effects[task[t].event] > 0
    BY <1>4, BusyFields DEF Commit, Holds, ClaimsInv, HolderInv, TypeOK
  <2>2. CASE e = task[t].event
    BY <1>4, <2>1, <2>2 DEF Commit
  <2>3. CASE e # task[t].event
    BY <1>4, <2>1, <2>3 DEF Commit, TypeOK
  <2> QED
    BY <2>2, <2>3
<1>5. ASSUME NEW t \in Tasks, Dedupe(t) \/ StoreFails(t) \/ Answer(t) PROVE Accounted(e)'
  BY <1>5 DEF Dedupe, StoreFails, Answer
<1>6. ASSUME NEW t \in Tasks, NEW f \in Events, Receive(t, f) PROVE Accounted(e)'
  BY <1>6 DEF Receive, ReceiveUnsupported, ReceiveRefused, ReceiveAdmitted, Receiving, DeadLetter
<1>7. ASSUME NEW f \in Events, Publish(f) \/ Park(f) PROVE Accounted(e)'
  BY <1>7 DEF Publish, Park
<1>8. ASSUME NEW p \in Procs, Crash(p) PROVE Accounted(e)'
  BY <1>8 DEF Crash
<1>9. CASE Tick \/ UNCHANGED vars
  BY <1>9 DEF Tick, vars
<1> QED
  BY <1>1, <1>2, <1>3, <1>4, <1>5, <1>6, <1>7, <1>8, <1>9 DEF Next, Work

\* Every step that prepares an acknowledging answer has accounted for its event.
LEMMA AnswersInductive ==
  ASSUME Durable, Transport = "push", TypeOK, ClaimsInv, AnswersInv, [Next]_vars
  PROVE  AnswersInv'
<1>2. ASSUME NEW t \in Tasks, NEW e \in Events, NEW b \in BOOLEAN,
             Reply(t, e, b), b => Accounted(e)'
      PROVE  AnswersInv'
  <2>1. task'[t].event = e /\ (task'[t].ack <=> b) /\ \A u \in Tasks : u # t => task'[u] = task[u]
    BY <1>2, ReplyingClosure DEF Reply, TypeOK
  <2>2. ASSUME NEW u \in Tasks, u # t, task'[u].pc = "reply", task'[u].ack
        PROVE  Accounted(task[u].event)'
    BY <2>1, <2>2, AccountedStays, BusyFields DEF AnswersInv, TypeOK
  <2> QED
    BY <1>2, <2>1, <2>2 DEF AnswersInv, Accounted
<1>3. ASSUME \A u \in Tasks : task'[u] = task[u] \/ task'[u].pc # "reply"
      PROVE  AnswersInv'
  <2> SUFFICES ASSUME NEW u \in Tasks, task'[u].pc = "reply", task'[u].ack
               PROVE  Accounted(task[u].event)'
    BY DEF AnswersInv, Accounted
  <2> QED
    BY <1>3, AccountedStays, BusyFields DEF AnswersInv, TypeOK
<1>4. ASSUME NEW t \in Tasks, NEW e \in Events, Receive(t, e) PROVE AnswersInv'
  <2>1. CASE ReceiveUnsupported(t, e)
    BY <1>2, <2>1 DEF ReceiveUnsupported, DeadLetter, Accounted
  <2>2. CASE ReceiveRefused(t, e)
    BY <1>2, <2>2 DEF ReceiveRefused
  <2>3. CASE ReceiveAdmitted(t, e)
    <3>1. task' = [task EXCEPT ![t] = Begun(e, now)]
      BY <2>3 DEF ReceiveAdmitted
    <3>2. task'[t].pc = "begin" /\ \A u \in Tasks : u # t => task'[u] = task[u]
      BY <3>1, BegunClosure DEF TypeOK
    <3> QED
      BY <1>3, <3>2
  <2> QED
    BY <1>4, <2>1, <2>2, <2>3 DEF Receive
<1>5. ASSUME NEW t \in Tasks, Claim(t) \/ HandlerSucceeds(t) PROVE AnswersInv'
  <2>1. /\ task'[t].pc \in {"handle", "commit"}
        /\ \A u \in Tasks : u # t => task'[u] = task[u]
    BY <1>5, BusyFields DEF Claim, HandlerSucceeds, TypeOK, Busy
  <2> QED
    BY <1>3, <2>1
<1>6. ASSUME NEW t \in Tasks, Dedupe(t) PROVE AnswersInv'
  <2>1. task[t].event \in Events
    BY <1>6, BusyFields DEF Dedupe, TypeOK
  <2>2. Accounted(task[t].event)
    BY <1>6, <2>1
       DEF Dedupe, Claimable, ShouldExecute, ClaimOutcome, IsClaimable, Accounted, TypeOK,
           ClaimsInv, CompletedHasEffect, IdempotencyRecord, ClaimStatus
  <2> QED
    BY <1>2, <1>6, <2>1, <2>2, AccountedStays DEF Dedupe
<1>7. ASSUME NEW t \in Tasks, NEW class \in FailureClass, HandlerFails(t, class)
      PROVE  AnswersInv'
  <2>1. task[t].pc = "handle" /\ task[t].event \in Events
    BY <1>7, BusyFields DEF HandlerFails, TypeOK
  <2>2. CASE DeadLetter(ProcOf[t], task[t].event) /\ Reply(t, task[t].event, TRUE)
    BY <1>2, <2>1, <2>2 DEF DeadLetter, Accounted
  <2>3. CASE task' = [task EXCEPT ![t].attempt = @ + 1]
    <3>1. task'[t].pc = "handle" /\ \A u \in Tasks : u # t => task'[u] = task[u]
      BY <2>1, <2>3, BusyFields DEF TypeOK, Busy
    <3> QED
      BY <1>3, <3>1
  <2> QED
    BY <1>7, <2>2, <2>3 DEF HandlerFails
<1>8. ASSUME NEW t \in Tasks, Commit(t) PROVE AnswersInv'
  <2>1. Holds(t, task[t].event) /\ task[t].event \in Events /\ effects[task[t].event] > 0
    BY <1>8, BusyFields DEF Commit, Holds, ClaimsInv, HolderInv, TypeOK
  <2> QED
    BY <1>2, <1>8, <2>1 DEF Commit, Accounted
<1>9. ASSUME NEW t \in Tasks, StoreFails(t) PROVE AnswersInv'
  <2>1. task[t].event \in Events /\ Reply(t, task[t].event, FALSE)
    BY <1>9, BusyFields DEF StoreFails, TypeOK
  <2> QED
    BY <1>2, <2>1
<1>10. ASSUME NEW t \in Tasks, Answer(t) PROVE AnswersInv'
  <2>1. \A u \in Tasks : task'[u] = IdleTask \/ task'[u] = task[u]
    BY <1>10 DEF Answer, TypeOK
  <2> QED
    BY <1>3, <2>1, IdleClosure
<1>11. ASSUME NEW p \in Procs, Crash(p) PROVE AnswersInv'
  <2>1. \A u \in Tasks : task'[u] = IdleTask \/ task'[u] = task[u]
    BY <1>11 DEF Crash
  <2> QED
    BY <1>3, <2>1, IdleClosure
<1>12. ASSUME UNCHANGED task PROVE AnswersInv'
  BY <1>3, <1>12
<1> QED
  BY <1>4, <1>5, <1>6, <1>7, <1>8, <1>9, <1>10, <1>11, <1>12
     DEF Next, Work, Publish, Park, Tick, vars

\* The push endpoint acknowledges nothing that left no trace.
THEOREM NothingAckedWithoutTrace ==
  ASSUME Durable, Transport = "push" PROVE Spec => []AckedIsAccounted
<1> DEFINE Inv == AnswersInv /\ AckedIsAccounted
<1>1. Init => Inv
  BY IdleClosure DEF Init, AnswersInv, AckedIsAccounted
<1>2. TypeOK /\ ClaimsInv /\ Inv /\ [Next]_vars => Inv'
  <2> SUFFICES ASSUME TypeOK, ClaimsInv, Inv, [Next]_vars PROVE Inv'
    OBVIOUS
  <2>1. AnswersInv'
    BY AnswersInductive
  <2>2. AckedIsAccounted'
    <3> SUFFICES ASSUME NEW e \in Events, broker'[e] = "acked" PROVE Accounted(e)'
      BY DEF AckedIsAccounted, Accounted
    <3>1. CASE broker[e] = "acked"
      BY <3>1, AccountedStays DEF AckedIsAccounted, Accounted
    <3>2. CASE broker[e] # "acked"
      <4>1. PICK t \in Tasks : Answer(t)
        <5>1. broker'[e] # broker[e]
          BY <3>2
        <5>2. ASSUME NEW f \in Events, Publish(f) \/ Park(f) PROVE broker'[e] # "acked"
          BY <3>2, <5>2 DEF Publish, Park, TypeOK
        <5>3. ASSUME NEW t \in Tasks, NEW f \in Events, Receive(t, f) PROVE broker' = broker
          BY <5>3 DEF Receive, ReceiveUnsupported, ReceiveRefused, ReceiveAdmitted, Receiving
        <5>4. ASSUME NEW t \in Tasks, Work(t), ~Answer(t) PROVE broker' = broker
          BY <5>4 DEF Work, Claim, Dedupe, HandlerSucceeds, HandlerFails, Commit, StoreFails
        <5>5. ASSUME NEW p \in Procs, Crash(p) PROVE broker' = broker
          BY <5>5 DEF Crash
        <5>6. ASSUME Tick \/ UNCHANGED vars PROVE broker' = broker
          BY <5>6 DEF Tick, vars
        <5> QED
          BY <5>1, <5>2, <5>3, <5>4, <5>5, <5>6 DEF Next
      <4>2. task[t].pc = "reply" /\ task[t].ack /\ task[t].event = e
        BY <3>2, <4>1 DEF Answer, TypeOK
      <4> QED
        BY <4>2, AccountedStays DEF AnswersInv
    <3> QED
      BY <3>1, <3>2
  <2> QED
    BY <2>1, <2>2
<1>3. Inv => AckedIsAccounted
  OBVIOUS
<1> QED
  BY <1>1, <1>2, <1>3, TypeCorrect, ClaimsHold, PTL DEF Spec

-----------------------------------------------------------------------------
\* While nothing crashes and the store answers, an event that is covered stays
\* covered: a run ends by returning or by giving up in the open.
LEMMA CoveredStays ==
  ASSUME TypeOK, CompletionInv, [Next]_vars, UNCHANGED <<crashes, storeFailures>>
  PROVE  \A e \in Events : Covered(e) => Covered(e)'
<1> SUFFICES ASSUME NEW e \in Events, Covered(e) PROVE Covered(e)'
  OBVIOUS
<1>1. ASSUME \A t \in Tasks : Holds(t, e) => Holds(t, e)', effects' = effects,
             everDead \subseteq everDead'
      PROVE  Covered(e)'
  BY <1>1 DEF Covered
<1>2. ASSUME NEW t \in Tasks, Claim(t) \/ Dedupe(t) \/ Answer(t) PROVE Covered(e)'
  <2>1. \A u \in Tasks : Holds(u, e) => u # t /\ task'[u] = task[u]
    BY <1>2 DEF Claim, Dedupe, Answer, Reply, Holds, TypeOK
  <2> QED
    BY <1>1, <1>2, <2>1 DEF Claim, Dedupe, Answer, Holds
<1>3. ASSUME NEW t \in Tasks, HandlerSucceeds(t) PROVE Covered(e)'
  <2>1. task[t].event \in Events /\ \A u \in Tasks : u # t => task'[u] = task[u]
    BY <1>3, BusyFields DEF HandlerSucceeds, TypeOK
  <2>2. effects'[task[t].event] > 0 /\ (effects[e] > 0 => effects'[e] > 0) /\ everDead' = everDead
    BY <1>3, <2>1 DEF HandlerSucceeds, TypeOK
  <2>3. \A u \in Tasks : Holds(u, e) /\ u # t => Holds(u, e)'
    BY <2>1 DEF Holds
  <2>4. Holds(t, e) => effects'[e] > 0
    BY <2>2 DEF Holds
  <2> QED
    BY <2>2, <2>3, <2>4 DEF Covered
<1>4. ASSUME NEW t \in Tasks, NEW class \in FailureClass, HandlerFails(t, class)
      PROVE  Covered(e)'
  <2>1. \A u \in Tasks : u # t => task'[u] = task[u]
    BY <1>4 DEF HandlerFails, Reply, TypeOK
  <2>2. CASE DeadLetter(ProcOf[t], task[t].event)
    BY <1>4, <2>1, <2>2 DEF HandlerFails, DeadLetter, Covered, Holds
  <2>3. CASE task' = [task EXCEPT ![t].attempt = @ + 1] /\ everDead' = everDead
    <3>1. task'[t].pc = task[t].pc /\ task'[t].event = task[t].event
      BY <1>4, <2>3, BusyFields DEF HandlerFails, TypeOK, Busy
    <3> QED
      BY <1>1, <1>4, <2>1, <2>3, <3>1 DEF HandlerFails, Holds
  <2> QED
    BY <1>4, <2>2, <2>3 DEF HandlerFails
<1>5. ASSUME NEW t \in Tasks, Commit(t) PROVE Covered(e)'
  <2>1. effects[task[t].event] > 0 /\ \A u \in Tasks : u # t => task'[u] = task[u]
    BY <1>5 DEF Commit, Reply, CompletionInv, TypeOK
  <2> QED
    BY <1>5, <2>1 DEF Commit, Covered, Holds
<1>6. ASSUME NEW t \in Tasks, StoreFails(t) PROVE FALSE
  BY <1>6 DEF StoreFails, TypeOK
<1>7. ASSUME NEW p \in Procs, Crash(p) PROVE FALSE
  BY <1>7 DEF Crash, TypeOK
<1>8. ASSUME NEW t \in Tasks, NEW f \in Events, Receive(t, f) PROVE Covered(e)'
  <2>1. \A u \in Tasks : Holds(u, e) => task'[u] = task[u]
    BY <1>8 DEF Receive, ReceiveUnsupported, ReceiveRefused, ReceiveAdmitted, Receiving, Reply,
                Working, Holds, TypeOK
  <2>2. effects' = effects /\ everDead \subseteq everDead'
    BY <1>8 DEF Receive, ReceiveUnsupported, ReceiveRefused, ReceiveAdmitted, Receiving, DeadLetter
  <2> QED
    BY <1>1, <2>1, <2>2 DEF Holds
<1>9. ASSUME NEW f \in Events, Publish(f) \/ Park(f) PROVE Covered(e)'
  BY <1>1, <1>9 DEF Publish, Park, Holds
<1>10. CASE Tick \/ UNCHANGED vars
  BY <1>1, <1>10 DEF Tick, vars, Holds
<1> QED
  BY <1>2, <1>3, <1>4, <1>5, <1>6, <1>7, <1>8, <1>9, <1>10 DEF Next, Work

\* A step that fails nothing prepares no acknowledgement and leaves no claim
\* without a run behind it.
LEMMA CoverInductive ==
  ASSUME Transport = "push", TypeOK, CompletionInv, CoverInv, [Next]_vars
  PROVE  CoverInv'
<1> SUFFICES ASSUME crashes' = 0, storeFailures' = 0
             PROVE  /\ \A e \in Events : records'[e].status = "IN_FLIGHT" \/ broker'[e] = "acked"
                                           => Covered(e)'
                    /\ \A t \in Tasks : task'[t].pc = "reply" /\ task'[t].ack
                                           => \A e \in Events : e = task'[t].event => Covered(e)'
  <2>1. \A t \in Tasks : task'[t].pc = "reply" => task'[t].event \in Events
    BY StepType, BusyFields DEF TypeOK
  <2> QED
    BY <2>1 DEF CoverInv, Covered, Holds
<1>1. ASSUME NEW t \in Tasks, StoreFails(t) PROVE FALSE
  BY <1>1 DEF StoreFails, TypeOK
<1>2. ASSUME NEW p \in Procs, Crash(p) PROVE FALSE
  BY <1>2 DEF Crash, TypeOK
<1>3. UNCHANGED <<crashes, storeFailures>>
  <2>1. ASSUME NEW t \in Tasks, Work(t) PROVE UNCHANGED <<crashes, storeFailures>>
    BY <1>1, <2>1 DEF Work, Claim, Dedupe, HandlerSucceeds, HandlerFails, Commit, Answer
  <2>2. ASSUME NEW t \in Tasks, NEW e \in Events, Receive(t, e)
        PROVE  UNCHANGED <<crashes, storeFailures>>
    BY <2>2 DEF Receive, ReceiveUnsupported, ReceiveRefused, ReceiveAdmitted, Receiving
  <2> QED
    BY <1>2, <2>1, <2>2 DEF Next, Publish, Park, Tick, vars
<1>4. /\ \A e \in Events : records[e].status = "IN_FLIGHT" \/ broker[e] = "acked" => Covered(e)'
      /\ \A t \in Tasks, e \in Events :
           task[t].pc = "reply" /\ task[t].ack /\ task[t].event = e => Covered(e)'
  BY <1>3, CoveredStays DEF CoverInv
\* An answer's event is covered when the answer is not one to acknowledge, and
\* nothing else changes that needs cover.
<1>5. ASSUME NEW t \in Tasks, NEW e \in Events, NEW b \in BOOLEAN, Reply(t, e, b), b => Covered(e)'
      PROVE  \A u \in Tasks : task'[u].pc = "reply" /\ task'[u].ack
               => \A f \in Events : f = task'[u].event => Covered(f)'
  <2>1. task'[t].event = e /\ (task'[t].ack <=> b) /\ \A u \in Tasks : u # t => task'[u] = task[u]
    BY <1>5, ReplyingClosure DEF Reply, TypeOK
  <2> QED
    BY <1>4, <1>5, <2>1
<1>6. ASSUME NEW t \in Tasks, NEW e \in Events, Receive(t, e)
      PROVE  \A u \in Tasks : task'[u].pc = "reply" /\ task'[u].ack
               => \A f \in Events : f = task'[u].event => Covered(f)'
  <2>1. CASE ReceiveUnsupported(t, e)
    BY <1>5, <2>1 DEF ReceiveUnsupported, DeadLetter, Covered
  <2>2. CASE ReceiveRefused(t, e)
    BY <1>5, <2>2 DEF ReceiveRefused
  <2>3. CASE ReceiveAdmitted(t, e)
    <3>1. task' = [task EXCEPT ![t] = Begun(e, now)]
      BY <2>3 DEF ReceiveAdmitted
    <3>2. task'[t].pc = "begin" /\ \A u \in Tasks : u # t => task'[u] = task[u]
      BY <3>1, BegunClosure DEF TypeOK
    <3> QED
      BY <1>4, <3>2
  <2> QED
    BY <1>6, <2>1, <2>2, <2>3 DEF Receive
<1>7. ASSUME NEW t \in Tasks, Claim(t)
      PROVE  /\ \A e \in Events : records'[e].status = "IN_FLIGHT" => Covered(e)'
             /\ \A u \in Tasks : task'[u].pc = "reply" => task'[u] = task[u]
  <2>1. task'[t].pc = "handle" /\ task'[t].event = task[t].event
        /\ \A u \in Tasks : u # t => task'[u] = task[u]
    BY <1>7, BusyFields DEF Claim, TypeOK, Busy
  <2>2. \A e \in Events : e = task[t].event \/ records'[e] = records[e]
    BY <1>7 DEF Claim, TypeOK
  <2>3. \A e \in Events : e = task[t].event => Covered(e)'
    BY <2>1 DEF Covered, Holds
  <2> QED
    BY <1>4, <2>1, <2>2, <2>3
<1>8. ASSUME NEW t \in Tasks, Dedupe(t)
      PROVE  \A u \in Tasks : task'[u].pc = "reply" /\ task'[u].ack
               => \A f \in Events : f = task'[u].event => Covered(f)'
  <2>1. PICK e \in Events : e = task[t].event
    BY <1>8, BusyFields DEF Dedupe, TypeOK
  <2>2. records[e].status \in {"IN_FLIGHT", "COMPLETED"}
    BY <1>8, <2>1
       DEF Dedupe, Claimable, ShouldExecute, ClaimOutcome, IsClaimable, TypeOK,
           IdempotencyRecord, ClaimStatus
  <2>3. effects' = effects
    BY <1>8 DEF Dedupe
  <2>4. records[e].status = "COMPLETED" => Covered(e)'
    BY <2>1, <2>3 DEF CompletionInv, CompletedHasEffect, Covered
  <2>5. Covered(e)'
    BY <1>4, <2>1, <2>2, <2>4
  <2> QED
    BY <1>5, <1>8, <2>1, <2>5 DEF Dedupe
<1>9. ASSUME NEW t \in Tasks, HandlerSucceeds(t)
      PROVE  \A u \in Tasks : task'[u].pc = "reply" => task'[u] = task[u]
  BY <1>9, BusyFields DEF HandlerSucceeds, TypeOK, Busy
<1>10. ASSUME NEW t \in Tasks, NEW class \in FailureClass, HandlerFails(t, class)
       PROVE  /\ \A e \in Events : records'[e].status = "IN_FLIGHT" => Covered(e)'
              /\ \A u \in Tasks : task'[u].pc = "reply" /\ task'[u].ack
                   => \A f \in Events : f = task'[u].event => Covered(f)'
  <2>1. task[t].pc = "handle" /\ task[t].event \in Events
    BY <1>10, BusyFields DEF HandlerFails, TypeOK
  <2>2. \A e \in Events : records'[e] = records[e] \/ records'[e] = NoRecord
    BY <1>10 DEF HandlerFails, Abandon, TypeOK
  <2>3. CASE DeadLetter(ProcOf[t], task[t].event) /\ Reply(t, task[t].event, TRUE)
    <3>1. PICK e \in Events : e = task[t].event
      BY <2>1
    <3>2. Covered(e)'
      BY <2>3, <3>1 DEF DeadLetter, Covered
    <3>3. \A f \in Events : records'[f].status = "IN_FLIGHT" => Covered(f)'
      BY <1>4, <2>2 DEF NoRecord
    <3>4. Reply(t, e, TRUE)
      BY <2>3, <3>1
    <3> QED
      BY <1>5, <3>2, <3>3, <3>4
  <2>4. CASE task' = [task EXCEPT ![t].attempt = @ + 1]
    <3>1. task'[t].pc = "handle" /\ \A u \in Tasks : u # t => task'[u] = task[u]
      BY <2>1, <2>4, BusyFields DEF TypeOK, Busy
    <3> QED
      BY <1>4, <2>2, <3>1 DEF NoRecord
  <2> QED
    BY <1>10, <2>3, <2>4 DEF HandlerFails
<1>11. ASSUME NEW t \in Tasks, Commit(t)
       PROVE  /\ \A e \in Events : records'[e].status = "IN_FLIGHT" => Covered(e)'
              /\ \A u \in Tasks : task'[u].pc = "reply" /\ task'[u].ack
                   => \A f \in Events : f = task'[u].event => Covered(f)'
  <2>1. PICK e \in Events : e = task[t].event
    BY <1>11, BusyFields DEF Commit, TypeOK
  <2>2. Covered(e)'
    BY <1>11, <2>1 DEF Commit, CompletionInv, Covered
  <2>3. \A f \in Events : f = e \/ records'[f] = records[f]
    BY <1>11, <2>1 DEF Commit, TypeOK
  <2> QED
    BY <1>4, <1>5, <1>11, <2>1, <2>2, <2>3 DEF Commit
<1>12. ASSUME NEW t \in Tasks, Answer(t)
       PROVE  /\ \A e \in Events : broker'[e] = "acked" => Covered(e)'
              /\ \A u \in Tasks : task'[u].pc = "reply" => task'[u] = task[u]
  <2>1. task[t].event \in Events /\ task[t].pc = "reply"
    BY <1>12, BusyFields DEF Answer, TypeOK
  <2>2. \A e \in Events : broker'[e] = broker[e] \/ (e = task[t].event /\ task[t].ack)
    BY <1>12, <2>1 DEF Answer, TypeOK
  <2>3. \A u \in Tasks : task'[u] = IdleTask \/ task'[u] = task[u]
    BY <1>12 DEF Answer, TypeOK
  <2> QED
    BY <1>4, <2>1, <2>2, <2>3, IdleClosure
<1>13. ASSUME NEW e \in Events, Publish(e) \/ Park(e)
       PROVE  /\ \A f \in Events : broker'[f] = "acked" => Covered(f)'
              /\ UNCHANGED <<records, task>>
  BY <1>4, <1>13 DEF Publish, Park, TypeOK
<1>14. CASE Tick \/ UNCHANGED vars
  BY <1>4, <1>14 DEF Tick, vars
<1>15. ASSUME NEW t \in Tasks, NEW e \in Events, Receive(t, e) PROVE UNCHANGED <<records, broker>>
  BY <1>15 DEF Receive, ReceiveUnsupported, ReceiveRefused, ReceiveAdmitted, Receiving
<1>16. ASSUME NEW t \in Tasks, NEW class \in FailureClass,
              Claim(t) \/ Dedupe(t) \/ HandlerSucceeds(t) \/ HandlerFails(t, class) \/ Commit(t)
       PROVE  broker' = broker
  BY <1>16 DEF Claim, Dedupe, HandlerSucceeds, HandlerFails, Commit
<1>17. ASSUME NEW t \in Tasks, Dedupe(t) \/ HandlerSucceeds(t) \/ Answer(t) PROVE records' = records
  BY <1>17 DEF Dedupe, HandlerSucceeds, Answer
<1> QED
  BY <1>1, <1>2, <1>4, <1>6, <1>7, <1>8, <1>9, <1>10, <1>11, <1>12, <1>13, <1>14, <1>15, <1>16,
     <1>17 DEF Next, Work, FailureClass

\* Behind the push endpoint, with either dedupe store: until something crashes
\* or a store call fails, no event is acknowledged and then dropped.
THEOREM NothingDroppedInPeace ==
  ASSUME Transport = "push" PROVE Spec => []NoDropWithoutFailure
<1>1. Init => CoverInv
  BY IdleClosure DEF Init, CoverInv, NoRecord
<1>2. TypeOK /\ CompletionInv /\ CoverInv /\ [Next]_vars => CoverInv'
  BY CoverInductive
<1>3. CoverInv => NoDropWithoutFailure
  BY DEF CoverInv, Covered, NoDropWithoutFailure
<1> QED
  BY <1>1, <1>2, <1>3, TypeCorrect, CompletionHolds, PTL DEF Spec
=============================================================================
