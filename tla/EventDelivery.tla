--------------------------- MODULE EventDelivery ---------------------------
(***************************************************************************)
(* The delivery of published events to one subscriber: the broker that     *)
(* holds a message until it is acknowledged, the worker processes that     *)
(* receive it through the push endpoint or the pull bridge, and in each of *)
(* them the dispatcher of eventing/dispatch.py with its breaker, its       *)
(* dedupe store, its retry loop and its dead letters.                      *)
(*                                                                         *)
(* A process serves several deliveries at once (Tasks), which interleave   *)
(* at every await.  An event stands for its dedupe key, so a producer that *)
(* publishes the same key twice is one more delivery of the same event.    *)
(***************************************************************************)
EXTENDS CircuitBreaker, IdempotencyClaims, FiniteSets

CONSTANTS Events,            \* events published on the topic
          Unsupported,       \* those written by a newer schema than ours
          Procs,             \* worker processes (instances) of the subscriber
          Tasks,             \* delivery slots of all the processes
          ProcOf,            \* the process each slot belongs to
          NoEvent,           \* the event of an idle slot
          Durable,           \* RepositoryDedupeStore, or MemoryDedupeStore
          Transport,         \* "push" (HTTP endpoint) or "pull" (bridge)
          MaxAttempts,       \* RetryPolicy.max_attempts
          MaxDeliveries,     \* the subscription's max_delivery_attempts
          MaxCrashes,        \* bound on process crashes
          MaxStoreFailures,  \* bound on failed calls to the dedupe store
          MaxTime            \* bound on the clock

ASSUME DeliveryAssumption ==
  /\ Unsupported \subseteq Events
  /\ NoEvent \notin Events
  /\ ProcOf \in [Tasks -> Procs]
  /\ Durable \in BOOLEAN
  /\ Transport \in {"push", "pull"}
  /\ MaxAttempts \in Nat \ {0}
  /\ {MaxDeliveries, MaxCrashes, MaxStoreFailures, MaxTime} \subseteq Nat
  \* An in-memory dedupe store is one process's own.
  /\ ~Durable => \A p, q \in Procs : p = q

VARIABLES
  now,           \* the clock
  broker,        \* where the broker has each message
  given,         \* how often the broker has handed each message out
  task,          \* what each delivery slot is doing
  breaker,       \* the subscriber's breaker in each process
  records,       \* the dedupe store: one idempotency record per event
  deadLetters,   \* the in-memory dead-letter store of each process
  pulling,       \* whether each process's pull loop is alive
  crashes,       \* crashes so far
  storeFailures, \* failed store calls so far
  effects,       \* history: handler runs that returned, per event
  everDead,      \* history: events some process has dead-lettered
  firstClaim     \* history: when an event's handler was first claimed

vars == <<now, broker, given, task, breaker, records, deadLetters, pulling,
          crashes, storeFailures, effects, everDead, firstClaim>>

-----------------------------------------------------------------------------
FailureClass == {"TRANSIENT", "CONTENDED", "PERMANENT", "POISON"}

IsRetryable(class) == class \in {"TRANSIENT", "CONTENDED"}

IdleTask == [pc |-> "idle", event |-> NoEvent, at |-> 0, attempt |-> 0,
             ack |-> FALSE]

\* begin: admitted, awaiting the dedupe store; at is the clock read before it.
\* reply: the outcome is known, the broker has not heard; ack is its answer.
Busy == [pc: {"begin", "handle", "commit", "reply"}, event: Events, at: Nat,
         attempt: Nat, ack: BOOLEAN]

Task == {IdleTask} \cup Busy

Working(t) == task[t].pc # "idle"
Holds(t, e) == task[t].event = e /\ task[t].pc \in {"handle", "commit"}

Begun(e, at) == [IdleTask EXCEPT !.pc = "begin", !.event = e, !.at = at]
Replying(e, ack) == [IdleTask EXCEPT !.pc = "reply", !.event = e, !.ack = ack]

Reply(t, e, ack) == task' = [task EXCEPT ![t] = Replying(e, ack)]

\* Mutant: the message is given up without a letter.
GiveUpSilently(p, e) == UNCHANGED <<deadLetters, everDead>>

\* The dispatcher's dead letters live in its process and nowhere else.
DeadLetter(p, e) ==
  /\ deadLetters' = [deadLetters EXCEPT ![p] = @ \cup {e}]
  /\ everDead' = everDead \cup {e}

\* begin() of the two dedupe stores: the in-memory claim never expires.
Claimable(e, at) == IF Durable THEN ShouldExecute(records[e], at)
                               ELSE records[e].status = "ABSENT"

\* Mutant: giving up marks the key as done.
AbandonCompletes(e) == records' = [records EXCEPT ![e] = AfterComplete(@)]

\* abandon(): the durable store leaves the claim to expire on its own.
Abandon(e) == IF Durable THEN UNCHANGED records
                         ELSE records' = [records EXCEPT ![e] = NoRecord]

Init ==
  /\ now = 0
  /\ broker = [e \in Events |-> "unpublished"]
  /\ given = [e \in Events |-> 0]
  /\ task = [t \in Tasks |-> IdleTask]
  /\ breaker = [p \in Procs |-> ClosedBreaker]
  /\ records = [e \in Events |-> NoRecord]
  /\ deadLetters = [p \in Procs |-> {}]
  /\ pulling = [p \in Procs |-> TRUE]
  /\ crashes = 0
  /\ storeFailures = 0
  /\ effects = [e \in Events |-> 0]
  /\ everDead = {}
  /\ firstClaim = [e \in Events |-> 0]

-----------------------------------------------------------------------------
Publish(e) ==
  /\ broker[e] = "unpublished"
  /\ broker' = [broker EXCEPT ![e] = "queued"]
  /\ UNCHANGED <<now, given, task, breaker, records, deadLetters, pulling,
                 crashes, storeFailures, effects, everDead, firstClaim>>

(***************************************************************************)
(* The broker hands a message to a free slot.  It may do so while an       *)
(* earlier delivery of the same message is still running: the ack deadline *)
(* is shorter than a handler may take.  The pull loop delivers one message at *)
(* a time and acknowledges a batch at its end; the endpoint serves any     *)
(* number.                                                                 *)
(***************************************************************************)
Receiving(t, e) ==
  /\ ~Working(t)
  /\ broker[e] = "queued"
  /\ given[e] < MaxDeliveries
  /\ Transport = "pull" =>
       /\ pulling[ProcOf[t]]
       /\ \A u \in Tasks : ProcOf[u] = ProcOf[t] => task[u].pc \in {"idle", "reply"}
  /\ given' = [given EXCEPT ![e] = @ + 1]
  /\ UNCHANGED <<now, broker, records, pulling, crashes, storeFailures, effects,
                 firstClaim>>

ReceiveUnsupported(t, e) ==
  /\ Receiving(t, e)
  /\ e \in Unsupported
  /\ DeadLetter(ProcOf[t], e)
  /\ Reply(t, e, TRUE)
  /\ UNCHANGED breaker

\* CIRCUIT_OPEN is handed back by the endpoint; the bridge acks every outcome.
ReceiveRefused(t, e) ==
  /\ Receiving(t, e)
  /\ e \notin Unsupported
  /\ ~Admits(breaker[ProcOf[t]], now)
  /\ Reply(t, e, Transport = "pull")
  /\ UNCHANGED <<breaker, deadLetters, everDead>>

ReceiveAdmitted(t, e) ==
  LET p == ProcOf[t]
  IN  /\ Receiving(t, e)
      /\ e \notin Unsupported
      /\ Admits(breaker[p], now)
      /\ breaker' = [breaker EXCEPT ![p] = AfterAllow(@, now)]
      /\ task' = [task EXCEPT ![t] = Begun(e, now)]
      /\ UNCHANGED <<deadLetters, everDead>>

\* The claim is made with the clock read before the store was called.
Claim(t) ==
  LET e == task[t].event
      at == task[t].at
  IN  /\ task[t].pc = "begin"
      /\ Claimable(e, at)
      /\ records' = [records EXCEPT ![e] = InFlight(at)]
      /\ task' = [task EXCEPT ![t].pc = "handle", ![t].attempt = 1]
      /\ firstClaim' = IF records[e].status = "ABSENT"
                         THEN [firstClaim EXCEPT ![e] = at] ELSE firstClaim
      /\ UNCHANGED <<now, broker, given, breaker, deadLetters, pulling, crashes,
                     storeFailures, effects, everDead>>

\* DEDUPED, whether the record is COMPLETED or another worker's claim.
Dedupe(t) ==
  LET e == task[t].event
  IN  /\ task[t].pc = "begin"
      /\ ~Claimable(e, task[t].at)
      /\ Reply(t, e, TRUE)
      /\ UNCHANGED <<now, broker, given, breaker, records, deadLetters, pulling,
                     crashes, storeFailures, effects, everDead, firstClaim>>

\* Nothing is awaited between the handler's return and record_success.
HandlerSucceeds(t) ==
  LET e == task[t].event
  IN  /\ task[t].pc = "handle"
      /\ effects' = [effects EXCEPT ![e] = @ + 1]
      /\ breaker' = [breaker EXCEPT ![ProcOf[t]] = AfterSuccess(@)]
      /\ task' = [task EXCEPT ![t].pc = "commit"]
      /\ UNCHANGED <<now, broker, given, records, deadLetters, pulling, crashes,
                     storeFailures, everDead, firstClaim>>

\* The breaker is not asked again between two attempts of one delivery.
HandlerFails(t, class) ==
  LET e == task[t].event
      p == ProcOf[t]
  IN  /\ task[t].pc = "handle"
      /\ breaker' = IF class = "TRANSIENT"
                      THEN [breaker EXCEPT ![p] = AfterFailure(@, now)] ELSE breaker
      /\ IF ~IsRetryable(class) \/ task[t].attempt >= MaxAttempts
           THEN /\ Abandon(e)
                /\ DeadLetter(p, e)
                /\ Reply(t, e, TRUE)
           ELSE /\ task' = [task EXCEPT ![t].attempt = @ + 1]
                /\ UNCHANGED <<records, deadLetters, everDead>>
      /\ UNCHANGED <<now, broker, given, pulling, crashes, storeFailures, effects,
                     firstClaim>>

Commit(t) ==
  LET e == task[t].event
  IN  /\ task[t].pc = "commit"
      /\ records' = [records EXCEPT ![e] = AfterComplete(@)]
      /\ Reply(t, e, TRUE)
      /\ UNCHANGED <<now, broker, given, breaker, deadLetters, pulling, crashes,
                     storeFailures, effects, everDead, firstClaim>>

\* Mutant: the endpoint swallows the error and answers 200.
StoreFailureAcked(t) ==
  /\ task[t].pc \in {"begin", "commit"}
  /\ storeFailures < MaxStoreFailures
  /\ storeFailures' = storeFailures + 1
  /\ Reply(t, task[t].event, TRUE)
  /\ UNCHANGED <<now, broker, given, breaker, records, deadLetters, pulling, crashes,
                 effects, everDead, firstClaim>>

\* A store call that raises: a 500 for the push endpoint, and the end of the
\* pull loop, whose try covers the pull and not the delivery; what the batch
\* had delivered so far is never acknowledged.
StoreFails(t) ==
  LET p == ProcOf[t]
  IN  /\ Durable
      /\ task[t].pc \in {"begin", "commit"}
      /\ storeFailures < MaxStoreFailures
      /\ storeFailures' = storeFailures + 1
      /\ IF Transport = "push"
           THEN Reply(t, task[t].event, FALSE) /\ UNCHANGED pulling
           ELSE /\ pulling' = [pulling EXCEPT ![p] = FALSE]
                /\ task' = [u \in Tasks |-> IF ProcOf[u] = p THEN IdleTask ELSE task[u]]
      /\ UNCHANGED <<now, broker, given, breaker, records, deadLetters, crashes,
                     effects, everDead, firstClaim>>

\* The answer reaches the broker: 200 acknowledges, 503 and 500 hand back.
Answer(t) ==
  LET e == task[t].event
  IN  /\ task[t].pc = "reply"
      /\ broker' = IF task[t].ack /\ broker[e] = "queued"
                     THEN [broker EXCEPT ![e] = "acked"] ELSE broker
      /\ task' = [task EXCEPT ![t] = IdleTask]
      /\ UNCHANGED <<now, given, breaker, records, deadLetters, pulling, crashes,
                     storeFailures, effects, everDead, firstClaim>>

\* Mutant: the delivery limit is compared off by one.
ParkTooLate(e) ==
  /\ broker[e] = "queued"
  /\ given[e] > MaxDeliveries
  /\ broker' = [broker EXCEPT ![e] = "parked"]
  /\ UNCHANGED <<now, given, task, breaker, records, deadLetters, pulling, crashes,
                 storeFailures, effects, everDead, firstClaim>>

\* The push subscription's dead_letter_policy; the bridge's own has none.
Park(e) ==
  /\ Transport = "push"
  /\ broker[e] = "queued"
  /\ given[e] = MaxDeliveries
  /\ broker' = [broker EXCEPT ![e] = "parked"]
  /\ UNCHANGED <<now, given, task, breaker, records, deadLetters, pulling, crashes,
                 storeFailures, effects, everDead, firstClaim>>

\* A process dies and is replaced: only the broker and a durable store remain.
Crash(p) ==
  /\ crashes < MaxCrashes
  /\ crashes' = crashes + 1
  /\ task' = [t \in Tasks |-> IF ProcOf[t] = p THEN IdleTask ELSE task[t]]
  /\ breaker' = [breaker EXCEPT ![p] = ClosedBreaker]
  /\ deadLetters' = [deadLetters EXCEPT ![p] = {}]
  /\ pulling' = [pulling EXCEPT ![p] = TRUE]
  /\ records' = IF Durable THEN records ELSE [e \in Events |-> NoRecord]
  /\ UNCHANGED <<now, broker, given, storeFailures, effects, everDead, firstClaim>>

Tick ==
  /\ now < MaxTime
  /\ now' = now + 1
  /\ UNCHANGED <<broker, given, task, breaker, records, deadLetters, pulling,
                 crashes, storeFailures, effects, everDead, firstClaim>>

Receive(t, e) == ReceiveUnsupported(t, e) \/ ReceiveRefused(t, e) \/ ReceiveAdmitted(t, e)

Work(t) == \/ Claim(t)
           \/ Dedupe(t)
           \/ HandlerSucceeds(t)
           \/ \E class \in FailureClass : HandlerFails(t, class)
           \/ Commit(t)
           \/ StoreFails(t)
           \/ Answer(t)

Next == \/ \E e \in Events : Publish(e) \/ Park(e)
        \/ \E t \in Tasks, e \in Events : Receive(t, e)
        \/ \E t \in Tasks : Work(t)
        \/ \E p \in Procs : Crash(p)
        \/ Tick

Spec == Init /\ [][Next]_vars

\* A delivery that has started goes on, and the broker hands out, and at last
\* parks, what nobody has acknowledged.
Fairness == /\ \A t \in Tasks : WF_vars(Work(t))
            /\ \A e \in Events : WF_vars(\E t \in Tasks : Receive(t, e)) /\ WF_vars(Park(e))

LiveSpec == Spec /\ Fairness

-----------------------------------------------------------------------------
TypeOK ==
  /\ now \in Nat
  /\ broker \in [Events -> {"unpublished", "queued", "acked", "parked"}]
  /\ given \in [Events -> Nat]
  /\ task \in [Tasks -> Task]
  /\ breaker \in [Procs -> Breaker]
  /\ records \in [Events -> IdempotencyRecord]
  /\ deadLetters \in [Procs -> SUBSET Events]
  /\ pulling \in [Procs -> BOOLEAN]
  /\ crashes \in Nat
  /\ storeFailures \in Nat
  /\ effects \in [Events -> Nat]
  /\ everDead \subseteq Events
  /\ firstClaim \in [Events -> Nat]

\* A claim blocks other workers until it expires (domain/idempotency.py): two
\* deliveries run the handler of one event together only after the claim of one
\* of them has run out, however their store calls and clock reads interleave.
Expired(t) == Durable /\ now >= task[t].at + ClaimTTL

ExclusiveUnlessExpired ==
  \A e \in Events, t, u \in Tasks :
    t # u /\ Holds(t, e) /\ Holds(u, e) => Expired(t) \/ Expired(u)

\* The push endpoint acknowledges nothing that left no trace: behind every
\* acknowledged event is a finished handler run, a dead letter, or the claim
\* of a run that never finished (which is what a crash leaves behind).
AckedIsAccounted ==
  \A e \in Events :
    broker[e] = "acked" => \/ effects[e] > 0
                           \/ e \in everDead
                           \/ records[e].status = "IN_FLIGHT"

\* As long as no process dies and the store answers, an event acknowledged and
\* no longer in anybody's hands was handled or dead-lettered: deduplicating
\* against another worker's claim is safe exactly because that worker finishes.
NoDropWithoutFailure ==
  crashes = 0 /\ storeFailures = 0 =>
    \A e \in Events :
      broker[e] = "acked" /\ (\A t \in Tasks : ~Holds(t, e)) =>
        effects[e] > 0 \/ e \in everDead

\* complete() checks no owner, so a worker whose claim was taken over completes
\* the other's record: even so a COMPLETED record stands for a finished run.
CompletedHasEffect ==
  \A e \in Events : records[e].status = "COMPLETED" => effects[e] > 0

\* Exactly once, up to the claim's lifetime: a second effect of one event needs
\* the first claim to have expired, whatever is redelivered, crashed or failed.
DuplicateNeedsExpiry ==
  \A e \in Events :
    effects[e] > 1 => Durable /\ now >= firstClaim[e] + ClaimTTL

\* Concurrent deliveries feed one breaker, late failures of admitted deliveries
\* included: it never closes on a run of failures or opens below the threshold.
BreakersConsistent == \A p \in Procs : BreakerConsistent(breaker[p])

\* The broker is left holding nothing: every published message is acknowledged
\* or moved to the dead-letter topic (internal.py: a message nacked forever is a
\* queue that stops moving).
EverySettles ==
  \A e \in Events : broker[e] = "queued" ~> broker[e] \in {"acked", "parked"}

-----------------------------------------------------------------------------
\* The inductive strengthening behind the invariants on claims.
HolderInv ==
  /\ \A t \in Tasks : task[t].at <= now
  /\ \A e \in Events :
       /\ records[e].status # "ABSENT" => records[e].expires >= firstClaim[e] + ClaimTTL
       /\ effects[e] > 0 => records[e].status # "ABSENT"
  /\ \A t \in Tasks, e \in Events :
       Holds(t, e) => /\ records[e].status # "ABSENT"
                      /\ firstClaim[e] <= task[t].at
                      /\ task[t].at + ClaimTTL <= records[e].expires
                      /\ task[t].pc = "commit" => effects[e] > 0
                      /\ task[t].pc = "handle" /\ effects[e] > 0 =>
                           now >= firstClaim[e] + ClaimTTL

ClaimsInv ==
  ExclusiveUnlessExpired /\ CompletedHasEffect /\ DuplicateNeedsExpiry /\ HolderInv

\* And the one behind AckedIsAccounted: an answer that will acknowledge an
\* event is only ever prepared once the event is accounted for.
Accounted(e) == effects[e] > 0 \/ e \in everDead \/ records[e].status = "IN_FLIGHT"

AnswersInv ==
  \A t \in Tasks : task[t].pc = "reply" /\ task[t].ack => Accounted(task[t].event)

\* And the one behind NoDropWithoutFailure and CompletedHasEffect: a run that is
\* about to be recorded has returned, and while nothing has failed every claim in
\* flight, every acknowledging answer and every acknowledged event has a run
\* behind it that finished, gave up in the open, or is still under way.
Covered(e) == effects[e] > 0 \/ e \in everDead \/ \E t \in Tasks : Holds(t, e)

CompletionInv ==
  /\ \A t \in Tasks : task[t].pc = "commit" => effects[task[t].event] > 0
  /\ CompletedHasEffect

CoverInv ==
  crashes = 0 /\ storeFailures = 0 =>
    /\ \A e \in Events : records[e].status = "IN_FLIGHT" \/ broker[e] = "acked" => Covered(e)
    /\ \A t \in Tasks : task[t].pc = "reply" /\ task[t].ack => Covered(task[t].event)
=============================================================================
